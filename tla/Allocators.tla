----------------------------- MODULE Allocators -----------------------------
(***************************************************************************)
(* ScratchAllocator over InlineAllocator and ArenaAllocator                *)
(* (util/allocator.h, allocator.cpp), used by a client that asks for       *)
(* memory, gives it back in any order, and clears the allocator when it    *)
(* uses nothing of it, as AstUnit::codegen does between declarations.      *)
(*                                                                         *)
(* An address is a place and an offset: place 0 is the inline storage,     *)
(* place i the i-th chunk. Requests are far from the end of Ulen, so sums  *)
(* do not wrap; the headers of chunks and what malloc adds are left out,   *)
(* and so are the counters of SystemAllocator.                             *)
(***************************************************************************)
EXTENDS Integers, Sequences, FiniteSets

CONSTANTS
  Sizes,            \* what is asked for
  Insitu,           \* the E of InlineAllocator<E>; 0 for an ArenaAllocator alone
  MIN_CHUNK_SIZE,   \* 2 MiB
  MaxChunks,        \* bound, by CAPACITY: the system gives no more chunks
  MaxBlocks         \* bound: blocks in use or read at a time

ALIGN == 16

Rounded(size) == ((size + ALIGN - 1) \div ALIGN) * ALIGN

ASSUME AllocatorsAssumption ==
  /\ Sizes \subseteq Nat
  /\ Insitu \subseteq Nat
  /\ MIN_CHUNK_SIZE \in Nat \ {0}
  /\ MIN_CHUNK_SIZE % ALIGN = 0
  /\ MaxChunks \in [{Rounded(e) : e \in Insitu} -> Nat]
  /\ MaxBlocks \in Nat

VARIABLES
  capacity,   \* InlineAllocator::CAPACITY
  offset,     \* m_inline.m_offset
  chunks,     \* the chunks from the oldest to m_tail: [capacity, offset]
  ask,        \* the allocate being served: [size, where, made]
  answer,     \* what the last allocate returned: a set of one block, or {}
  live,       \* ghost: the blocks handed out and not given back
  views       \* ghost: the blocks given back and still read

vars == <<capacity, offset, chunks, ask, answer, live, views>>

Idle == [size |-> -1, where |-> "none", made |-> 0]
NoBlock == {}

Places == 0 .. Len(chunks)
Used(p) == IF p = 0 THEN offset ELSE chunks[p].offset
Capacity(p) == IF p = 0 THEN capacity ELSE chunks[p].capacity

Fits(used, bytes, room) == used + bytes < room

Init ==
  /\ capacity \in {Rounded(e) : e \in Insitu}
  /\ offset = 0
  /\ chunks = <<>>
  /\ ask = Idle
  /\ answer = NoBlock
  /\ live = {} /\ views = {}

-----------------------------------------------------------------------------
(* allocate                                                                *)

Ask(size) ==
  /\ ask = Idle
  /\ ask' = [size |-> size, where |-> "inline", made |-> 0]
  /\ answer' = NoBlock
  /\ UNCHANGED <<capacity, offset, chunks, live, views>>

Hand(place) ==
  LET block == [in |-> place, at |-> Used(place), size |-> ask.size] IN
  /\ answer' = {block}
  /\ live' = live \union {block}
  /\ ask' = Idle

Serving(where) == ask # Idle /\ ask.where = where

InlineServes ==
  /\ Serving("inline")
  /\ Fits(offset, Rounded(ask.size), capacity)
  /\ Hand(0)
  /\ offset' = offset + Rounded(ask.size)
  /\ UNCHANGED <<capacity, chunks, views>>

InlineRefuses ==
  /\ Serving("inline")
  /\ ~Fits(offset, Rounded(ask.size), capacity)
  /\ ask' = [ask EXCEPT !.where = "arena"]
  /\ UNCHANGED <<capacity, offset, chunks, answer, live, views>>

TailFits ==
  /\ chunks # <<>>
  /\ Fits(chunks[Len(chunks)].offset, Rounded(ask.size), chunks[Len(chunks)].capacity)

ArenaServes ==
  /\ Serving("arena")
  /\ TailFits
  /\ Hand(Len(chunks))
  /\ chunks' = [chunks EXCEPT ![Len(chunks)].offset = @ + Rounded(ask.size)]
  /\ UNCHANGED <<capacity, offset, views>>

\* Mutant: a chunk of the size asked for.
ChunkCapacity_Mutant(bytes) == bytes

ChunkCapacity(bytes) == IF bytes > MIN_CHUNK_SIZE THEN bytes ELSE MIN_CHUNK_SIZE

\* A new chunk, and allocate() calls itself.
ArenaGrows ==
  /\ Serving("arena")
  /\ ~TailFits
  /\ Len(chunks) < MaxChunks[capacity]
  /\ chunks' = Append(chunks, [capacity |-> ChunkCapacity(Rounded(ask.size)), offset |-> 0])
  /\ ask' = [ask EXCEPT !.made = @ + 1]
  /\ UNCHANGED <<capacity, offset, answer, live, views>>

\* malloc may refuse whenever it is asked.
ArenaRefuses ==
  /\ Serving("arena")
  /\ ~TailFits
  /\ ask' = Idle
  /\ UNCHANGED <<capacity, offset, chunks, answer, live, views>>

Serve == InlineServes \/ InlineRefuses \/ ArenaServes \/ ArenaGrows \/ ArenaRefuses

-----------------------------------------------------------------------------
(* deallocate and clear                                                    *)

Owns(block) == block.in = 0 /\ block.at + block.size < capacity

\* Mutant: the last block is taken back, as was meant.
IsTop_Mutant(block, place) ==
  block.in = place /\ block.at + Rounded(block.size) = Used(place)

IsTop(block, place) == block.in = place /\ block.at = Used(place)

Deallocate(block) ==
  /\ ask = Idle
  /\ live' = live \ {block}
  /\ \/ /\ Owns(block)
        /\ offset' = IF IsTop(block, 0) THEN offset - block.size ELSE offset
        /\ UNCHANGED chunks
     \/ /\ ~Owns(block)
        /\ chunks' = IF IsTop(block, Len(chunks))
                       THEN [chunks EXCEPT ![Len(chunks)].offset = @ - block.size]
                       ELSE chunks
        /\ UNCHANGED offset
  /\ UNCHANGED <<capacity, ask, answer>>

\* ScratchAllocator::clear, or the destructor of an arena.
Clear ==
  /\ ask = Idle
  /\ live = {} /\ views = {}
  /\ offset' = 0
  /\ chunks' = <<>>
  /\ answer' = NoBlock
  /\ UNCHANGED <<capacity, ask, live, views>>

-----------------------------------------------------------------------------
(* The client: arrays and strings in a scratch allocator                   *)

Allocate ==
  /\ Cardinality(live \union views) < MaxBlocks
  /\ \E size \in Sizes : Ask(size)

\* An array ends, or its block is replaced by a longer one.
Drop == \E block \in live : Deallocate(block) /\ UNCHANGED views

\* to_string: the array ends and its text is returned.
ReturnView == \E block \in live : Deallocate(block) /\ views' = views \union {block}

\* Cg::error has printed the texts.
ShowMessage ==
  /\ views # {}
  /\ views' = {}
  /\ UNCHANGED <<capacity, offset, chunks, ask, answer, live>>

Client == Allocate \/ Drop \/ ReturnView \/ ShowMessage \/ Clear

Next == Serve \/ Client

Spec == Init /\ [][Next]_vars

-----------------------------------------------------------------------------
Blocks == [in : Nat, at : Nat, size : Nat]

AllocatorsTypeOK ==
  /\ capacity \in Nat /\ offset \in Nat
  /\ chunks \in Seq([capacity : Nat, offset : Nat])
  /\ \/ ask = Idle
     \/ ask \in [size : Nat, where : {"inline", "arena"}, made : Nat]
  /\ live \in SUBSET Blocks /\ views \in SUBSET Blocks
  /\ answer \in SUBSET Blocks

\* Blocks are aligned, in memory, apart from each other and from what is still read, for as
\* long as nobody frees them. A view of a string that is gone may be printed
\* (cg_type.cpp:222) because deallocate compares the block with the end of the memory in
\* use, and so takes nothing back.
Promise == INSTANCE Region WITH
  memory <- [p \in Places |-> Capacity(p)],
  asked <- ask.size
KeepsPromise == Promise!Spec

\* A request takes at most one chunk from the system, if it is smaller than a chunk when
\* rounded. One that is not gets a chunk of its own size, does not fit it because the
\* comparison is strict, and goes on until the system refuses (allocator.cpp:38).
ServedInOneChunk ==
  ask.made > 1 => Rounded(ask.size) >= MIN_CHUNK_SIZE
=============================================================================
