-------------------------- MODULE AllocatorsProofs --------------------------
(***************************************************************************)
(* For any sizes, capacities and number of chunks: the allocators hand out *)
(* aligned, disjoint blocks, and what was given back stays as it was while *)
(* it is read.                                                             *)
(***************************************************************************)
EXTENDS Allocators, TLAPS

\* The next byte to hand out is aligned everywhere.
Aligned == \A p \in Places : Used(p) % ALIGN = 0

\* Every block ends where memory in use ends, or before, and so before the end of the memory:
\* the inline allocator owns its blocks, and none of them is looked for behind a null m_tail.
Within ==
  /\ \A p \in Places : Used(p) <= Capacity(p)
  /\ \A b \in live \union views :
       b.in \in Places /\ b.at + b.size <= Used(b.in) /\ b.at + b.size < Capacity(b.in)

\* A chunk made for a request that is smaller than a chunk serves it.
ServesSmall ==
  ask.made > 0 =>
    \/ Rounded(ask.size) >= MIN_CHUNK_SIZE
    \/ ask.made = 1 /\ ask.where = "arena" /\ TailFits

IInv == AllocatorsTypeOK /\ Aligned /\ Within /\ ServesSmall

\* Any client: it asks for as much as it likes.
AnyClient == (\E size \in Nat : Ask(size)) \/ Drop \/ ReturnView \/ ShowMessage \/ Clear

AnyNext == Serve \/ AnyClient

-----------------------------------------------------------------------------
LEMMA RoundedUp ==
  ASSUME NEW size \in Nat
  PROVE  Rounded(size) \in Nat /\ Rounded(size) >= size /\ Rounded(size) % ALIGN = 0
  BY DEF Rounded, ALIGN

LEMMA IdleAsks == Idle.size = -1 /\ Idle.where = "none" /\ Idle.made = 0
  BY DEF Idle

LEMMA AskTyped ==
  ASSUME AllocatorsTypeOK, ask # Idle
  PROVE  /\ ask \in [size : Nat, where : {"inline", "arena"}, made : Nat]
         /\ ask.size \in Nat /\ ask.made \in Nat
         /\ Rounded(ask.size) \in Nat
         /\ Rounded(ask.size) >= ask.size
         /\ Rounded(ask.size) % ALIGN = 0
  BY RoundedUp DEF AllocatorsTypeOK

LEMMA PlacesTyped ==
  ASSUME AllocatorsTypeOK
  PROVE  /\ Len(chunks) \in Nat
         /\ \A p \in Places : Used(p) \in Nat /\ Capacity(p) \in Nat
         /\ \A i \in 1 .. Len(chunks) : chunks[i] \in [capacity : Nat, offset : Nat]
  <1>1. Len(chunks) \in Nat
    BY DEF AllocatorsTypeOK
  <1>2. ASSUME NEW i \in 1 .. Len(chunks)
        PROVE  chunks[i] \in [capacity : Nat, offset : Nat]
    <2> DEFINE Chunk == [capacity : Nat, offset : Nat]
    <2>1. chunks \in Seq(Chunk)
      BY DEF AllocatorsTypeOK
    <2> HIDE DEF Chunk
    <2>2. chunks[i] \in Chunk
      BY <2>1
    <2>3. QED
      BY <2>2 DEF Chunk
  <1>3. ASSUME NEW p \in Places
        PROVE  Used(p) \in Nat /\ Capacity(p) \in Nat
    <2>1. CASE p = 0
      BY <2>1 DEF Used, Capacity, AllocatorsTypeOK
    <2>2. CASE p # 0
      <3>1. p \in 1 .. Len(chunks)
        BY <1>1, <2>2 DEF Places
      <3>2. QED
        BY <1>2, <2>2, <3>1 DEF Used, Capacity
    <2>3. QED
      BY <2>1, <2>2
  <1>4. QED
    BY <1>1, <1>2, <1>3

LEMMA InitSound == Init => IInv
  <1> SUFFICES ASSUME Init PROVE IInv
    OBVIOUS
  <1>1. capacity \in Nat /\ offset = 0 /\ chunks = <<>> /\ live = {} /\ views = {}
        /\ ask = Idle /\ answer = {}
    BY AllocatorsAssumption, RoundedUp DEF Init, NoBlock
  <1>2. AllocatorsTypeOK
    BY <1>1 DEF AllocatorsTypeOK
  <1>3. Aligned /\ Within
    BY <1>1 DEF Aligned, Within, Places, Used, Capacity, ALIGN
  <1>4. ServesSmall
    BY <1>1, IdleAsks DEF ServesSmall
  <1>5. QED
    BY <1>2, <1>3, <1>4 DEF IInv

-----------------------------------------------------------------------------
(* Each step keeps the invariant.                                          *)

\* Steps that move no offset and hand out nothing.
LEMMA MemoryKept ==
  ASSUME IInv, UNCHANGED <<capacity, offset, chunks>>,
         live' \union views' \subseteq live \union views
  PROVE  Aligned' /\ Within'
  BY DEF IInv, Aligned, Within, Places, Used, Capacity

LEMMA AskSound ==
  ASSUME IInv, NEW size \in Nat, Ask(size)
  PROVE  IInv'
  <1>1. Aligned' /\ Within'
    BY MemoryKept DEF Ask
  <1>2. AllocatorsTypeOK'
    BY DEF IInv, AllocatorsTypeOK, Ask, NoBlock
  <1>3. ServesSmall'
    BY DEF ServesSmall, Ask
  <1>4. QED
    BY <1>1, <1>2, <1>3 DEF IInv

LEMMA InlineRefusesSound ==
  ASSUME IInv, InlineRefuses
  PROVE  IInv'
  <1>1. Aligned' /\ Within'
    BY MemoryKept DEF InlineRefuses
  <1>2. AllocatorsTypeOK /\ ask # Idle /\ ask.where = "inline"
    BY DEF IInv, InlineRefuses, Serving
  <1>3. ask' \in [size : Nat, where : {"inline", "arena"}, made : Nat]
        /\ ask'.made = ask.made /\ ask'.size = ask.size
    BY <1>2, AskTyped DEF InlineRefuses
  <1>4. AllocatorsTypeOK'
    BY <1>2, <1>3 DEF AllocatorsTypeOK, InlineRefuses
  <1>5. ServesSmall'
    BY <1>2, <1>3 DEF IInv, ServesSmall, Rounded
  <1>6. QED
    BY <1>1, <1>4, <1>5 DEF IInv

LEMMA ArenaRefusesSound ==
  ASSUME IInv, ArenaRefuses
  PROVE  IInv'
  <1>1. Aligned' /\ Within'
    BY MemoryKept DEF ArenaRefuses
  <1>2. AllocatorsTypeOK'
    BY DEF IInv, AllocatorsTypeOK, ArenaRefuses
  <1>3. ServesSmall'
    BY IdleAsks DEF ServesSmall, ArenaRefuses
  <1>4. QED
    BY <1>1, <1>2, <1>3 DEF IInv

\* A new chunk is larger than a request that is smaller than a chunk.
LEMMA ArenaGrowsSound ==
  ASSUME IInv, ArenaGrows
  PROVE  IInv'
  <1> DEFINE bytes == Rounded(ask.size)
             chunk == [capacity |-> ChunkCapacity(bytes), offset |-> 0]
             n == Len(chunks)
  <1>1. AllocatorsTypeOK /\ ask # Idle /\ ask.where = "arena" /\ ~TailFits
    BY DEF IInv, ArenaGrows, Serving
  <1>2. bytes \in Nat /\ ask.size \in Nat /\ ask.made \in Nat
    BY <1>1, AskTyped
  <1>3. chunk \in [capacity : Nat, offset : Nat]
    BY <1>2, AllocatorsAssumption DEF ChunkCapacity
  <1>4. /\ chunks \in Seq([capacity : Nat, offset : Nat]) /\ n \in Nat
        /\ chunks' = Append(chunks, chunk)
    BY <1>1 DEF AllocatorsTypeOK, ArenaGrows
  <1>5. /\ chunks' \in Seq([capacity : Nat, offset : Nat])
        /\ Len(chunks') = n + 1
        /\ chunks'[n + 1] = chunk
        /\ \A i \in 1 .. n : chunks'[i] = chunks[i]
    BY <1>3, <1>4
  <1>6. ask' = [ask EXCEPT !.made = ask.made + 1]
        /\ ask \in [size : Nat, where : {"inline", "arena"}, made : Nat]
    BY <1>1, AskTyped DEF ArenaGrows
  <1>7. /\ ask' \in [size : Nat, where : {"inline", "arena"}, made : Nat]
        /\ ask'.made = ask.made + 1 /\ ask'.size = ask.size /\ ask'.where = "arena"
    BY <1>1, <1>2, <1>6
  <1>8. AllocatorsTypeOK'
    BY <1>1, <1>5, <1>7 DEF AllocatorsTypeOK, ArenaGrows
  <1>9. ASSUME NEW p \in Places'
        PROVE  \/ p \in Places /\ Used(p)' = Used(p) /\ Capacity(p)' = Capacity(p)
               \/ Used(p)' = 0 /\ Capacity(p)' = ChunkCapacity(bytes)
    <2>1. CASE p \in Places
      <3>1. p = 0 \/ p \in 1 .. n
        BY <1>4, <2>1 DEF Places
      <3>2. QED
        BY <1>5, <2>1, <3>1 DEF Used, Capacity, ArenaGrows
    <2>2. CASE p = n + 1
      BY <1>4, <1>5, <2>2 DEF Used, Capacity
    <2>3. QED
      BY <1>4, <1>5, <2>1, <2>2 DEF Places
  <1>10. Aligned'
    BY <1>9 DEF IInv, Aligned, ALIGN
  <1>11. Places \subseteq Places'
    BY <1>4, <1>5 DEF Places
  <1>12. \A p \in Places : Used(p)' = Used(p) /\ Capacity(p)' = Capacity(p)
    <2>1. TAKE p \in Places
    <2>2. p = 0 \/ p \in 1 .. n
      BY <1>4 DEF Places
    <2>3. QED
      BY <1>5, <2>2 DEF Used, Capacity, ArenaGrows
  <1>13. Within'
    <2>1. \A p \in Places' : Used(p)' <= Capacity(p)'
      BY <1>9, <1>3 DEF IInv, Within
    <2>2. \A b \in live' \union views' : /\ b.in \in Places' /\ b.at + b.size <= Used(b.in)'
                                         /\ b.at + b.size < Capacity(b.in)'
      BY <1>11, <1>12 DEF IInv, Within, ArenaGrows
    <2>3. QED
      BY <2>1, <2>2 DEF Within
  <1>14. ServesSmall'
    <2>1. CASE bytes >= MIN_CHUNK_SIZE
      BY <1>7, <2>1 DEF ServesSmall, Rounded
    <2>2. CASE bytes < MIN_CHUNK_SIZE
      <3>1. ask.made = 0
        BY <1>1, <1>2, <2>2, AllocatorsAssumption DEF IInv, ServesSmall
      <3>2. chunk.capacity = MIN_CHUNK_SIZE /\ chunk.offset = 0
        BY <1>2, <2>2, AllocatorsAssumption DEF ChunkCapacity
      <3>3. chunks' # <<>> /\ 0 + Rounded(ask'.size) < MIN_CHUNK_SIZE
        BY <1>2, <1>4, <1>5, <1>7, <2>2 DEF Rounded
      <3>4. TailFits'
        BY <1>4, <1>5, <3>2, <3>3 DEF TailFits, Fits
      <3>5. QED
        BY <1>7, <3>1, <3>4 DEF ServesSmall
    <2>3. QED
      BY <1>2, <2>1, <2>2, AllocatorsAssumption
  <1>15. QED
    BY <1>8, <1>10, <1>13, <1>14 DEF IInv

\* A place hands out its next bytes.
Hands(p) ==
  /\ ask # Idle
  /\ p \in Places
  /\ Fits(Used(p), Rounded(ask.size), Capacity(p))
  /\ Hand(p)
  /\ views' = views
  /\ Places' = Places
  /\ \A q \in Places : Capacity(q)' = Capacity(q)
  /\ \A q \in Places : Used(q)' = IF q = p THEN Used(p) + Rounded(ask.size) ELSE Used(q)

LEMMA Handed ==
  ASSUME IInv, NEW p, Hands(p)
  PROVE  /\ Aligned' /\ Within' /\ ServesSmall'
         /\ live' \in SUBSET Blocks /\ answer' \in SUBSET Blocks /\ views' \in SUBSET Blocks
         /\ ask' = Idle
  <1> DEFINE bytes == Rounded(ask.size)
             block == [in |-> p, at |-> Used(p), size |-> ask.size]
  <1>0. /\ ask # Idle /\ p \in Places /\ Fits(Used(p), bytes, Capacity(p)) /\ Hand(p)
        /\ views' = views /\ Places' = Places
        /\ \A q \in Places : Capacity(q)' = Capacity(q)
        /\ \A q \in Places : Used(q)' = IF q = p THEN Used(p) + bytes ELSE Used(q)
    BY DEF Hands
  <1>1. AllocatorsTypeOK
    BY DEF IInv
  <1>2. /\ bytes \in Nat /\ ask.size \in Nat /\ bytes >= ask.size /\ bytes % ALIGN = 0
    BY <1>0, <1>1, AskTyped
  <1>3. /\ \A q \in Places : Used(q) \in Nat /\ Capacity(q) \in Nat
        /\ p \in Nat
    BY <1>0, <1>1, PlacesTyped DEF Places
  <1>4. block \in Blocks
    BY <1>0, <1>2, <1>3 DEF Blocks
  <1>5. live' = live \union {block} /\ answer' = {block} /\ ask' = Idle
    BY <1>0 DEF Hand
  <1>6. live' \in SUBSET Blocks /\ answer' \in SUBSET Blocks /\ views' \in SUBSET Blocks
    BY <1>0, <1>1, <1>4, <1>5 DEF AllocatorsTypeOK
  <1>7. ServesSmall'
    BY <1>5, IdleAsks DEF ServesSmall
  <1> HIDE DEF bytes
  <1>8. Aligned'
    <2>1. \A q \in Places : Used(q) % ALIGN = 0
      BY DEF IInv, Aligned
    <2>2. (Used(p) + bytes) % ALIGN = 0
      BY <1>0, <1>2, <1>3, <2>1 DEF ALIGN
    <2>3. QED
      BY <1>0, <2>1, <2>2 DEF Aligned, bytes
  <1>9. Used(p) + bytes < Capacity(p)
    BY <1>0, <1>2, <1>3 DEF Fits, bytes
  <1>10. \A q \in Places : Used(q)' <= Capacity(q)' /\ Used(q) <= Used(q)'
    BY <1>0, <1>2, <1>3, <1>9 DEF IInv, Within, bytes
  <1>11. /\ block.in = p /\ block.at + block.size <= Used(p)'
         /\ block.at + block.size < Capacity(p)'
    BY <1>0, <1>2, <1>3, <1>9 DEF bytes
  <1>12. \A q \in Places : Used(q)' \in Nat
    BY <1>0, <1>2, <1>3 DEF bytes
  <1>13. ASSUME NEW b \in live' \union views'
         PROVE  /\ b.in \in Places /\ b.at + b.size <= Used(b.in)'
                /\ b.at + b.size < Capacity(b.in)'
    <2>1. CASE b = block
      BY <1>0, <1>11, <2>1
    <2>2. CASE b \in live \union views
      <3>1. /\ b \in Blocks /\ b.in \in Places /\ b.at + b.size <= Used(b.in)
            /\ b.at + b.size < Capacity(b.in)'
        BY <1>0, <1>1, <2>2 DEF IInv, Within, AllocatorsTypeOK
      <3>2. b.at \in Nat /\ b.size \in Nat
        BY <3>1 DEF Blocks
      <3>3. Used(b.in) \in Nat /\ Used(b.in)' \in Nat /\ Used(b.in) <= Used(b.in)'
        BY <1>3, <1>10, <1>12, <3>1
      <3>4. QED
        BY <3>1, <3>2, <3>3
    <2>3. QED
      BY <1>0, <1>5, <2>1, <2>2
  <1>14. Within'
    BY <1>0, <1>10, <1>13 DEF Within
  <1>15. QED
    BY <1>5, <1>6, <1>7, <1>8, <1>14

LEMMA InlineHands ==
  ASSUME IInv, InlineServes
  PROVE  Hands(0)
  <1>1. AllocatorsTypeOK /\ ask # Idle /\ 0 \in Places /\ Used(0) = offset /\ Capacity(0) = capacity
    <2>1. AllocatorsTypeOK /\ ask # Idle
      BY DEF IInv, InlineServes, Serving
    <2>2. QED
      BY <2>1, PlacesTyped DEF Places, Used, Capacity
  <1>2. Fits(Used(0), Rounded(ask.size), Capacity(0)) /\ Hand(0) /\ views' = views
    BY <1>1 DEF InlineServes
  <1>3. Places' = Places /\ \A q \in Places : Capacity(q)' = Capacity(q)
    BY DEF Places, Capacity, InlineServes
  <1>4. \A q \in Places : Used(q)' = IF q = 0 THEN Used(0) + Rounded(ask.size) ELSE Used(q)
    BY <1>1 DEF Used, InlineServes
  <1>5. QED
    BY <1>1, <1>2, <1>3, <1>4 DEF Hands

LEMMA InlineServesSound ==
  ASSUME IInv, InlineServes
  PROVE  IInv'
  <1>1. AllocatorsTypeOK /\ ask # Idle
    BY DEF IInv, InlineServes, Serving
  <1>2. /\ Aligned' /\ Within' /\ ServesSmall'
        /\ live' \in SUBSET Blocks /\ answer' \in SUBSET Blocks /\ views' \in SUBSET Blocks
        /\ ask' = Idle
    BY InlineHands, Handed
  <1>3. offset' \in Nat
    BY <1>1, AskTyped DEF InlineServes, AllocatorsTypeOK
  <1>4. AllocatorsTypeOK'
    BY <1>1, <1>2, <1>3 DEF AllocatorsTypeOK, InlineServes
  <1>5. QED
    BY <1>2, <1>4 DEF IInv

LEMMA ArenaHands ==
  ASSUME IInv, ArenaServes
  PROVE  Hands(Len(chunks)) /\ chunks' \in Seq([capacity : Nat, offset : Nat])
  <1> DEFINE n == Len(chunks)
             bytes == Rounded(ask.size)
  <1>1. AllocatorsTypeOK /\ ask # Idle /\ TailFits /\ Hand(n) /\ views' = views
    BY DEF IInv, ArenaServes, Serving
  <1>2. /\ n \in Nat /\ bytes \in Nat
        /\ \A i \in 1 .. n : chunks[i] \in [capacity : Nat, offset : Nat]
    BY <1>1, PlacesTyped, AskTyped
  <1>3. chunks \in Seq([capacity : Nat, offset : Nat])
    BY <1>1 DEF AllocatorsTypeOK
  <1>4. n # 0 /\ n \in 1 .. n /\ n \in Places
    BY <1>1, <1>2, <1>3 DEF TailFits, Places
  <1> DEFINE tail == [chunks[n] EXCEPT !.offset = chunks[n].offset + bytes]
  <1>5. tail \in [capacity : Nat, offset : Nat]
    BY <1>2, <1>4
  <1>6. tail.capacity = chunks[n].capacity /\ tail.offset = chunks[n].offset + bytes
    BY <1>2, <1>4
  <1>7. chunks' = [chunks EXCEPT ![n] = tail]
    BY DEF ArenaServes
  <1> HIDE DEF tail, bytes
  <1>8. /\ chunks' \in Seq([capacity : Nat, offset : Nat]) /\ Len(chunks') = n
        /\ chunks'[n] = tail
        /\ \A i \in 1 .. n : i # n => chunks'[i] = chunks[i]
    BY <1>2, <1>3, <1>4, <1>5, <1>7
  <1>9. Places' = Places
    BY <1>8 DEF Places
  <1>10. \A q \in Places : /\ Capacity(q)' = Capacity(q)
                           /\ Used(q)' = IF q = n THEN Used(n) + bytes ELSE Used(q)
    <2>1. TAKE q \in Places
    <2>2. CASE q = 0
      BY <1>4, <2>2 DEF Used, Capacity, ArenaServes
    <2>3. CASE q # 0
      <3>1. q \in 1 .. n
        BY <1>2, <2>3 DEF Places
      <3>2. QED
        BY <1>4, <1>6, <1>8, <2>3, <3>1 DEF Used, Capacity
    <2>4. QED
      BY <2>2, <2>3
  <1>11. Fits(Used(n), bytes, Capacity(n))
    BY <1>1, <1>4 DEF TailFits, Used, Capacity, bytes
  <1>12. Hands(n)
    <2> HIDE DEF n
    <2>1. QED
      BY <1>1, <1>4, <1>9, <1>10, <1>11 DEF Hands, bytes
  <1>13. QED
    BY <1>8, <1>12

LEMMA ArenaServesSound ==
  ASSUME IInv, ArenaServes
  PROVE  IInv'
  <1>1. Hands(Len(chunks)) /\ chunks' \in Seq([capacity : Nat, offset : Nat])
    BY ArenaHands
  <1>2. /\ Aligned' /\ Within' /\ ServesSmall'
        /\ live' \in SUBSET Blocks /\ answer' \in SUBSET Blocks /\ views' \in SUBSET Blocks
        /\ ask' = Idle
    BY <1>1, Handed
  <1>3. AllocatorsTypeOK'
    BY <1>1, <1>2 DEF IInv, AllocatorsTypeOK, ArenaServes
  <1>4. QED
    BY <1>2, <1>3 DEF IInv

\* deallocate frees nothing: a block that starts where memory in use ends is empty.
LEMMA NothingTakenBack ==
  ASSUME IInv, NEW block \in live, Deallocate(block)
  PROVE  UNCHANGED <<capacity, offset, chunks>>
  <1>1. AllocatorsTypeOK /\ block \in Blocks /\ block.in \in Places
        /\ block.at + block.size <= Used(block.in)
    BY DEF IInv, Within, AllocatorsTypeOK
  <1>2. block.at \in Nat /\ block.size \in Nat
    BY <1>1 DEF Blocks
  <1>3. ASSUME NEW p, IsTop(block, p)
        PROVE  block.size = 0 /\ p = block.in
    <2>1. Used(p) \in Nat
      BY <1>1, <1>3, PlacesTyped DEF IsTop
    <2>2. QED
      BY <1>1, <1>2, <1>3, <2>1 DEF IsTop
  <1>4. CASE Owns(block)
    <2>1. offset' = IF IsTop(block, 0) THEN offset - block.size ELSE offset
      BY <1>4 DEF Deallocate
    <2>2. offset \in Nat
      BY <1>1 DEF AllocatorsTypeOK
    <2>3. offset' = offset
      BY <1>3, <2>1, <2>2
    <2>4. QED
      BY <1>4, <2>3 DEF Deallocate
  <1>5. CASE ~Owns(block)
    <2> DEFINE n == Len(chunks)
    <2>1. chunks' = IF IsTop(block, n)
                      THEN [chunks EXCEPT ![n].offset = @ - block.size]
                      ELSE chunks
      BY <1>5 DEF Deallocate
    <2>2. CASE IsTop(block, n)
      <3>1. block.size = 0
        BY <1>3, <2>2
      <3>2. n \in Nat /\ \A i \in 1 .. n : chunks[i] \in [capacity : Nat, offset : Nat]
        BY <1>1, PlacesTyped
      <3>3. chunks' = [chunks EXCEPT ![n] = [chunks[n] EXCEPT !.offset = chunks[n].offset - 0]]
        BY <2>1, <2>2, <3>1
      <3>4. chunks \in Seq([capacity : Nat, offset : Nat])
        BY <1>1 DEF AllocatorsTypeOK
      <3>5. n # 0
        <4>1. CASE block.in = 0
          BY <1>1, <1>5, <4>1 DEF Owns, Capacity, IInv, Within
        <4>2. CASE block.in # 0
          BY <2>2, <4>2 DEF IsTop
        <4>3. QED
          BY <4>1, <4>2
      <3>6. chunks[n] \in [capacity : Nat, offset : Nat]
        BY <3>2, <3>5
      <3>7. [chunks[n] EXCEPT !.offset = chunks[n].offset - 0] = chunks[n]
        BY <3>6
      <3>8. chunks' = [chunks EXCEPT ![n] = chunks[n]]
        BY <3>3, <3>7
      <3>9. chunks' = chunks
        BY <3>4, <3>8
      <3>10. QED
        BY <1>5, <3>9 DEF Deallocate
    <2>3. CASE ~IsTop(block, n)
      BY <1>5, <2>1, <2>3 DEF Deallocate
    <2>4. QED
      BY <2>2, <2>3
  <1>6. QED
    BY <1>4, <1>5

LEMMA DeallocateSound ==
  ASSUME IInv, NEW block \in live, Deallocate(block), views' \in {views, views \union {block}}
  PROVE  IInv'
  <1>1. /\ UNCHANGED <<capacity, offset, chunks, ask, answer>>
        /\ live' = live \ {block}
    BY NothingTakenBack DEF Deallocate
  <1>2. live' \union views' \subseteq live \union views
    BY <1>1
  <1>3. Aligned' /\ Within'
    BY <1>1, <1>2, MemoryKept
  <1>4. AllocatorsTypeOK'
    BY <1>1 DEF IInv, AllocatorsTypeOK
  <1>5. ServesSmall'
    BY <1>1 DEF IInv, ServesSmall, TailFits, Fits, Rounded
  <1>6. QED
    BY <1>3, <1>4, <1>5 DEF IInv

LEMMA ShowMessageSound ==
  ASSUME IInv, ShowMessage
  PROVE  IInv'
  <1>1. Aligned' /\ Within'
    BY MemoryKept DEF ShowMessage
  <1>2. AllocatorsTypeOK' /\ ServesSmall'
    BY DEF IInv, AllocatorsTypeOK, ServesSmall, TailFits, Fits, Rounded, ShowMessage
  <1>3. QED
    BY <1>1, <1>2 DEF IInv

LEMMA ClearSound ==
  ASSUME IInv, Clear
  PROVE  IInv'
  <1>1. /\ ask' = Idle /\ offset' = 0 /\ chunks' = <<>> /\ capacity' = capacity /\ capacity \in Nat
        /\ live' = {} /\ views' = {} /\ answer' = {}
    BY DEF IInv, AllocatorsTypeOK, Clear, NoBlock
  <1>2. AllocatorsTypeOK'
    BY <1>1 DEF AllocatorsTypeOK
  <1>3. Aligned' /\ Within'
    BY <1>1 DEF Aligned, Within, Places, Used, Capacity, ALIGN
  <1>4. ServesSmall'
    BY <1>1, IdleAsks DEF ServesSmall
  <1>5. QED
    BY <1>2, <1>3, <1>4 DEF IInv

LEMMA NextIsAny == Next => AnyNext
  BY AllocatorsAssumption DEF Next, Client, Allocate, AnyNext, AnyClient

LEMMA AnySound ==
  IInv /\ [AnyNext]_vars => IInv'
  <1> SUFFICES ASSUME IInv, [AnyNext]_vars PROVE IInv'
    OBVIOUS
  <1>1. CASE Serve
    BY <1>1, InlineServesSound, InlineRefusesSound, ArenaServesSound, ArenaGrowsSound,
       ArenaRefusesSound DEF Serve
  <1>2. CASE \E size \in Nat : Ask(size)
    BY <1>2, AskSound
  <1>3. CASE Drop \/ ReturnView
    BY <1>3, DeallocateSound DEF Drop, ReturnView
  <1>4. CASE ShowMessage \/ Clear
    BY <1>4, ShowMessageSound, ClearSound
  <1>5. CASE UNCHANGED vars
    BY <1>5 DEF vars, IInv, AllocatorsTypeOK, Aligned, Within, ServesSmall, Places, Used,
                Capacity, TailFits, Fits, Rounded
  <1>6. QED
    BY <1>1, <1>2, <1>3, <1>4, <1>5 DEF AnyNext, AnyClient

LEMMA Invariance == Spec => []IInv
  <1>1. IInv /\ [Next]_vars => IInv'
    BY NextIsAny, AnySound
  <1>2. QED
    BY <1>1, InitSound, PTL DEF Spec

THEOREM TypeCorrect == Spec => []AllocatorsTypeOK
  BY Invariance, PTL DEF IInv

LEMMA SmallInOne == IInv => ServedInOneChunk
  <1> SUFFICES ASSUME IInv, ask.made > 1
               PROVE  Rounded(ask.size) >= MIN_CHUNK_SIZE
    BY DEF ServedInOneChunk
  <1>1. ask # Idle
    BY IdleAsks
  <1>2. ask.made \in Nat
    BY <1>1, AskTyped DEF IInv
  <1>3. QED
    BY <1>2 DEF IInv, ServesSmall

\* A request smaller than a chunk takes at most one from the system.
THEOREM OneChunk == Spec => []ServedInOneChunk
  BY SmallInOne, Invariance, PTL

-----------------------------------------------------------------------------
(* The refinement.                                                         *)

Memory == [p \in Places |-> Capacity(p)]

\* What is handed out begins where all that was handed out before has ended.
LEMMA HandedApart ==
  ASSUME IInv, NEW p, Hands(p), NEW c \in live \union views
  PROVE  ~Promise!Overlap([in |-> p, at |-> Used(p), size |-> ask.size], c)
  <1>1. AllocatorsTypeOK /\ ask # Idle /\ p \in Places
    BY DEF IInv, Hands
  <1>2. ask.size \in Nat /\ Used(p) \in Nat
    BY <1>1, AskTyped, PlacesTyped
  <1>3. c \in Blocks /\ c.at + c.size <= Used(c.in)
    BY <1>1 DEF IInv, Within, AllocatorsTypeOK
  <1>4. QED
    BY <1>2, <1>3 DEF Promise!Overlap, Blocks

LEMMA HandsGrants ==
  ASSUME IInv, NEW p, Hands(p)
  PROVE  Promise!Grant
  <1> DEFINE block == [in |-> p, at |-> Used(p), size |-> ask.size]
  <1>1. /\ ask # Idle /\ p \in Places /\ Fits(Used(p), Rounded(ask.size), Capacity(p))
        /\ views' = views /\ Places' = Places
        /\ \A q \in Places : Capacity(q)' = Capacity(q)
    BY DEF Hands
  <1>2. live' = live \union {block} /\ ask' = Idle
    BY DEF Hands, Hand
  <1>3. AllocatorsTypeOK
    BY DEF IInv
  <1>4. /\ ask.size \in Nat /\ Rounded(ask.size) \in Nat /\ Rounded(ask.size) >= ask.size
        /\ Used(p) \in Nat /\ Capacity(p) \in Nat
    BY <1>1, <1>3, AskTyped, PlacesTyped
  <1>5. ask.size # Promise!NoRequest /\ ask'.size = Promise!NoRequest
    BY <1>2, <1>4, IdleAsks DEF Promise!NoRequest
  <1>6. Memory' = Memory /\ DOMAIN Memory = Places /\ Memory[p] = Capacity(p)
    BY <1>1 DEF Memory
  <1>7. block.at % ALIGN = 0
    BY <1>1 DEF IInv, Aligned
  <1>8. block.at + block.size <= Capacity(p)
    BY <1>1, <1>4 DEF Fits
  <1>9. \A c \in live \union views : ~Promise!Overlap(block, c)
    BY HandedApart
  <1>10. block \in live' /\ block.size = ask.size /\ block.in = p
    BY <1>2
  <1> HIDE DEF block
  <1>11. /\ block.in \in DOMAIN Memory /\ block.at + block.size <= Memory[block.in]
    BY <1>1, <1>6, <1>8, <1>10
  <1>12. QED
    BY <1>1, <1>2, <1>5, <1>6, <1>7, <1>9, <1>10, <1>11 DEF Promise!Grant, Memory

LEMMA GrowsExtends ==
  ASSUME IInv, ArenaGrows
  PROVE  Promise!Extend
  <1>1. AllocatorsTypeOK /\ ask # Idle
    BY DEF IInv, ArenaGrows, Serving
  <1>2. ask.size \in Nat /\ ask \in [size : Nat, where : {"inline", "arena"}, made : Nat]
    BY <1>1, AskTyped
  <1>3. ask'.size = ask.size /\ ask.size # Promise!NoRequest
    BY <1>2 DEF ArenaGrows, Promise!NoRequest
  <1>4. chunks \in Seq([capacity : Nat, offset : Nat]) /\ Len(chunks) \in Nat
    BY <1>1 DEF AllocatorsTypeOK
  <1>5. PICK chunk : chunks' = Append(chunks, chunk) /\ chunk \in [capacity : Nat, offset : Nat]
    BY <1>1, AskTyped, AllocatorsAssumption DEF ArenaGrows, ChunkCapacity
  <1>6. /\ Len(chunks') = Len(chunks) + 1
        /\ \A i \in 1 .. Len(chunks) : chunks'[i] = chunks[i]
    BY <1>4, <1>5
  <1>7. Places \subseteq Places'
    BY <1>4, <1>6 DEF Places
  <1>8. ASSUME NEW p \in Places
        PROVE  Capacity(p)' = Capacity(p)
    <2>1. p = 0 \/ p \in 1 .. Len(chunks)
      BY <1>4 DEF Places
    <2>2. QED
      BY <1>6, <2>1 DEF Capacity, ArenaGrows
  <1>9. \A p \in DOMAIN Memory : p \in DOMAIN Memory' /\ Memory'[p] = Memory[p]
    BY <1>7, <1>8 DEF Memory
  <1>10. QED
    BY <1>3, <1>9 DEF Promise!Extend, ArenaGrows, Memory

LEMMA StepRefines ==
  IInv /\ [AnyNext]_vars => [Promise!Next]_<<Memory, ask.size, live, views>>
  <1> SUFFICES ASSUME IInv, [AnyNext]_vars
               PROVE  Promise!Next \/ UNCHANGED <<Memory, ask.size, live, views>>
    OBVIOUS
  <1>1. ASSUME UNCHANGED <<capacity, chunks>>
        PROVE  Memory' = Memory
    BY <1>1 DEF Memory, Places, Capacity
  <1>2. CASE InlineServes \/ ArenaServes
    BY <1>2, InlineHands, ArenaHands, HandsGrants DEF Promise!Next
  <1>3. CASE InlineRefuses
    <2>1. ask \in [size : Nat, where : {"inline", "arena"}, made : Nat]
      BY <1>3, AskTyped DEF IInv, InlineRefuses, Serving
    <2>2. ask'.size = ask.size
      BY <1>3, <2>1 DEF InlineRefuses
    <2>3. QED
      BY <1>1, <1>3, <2>2 DEF InlineRefuses
  <1>4. CASE ArenaGrows
    BY <1>4, GrowsExtends DEF Promise!Next
  <1>5. CASE ArenaRefuses
    <2>1. ask.size \in Nat
      BY <1>5, AskTyped DEF IInv, ArenaRefuses, Serving
    <2>2. ask.size # Promise!NoRequest /\ ask'.size = Promise!NoRequest
      BY <1>5, <2>1, IdleAsks DEF ArenaRefuses, Promise!NoRequest
    <2>3. Promise!Refuse
      BY <1>1, <1>5, <2>2 DEF ArenaRefuses, Promise!Refuse, Memory
    <2>4. QED
      BY <2>3 DEF Promise!Next
  <1>6. CASE \E size \in Nat : Ask(size)
    <2>1. PICK size \in Nat : Ask(size)
      BY <1>6
    <2>2. ask.size = Promise!NoRequest /\ ask'.size \in Nat
      BY <2>1, IdleAsks DEF Ask, Promise!NoRequest
    <2>3. Promise!Request
      BY <1>1, <2>1, <2>2 DEF Ask, Promise!Request, Memory
    <2>4. QED
      BY <2>3 DEF Promise!Next
  <1>7. CASE Drop \/ ReturnView
    <2>1. PICK block \in live : Deallocate(block) /\ views' \in {views, views \union {block}}
      BY <1>7 DEF Drop, ReturnView
    <2>2. Memory' = Memory
      BY <1>1, <2>1, NothingTakenBack
    <2>3. Promise!Release
      BY <2>1, <2>2 DEF Deallocate, Promise!Release, Memory
    <2>4. QED
      BY <2>3 DEF Promise!Next
  <1>8. CASE ShowMessage
    <2>1. Promise!ReadViews
      BY <1>1, <1>8 DEF ShowMessage, Promise!ReadViews, Memory
    <2>2. QED
      BY <2>1 DEF Promise!Next
  <1>9. CASE Clear
    <2>1. Promise!Forget
      BY <1>9, IdleAsks DEF Clear, Promise!Forget, Promise!NoRequest
    <2>2. QED
      BY <2>1 DEF Promise!Next
  <1>10. CASE UNCHANGED vars
    BY <1>1, <1>10 DEF vars
  <1>11. QED
    BY <1>2, <1>3, <1>4, <1>5, <1>6, <1>7, <1>8, <1>9, <1>10
    DEF AnyNext, AnyClient, Serve

\* Whatever is asked for and given back, in whatever order: blocks are aligned, in memory,
\* and apart from all that is in use or still read.
THEOREM RegionKept == Spec => KeepsPromise
  <1>1. Init => Promise!Init
    BY IdleAsks DEF Init, Promise!Init, Promise!NoRequest
  <1>2. IInv /\ [Next]_vars => [Promise!Next]_<<Memory, ask.size, live, views>>
    BY NextIsAny, StepRefines
  <1>3. QED
    BY <1>1, <1>2, Invariance, PTL DEF Spec, KeepsPromise, Promise!Spec, Memory
=============================================================================
