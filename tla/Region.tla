------------------------------- MODULE Region -------------------------------
(***************************************************************************)
(* What the allocators of util/allocator.h promise to those who ask for    *)
(* memory: a block is aligned, inside memory that exists, and shares no    *)
(* byte with a block in use, nor with one that was given back and is still *)
(* read: CgType::to_string returns a view of the buffer of a StringBuilder *)
(* that is gone when the caller prints it (cg_type.cpp:222).               *)
(***************************************************************************)
EXTENDS Integers

CONSTANT ALIGN

VARIABLES
  memory,   \* bytes of each place that holds blocks
  asked,    \* the size of the request being served, or NoRequest
  live,     \* blocks in use: [in |-> place, at |-> offset, size |-> bytes]
  views     \* blocks given back and still read

NoRequest == -1

Overlap(b, c) ==
  b.in = c.in /\ b.at < c.at + c.size /\ c.at < b.at + b.size

Init == asked = NoRequest /\ live = {} /\ views = {}

Request ==
  /\ asked = NoRequest
  /\ asked' \in Nat
  /\ UNCHANGED <<memory, live, views>>

\* More memory while a request is served: what there was stays as it is.
Extend ==
  /\ asked # NoRequest
  /\ \A p \in DOMAIN memory : p \in DOMAIN memory' /\ memory'[p] = memory[p]
  /\ UNCHANGED <<asked, live, views>>

Grant ==
  /\ asked # NoRequest
  /\ \E b \in live' :
       /\ live' = live \union {b}
       /\ b.size = asked
       /\ b.at % ALIGN = 0
       /\ b.in \in DOMAIN memory
       /\ b.at + b.size <= memory[b.in]
       /\ \A c \in live \union views : ~Overlap(b, c)
  /\ asked' = NoRequest
  /\ UNCHANGED <<memory, views>>

Refuse ==
  /\ asked # NoRequest
  /\ asked' = NoRequest
  /\ UNCHANGED <<memory, live, views>>

Release ==
  /\ \E b \in live : live' = live \ {b} /\ views' \in {views, views \union {b}}
  /\ UNCHANGED <<memory, asked>>

ReadViews == views' = {} /\ UNCHANGED <<memory, asked, live>>

\* Memory goes only when nothing in it is used.
Forget ==
  /\ asked = NoRequest
  /\ live = {} /\ views = {}
  /\ UNCHANGED <<asked, live, views>>

Next == Request \/ Extend \/ Grant \/ Refuse \/ Release \/ ReadViews \/ Forget

Spec == Init /\ [][Next]_<<memory, asked, live, views>>
=============================================================================
