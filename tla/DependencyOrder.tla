--------------------------- MODULE DependencyOrder ---------------------------
(***************************************************************************)
(* What AstUnit::codegen promises, "a topological sort": declarations are  *)
(* generated one at a time, each once, and none before everything it       *)
(* refers to.  How the order is found is not said.                         *)
(***************************************************************************)

VARIABLES
  needs,   (* For each declaration, the set of what it refers to.  A       *)
           (* reference is the set of the declarations it may denote.      *)
  built    (* The declarations generated so far.                           *)

Ready(d) == \A r \in needs[d] : r \intersect built # {}

Init == built = {}

Build(d) ==
  /\ d \notin built
  /\ Ready(d)
  /\ built' = built \union {d}
  /\ UNCHANGED needs

Next == \E d \in DOMAIN needs : Build(d)

Spec == Init /\ [][Next]_<<needs, built>>

=============================================================================
