---------------------------- MODULE MCUnitCodegen ----------------------------
(***************************************************************************)
(* Small units for TLC: every way two type declarations, two lets, an      *)
(* effect and a function can refer to one another, and every graph of      *)
(* references among three types.                                           *)
(***************************************************************************)
EXTENDS UnitCodegen, SequencesExt

MCNames == {"A", "B", "C", "n", "f"}

T(name) == [kind |-> "type", name |-> name]
V(name) == [kind |-> "value", name |-> name]
D(name, refs) == [name |-> name, refs |-> refs]

UpTo(n, S) == UNION {[1..k -> S] : k \in 0..n}
Decls(names, refs) == {D(n, r) : n \in names, r \in refs}

Unit(lets, typedefs, effects, fns) ==
  [k \in Kinds |->
     CASE k = "let" -> lets
       [] k = "typedef" -> typedefs
       [] k = "effect" -> effects
       [] k = "fn" -> [i \in DOMAIN fns |-> fns[i][1]]
       [] k = "body" -> [i \in DOMAIN fns |-> fns[i][2]]]

\* A function that names a type, and in its body a type, a let and itself.
F == <<D("f", <<T("A")>>), D("f", <<T("B"), V("n"), V("f")>>)>>

Mixed ==
  {Unit(l, t, e, f) :
     l \in UpTo(2, Decls({"n"}, UpTo(1, {T("A"), V("n")}))),
     t \in UpTo(2, Decls({"A", "B"}, UpTo(1, {T("A"), T("B"), V("n")})
                                       \union {<<T("B"), V("n")>>})),
     e \in UpTo(1, Decls({"A", "B"}, UpTo(1, {T("A"), V("n")}))),
     f \in {<<>>, <<F>>}}

Graphs3 ==
  {Unit(<<>>, <<D("A", a), D("B", b), D("C", c)>>, <<>>, <<>>) :
     a, b, c \in UpTo(2, {T("A"), T("B"), T("C")})}

MCUnits == Mixed \union Graphs3
=============================================================================
