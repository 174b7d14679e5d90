----------------------------- MODULE UnitCodegen -----------------------------
(***************************************************************************)
(* The order in which the declarations of a unit are generated:            *)
(* AstUnit::codegen, which goes through the lets, the types, the effects   *)
(* and twice through the functions, and AstIdentType::codegen, which       *)
(* generates a type on demand when a reference meets it too early.         *)
(*                                                                         *)
(* A declaration is what the walk of its syntax meets: the references to   *)
(* types and to values in it, in order.  A function is two declarations,   *)
(* its prototype ("fn", generated by AstFn::prepass) and its body.         *)
(* Builtin types always resolve and are left out.                          *)
(***************************************************************************)
EXTENDS Integers, Sequences, FiniteSets

Kinds == {"let", "typedef", "effect", "fn", "body"}
TypeKinds == {"typedef", "effect"}

CONSTANTS
  Names,        (* Identifiers.                                            *)
  Units,        (* The units that may be generated.                        *)
  StackLimit    (* Bound: nested codegen calls the C++ stack has room for. *)

References == [kind : {"type", "value"}, name : Names]
Declarations == [name : Names, refs : Seq(References)]

ASSUME UnitAssumption ==
  /\ Units \subseteq [Kinds -> Seq(Declarations)]
  /\ StackLimit \in Nat \ {0}

VARIABLES
  unit,      (* The unit: its declarations of each kind, in source order.  *)
  at,        (* Position in the order of the main loops.                   *)
  stack,     (* Active codegen() calls of declarations, innermost last.    *)
  made,      (* What has been generated, in order: cg.globals, cg.typedefs,*)
             (* cg.effects and cg.fns in one, and m_generated.             *)
  meant,     (* Ghost: what references to types were resolved to.          *)
  reported,  (* A diagnostic was printed.                                  *)
  status     (* gen | done | failed | overflow                             *)

vars == <<unit, at, stack, made, meant, reported, status>>

-----------------------------------------------------------------------------
(* A declaration is identified by its kind and its index among that kind.  *)

All(kind) == [i \in 1..Len(unit[kind]) |-> <<kind, i>>]
Declared == UNION {{<<k, i>> : i \in DOMAIN unit[k]} : k \in Kinds}

Name(d) == unit[d[1]][d[2]].name
Refs(d) == unit[d[1]][d[2]].refs

\* Mutant: the loop over the effects is missing.
Work_Mutant == All("let") \o All("typedef") \o All("fn") \o All("body")

\* The order of the loops of AstUnit::codegen.
Work == All("let") \o All("typedef") \o All("effect") \o All("fn") \o All("body")

\* The order in which AstIdentType::codegen tries what it has not found.
Types == All("typedef") \o All("effect")

Generated == {made[i] : i \in DOMAIN made}

\* The kinds of values that a reference in d can name: a constant expression
\* only names globals, a function body names functions too.
Values(d) == IF d[1] = "body" THEN {"let", "fn"} ELSE {"let"}

\* The first generated declaration of that kind and name, as a singleton.
Found(kind, n) ==
  LET has == {i \in DOMAIN made : made[i][1] = kind /\ Name(made[i]) = n}
  IN  {made[i] : i \in {i \in has : \A j \in has : i <= j}}

\* Mutant: cg.effects is searched first.
Lookup_Swapped(n) == IF Found("effect", n) # {} THEN Found("effect", n)
                     ELSE Found("typedef", n)

\* Mutant: a type is found while it is still being generated.
Lookup_Early(n) ==
  LET open == {stack[i].decl : i \in DOMAIN stack}
  IN  {d \in open : d[1] \in TypeKinds /\ Name(d) = n}
        \union Found("typedef", n) \union Found("effect", n)

\* cg.typedefs is searched before cg.effects.
Lookup(n) == IF Found("typedef", n) # {} THEN Found("typedef", n)
             ELSE Found("effect", n)

-----------------------------------------------------------------------------
(* The call stack.  tried is the candidate, by its position in Types, that *)
(* the reference at pos was last tried with; 0 before the first.           *)

Call(d) == [decl |-> d, pos |-> 1, tried |-> 0]

Top == stack[Len(stack)]
Ref == Refs(Top.decl)[Top.pos]

Running == status = "gen" /\ stack # <<>>
AtRef(kind) ==
  Running /\ Top.pos <= Len(Refs(Top.decl)) /\ Ref.kind = kind

WithTop(call) == [stack EXCEPT ![Len(stack)] = call]

Below == SubSeq(stack, 1, Len(stack) - 1)

\* Mutant: the search goes on with the next candidate all the same.
LookAgain_Mutant(calls) == calls

\* A candidate was generated: the reference is looked up again.
LookAgain(calls) ==
  IF calls = <<>> THEN calls ELSE [calls EXCEPT ![Len(calls)].tried = 0]

\* Mutant: a reference is skipped.
NextRef_Mutant == stack' = WithTop([Call(Top.decl) EXCEPT !.pos = Top.pos + 2])

NextRef == stack' = WithTop([Call(Top.decl) EXCEPT !.pos = Top.pos + 1])

\* Mutant: after a candidate that fails the search begins again.
Candidate_Mutant ==
  LET named == {k \in 1..Len(Types) : Name(Types[k]) = Ref.name}
  IN  {k \in named : \A j \in named : k <= j}

\* The next candidates for the reference, as a set of at most one position.
Candidate ==
  LET later == {k \in (Top.tried + 1)..Len(Types) : Name(Types[k]) = Ref.name}
  IN  {k \in later : \A j \in later : k <= j}

-----------------------------------------------------------------------------
Init ==
  /\ unit \in Units
  /\ at = 1
  /\ stack = <<>>
  /\ made = <<>>
  /\ meant = {}
  /\ reported = FALSE
  /\ status = "gen"

\* Mutant: m_generated is not looked at.
NextDeclaration_Mutant ==
  /\ status = "gen"
  /\ stack = <<>>
  /\ at <= Len(Work)
  /\ at' = at + 1
  /\ stack' = <<Call(Work[at])>>
  /\ UNCHANGED <<unit, made, meant, reported, status>>

(* The next round of a loop of AstUnit::codegen.  A type that was          *)
(* generated on demand has nothing left to do.                             *)
NextDeclaration ==
  /\ status = "gen"
  /\ stack = <<>>
  /\ at <= Len(Work)
  /\ at' = at + 1
  /\ stack' = IF Work[at][1] \in TypeKinds /\ Work[at] \in Generated
                THEN stack ELSE <<Call(Work[at])>>
  /\ UNCHANGED <<unit, made, meant, reported, status>>

Finish ==
  /\ status = "gen"
  /\ stack = <<>>
  /\ at > Len(Work)
  /\ status' = "done"
  /\ UNCHANGED <<unit, at, stack, made, meant, reported>>

(* The references of a declaration are resolved: emplace it.               *)
Emplace ==
  /\ Running
  /\ Top.pos > Len(Refs(Top.decl))
  /\ made' = Append(made, Top.decl)
  /\ stack' = LookAgain(Below)
  /\ UNCHANGED <<unit, at, meant, reported, status>>

(* AstVarExpr::eval_value: a value must have been generated by now.        *)
ResolveValue ==
  /\ AtRef("value")
  /\ \E d \in Generated : d[1] \in Values(Top.decl) /\ Name(d) = Ref.name
  /\ NextRef
  /\ UNCHANGED <<unit, at, made, meant, reported, status>>

(* AstIdentType::codegen finds the type among the generated ones ...       *)
ResolveType ==
  /\ AtRef("type")
  /\ Top.tried = 0
  /\ \E d \in Lookup(Ref.name) : meant' = meant \union {<<Ref.name, d>>}
  /\ NextRef
  /\ UNCHANGED <<unit, at, made, reported, status>>

(* ... or generates those of the unit that have the name, one after the    *)
(* other, until one succeeds.  A candidate that is being generated is not  *)
(* told from one that has not been met.                                    *)
TryCandidate ==
  /\ AtRef("type")
  /\ Top.tried = 0 => Lookup(Ref.name) = {}
  /\ \E k \in Candidate :
       IF Types[k] \in Generated
         THEN /\ stack' = LookAgain(stack)
              /\ UNCHANGED status
         ELSE IF Len(stack) = StackLimit
                THEN status' = "overflow" /\ UNCHANGED stack
                ELSE /\ stack' = Append(WithTop([Top EXCEPT !.tried = k]),
                                        Call(Types[k]))
                     /\ UNCHANGED status
  /\ UNCHANGED <<unit, at, made, meant, reported>>

(* "Undeclared entity", or not a constant expression: the declaration is   *)
(* given up.  The call below goes on with its next candidate.              *)
GiveUp ==
  /\ \/ /\ AtRef("value")
        /\ ~ \E d \in Generated : d[1] \in Values(Top.decl) /\ Name(d) = Ref.name
     \/ /\ AtRef("type")
        /\ Top.tried = 0 => Lookup(Ref.name) = {}
        /\ Candidate = {}
  /\ reported' = TRUE
  /\ stack' = Below
  /\ status' = IF Len(stack) = 1 THEN "failed" ELSE status
  /\ UNCHANGED <<unit, at, made, meant>>

Next ==
  \/ NextDeclaration \/ Finish
  \/ Emplace
  \/ ResolveValue \/ ResolveType
  \/ TryCandidate \/ GiveUp

Spec == Init /\ [][Next]_vars

\* One thread generates the unit and nothing waits: it always goes on.
FairSpec == Spec /\ WF_vars(Next)

-----------------------------------------------------------------------------
CallType == [decl : Declared, pos : Nat \ {0}, tried : Nat]

TypeOK ==
  /\ unit \in [Kinds -> Seq(Declarations)]
  /\ at \in 1..(Len(Work) + 1)
  /\ stack \in Seq(CallType)
  /\ \A i \in DOMAIN stack : stack[i].pos <= Len(Refs(stack[i].decl)) + 1
  /\ made \in Seq(Declared)
  /\ meant \subseteq Names \X Declared
  /\ reported \in BOOLEAN
  /\ status \in {"gen", "done", "failed", "overflow"}

(* "This is how we do a topological sort": generating on demand puts every *)
(* declaration after what it refers to.                                    *)
Denotes(d, r) ==
  {e \in Declared : /\ Name(e) = r.name
                    /\ e[1] \in IF r.kind = "type" THEN TypeKinds ELSE Values(d)}

Needs ==
  [d \in Declared |-> {Denotes(d, Refs(d)[i]) : i \in DOMAIN Refs(d)}]

Order == INSTANCE DependencyOrder WITH needs <- Needs, built <- Generated

InDependencyOrder == Order!Spec

(* "...so that this main loop does not generate the same type twice": the  *)
(* mark is set after the recursion, yet nothing is generated twice.        *)
MadeOnce == \A i, j \in DOMAIN made : made[i] = made[j] => i = j

(* Lazily or in the main loops, everything declared gets generated.        *)
NothingLeftOut == status = "done" => Generated = Declared

(* Unless an error was reported, a type name means the same declaration    *)
(* wherever and whenever it is looked up in the unit, duplicates and an    *)
(* effect with the name of a type included.                                *)
OneMeaning ==
  ~reported => \A m, n \in meant : m[1] = n[1] => m = n

(* A unit can be built if some order puts every declaration after what it  *)
(* refers to, the lets coming in source order.                             *)
Satisfied(refs, types, values) ==
  \A i \in DOMAIN refs :
    refs[i].name \in IF refs[i].kind = "type" THEN types ELSE values

\* S has the name of every type that can be generated once those named in S are.
Closed(S, values) ==
  \A i \in DOMAIN Types : Satisfied(Refs(Types[i]), S, values) => Name(Types[i]) \in S

\* The names of the types that can be generated given the lets in values: they are in
\* every such set.
Derivable(values) == {n \in Names : \A S \in SUBSET Names : Closed(S, values) => n \in S}

NamesOf(kind, n) == {unit[kind][i].name : i \in 1..n}

Buildable ==
  LET lets == NamesOf("let", Len(unit["let"]))
      fns == NamesOf("fn", Len(unit["fn"]))
      types == Derivable(lets)
  IN  /\ \A i \in DOMAIN unit["let"] :
           LET before == NamesOf("let", i - 1)
           IN  Satisfied(unit["let"][i].refs, Derivable(before), before)
      /\ \A k \in TypeKinds \union {"fn"} : \A i \in DOMAIN unit[k] :
           Satisfied(unit[k][i].refs, types, lets)
      /\ \A i \in DOMAIN unit["body"] :
           Satisfied(unit["body"][i].refs, types, lets \union fns)

DistinctTypes ==
  \A i, j \in DOMAIN Types : Name(Types[i]) = Name(Types[j]) => i = j

(* The recursion finds an order whenever there is one, with no more stack  *)
(* than a call for each type and one for the declaration that asks.        *)
RejectsOnlyUnbuildable ==
  /\ status \in {"failed", "overflow"}
  /\ DistinctTypes
  /\ Len(Types) < StackLimit
  => ~Buildable

(* Generation comes to an end, for units that cannot be built too.         *)
Terminates == <>(status # "gen")

(* "Each type will ... mark the type as already being generated": a type   *)
(* is not entered again while it is being generated.  (The mark is set at  *)
(* the end.)                                                               *)
NotEnteredTwice ==
  \A i, j \in DOMAIN stack : stack[i].decl = stack[j].decl => i = j
=============================================================================
