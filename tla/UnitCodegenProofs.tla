-------------------------- MODULE UnitCodegenProofs --------------------------
(***************************************************************************)
(* The order of generation, for units of any size: UnitCodegen implements  *)
(* DependencyOrder, nothing is generated twice or left out, a name has one *)
(* meaning, only units that have no order are refused, and the walk ends.  *)
(***************************************************************************)
EXTENDS UnitCodegen, FiniteSetTheorems, SequenceTheorems, TLAPS, WellFoundedInduction

(* A call is within its references, and those it has gone past denote      *)
(* something in the set S.                                                 *)
Good(c, S) ==
  /\ c.pos <= Len(Refs(c.decl)) + 1
  /\ \A k \in 1..(c.pos - 1) : Denotes(c.decl, Refs(c.decl)[k]) \intersect S # {}

(* What the walk of a declaration has gone past is generated: it may be    *)
(* emplaced as soon as the walk ends.                                      *)
ResolvedSoFar == \A i \in DOMAIN stack : Good(stack[i], Generated)

IInv == TypeOK /\ ResolvedSoFar

-----------------------------------------------------------------------------
(* Sequences.                                                              *)

LEMMA Elements ==
  ASSUME NEW S, NEW s \in Seq(S)
  PROVE  Len(s) \in Nat /\ \A k \in 1..Len(s) : s[k] \in S
  OBVIOUS

LEMMA Pushed ==
  ASSUME NEW S, NEW s \in Seq(S), NEW e \in S
  PROVE  /\ Append(s, e) \in Seq(S)
         /\ Len(Append(s, e)) = Len(s) + 1
         /\ \A i \in 1..Len(s) : Append(s, e)[i] = s[i]
         /\ Append(s, e)[Len(s) + 1] = e
  OBVIOUS

LEMMA Popped ==
  ASSUME NEW S, NEW s \in Seq(S), s # <<>>
  PROVE  LET t == SubSeq(s, 1, Len(s) - 1)
         IN  /\ t \in Seq(S)
             /\ Len(t) = Len(s) - 1
             /\ Len(s) - 1 \in Nat
             /\ \A i \in 1..(Len(s) - 1) : t[i] = s[i]
  <1> DEFINE n == Len(s) - 1
  <1>1. n \in Nat /\ 1 \in Int /\ n \in Int /\ \A i \in 1..n : s[i] \in S
    OBVIOUS
  <1> HIDE DEF n
  <1>2. /\ SubSeq(s, 1, n) \in Seq(S)
        /\ Len(SubSeq(s, 1, n)) = IF 1 <= n THEN n - 1 + 1 ELSE 0
        /\ \A i \in 1..(n - 1 + 1) : SubSeq(s, 1, n)[i] = s[1 + i - 1]
    BY <1>1, SubSeqProperties
  <1>3. Len(SubSeq(s, 1, n)) = n /\ \A i \in 1..n : SubSeq(s, 1, n)[i] = s[i]
    BY <1>1, <1>2
  <1>4. QED
    BY <1>1, <1>2, <1>3 DEF n

LEMMA Replaced ==
  ASSUME NEW S, NEW s \in Seq(S), s # <<>>, NEW e \in S
  PROVE  LET t == [s EXCEPT ![Len(s)] = e]
         IN  /\ t \in Seq(S)
             /\ Len(t) = Len(s)
             /\ \A i \in 1..(Len(s) - 1) : t[i] = s[i]
             /\ t[Len(s)] = e
  OBVIOUS

-----------------------------------------------------------------------------
(* Declarations.                                                           *)

LEMMA AllTyped ==
  ASSUME TypeOK, NEW k \in Kinds
  PROVE  All(k) \in Seq(Declared)
  <1>1. unit[k] \in Seq(Declarations)
    BY DEF TypeOK
  <1>2. Len(unit[k]) \in Nat /\ DOMAIN unit[k] = 1..Len(unit[k])
    BY <1>1, LenProperties
  <1>3. \A i \in 1..Len(unit[k]) : <<k, i>> \in Declared
    BY <1>2 DEF Declared
  <1>4. QED
    BY <1>2, <1>3, IsASeq DEF All

LEMMA OrdersTyped ==
  ASSUME TypeOK
  PROVE  Work \in Seq(Declared) /\ Types \in Seq(Declared)
  BY AllTyped, ConcatProperties DEF Work, Types, Kinds

LEMMA DeclTyped ==
  ASSUME TypeOK, NEW d \in Declared
  PROVE  /\ d[1] \in Kinds
         /\ Name(d) \in Names
         /\ Refs(d) \in Seq(References)
         /\ Len(Refs(d)) \in Nat
  <1>1. PICK k \in Kinds : \E i \in DOMAIN unit[k] : d = <<k, i>>
    BY DEF Declared
  <1>2. PICK i \in DOMAIN unit[k] : d = <<k, i>>
    BY <1>1
  <1>3. unit[k][i] \in Declarations
    <2>1. unit[k] \in Seq(Declarations)
      BY DEF TypeOK
    <2>2. QED
      BY <2>1
  <1>4. QED
    BY <1>2, <1>3 DEF Name, Refs, Declarations

LEMMA TopTyped ==
  ASSUME TypeOK, stack # <<>>
  PROVE  /\ Len(stack) \in Nat \ {0}
         /\ Top \in CallType /\ Top.decl \in Declared
         /\ Top.pos \in Nat \ {0} /\ Top.tried \in Nat
         /\ Top.pos <= Len(Refs(Top.decl)) + 1
         /\ Refs(Top.decl) \in Seq(References) /\ Len(Refs(Top.decl)) \in Nat
  <1>1. stack \in Seq(CallType) /\ Len(stack) \in Nat \ {0} /\ Len(stack) \in DOMAIN stack
    BY EmptySeq DEF TypeOK
  <1>2. Top \in CallType
    BY <1>1 DEF Top
  <1>3. Top.decl \in Declared /\ Top.pos \in Nat \ {0} /\ Top.tried \in Nat
    BY <1>2 DEF CallType
  <1>4. Top.pos <= Len(Refs(Top.decl)) + 1
    BY <1>1 DEF TypeOK, Top
  <1>5. QED
    BY <1>1, <1>2, <1>3, <1>4, DeclTyped

LEMMA FoundTyped ==
  ASSUME TypeOK, NEW n
  PROVE  \A d \in Lookup(n) :
           d \in Generated /\ d \in Declared /\ Name(d) = n /\ d[1] \in TypeKinds
  BY DEF Lookup, Found, Generated, TypeOK, TypeKinds

LEMMA GeneratedTyped == TypeOK => Generated \subseteq Declared
  BY DEF Generated, TypeOK
-----------------------------------------------------------------------------
(* Steps.                                                                  *)

\* What a step has to provide: the unit does not change, so its declarations
\* may be written without primes.
LEMMA Kept ==
  ASSUME unit' = unit, TypeOK,
         at' \in 1..(Len(Work) + 1),
         stack' \in Seq(CallType),
         \A i \in DOMAIN stack' : Good(stack'[i], Generated'),
         made' \in Seq(Declared),
         meant' \subseteq Names \X Declared,
         reported' \in BOOLEAN,
         status' \in {"gen", "done", "failed", "overflow"}
  PROVE  IInv'
  <1>1. /\ Declared' = Declared /\ CallType' = CallType
        /\ Work' = Work
    BY DEF Declared, CallType, Work, All
  <1>2. TypeOK'
    BY <1>1 DEF TypeOK, Good, Refs
  <1>3. ResolvedSoFar'
    BY <1>1 DEF ResolvedSoFar, Good, Refs, Denotes, Name, Values
  <1>4. QED
    BY <1>2, <1>3 DEF IInv

LEMMA StackGood ==
  ASSUME IInv
  PROVE  /\ TypeOK
         /\ stack \in Seq(CallType)
         /\ \A i \in 1..Len(stack) : stack[i] \in CallType /\ Good(stack[i], Generated)
  BY Elements DEF IInv, TypeOK, ResolvedSoFar

\* More generated declarations do no harm to a call.
LEMMA GoodGrows ==
  ASSUME NEW c, NEW S, NEW T, S \subseteq T, Good(c, S)
  PROVE  Good(c, T)
  BY DEF Good

LEMMA CallGood ==
  ASSUME TypeOK, NEW d \in Declared, NEW S
  PROVE  Call(d) \in CallType /\ Good(Call(d), S)
  <1>1. Len(Refs(d)) \in Nat
    BY DeclTyped
  <1>2. Call(d) \in CallType /\ Call(d).pos = 1 /\ Call(d).decl = d
    BY DEF Call, CallType
  <1>3. QED
    BY <1>1, <1>2 DEF Good

\* The running call replaced by one as good.
LEMMA TopReplaced ==
  ASSUME IInv, stack # <<>>, NEW c \in CallType, Good(c, Generated)
  PROVE  /\ WithTop(c) \in Seq(CallType) /\ Len(WithTop(c)) = Len(stack)
         /\ \A i \in 1..Len(stack) : Good(WithTop(c)[i], Generated)
  <1>1. stack \in Seq(CallType) /\ Len(stack) \in Nat \ {0}
    BY TopTyped DEF IInv, TypeOK
  <1> DEFINE t == [stack EXCEPT ![Len(stack)] = c]
  <1>2. /\ t \in Seq(CallType) /\ Len(t) = Len(stack) /\ t[Len(stack)] = c
        /\ \A i \in 1..(Len(stack) - 1) : t[i] = stack[i]
    BY <1>1, Replaced
  <1> HIDE DEF t
  <1>3. \A i \in 1..Len(stack) : i = Len(stack) \/ i \in 1..(Len(stack) - 1)
    BY <1>1
  <1>4. \A i \in 1..Len(stack) : Good(t[i], Generated)
    BY <1>2, <1>3, StackGood
  <1>5. QED
    BY <1>2, <1>4 DEF WithTop, t

\* A call keeps its goodness when it looks its reference up again.
LEMMA LookAgainGood ==
  ASSUME NEW s \in Seq(CallType), NEW S, \A i \in 1..Len(s) : Good(s[i], S)
  PROVE  /\ LookAgain(s) \in Seq(CallType) /\ Len(LookAgain(s)) = Len(s)
         /\ \A i \in 1..Len(s) : Good(LookAgain(s)[i], S)
  <1>1. CASE s = <<>>
    BY <1>1 DEF LookAgain
  <1>2. CASE s # <<>>
    <2> DEFINE n == Len(s)
               e == [s[n] EXCEPT !.tried = 0]
               t == [s EXCEPT ![n] = e]
    <2>1. n \in Nat \ {0} /\ s[n] \in CallType
      BY <1>2, EmptySeq
    <2>2. e \in CallType /\ e.pos = s[n].pos /\ e.decl = s[n].decl
      BY <2>1 DEF CallType
    <2> HIDE DEF e
    <2>3. /\ t \in Seq(CallType) /\ Len(t) = n /\ t[n] = e
          /\ \A i \in 1..(n - 1) : t[i] = s[i]
      BY <1>2, <2>2, Replaced
    <2>4. Good(e, S)
      BY <2>1, <2>2 DEF Good
    <2>5. LookAgain(s) = t
      BY <1>2 DEF LookAgain, e
    <2> HIDE DEF t
    <2>6. \A i \in 1..n : i = n \/ i \in 1..(n - 1)
      BY <2>1
    <2>7. \A i \in 1..n : Good(t[i], S)
      BY <2>3, <2>4, <2>6
    <2>8. QED
      BY <2>3, <2>5, <2>7
  <1>3. QED
    BY <1>1, <1>2

LEMMA BelowGood ==
  ASSUME IInv, stack # <<>>
  PROVE  /\ Below \in Seq(CallType)
         /\ \A i \in 1..Len(Below) : Good(Below[i], Generated)
  <1>1. stack \in Seq(CallType) /\ Len(stack) \in Nat \ {0}
    BY TopTyped DEF IInv, TypeOK
  <1>2. /\ Below \in Seq(CallType) /\ Len(Below) = Len(stack) - 1
        /\ \A i \in 1..(Len(stack) - 1) : Below[i] = stack[i]
    BY <1>1, Popped DEF Below
  <1>3. \A i \in 1..(Len(stack) - 1) : i \in 1..Len(stack)
    BY <1>1
  <1>4. QED
    BY <1>2, <1>3, StackGood

\* The reference at which the running call is.
LEMMA RefTyped ==
  ASSUME TypeOK, stack # <<>>, Top.pos <= Len(Refs(Top.decl))
  PROVE  Ref \in References /\ Ref.name \in Names
  <1>1. Top.pos \in 1..Len(Refs(Top.decl)) /\ Refs(Top.decl) \in Seq(References)
    BY TopTyped
  <1>2. Ref \in References
    BY <1>1, Elements DEF Ref
  <1>3. QED
    BY <1>2 DEF References

\* A reference that a generated declaration satisfies can be gone past.
LEMMA Advanced ==
  ASSUME IInv, stack # <<>>, Top.pos <= Len(Refs(Top.decl)), NextRef,
         Denotes(Top.decl, Ref) \intersect Generated # {}
  PROVE  /\ stack' \in Seq(CallType)
         /\ \A i \in DOMAIN stack' : Good(stack'[i], Generated)
  <1> DEFINE c == [Call(Top.decl) EXCEPT !.pos = Top.pos + 1]
  <1>1. /\ Top \in CallType /\ Top.pos \in Nat \ {0} /\ Len(stack) \in Nat \ {0}
        /\ Len(Refs(Top.decl)) \in Nat /\ Good(Top, Generated)
    BY TopTyped, StackGood DEF IInv, Top
  <1>2. c \in CallType /\ c.pos = Top.pos + 1 /\ c.decl = Top.decl
    BY <1>1 DEF CallType, Call
  <1>3. stack' = WithTop(c)
    BY DEF NextRef
  <1> HIDE DEF c
  <1>4. c.pos <= Len(Refs(c.decl)) + 1
    BY <1>1, <1>2
  <1>5. ASSUME NEW k \in 1..(c.pos - 1)
        PROVE  Denotes(c.decl, Refs(c.decl)[k]) \intersect Generated # {}
    <2>1. CASE k = Top.pos
      BY <2>1, <1>2 DEF Ref
    <2>2. CASE k # Top.pos
      <3>1. k \in 1..(Top.pos - 1)
        BY <2>2, <1>1, <1>2
      <3>2. QED
        BY <3>1, <1>1, <1>2 DEF Good
    <2>3. QED
      BY <2>1, <2>2
  <1>6. Good(c, Generated)
    BY <1>4, <1>5 DEF Good
  <1>7. QED
    BY <1>2, <1>3, <1>6, TopReplaced
-----------------------------------------------------------------------------
(* Every action keeps the invariant.                                       *)

LEMMA NextDeclarationKeeps == ASSUME IInv, NextDeclaration PROVE IInv'
  <1>1. TypeOK /\ Work \in Seq(Declared) /\ Len(Work) \in Nat
    BY OrdersTyped, LenProperties DEF IInv
  <1>2. at \in 1..Len(Work) /\ at' = at + 1
    BY <1>1 DEF NextDeclaration, TypeOK
  <1> DEFINE d == Work[at]
  <1>3. d \in Declared
    BY <1>1, <1>2
  <1>4. stack' = <<>> \/ stack' = <<Call(d)>>
    BY DEF NextDeclaration
  <1> HIDE DEF d
  <1>5. Call(d) \in CallType /\ Good(Call(d), Generated)
    BY <1>1, <1>3, CallGood
  <1>6. stack' \in Seq(CallType) /\ \A i \in DOMAIN stack' : Good(stack'[i], Generated)
    <2> DEFINE c == Call(d)
    <2>1. CASE stack' = <<>>
      BY <2>1
    <2>2. CASE stack' = <<c>>
      <3>1. c \in CallType /\ Good(c, Generated)
        BY <1>5
      <3> HIDE DEF c
      <3>2. stack' \in Seq(CallType) /\ DOMAIN stack' = {1} /\ stack'[1] = c
        BY <2>2, <3>1
      <3>3. QED
        BY <3>1, <3>2
    <2>3. QED
      BY <1>4, <2>1, <2>2
  <1>7. at' \in 1..(Len(Work) + 1) /\ Generated' = Generated
    BY <1>1, <1>2 DEF NextDeclaration, Generated
  <1>8. QED
    BY <1>1, <1>6, <1>7, Kept DEF NextDeclaration, TypeOK

LEMMA FinishKeeps == ASSUME IInv, Finish PROVE IInv'
  <1>1. TypeOK /\ Generated' = Generated
    BY DEF IInv, Finish, Generated
  <1>2. stack' \in Seq(CallType) /\ \A i \in DOMAIN stack' : Good(stack'[i], Generated)
    BY DEF Finish, IInv, TypeOK, ResolvedSoFar
  <1>3. QED
    BY <1>1, <1>2, Kept DEF Finish, TypeOK

LEMMA Emplaced ==
  ASSUME IInv, Emplace
  PROVE  /\ made' \in Seq(Declared)
         /\ Generated' = Generated \union {Top.decl}
  <1>1. made \in Seq(Declared) /\ Top.decl \in Declared
    BY TopTyped DEF Emplace, Running, IInv, TypeOK
  <1>2. made' = Append(made, Top.decl)
    BY DEF Emplace
  <1> DEFINE d == Top.decl
  <1> HIDE DEF d
  <1>3. /\ made' \in Seq(Declared) /\ Len(made') = Len(made) + 1 /\ Len(made) \in Nat
        /\ \A i \in 1..Len(made) : made'[i] = made[i]
        /\ made'[Len(made) + 1] = d
    BY <1>1, <1>2, Pushed DEF d
  <1>4. DOMAIN made = 1..Len(made) /\ DOMAIN made' = 1..(Len(made) + 1)
    BY <1>1, <1>3
  <1>5. Generated' = {made'[i] : i \in 1..(Len(made) + 1)}
    BY <1>4 DEF Generated
  <1>6. Generated = {made[i] : i \in 1..Len(made)}
    BY <1>4 DEF Generated
  <1>7. 1..(Len(made) + 1) = (1..Len(made)) \union {Len(made) + 1}
    BY <1>3
  <1>8. Generated' = Generated \union {d}
    BY <1>3, <1>5, <1>6, <1>7
  <1>9. QED
    BY <1>3, <1>8 DEF d

LEMMA EmplaceKeeps == ASSUME IInv, Emplace PROVE IInv'
  <1>1. TypeOK /\ stack # <<>>
    BY DEF IInv, Emplace, Running
  <1>2. made' \in Seq(Declared) /\ Generated \subseteq Generated'
    BY Emplaced
  <1>3. /\ Below \in Seq(CallType)
        /\ \A i \in 1..Len(Below) : Good(Below[i], Generated')
    BY <1>1, <1>2, BelowGood, GoodGrows
  <1>4. stack' = LookAgain(Below)
    BY DEF Emplace
  <1>5. /\ stack' \in Seq(CallType)
        /\ \A i \in DOMAIN stack' : Good(stack'[i], Generated')
    <2> DEFINE t == LookAgain(Below)
    <2>1. t \in Seq(CallType) /\ \A i \in 1..Len(t) : Good(t[i], Generated')
      BY <1>3, LookAgainGood
    <2> HIDE DEF t
    <2>2. DOMAIN t = 1..Len(t)
      BY <2>1, LenProperties
    <2>3. stack' = t
      BY <1>4 DEF t
    <2>4. QED
      BY <2>1, <2>2, <2>3
  <1>6. QED
    BY <1>1, <1>2, <1>5, Kept DEF Emplace, TypeOK

LEMMA ResolveValueKeeps == ASSUME IInv, ResolveValue PROVE IInv'
  <1>1. /\ TypeOK /\ stack # <<>> /\ Top.pos <= Len(Refs(Top.decl))
        /\ Ref.kind = "value" /\ NextRef /\ Generated' = Generated
    BY DEF IInv, ResolveValue, AtRef, Running, Generated
  <1>2. PICK d \in Generated : d[1] \in Values(Top.decl) /\ Name(d) = Ref.name
    BY DEF ResolveValue
  <1>3. d \in Denotes(Top.decl, Ref)
    BY <1>1, <1>2, GeneratedTyped DEF Denotes
  <1>4. /\ stack' \in Seq(CallType)
        /\ \A i \in DOMAIN stack' : Good(stack'[i], Generated)
    BY <1>1, <1>2, <1>3, Advanced
  <1>5. QED
    BY <1>1, <1>4, Kept DEF ResolveValue, TypeOK

LEMMA ResolveTypeKeeps == ASSUME IInv, ResolveType PROVE IInv'
  <1>1. /\ TypeOK /\ stack # <<>> /\ Top.pos <= Len(Refs(Top.decl))
        /\ Ref.kind = "type" /\ NextRef /\ Generated' = Generated
    BY DEF IInv, ResolveType, AtRef, Running, Generated
  <1>2. PICK d \in Lookup(Ref.name) : meant' = meant \union {<<Ref.name, d>>}
    BY DEF ResolveType
  <1>3. d \in Generated /\ d \in Declared /\ Name(d) = Ref.name /\ d[1] \in TypeKinds
    BY <1>1, <1>2, FoundTyped
  <1>4. d \in Denotes(Top.decl, Ref)
    BY <1>1, <1>3 DEF Denotes
  <1>5. /\ stack' \in Seq(CallType)
        /\ \A i \in DOMAIN stack' : Good(stack'[i], Generated)
    BY <1>1, <1>3, <1>4, Advanced
  <1>6. meant' \subseteq Names \X Declared
    BY <1>1, <1>2, <1>3, RefTyped DEF TypeOK
  <1>7. QED
    BY <1>1, <1>5, <1>6, Kept DEF ResolveType, TypeOK

LEMMA TryCandidateKeeps == ASSUME IInv, TryCandidate PROVE IInv'
  <1>1. /\ TypeOK /\ stack # <<>> /\ stack \in Seq(CallType)
        /\ Generated' = Generated /\ status = "gen"
    BY DEF IInv, TypeOK, TryCandidate, AtRef, Running, Generated
  <1>2. PICK k \in Candidate :
          \/ stack' = LookAgain(stack) /\ UNCHANGED status
          \/ UNCHANGED stack /\ status' = "overflow"
          \/ /\ stack' = Append(WithTop([Top EXCEPT !.tried = k]), Call(Types[k]))
             /\ UNCHANGED status
    BY DEF TryCandidate
  <1>3. k \in Nat /\ Types[k] \in Declared
    <2>1. Top.tried \in Nat /\ Types \in Seq(Declared) /\ Len(Types) \in Nat
      BY <1>1, TopTyped, OrdersTyped, LenProperties
    <2>2. k \in (Top.tried + 1)..Len(Types)
      BY DEF Candidate
    <2>3. QED
      BY <2>1, <2>2
  <1>4. /\ stack' \in Seq(CallType)
        /\ \A i \in DOMAIN stack' : Good(stack'[i], Generated)
    <2>1. CASE stack' = LookAgain(stack)
      BY <2>1, <1>1, StackGood, LookAgainGood
    <2>2. CASE UNCHANGED stack
      BY <2>2, <1>1, StackGood
    <2>3. CASE stack' = Append(WithTop([Top EXCEPT !.tried = k]), Call(Types[k]))
      <3> DEFINE c == [Top EXCEPT !.tried = k]
                 e == Call(Types[k])
                 t == WithTop(c)
      <3>1. Top \in CallType /\ Good(Top, Generated)
        BY <1>1, TopTyped, StackGood DEF Top
      <3>2. c \in CallType /\ c.pos = Top.pos /\ c.decl = Top.decl
        BY <1>3, <3>1 DEF CallType
      <3> HIDE DEF c
      <3>3. Good(c, Generated)
        BY <3>1, <3>2 DEF Good
      <3>4. e \in CallType /\ Good(e, Generated)
        BY <1>1, <1>3, CallGood
      <3>5. /\ t \in Seq(CallType) /\ Len(t) \in Nat
            /\ \A i \in 1..Len(t) : Good(t[i], Generated)
        BY <1>1, <3>2, <3>3, TopReplaced, Elements
      <3>6. stack' = Append(t, e)
        BY <2>3 DEF c
      <3> HIDE DEF t, e
      <3>7. /\ stack' \in Seq(CallType) /\ Len(stack') = Len(t) + 1
            /\ \A i \in 1..Len(t) : stack'[i] = t[i]
            /\ stack'[Len(t) + 1] = e
        BY <3>4, <3>5, <3>6, Pushed
      <3>8. \A i \in DOMAIN stack' : i \in 1..Len(t) \/ i = Len(t) + 1
        BY <3>5, <3>7
      <3>9. QED
        BY <3>4, <3>5, <3>7, <3>8
    <2>4. QED
      BY <1>2, <2>1, <2>2, <2>3
  <1>5. status' \in {"gen", "overflow"}
    BY <1>1, <1>2
  <1>6. QED
    BY <1>1, <1>4, <1>5, Kept DEF TryCandidate, TypeOK

LEMMA GiveUpKeeps == ASSUME IInv, GiveUp PROVE IInv'
  <1>1. /\ TypeOK /\ stack # <<>> /\ Generated' = Generated
        /\ stack' = Below /\ status' \in {"gen", "failed"}
    BY DEF IInv, GiveUp, AtRef, Running, Generated
  <1>2. /\ stack' \in Seq(CallType)
        /\ \A i \in DOMAIN stack' : Good(stack'[i], Generated)
    BY <1>1, BelowGood
  <1>3. QED
    BY <1>1, <1>2, Kept DEF GiveUp, TypeOK

LEMMA InitKeeps == Init => IInv
  <1> SUFFICES ASSUME Init PROVE IInv
    OBVIOUS
  <1>1. unit \in [Kinds -> Seq(Declarations)]
    BY UnitAssumption DEF Init
  <1>2. \A k \in Kinds : All(k) \in Seq(Declared)
    <2> SUFFICES ASSUME NEW k \in Kinds PROVE All(k) \in Seq(Declared)
      OBVIOUS
    <2>1. unit[k] \in Seq(Declarations)
      BY <1>1
    <2>2. Len(unit[k]) \in Nat /\ DOMAIN unit[k] = 1..Len(unit[k])
      BY <2>1, LenProperties
    <2>3. \A i \in 1..Len(unit[k]) : <<k, i>> \in Declared
      BY <2>2 DEF Declared
    <2>4. QED
      BY <2>2, <2>3, IsASeq DEF All
  <1>3. Work \in Seq(Declared)
    BY <1>2, ConcatProperties DEF Work, Kinds
  <1>4. at \in 1..(Len(Work) + 1)
    BY <1>3, LenProperties DEF Init
  <1>5. stack = <<>> /\ made = <<>> /\ meant = {} /\ reported = FALSE /\ status = "gen"
    BY DEF Init
  <1>6. TypeOK
    <2>1. stack \in Seq(CallType) /\ made \in Seq(Declared)
      BY <1>5
    <2>2. \A i \in DOMAIN stack : stack[i].pos <= Len(Refs(stack[i].decl)) + 1
      BY <1>5
    <2>3. QED
      BY <1>1, <1>4, <1>5, <2>1, <2>2 DEF TypeOK
  <1>7. ResolvedSoFar
    BY <1>5 DEF ResolvedSoFar
  <1>8. QED
    BY <1>6, <1>7 DEF IInv

LEMMA NextKeeps == IInv /\ [Next]_vars => IInv'
  <1> SUFFICES ASSUME IInv, [Next]_vars PROVE IInv'
    OBVIOUS
  <1>1. CASE Next
    BY <1>1, NextDeclarationKeeps, FinishKeeps, EmplaceKeeps, ResolveValueKeeps,
       ResolveTypeKeeps, TryCandidateKeeps, GiveUpKeeps DEF Next
  <1>2. CASE UNCHANGED vars
    <2>1. stack' = stack /\ Generated' = Generated
      BY <1>2 DEF vars, Generated
    <2>2. stack \in Seq(CallType) /\ \A i \in DOMAIN stack : Good(stack[i], Generated)
      BY DEF IInv, TypeOK, ResolvedSoFar
    <2>3. stack' \in Seq(CallType) /\ \A i \in DOMAIN stack' : Good(stack'[i], Generated')
      BY <2>1, <2>2
    <2>4. QED
      BY <1>2, <2>3, Kept DEF vars, IInv, TypeOK
  <1>3. QED
    BY <1>1, <1>2

LEMMA Invariance == Spec => []IInv
  BY InitKeeps, NextKeeps, PTL DEF Spec

\* The walk of a unit is well typed, whatever the unit.
THEOREM TypeCorrect == Spec => []TypeOK
  <1>1. IInv => TypeOK
    BY DEF IInv
  <1>2. QED
    BY <1>1, Invariance, PTL

-----------------------------------------------------------------------------
(* The refinement.                                                         *)

LEMMA EmplaceBuilds ==
  ASSUME IInv, Emplace
  PROVE  Order!Next \/ UNCHANGED <<Needs, Generated>>
  <1> DEFINE d == Top.decl
  <1>1. /\ TypeOK /\ stack # <<>> /\ Top.pos > Len(Refs(d)) /\ unit' = unit
    BY DEF IInv, Emplace, Running
  <1>2. /\ d \in Declared /\ Top.pos \in Nat \ {0}
        /\ Refs(d) \in Seq(References) /\ Len(Refs(d)) \in Nat
        /\ Good(Top, Generated)
    BY <1>1, TopTyped, StackGood DEF Top
  <1>3. Generated' = Generated \union {d}
    BY Emplaced
  <1>4. Needs' = Needs
    BY <1>1 DEF Needs, Declared, Denotes, Refs, Name, Values
  <1>5. \A k \in DOMAIN Refs(d) : Denotes(d, Refs(d)[k]) \intersect Generated # {}
    <2>1. \A k \in DOMAIN Refs(d) : k \in 1..(Top.pos - 1)
      BY <1>1, <1>2
    <2>2. QED
      BY <2>1, <1>2 DEF Good
  <1> HIDE DEF d
  <1>6. /\ d \in DOMAIN Needs
        /\ Needs[d] = {Denotes(d, Refs(d)[k]) : k \in DOMAIN Refs(d)}
    BY <1>2 DEF Needs
  <1>7. Order!Ready(d)
    BY <1>5, <1>6 DEF Order!Ready
  <1>8. CASE d \in Generated
    BY <1>3, <1>4, <1>8
  <1>9. CASE d \notin Generated
    BY <1>3, <1>4, <1>6, <1>7, <1>9 DEF Order!Next, Order!Build
  <1>10. QED
    BY <1>8, <1>9

LEMMA StepRefines ==
  IInv /\ [Next]_vars => [Order!Next]_<<Needs, Generated>>
  <1> SUFFICES ASSUME IInv, [Next]_vars
               PROVE  Order!Next \/ UNCHANGED <<Needs, Generated>>
    OBVIOUS
  <1>1. CASE Emplace
    BY <1>1, EmplaceBuilds
  <1>2. CASE unit' = unit /\ made' = made
    BY <1>2 DEF Needs, Declared, Denotes, Refs, Name, Values, Generated
  <1>3. QED
    BY <1>1, <1>2 DEF Next, vars, NextDeclaration, Finish, ResolveValue, ResolveType,
                      TryCandidate, GiveUp

\* "This is how we do a topological sort": whatever the unit, AstUnit::codegen and
\* the recursion in AstIdentType::codegen generate no declaration before everything
\* it refers to.
THEOREM GeneratesInOrder == Spec => InDependencyOrder
  <1>1. Init => Order!Init
    BY DEF Init, Order!Init, Generated
  <1>2. QED
    BY <1>1, StepRefines, Invariance, PTL DEF Spec, InDependencyOrder, Order!Spec

-----------------------------------------------------------------------------
(***************************************************************************)
(* For units of any size: nothing is generated twice, whatever recursion   *)
(* and failed candidates lie between, and a unit that is done has been     *)
(* generated whole.                                                        *)
(*                                                                         *)
(* m_generated is set after the recursion, so the same declaration may be  *)
(* on the stack more than once. That the copies do not all succeed is not  *)
(* seen from the stack alone: one must know that a candidate which failed  *)
(* fails again until the declaration that began it all is over.            *)
(***************************************************************************)

\* The types that have the name.
Named(n) == {e \in Declared : Name(e) = n /\ e[1] \in TypeKinds}

\* The reference at which a call is.
RefOf(c) == Refs(c.decl)[c.pos]

\* A call at a reference to a type of which none is in G.
Waits(c, G) ==
  /\ c.pos <= Len(Refs(c.decl))
  /\ RefOf(c).kind = "type"
  /\ Named(RefOf(c).name) \intersect G = {}

\* A call on s that has tried a candidate waits, and what it called is the candidate.
Waiting(s, G) ==
  /\ \A i \in 1..Len(s) : s[i].tried > 0 => Waits(s[i], G) /\ s[i].tried <= Len(Types)
  /\ \A i \in 1..(Len(s) - 1) :
       /\ s[i].tried > 0
       /\ Types[s[i].tried] = s[i + 1].decl
       /\ Name(s[i + 1].decl) = RefOf(s[i]).name

Apart(s, G) == \A i \in 1..Len(s) : s[i].decl \notin G

\* The walk of d can get to one of its references and not past it.
Fails(d, F, G) ==
  \E k \in 1..Len(Refs(d)) :
    /\ \A q \in 1..(k - 1) : Denotes(d, Refs(d)[q]) \intersect G # {}
    /\ IF Refs(d)[k].kind = "type"
         THEN Named(Refs(d)[k].name) \subseteq F
         ELSE Denotes(d, Refs(d)[k]) \intersect G = {}

\* The types in F fail because others in F do, or a value is missing.
Doomed(F, G) ==
  /\ F \subseteq Declared /\ F \intersect G = {}
  /\ \A f \in F : f[1] \in TypeKinds /\ Fails(f, F, G)

\* The candidates up to the n-th are in F.
Covered(c, n, F) ==
  \A x \in 1..n : x <= Len(Types) /\ Name(Types[x]) = RefOf(c).name => Types[x] \in F

\* The candidates before the one called, or up to the last one tried, have failed.
Tried(s, F) ==
  /\ \A i \in 1..(Len(s) - 1) : Covered(s[i], s[i].tried - 1, F)
  /\ s # <<>> => Covered(s[Len(s)], s[Len(s)].tried, F)

\* What a doomed call calls is doomed.
Sinks(s, F) == \A i, j \in 1..Len(s) : i <= j /\ s[i].decl \in F => s[j].decl \in F

\* Lets and functions come from the main loops only, which have gone past them.
Listed(s, G, n) ==
  \A e \in Declared :
    e[1] \notin TypeKinds /\ (e \in G \/ \E i \in 1..Len(s) : s[i].decl = e) =>
      \E x \in 1..(n - 1) : Work[x] = e

OnceInv ==
  /\ IInv /\ MadeOnce
  /\ Waiting(stack, Generated) /\ Apart(stack, Generated)
  /\ Listed(stack, Generated, at)
  /\ \E F \in SUBSET Declared :
       Doomed(F, Generated) /\ Tried(stack, F) /\ Sinks(stack, F)

\* What the main loops have gone past is generated, but for what is under way.
LeftBehind ==
  status \in {"gen", "done"} =>
    /\ \A x \in 1..(at - 1) :
         Work[x] \in Generated \/ (stack # <<>> /\ Work[x] = stack[1].decl)
    /\ status = "done" => at > Len(Work) /\ stack = <<>>

WholeInv == IInv /\ LeftBehind
-----------------------------------------------------------------------------
(* Numbers and sequences.                                                  *)

LEMMA Least ==
  ASSUME NEW S, S \subseteq Nat, S # {}
  PROVE  \E x \in S : \A y \in S : x <= y
  <1> DEFINE R == OpToRel(<, Nat)
  <1>1. IsWellFoundedOn(R, Nat)
    BY NatLessThanWellFounded
  <1>2. \A x, y \in Nat : x < y => <<x, y>> \in R
    BY DEF OpToRel
  <1> HIDE DEF R
  <1>3. PICK x \in S : \A y \in S : ~(<<y, x>> \in R)
    BY <1>1, WFMin
  <1>4. ASSUME NEW y \in S
        PROVE  x <= y
    <2>1. x \in Nat /\ y \in Nat
      OBVIOUS
    <2>2. ~(y < x)
      <3>1. ~(<<y, x>> \in R)
        BY <1>3
      <3>2. y < x => <<y, x>> \in R
        BY <1>2, <2>1
      <3>3. QED
        BY <3>1, <3>2
    <2>3. QED
      BY <2>1, <2>2
  <1>5. QED
    BY <1>4

Members(s) == {s[i] : i \in 1..Len(s)}
Distinct(s) == \A i, j \in 1..Len(s) : s[i] = s[j] => i = j

LEMMA Joined ==
  ASSUME NEW S, NEW s \in Seq(S), NEW t \in Seq(S)
  PROVE  /\ s \o t \in Seq(S) /\ Len(s \o t) = Len(s) + Len(t)
         /\ Members(s \o t) = Members(s) \union Members(t)
         /\ Distinct(s) /\ Distinct(t) /\ Members(s) \intersect Members(t) = {}
              => Distinct(s \o t)
  <1> DEFINE u == s \o t
  <1>1. /\ u \in Seq(S) /\ Len(u) = Len(s) + Len(t) /\ Len(s) \in Nat /\ Len(t) \in Nat
        /\ \A i \in 1..Len(u) : u[i] = IF i <= Len(s) THEN s[i] ELSE t[i - Len(s)]
    BY ConcatProperties
  <1>2. /\ \A i \in 1..Len(s) : i \in 1..Len(u) /\ u[i] = s[i]
        /\ \A i \in 1..Len(t) : i + Len(s) \in 1..Len(u) /\ u[i + Len(s)] = t[i]
        /\ \A i \in 1..Len(u) : i \notin 1..Len(s) => i - Len(s) \in 1..Len(t) /\ u[i] = t[i - Len(s)]
    BY <1>1
  <1> HIDE DEF u
  <1>3. Members(u) = Members(s) \union Members(t)
    <2>1. ASSUME NEW x \in Members(u)
          PROVE  x \in Members(s) \union Members(t)
      <3>1. PICK i \in 1..Len(u) : x = u[i]
        BY DEF Members
      <3>2. QED
        BY <1>2, <3>1 DEF Members
    <2>2. ASSUME NEW i \in 1..Len(s)
          PROVE  s[i] \in Members(u)
      BY <1>2 DEF Members
    <2>3. ASSUME NEW i \in 1..Len(t)
          PROVE  t[i] \in Members(u)
      <3>1. i + Len(s) \in 1..Len(u) /\ u[i + Len(s)] = t[i]
        BY <1>2
      <3> DEFINE n == i + Len(s)
      <3>2. n \in 1..Len(u) /\ u[n] = t[i]
        BY <3>1
      <3> HIDE DEF n
      <3>3. QED
        BY <3>2 DEF Members
    <2>4. Members(s) \subseteq Members(u) /\ Members(t) \subseteq Members(u)
      BY <2>2, <2>3 DEF Members
    <2>5. QED
      BY <2>1, <2>4
  <1>4. ASSUME Distinct(s), Distinct(t), Members(s) \intersect Members(t) = {}
        PROVE  Distinct(u)
    <2> SUFFICES ASSUME NEW i \in 1..Len(u), NEW j \in 1..Len(u), u[i] = u[j]
                 PROVE  i = j
      BY DEF Distinct
    <2>1. /\ i \in 1..Len(s) \/ (i - Len(s) \in 1..Len(t) /\ u[i] = t[i - Len(s)])
          /\ j \in 1..Len(s) \/ (j - Len(s) \in 1..Len(t) /\ u[j] = t[j - Len(s)])
      BY <1>2
    <2> DEFINE k == i - Len(s)
               l == j - Len(s)
    <2>2. i \in Nat /\ j \in Nat /\ (k = l => i = j)
      BY <1>1
    <2>3. /\ i \in 1..Len(s) => u[i] = s[i] /\ s[i] \in Members(s)
          /\ j \in 1..Len(s) => u[j] = s[j] /\ s[j] \in Members(s)
      BY <1>2 DEF Members
    <2>4. /\ i \notin 1..Len(s) => k \in 1..Len(t) /\ u[i] = t[k] /\ t[k] \in Members(t)
          /\ j \notin 1..Len(s) => l \in 1..Len(t) /\ u[j] = t[l] /\ t[l] \in Members(t)
      BY <2>1 DEF Members
    <2> HIDE DEF k, l
    <2>5. CASE i \in 1..Len(s) /\ j \in 1..Len(s)
      BY <2>3, <1>4, <2>5 DEF Distinct
    <2>6. CASE i \notin 1..Len(s) /\ j \notin 1..Len(s)
      BY <2>2, <2>4, <1>4, <2>6 DEF Distinct
    <2>7. CASE ~(i \in 1..Len(s) <=> j \in 1..Len(s))
      BY <2>3, <2>4, <1>4, <2>7
    <2>8. QED
      BY <2>5, <2>6, <2>7
  <1>5. QED
    BY <1>1, <1>3, <1>4 DEF u

-----------------------------------------------------------------------------
(* The orders.                                                             *)

Of(k) == {<<k, i>> : i \in DOMAIN unit[k]}

LEMMA AllAre ==
  ASSUME TypeOK, NEW k \in Kinds
  PROVE  All(k) \in Seq(Declared) /\ Members(All(k)) = Of(k) /\ Distinct(All(k))
  <1>1. unit[k] \in Seq(Declarations)
    BY DEF TypeOK
  <1>2. Len(unit[k]) \in Nat /\ DOMAIN unit[k] = 1..Len(unit[k])
    BY <1>1, LenProperties
  <1>3. Len(All(k)) = Len(unit[k]) /\ \A i \in 1..Len(unit[k]) : All(k)[i] = <<k, i>>
    BY <1>2 DEF All
  <1>4. Members(All(k)) = Of(k)
    BY <1>2, <1>3 DEF Members, Of
  <1>5. Distinct(All(k))
    BY <1>3 DEF Distinct
  <1>6. QED
    BY <1>4, <1>5, AllTyped

LEMMA Apartness == \A k, l : k # l => Of(k) \intersect Of(l) = {}
  BY DEF Of

LEMMA DeclaredIs ==
  Declared = Of("let") \union Of("typedef") \union Of("effect") \union Of("fn") \union Of("body")
  <1>1. Declared = UNION {Of(k) : k \in Kinds}
    BY DEF Declared, Of
  <1>2. QED
    BY <1>1 DEF Kinds

LEMMA Together ==
  ASSUME NEW s \in Seq(Declared), NEW t \in Seq(Declared), Distinct(s), Distinct(t),
         NEW A, NEW B, Members(s) = A, Members(t) = B, A \intersect B = {}
  PROVE  s \o t \in Seq(Declared) /\ Distinct(s \o t) /\ Members(s \o t) = A \union B
  BY Joined

LEMMA TypesAre ==
  ASSUME TypeOK
  PROVE  /\ Types \in Seq(Declared) /\ Len(Types) \in Nat
         /\ Members(Types) = Of("typedef") \union Of("effect")
         /\ Distinct(Types)
  <1>1. "typedef" \in Kinds /\ "effect" \in Kinds
    BY DEF Kinds
  <1>2. QED
    BY <1>1, AllAre, Joined, Apartness, LenProperties DEF Types

LEMMA WorkIs ==
  ASSUME TypeOK
  PROVE  /\ Work \in Seq(Declared) /\ Len(Work) \in Nat
         /\ Members(Work) = Declared
         /\ Distinct(Work)
  <1> DEFINE a == All("let")
             b == All("typedef")
             c == All("effect")
             d == All("fn")
             e == All("body")
  <1>1. /\ a \in Seq(Declared) /\ Members(a) = Of("let") /\ Distinct(a)
        /\ b \in Seq(Declared) /\ Members(b) = Of("typedef") /\ Distinct(b)
        /\ c \in Seq(Declared) /\ Members(c) = Of("effect") /\ Distinct(c)
        /\ d \in Seq(Declared) /\ Members(d) = Of("fn") /\ Distinct(d)
        /\ e \in Seq(Declared) /\ Members(e) = Of("body") /\ Distinct(e)
    BY AllAre DEF Kinds
  <1>2. Work = (((a \o b) \o c) \o d) \o e
    BY DEF Work
  <1> HIDE DEF a, b, c, d, e
  <1> DEFINE ab == a \o b
             abc == ab \o c
             abcd == abc \o d
             B == Of("let") \union Of("typedef")
             C == B \union Of("effect")
             D == C \union Of("fn")
  <1>3. /\ Of("let") \intersect Of("typedef") = {} /\ B \intersect Of("effect") = {}
        /\ C \intersect Of("fn") = {} /\ D \intersect Of("body") = {}
    BY Apartness
  <1>4. D \union Of("body") = Declared
    BY DeclaredIs
  <1> HIDE DEF B, C, D
  <1>5. ab \in Seq(Declared) /\ Distinct(ab) /\ Members(ab) = B
    BY <1>1, <1>3, Together DEF B
  <1> HIDE DEF ab
  <1>6. abc \in Seq(Declared) /\ Distinct(abc) /\ Members(abc) = C
    BY <1>1, <1>3, <1>5, Together DEF C
  <1> HIDE DEF abc
  <1>7. abcd \in Seq(Declared) /\ Distinct(abcd) /\ Members(abcd) = D
    BY <1>1, <1>3, <1>6, Together DEF D
  <1> HIDE DEF abcd
  <1>8. abcd \o e \in Seq(Declared) /\ Distinct(abcd \o e)
    BY <1>1, <1>3, <1>7, Together
  <1>9. Members(abcd \o e) = D \union Of("body")
    BY <1>1, <1>3, <1>7, Together
  <1>10. Work = abcd \o e
    BY <1>2 DEF abcd, abc, ab
  <1>11. QED
    BY <1>4, <1>8, <1>9, <1>10, LenProperties

\* The candidates for a name are those of its types, and the searches find one if there is.
LEMMA TypeAt ==
  ASSUME TypeOK, NEW x \in 1..Len(Types)
  PROVE  Types[x] \in Declared /\ Types[x][1] \in TypeKinds
  <1>1. Types[x] \in Of("typedef") \union Of("effect")
    BY TypesAre DEF Members
  <1>2. QED
    BY <1>1, DeclaredIs DEF Of, TypeKinds

LEMMA NamedAt ==
  ASSUME TypeOK, NEW n, NEW e \in Named(n)
  PROVE  \E x \in 1..Len(Types) : Types[x] = e /\ Name(Types[x]) = n
  <1>1. e \in Declared /\ e[1] \in TypeKinds /\ Name(e) = n
    BY DEF Named
  <1>2. e \in Of("typedef") \union Of("effect")
    BY <1>1, DeclaredIs DEF Of, TypeKinds
  <1>3. e \in Members(Types)
    BY <1>2, TypesAre
  <1>4. QED
    BY <1>1, <1>3 DEF Members

LEMMA FoundAny ==
  ASSUME TypeOK, NEW kind, NEW n, Found(kind, n) = {}
  PROVE  \A e \in Generated : ~(e[1] = kind /\ Name(e) = n)
  <1> DEFINE has == {i \in DOMAIN made : made[i][1] = kind /\ Name(made[i]) = n}
  <1>1. DOMAIN made = 1..Len(made) /\ Len(made) \in Nat
    BY LenProperties DEF TypeOK
  <1>2. has \subseteq Nat
    BY <1>1
  <1>3. Found(kind, n) = {made[i] : i \in {i \in has : \A j \in has : i <= j}}
    BY DEF Found
  <1>4. \A e \in Generated : e[1] = kind /\ Name(e) = n => has # {}
    BY DEF Generated
  <1> HIDE DEF has
  <1>5. has = {}
    <2> SUFFICES ASSUME has # {} PROVE FALSE
      OBVIOUS
    <2>1. PICK i \in has : \A j \in has : i <= j
      BY <1>2, Least
    <2>2. QED
      BY <1>3, <2>1
  <1>6. QED
    BY <1>4, <1>5

LEMMA LookupNone ==
  ASSUME TypeOK, NEW n, Lookup(n) = {}
  PROVE  Named(n) \intersect Generated = {}
  <1>1. Found("typedef", n) = {} /\ Found("effect", n) = {}
    BY DEF Lookup
  <1>2. QED
    BY <1>1, FoundAny DEF Named, TypeKinds

LEMMA NoneLater ==
  ASSUME TypeOK, stack # <<>>, Candidate = {}
  PROVE  \A x \in 1..Len(Types) : Name(Types[x]) = Ref.name => x <= Top.tried
  <1> DEFINE later == {k \in (Top.tried + 1)..Len(Types) : Name(Types[k]) = Ref.name}
  <1>1. Top.tried \in Nat /\ Len(Types) \in Nat
    BY TopTyped, TypesAre
  <1>2. later \subseteq Nat
    BY <1>1
  <1>3. Candidate = {k \in later : \A j \in later : k <= j}
    BY DEF Candidate
  <1>4. \A x \in 1..Len(Types) : Name(Types[x]) = Ref.name => x <= Top.tried \/ x \in later
    BY <1>1
  <1> HIDE DEF later
  <1>5. later = {}
    BY <1>2, <1>3, Least
  <1>6. QED
    BY <1>4, <1>5
-----------------------------------------------------------------------------
(* Calls of the same declaration, and doomed ones.                         *)

LEMMA DenotesType ==
  ASSUME NEW d, NEW r, r.kind = "type"
  PROVE  Denotes(d, r) = Named(r.name)
  BY DEF Denotes, Named

LEMMA CallTyped ==
  ASSUME TypeOK, NEW c \in CallType
  PROVE  /\ c.decl \in Declared /\ c.pos \in Nat \ {0} /\ c.tried \in Nat
         /\ Len(Refs(c.decl)) \in Nat
  BY DeclTyped DEF CallType

\* A call has not gone past a reference at which another of the same declaration waits.
LEMMA NotPast ==
  ASSUME TypeOK, NEW G, NEW a \in CallType, NEW b \in CallType, a.decl = b.decl,
         Good(b, G), Waits(a, G)
  PROVE  b.pos <= a.pos
  <1>1. a.pos \in Nat \ {0} /\ b.pos \in Nat \ {0}
    BY CallTyped
  <1>2. Denotes(b.decl, Refs(b.decl)[a.pos]) \intersect G = {}
    BY DenotesType DEF Waits, RefOf
  <1>3. a.pos \notin 1..(b.pos - 1)
    BY <1>2 DEF Good
  <1>4. QED
    BY <1>1, <1>3

\* A call that has gone past all its references is of no doomed declaration.
LEMMA CompleteIsNotDoomed ==
  ASSUME TypeOK, NEW G, NEW F, Doomed(F, G), NEW c \in CallType, Good(c, G),
         c.pos > Len(Refs(c.decl))
  PROVE  c.decl \notin F
  <1> SUFFICES ASSUME c.decl \in F PROVE FALSE
    OBVIOUS
  <1> DEFINE refs == Refs(c.decl)
  <1>1. PICK k \in 1..Len(refs) :
          IF refs[k].kind = "type" THEN Named(refs[k].name) \subseteq F
                                   ELSE Denotes(c.decl, refs[k]) \intersect G = {}
    BY DEF Doomed, Fails
  <1>2. k \in 1..(c.pos - 1)
    BY CallTyped
  <1>3. Denotes(c.decl, refs[k]) \intersect G # {}
    BY <1>2 DEF Good
  <1>4. QED
    BY <1>1, <1>3, DenotesType DEF Doomed

\* A doomed call that waits, waits for what is doomed.
LEMMA DoomedWaits ==
  ASSUME TypeOK, NEW G, NEW F, Doomed(F, G), NEW c \in CallType, Good(c, G), Waits(c, G),
         c.decl \in F
  PROVE  Named(RefOf(c).name) \subseteq F
  <1> DEFINE refs == Refs(c.decl)
  <1>1. PICK k \in 1..Len(refs) :
          /\ \A q \in 1..(k - 1) : Denotes(c.decl, refs[q]) \intersect G # {}
          /\ IF refs[k].kind = "type" THEN Named(refs[k].name) \subseteq F
                                      ELSE Denotes(c.decl, refs[k]) \intersect G = {}
    BY DEF Doomed, Fails
  <1>2. k \in Nat /\ c.pos \in Nat \ {0} /\ Len(refs) \in Nat
    BY CallTyped
  <1>3. Denotes(c.decl, refs[c.pos]) \intersect G = {}
    BY DenotesType DEF Waits, RefOf
  <1>4. c.pos \notin 1..(k - 1)
    BY <1>1, <1>3
  <1>5. k \notin 1..(c.pos - 1)
    <2> SUFFICES ASSUME k \in 1..(c.pos - 1) PROVE FALSE
      OBVIOUS
    <2>1. Denotes(c.decl, refs[k]) \intersect G # {}
      BY DEF Good
    <2>2. QED
      BY <1>1, <2>1, DenotesType DEF Doomed
  <1>6. k = c.pos
    BY <1>2, <1>4, <1>5
  <1>7. QED
    BY <1>1, <1>6 DEF RefOf, Waits

\* What is doomed stays so when another type is generated.
LEMMA DoomedStays ==
  ASSUME NEW G, NEW F, Doomed(F, G), NEW d, d[1] \in TypeKinds, d \notin F
  PROVE  Doomed(F, G \union {d})
  <1> DEFINE H == G \union {d}
  <1>1. ASSUME NEW f \in F
        PROVE  Fails(f, F, H)
    <2>1. PICK k \in 1..Len(Refs(f)) :
            /\ \A q \in 1..(k - 1) : Denotes(f, Refs(f)[q]) \intersect G # {}
            /\ IF Refs(f)[k].kind = "type" THEN Named(Refs(f)[k].name) \subseteq F
                                           ELSE Denotes(f, Refs(f)[k]) \intersect G = {}
      BY DEF Doomed, Fails
    <2>2. \A q \in 1..(k - 1) : Denotes(f, Refs(f)[q]) \intersect H # {}
      BY <2>1
    <2>3. f[1] \in TypeKinds
      BY DEF Doomed
    <2>4. Values(f) = {"let"}
      BY <2>3 DEF Values, TypeKinds
    <2>5. Refs(f)[k].kind # "type" => d \notin Denotes(f, Refs(f)[k])
      BY <2>4 DEF Denotes, TypeKinds
    <2>6. QED
      BY <2>1, <2>2, <2>5 DEF Fails
  <1>2. QED
    BY <1>1 DEF Doomed

\* A call that is given up dooms its declaration.
LEMMA DoomedGrows ==
  ASSUME TypeOK, NEW G, NEW F, Doomed(F, G), NEW c \in CallType, Good(c, G),
         c.decl[1] \in TypeKinds, c.decl \notin G, c.pos <= Len(Refs(c.decl)),
         IF RefOf(c).kind = "type" THEN Named(RefOf(c).name) \subseteq F
                                   ELSE Denotes(c.decl, RefOf(c)) \intersect G = {}
  PROVE  Doomed(F \union {c.decl}, G)
  <1> DEFINE H == F \union {c.decl}
  <1>1. c.decl \in Declared /\ c.pos \in 1..Len(Refs(c.decl))
    BY CallTyped
  <1>2. ASSUME NEW f \in F
        PROVE  Fails(f, H, G)
    BY DEF Doomed, Fails
  <1>3. Fails(c.decl, H, G)
    BY <1>1 DEF Fails, RefOf, Good
  <1>4. QED
    BY <1>1, <1>2, <1>3 DEF Doomed

-----------------------------------------------------------------------------
(* The invariant, after a step.                                            *)

LEMMA OnceAfter ==
  ASSUME unit' = unit, IInv', MadeOnce',
         Waiting(stack', Generated'), Apart(stack', Generated'),
         Listed(stack', Generated', at'),
         NEW F, Doomed(F, Generated'), Tried(stack', F), Sinks(stack', F)
  PROVE  OnceInv'
  <1>1. /\ Declared' = Declared /\ Types' = Types /\ Work' = Work
        /\ \A d : Name(d)' = Name(d) /\ Refs(d)' = Refs(d)
    BY DEF Declared, Types, Work, All, Name, Refs
  <1>2. F \in SUBSET Declared
    BY DEF Doomed
  <1>3. /\ Waiting(stack, Generated)' /\ Apart(stack, Generated)' /\ Listed(stack, Generated, at)'
    BY <1>1 DEF Waiting, Waits, RefOf, Named, Apart, Listed, Name, Refs
  <1>4. Tried(stack, F)' /\ Sinks(stack, F)'
    BY <1>1 DEF Tried, Covered, RefOf, Sinks, Name, Refs
  <1>5. Doomed(F, Generated)'
    <2>1. \A n : Named(n)' = Named(n)
      BY <1>1 DEF Named, Name
    <2>2. \A d, r : Denotes(d, r)' = Denotes(d, r)
      BY <1>1 DEF Denotes, Values, Name
    <2>3. ASSUME NEW f \in F
          PROVE  Fails(f, F, Generated)'
      <3>1. Fails(f, F, Generated')
        BY DEF Doomed
      <3>2. Refs(f)' = Refs(f)
        BY <1>1
      <3>3. QED
        BY <2>1, <2>2, <3>1, <3>2 DEF Fails
    <2>4. QED
      BY <1>1, <2>3 DEF Doomed
  <1>6. QED
    BY <1>1, <1>2, <1>3, <1>4, <1>5 DEF OnceInv

\* Nothing is on the stack.
LEMMA OnceAfterAll ==
  ASSUME unit' = unit, IInv', MadeOnce', stack' = <<>>, Listed(stack', Generated', at')
  PROVE  OnceInv'
  <1>1. Waiting(stack', Generated') /\ Apart(stack', Generated')
    BY DEF Waiting, Apart
  <1>2. Doomed({}, Generated') /\ Tried(stack', {}) /\ Sinks(stack', {})
    BY DEF Doomed, Tried, Sinks
  <1>3. QED
    BY <1>1, <1>2, OnceAfter

LEMMA UnitStays == [Next]_vars => unit' = unit
  BY DEF Next, vars, NextDeclaration, Finish, Emplace, ResolveValue, ResolveType,
         TryCandidate, GiveUp
-----------------------------------------------------------------------------
(* Every action keeps it.                                                  *)

LEMMA Frames ==
  ASSUME OnceInv
  PROVE  /\ TypeOK /\ stack \in Seq(CallType) /\ Len(stack) \in Nat
         /\ \A i \in 1..Len(stack) :
              /\ stack[i] \in CallType /\ Good(stack[i], Generated)
              /\ stack[i].decl \in Declared
              /\ stack[i].pos \in Nat \ {0} /\ stack[i].tried \in Nat
              /\ Len(Refs(stack[i].decl)) \in Nat
  <1>1. TypeOK /\ stack \in Seq(CallType) /\ Len(stack) \in Nat
    BY StackGood, LenProperties DEF OnceInv
  <1>2. \A i \in 1..Len(stack) : stack[i] \in CallType /\ Good(stack[i], Generated)
    BY StackGood DEF OnceInv
  <1>3. QED
    BY <1>1, <1>2, CallTyped

\* A call that has called another.
LEMMA Caller ==
  ASSUME OnceInv, NEW i \in 1..(Len(stack) - 1)
  PROVE  /\ i \in 1..Len(stack) /\ i + 1 \in 1..Len(stack)
         /\ stack[i].tried \in 1..Len(Types)
         /\ Waits(stack[i], Generated)
         /\ stack[i + 1].decl = Types[stack[i].tried]
         /\ stack[i + 1].decl \in Named(RefOf(stack[i]).name)
         /\ stack[i + 1].decl[1] \in TypeKinds
  <1>1. i \in 1..Len(stack) /\ i + 1 \in 1..Len(stack) /\ Len(stack) \in Nat
    BY Frames
  <1>2. /\ stack[i].tried > 0 /\ stack[i].tried <= Len(Types) /\ Waits(stack[i], Generated)
        /\ Types[stack[i].tried] = stack[i + 1].decl
        /\ Name(stack[i + 1].decl) = RefOf(stack[i]).name
    BY <1>1 DEF OnceInv, Waiting
  <1>3. stack[i].tried \in 1..Len(Types)
    BY <1>1, <1>2, Frames, TypesAre
  <1>4. QED
    BY <1>1, <1>2, <1>3, TypeAt, Frames DEF Named

LEMMA OnceNextDeclaration == ASSUME OnceInv, NextDeclaration PROVE OnceInv'
  <1>1. /\ TypeOK /\ unit' = unit /\ made' = made /\ Generated' = Generated
        /\ stack = <<>> /\ at' = at + 1 /\ at \in 1..Len(Work) /\ Len(Work) \in Nat
    BY Frames, WorkIs DEF NextDeclaration, Generated, TypeOK
  <1>2. IInv' /\ MadeOnce'
    BY <1>1, NextKeeps DEF OnceInv, MadeOnce, Next
  <1> DEFINE d == Work[at]
  <1>3. d \in Declared
    BY <1>1, WorkIs DEF Members
  <1>4. \A e \in Declared : e[1] \notin TypeKinds /\ e \in Generated =>
          \E x \in 1..(at - 1) : Work[x] = e
    BY DEF OnceInv, Listed
  <1>5. \A x \in 1..(at - 1) : x \in 1..(at' - 1)
    BY <1>1
  <1>6. CASE stack' = <<>>
    <2>1. Listed(stack', Generated', at')
      BY <1>1, <1>4, <1>5, <1>6 DEF Listed
    <2>2. QED
      BY <1>1, <1>2, <1>6, <2>1, OnceAfterAll
  <1>7. CASE stack' # <<>>
    <2> DEFINE c == Call(d)
    <2>1. stack' = <<c>> /\ ~(d[1] \in TypeKinds /\ d \in Generated)
      BY <1>7 DEF NextDeclaration
    <2>2. c.decl = d /\ c.tried = 0 /\ c.pos = 1
      BY DEF Call
    <2>3. d \notin Generated
      <3>1. ASSUME d \in Generated PROVE FALSE
        <4>1. PICK x \in 1..(at - 1) : Work[x] = d
          BY <1>3, <1>4, <2>1, <3>1
        <4>2. x \in 1..Len(Work) /\ x # at
          BY <1>1
        <4>3. QED
          BY <1>1, <4>1, <4>2, WorkIs DEF Distinct
      <3>2. QED
        BY <3>1
    <2> HIDE DEF c
    <2>4. Len(stack') = 1 /\ stack'[1] = c /\ 1..Len(stack') = {1}
      BY <2>1
    <2>5. Waiting(stack', Generated') /\ Apart(stack', Generated')
      BY <1>1, <2>2, <2>3, <2>4 DEF Waiting, Apart
    <2>6. at \in 1..(at' - 1)
      BY <1>1
    <2>7. Listed(stack', Generated', at')
      BY <1>1, <1>4, <1>5, <2>2, <2>4, <2>6 DEF Listed
    <2>8. Doomed({}, Generated') /\ Sinks(stack', {})
      BY DEF Doomed, Sinks
    <2>9. Tried(stack', {})
      BY <2>2, <2>4 DEF Tried, Covered
    <2>10. QED
      BY <1>1, <1>2, <2>5, <2>7, <2>8, <2>9, OnceAfter
  <1>8. QED
    BY <1>6, <1>7

LEMMA OnceFinish == ASSUME OnceInv, Finish PROVE OnceInv'
  <1>1. /\ unit' = unit /\ made' = made /\ Generated' = Generated /\ at' = at
        /\ stack' = <<>> /\ stack' = stack
    BY DEF Finish, Generated
  <1>2. IInv' /\ MadeOnce' /\ Listed(stack', Generated', at')
    BY <1>1, NextKeeps DEF OnceInv, MadeOnce, Next
  <1>3. QED
    BY <1>1, <1>2, OnceAfterAll

LEMMA Advance ==
  ASSUME OnceInv, stack # <<>>, NextRef, unit' = unit, made' = made, at' = at, IInv'
  PROVE  OnceInv'
  <1> DEFINE L == Len(stack)
             c == [Call(Top.decl) EXCEPT !.pos = Top.pos + 1]
  <1>1. L \in Nat \ {0} /\ stack \in Seq(CallType) /\ Top = stack[L] /\ Top \in CallType
    BY Frames, TopTyped DEF Top
  <1>2. c \in CallType /\ c.decl = stack[L].decl /\ c.tried = 0
    BY <1>1, CallTyped, Frames DEF Call, CallType
  <1>3. stack' = [stack EXCEPT ![L] = c]
    BY DEF NextRef, WithTop
  <1> HIDE DEF c
  <1>4. /\ Len(stack') = L /\ stack'[L] = c
        /\ \A i \in 1..(L - 1) : stack'[i] = stack[i]
    BY <1>1, <1>2, <1>3, Replaced
  <1>5. \A i \in 1..L : i = L \/ i \in 1..(L - 1)
    BY <1>1
  <1>6. \A i \in 1..L : stack'[i].decl = stack[i].decl
    BY <1>2, <1>4, <1>5
  <1>7. Generated' = Generated /\ MadeOnce'
    BY DEF OnceInv, Generated, MadeOnce
  <1>8. PICK F : Doomed(F, Generated) /\ Tried(stack, F) /\ Sinks(stack, F)
    BY DEF OnceInv
  <1>9. \A i \in 1..(L - 1) : i \in 1..L /\ i + 1 \in 1..L
    BY <1>1
  <1> HIDE DEF L
  <1>10. Waiting(stack, Generated)
    BY DEF OnceInv
  <1>11. Waiting(stack', Generated')
    <2>1. ASSUME NEW i \in 1..L, stack'[i].tried > 0
          PROVE  Waits(stack'[i], Generated) /\ stack'[i].tried <= Len(Types)
      <3>1. i \in 1..(L - 1)
        BY <1>2, <1>4, <1>5, <2>1
      <3>2. stack'[i] = stack[i]
        BY <1>4, <3>1
      <3>3. QED
        BY <1>10, <2>1, <3>2 DEF Waiting, L
    <2>2. ASSUME NEW i \in 1..(L - 1)
          PROVE  /\ stack'[i].tried > 0
                 /\ Types[stack'[i].tried] = stack'[i + 1].decl
                 /\ Name(stack'[i + 1].decl) = RefOf(stack'[i]).name
      <3>1. stack'[i] = stack[i] /\ stack'[i + 1].decl = stack[i + 1].decl
        BY <1>4, <1>6, <1>9
      <3>2. QED
        BY <1>10, <3>1 DEF Waiting, L
    <2>3. QED
      BY <1>4, <1>7, <2>1, <2>2 DEF Waiting
  <1>12. Apart(stack', Generated')
    BY <1>4, <1>6, <1>7 DEF OnceInv, Apart, L
  <1>13. Listed(stack', Generated', at')
    BY <1>4, <1>6, <1>7 DEF OnceInv, Listed, L
  <1>14. Tried(stack', F)
    BY <1>2, <1>4, <1>8 DEF Tried, Covered, L
  <1>15. Sinks(stack', F)
    BY <1>4, <1>6, <1>8 DEF Sinks, L
  <1>16. QED
    BY <1>7, <1>8, <1>11, <1>12, <1>13, <1>14, <1>15, OnceAfter

LEMMA OnceResolve == ASSUME OnceInv, ResolveValue \/ ResolveType PROVE OnceInv'
  <1>1. /\ stack # <<>> /\ NextRef /\ unit' = unit /\ made' = made /\ at' = at
    BY DEF ResolveValue, ResolveType, AtRef, Running
  <1>2. IInv'
    BY NextKeeps DEF OnceInv, Next
  <1>3. QED
    BY <1>1, <1>2, Advance

LEMMA OnceTryCandidate == ASSUME OnceInv, TryCandidate PROVE OnceInv'
  <1> DEFINE L == Len(stack)
  <1>1. /\ TypeOK /\ stack # <<>> /\ unit' = unit /\ made' = made /\ at' = at
        /\ Generated' = Generated
    BY Frames DEF TryCandidate, AtRef, Running, Generated
  <1>2. /\ L \in Nat \ {0} /\ L \in 1..L /\ stack \in Seq(CallType) /\ Top = stack[L]
        /\ Top \in CallType /\ Top.tried \in Nat /\ Len(Types) \in Nat
    BY <1>1, Frames, TopTyped, TypesAre DEF Top
  <1>3. /\ Top.pos <= Len(Refs(Top.decl)) /\ Ref.kind = "type" /\ RefOf(Top) = Ref
        /\ Top.tried = 0 => Lookup(Ref.name) = {}
    BY DEF TryCandidate, AtRef, Ref, RefOf
  <1>4. Waits(Top, Generated)
    <2>1. CASE Top.tried = 0
      BY <1>1, <1>3, <2>1, LookupNone DEF Waits
    <2>2. CASE Top.tried > 0
      BY <1>2, <2>2 DEF OnceInv, Waiting
    <2>3. QED
      BY <1>2, <2>1, <2>2
  <1>5. PICK k \in Candidate :
          IF Types[k] \in Generated
            THEN stack' = LookAgain(stack) /\ UNCHANGED status
            ELSE IF L = StackLimit
                   THEN status' = "overflow" /\ UNCHANGED stack
                   ELSE /\ stack' = Append(WithTop([Top EXCEPT !.tried = k]), Call(Types[k]))
                        /\ UNCHANGED status
    BY DEF TryCandidate
  <1> DEFINE e == Types[k]
  <1>6. /\ k \in (Top.tried + 1)..Len(Types) /\ Name(e) = Ref.name
        /\ \A j \in (Top.tried + 1)..Len(Types) : Name(Types[j]) = Ref.name => k <= j
    BY DEF Candidate
  <1>7. k \in 1..Len(Types) /\ k > 0 /\ k <= Len(Types) /\ k \in Nat
    BY <1>2, <1>6
  <1>8. e \in Named(Ref.name) /\ e \in Declared /\ e[1] \in TypeKinds
    BY <1>1, <1>6, <1>7, TypeAt DEF Named
  <1>9. e \notin Generated
    BY <1>3, <1>4, <1>8 DEF Waits
  <1>10. IInv' /\ MadeOnce'
    BY <1>1, NextKeeps DEF OnceInv, Next, MadeOnce
  <1>11. PICK F : Doomed(F, Generated) /\ Tried(stack, F) /\ Sinks(stack, F)
    BY DEF OnceInv
  <1>12. CASE stack' = stack
    BY <1>1, <1>10, <1>11, <1>12, OnceAfter DEF OnceInv
  <1>13. CASE stack' = Append(WithTop([Top EXCEPT !.tried = k]), Call(e))
    <2> DEFINE c == [Top EXCEPT !.tried = k]
               n == Call(e)
               t == [stack EXCEPT ![L] = c]
    <2>1. c \in CallType /\ c.decl = Top.decl /\ c.pos = Top.pos /\ c.tried = k
      BY <1>2, <1>7 DEF CallType
    <2>2. n \in CallType /\ n.decl = e /\ n.tried = 0
      BY <1>8 DEF Call, CallType
    <2> HIDE DEF c, n, e
    <2>3. /\ t \in Seq(CallType) /\ Len(t) = L /\ t[L] = c
          /\ \A i \in 1..(L - 1) : t[i] = stack[i]
      BY <1>2, <2>1, Replaced
    <2>4. stack' = Append(t, n)
      BY <1>13 DEF WithTop, c, n
    <2> HIDE DEF t
    <2>5. /\ Len(stack') = L + 1 /\ stack'[L + 1] = n
          /\ \A i \in 1..L : stack'[i] = t[i]
      BY <2>2, <2>3, <2>4, Pushed
    <2>6. /\ \A i \in 1..(L - 1) : i \in 1..L /\ i + 1 \in 1..L /\ stack'[i] = stack[i]
          /\ stack'[L] = c
          /\ \A i \in 1..(L + 1) : i = L + 1 \/ i \in 1..L
          /\ \A i \in 1..L : i = L \/ i \in 1..(L - 1)
          /\ Len(stack') - 1 = L
      BY <1>2, <2>3, <2>5
    <2>7. \A i \in 1..L : stack'[i].decl = stack[i].decl
      BY <1>2, <2>1, <2>6
    <2>8. RefOf(c) = Ref /\ Waits(c, Generated)
      BY <1>3, <1>4, <2>1 DEF RefOf, Waits
    <2> HIDE DEF L
    <2>9. Waiting(stack', Generated')
      <3>1. ASSUME NEW i \in 1..(L + 1), stack'[i].tried > 0
            PROVE  Waits(stack'[i], Generated) /\ stack'[i].tried <= Len(Types)
        <4>1. CASE i = L + 1
          BY <2>2, <2>5, <3>1, <4>1
        <4>2. CASE i = L
          BY <1>7, <2>1, <2>6, <2>8, <4>2
        <4>3. CASE i \in 1..(L - 1)
          BY <2>6, <3>1, <4>3 DEF OnceInv, Waiting, L
        <4>4. QED
          BY <2>6, <4>1, <4>2, <4>3
      <3>2. ASSUME NEW i \in 1..L
            PROVE  /\ stack'[i].tried > 0
                   /\ Types[stack'[i].tried] = stack'[i + 1].decl
                   /\ Name(stack'[i + 1].decl) = RefOf(stack'[i]).name
        <4>1. CASE i = L
          BY <1>6, <1>7, <2>1, <2>2, <2>5, <2>6, <2>8, <4>1 DEF e
        <4>2. CASE i \in 1..(L - 1)
          <5>1. stack'[i] = stack[i] /\ stack'[i + 1].decl = stack[i + 1].decl
            BY <2>6, <2>7, <4>2
          <5>2. QED
            BY <4>2, <5>1 DEF OnceInv, Waiting, L
        <4>3. QED
          BY <2>6, <4>1, <4>2
      <3>3. QED
        BY <1>1, <2>5, <2>6, <3>1, <3>2 DEF Waiting
    <2>10. Apart(stack', Generated')
      <3>1. \A i \in 1..L : stack'[i].decl \notin Generated
        BY <2>7 DEF OnceInv, Apart, L
      <3>2. stack'[L + 1].decl \notin Generated
        BY <1>9, <2>2, <2>5 DEF e
      <3>3. QED
        BY <1>1, <2>5, <2>6, <3>1, <3>2 DEF Apart
    <2>11. Listed(stack', Generated', at')
      <3>1. ASSUME NEW d \in Declared, d[1] \notin TypeKinds,
                   NEW i \in 1..(L + 1), stack'[i].decl = d
            PROVE  \E j \in 1..L : stack[j].decl = d
        <4>1. i # L + 1
          BY <1>8, <2>2, <2>5, <3>1 DEF e
        <4>2. QED
          BY <2>6, <2>7, <3>1, <4>1
      <3>2. QED
        BY <1>1, <2>5, <3>1 DEF OnceInv, Listed, L
    <2>12. Tried(stack', F)
      <3>1. ASSUME NEW i \in 1..L
            PROVE  Covered(stack'[i], stack'[i].tried - 1, F)
        <4>1. CASE i \in 1..(L - 1)
          BY <1>11, <2>6, <4>1 DEF Tried, L
        <4>2. CASE i = L
          <5>1. Covered(Top, Top.tried, F)
            BY <1>1, <1>2, <1>11 DEF Tried, L
          <5>2. ASSUME NEW x \in 1..(k - 1), x <= Len(Types), Name(Types[x]) = Ref.name
                PROVE  Types[x] \in F
            <6>1. x \in 1..Top.tried
              BY <1>2, <1>6, <1>7, <5>2
            <6>2. QED
              BY <1>3, <5>1, <5>2, <6>1 DEF Covered
          <5>3. QED
            BY <2>1, <2>6, <2>8, <4>2, <5>2 DEF Covered
        <4>3. QED
          BY <2>6, <4>1, <4>2
      <3>2. Covered(stack'[L + 1], stack'[L + 1].tried, F)
        BY <2>2, <2>5 DEF Covered
      <3>3. QED
        BY <2>5, <2>6, <3>1, <3>2 DEF Tried
    <2>13. Sinks(stack', F)
      <3>1. ASSUME NEW i \in 1..L, stack[i].decl \in F
            PROVE  e \in F
        <4>1. i <= L
          BY <1>2
        <4>2. Top.decl \in F
          BY <1>2, <1>11, <3>1, <4>1 DEF Sinks, L
        <4>3. Good(Top, Generated)
          BY <1>2, Frames DEF L
        <4>4. QED
          BY <1>1, <1>2, <1>3, <1>4, <1>8, <1>11, <4>2, <4>3, DoomedWaits DEF e
      <3>2. ASSUME NEW i \in 1..(L + 1), NEW j \in 1..(L + 1), i <= j, stack'[i].decl \in F
            PROVE  stack'[j].decl \in F
        <4>1. CASE i = L + 1
          <5>1. j = L + 1
            BY <1>2, <3>2, <4>1
          <5>2. QED
            BY <3>2, <4>1, <5>1
        <4>2. CASE i \in 1..L /\ j = L + 1
          BY <2>2, <2>5, <2>7, <3>1, <3>2, <4>2
        <4>3. CASE i \in 1..L /\ j \in 1..L
          BY <1>11, <2>7, <3>2, <4>3 DEF Sinks, L
        <4>4. QED
          BY <2>6, <4>1, <4>2, <4>3
      <3>3. QED
        BY <2>5, <3>2 DEF Sinks
    <2>14. QED
      BY <1>1, <1>10, <1>11, <2>9, <2>10, <2>11, <2>12, <2>13, OnceAfter
  <1>14. QED
    BY <1>5, <1>9, <1>12, <1>13
\* The calls below the running one.
LEMMA BelowKeeps ==
  ASSUME OnceInv, stack # <<>>
  PROVE  /\ Len(stack) - 1 \in Nat /\ Len(Below) = Len(stack) - 1
         /\ \A i \in 1..(Len(stack) - 1) : Below[i] = stack[i]
         /\ Waiting(Below, Generated) /\ Apart(Below, Generated)
         /\ Listed(Below, Generated, at)
  <1> DEFINE N == Len(stack) - 1
             t == Below
  <1>1. /\ N \in Nat /\ Len(t) = N /\ \A i \in 1..N : t[i] = stack[i]
    BY Frames, Popped DEF Below
  <1>2. /\ \A i \in 1..N : i \in 1..Len(stack)
        /\ \A i \in 1..(N - 1) : i \in 1..N /\ i + 1 \in 1..N /\ i \in 1..(Len(stack) - 1)
    BY <1>1, Frames
  <1> HIDE DEF N, t
  <1>3. Waiting(t, Generated)
    <2>1. ASSUME NEW i \in 1..N, t[i].tried > 0
          PROVE  Waits(t[i], Generated) /\ t[i].tried <= Len(Types)
      BY <1>1, <1>2, <2>1 DEF OnceInv, Waiting
    <2>2. ASSUME NEW i \in 1..(N - 1)
          PROVE  /\ t[i].tried > 0 /\ Types[t[i].tried] = t[i + 1].decl
                 /\ Name(t[i + 1].decl) = RefOf(t[i]).name
      <3>1. t[i] = stack[i] /\ t[i + 1] = stack[i + 1]
        BY <1>1, <1>2
      <3>2. QED
        BY <1>2, <3>1 DEF OnceInv, Waiting
    <2>3. QED
      BY <1>1, <2>1, <2>2 DEF Waiting
  <1>4. Apart(t, Generated) /\ Listed(t, Generated, at)
    BY <1>1, <1>2 DEF OnceInv, Apart, Listed
  <1>5. QED
    BY <1>1, <1>3, <1>4 DEF N, t

LEMMA OnceGiveUp == ASSUME OnceInv, GiveUp PROVE OnceInv'
  <1> DEFINE L == Len(stack)
             N == L - 1
             d == Top.decl
  <1>1. /\ TypeOK /\ stack # <<>> /\ unit' = unit /\ made' = made /\ at' = at
        /\ Generated' = Generated /\ stack' = Below
    BY Frames DEF GiveUp, AtRef, Running, Generated
  <1>2. IInv' /\ MadeOnce'
    BY <1>1, NextKeeps DEF OnceInv, Next, MadeOnce
  <1>3. /\ Waiting(stack', Generated') /\ Apart(stack', Generated')
        /\ Listed(stack', Generated', at')
    BY <1>1, BelowKeeps
  <1>4. /\ N \in Nat /\ Len(stack') = N /\ L = N + 1
        /\ \A i \in 1..N : stack'[i] = stack[i]
    BY <1>1, BelowKeeps
  <1>5. CASE N = 0
    <2>1. stack' = <<>>
      <3>1. stack' \in Seq(CallType)
        BY <1>1, Frames, Popped DEF Below
      <3>2. QED
        BY <1>4, <1>5, <3>1, EmptySeq
    <2>2. QED
      BY <1>1, <1>2, <1>3, <2>1, OnceAfterAll
  <1>6. CASE N # 0
    <2>1. /\ N \in 1..(L - 1) /\ L \in 1..L /\ Top = stack[L] /\ N + 1 = L
          /\ \A i \in 1..N : i \in 1..L /\ i \in 1..(L - 1) /\ i + 1 \in 1..L /\ i + 1 <= L
      BY <1>4, <1>6 DEF Top
    <2> HIDE DEF L, N
    <2>2. /\ Top \in CallType /\ Good(Top, Generated) /\ Top.pos \in Nat \ {0}
          /\ Top.tried \in Nat /\ d \in Declared /\ d \notin Generated
      BY <2>1, Frames DEF OnceInv, Apart, L
    <2>3. d[1] \in TypeKinds /\ d = Types[stack[N].tried] /\ stack[N].tried \in Nat
      BY <2>1, Caller DEF L
    <2>4. PICK F : Doomed(F, Generated) /\ Tried(stack, F) /\ Sinks(stack, F)
      BY DEF OnceInv
    <2>5. Top.pos <= Len(Refs(d)) /\ RefOf(Top) = Ref
      BY DEF GiveUp, AtRef, Ref, RefOf
    <2>6. \/ Ref.kind = "value" /\ Denotes(d, Ref) \intersect Generated = {}
          \/ /\ Ref.kind = "type" /\ Named(Ref.name) \intersect Generated = {}
             /\ Named(Ref.name) \subseteq F
      <3>1. CASE /\ AtRef("value")
                 /\ ~ \E e \in Generated : e[1] \in Values(Top.decl) /\ Name(e) = Ref.name
        BY <3>1 DEF AtRef, Denotes
      <3>2. CASE /\ AtRef("type") /\ Candidate = {}
                 /\ Top.tried = 0 => Lookup(Ref.name) = {}
        <4>1. Named(Ref.name) \intersect Generated = {}
          <5>1. CASE Top.tried = 0
            BY <1>1, <3>2, <5>1, LookupNone
          <5>2. CASE Top.tried > 0
            BY <2>1, <2>5, <5>2 DEF OnceInv, Waiting, Waits, L
          <5>3. QED
            BY <2>2, <5>1, <5>2
        <4>2. Covered(Top, Top.tried, F)
          BY <1>1, <2>1, <2>4 DEF Tried, L
        <4>3. ASSUME NEW e \in Named(Ref.name)
              PROVE  e \in F
          <5>1. PICK x \in 1..Len(Types) : Types[x] = e /\ Name(Types[x]) = Ref.name
            BY <1>1, NamedAt
          <5>2. x <= Top.tried
            BY <1>1, <3>2, <5>1, NoneLater
          <5>3. x \in 1..Top.tried /\ x <= Len(Types)
            BY <1>1, <2>2, <5>2, TypesAre
          <5>4. QED
            BY <2>5, <4>2, <5>1, <5>3 DEF Covered
        <4>4. QED
          BY <3>2, <4>1, <4>3 DEF AtRef
      <3>3. QED
        BY <3>1, <3>2 DEF GiveUp
    <2>7. Doomed(F \union {d}, Generated)
      BY <1>1, <2>2, <2>3, <2>4, <2>5, <2>6, DoomedGrows
    <2>8. ASSUME NEW i \in 1..N, stack[i].decl = d
          PROVE  d \in F
      <3>1. /\ Waits(stack[i], Generated) /\ stack[i + 1].decl \in Named(RefOf(stack[i]).name)
            /\ stack[i] \in CallType /\ Good(stack[i], Generated)
            /\ stack[i].pos \in Nat \ {0}
        BY <2>1, Caller, Frames DEF L
      <3>2. Top.pos <= stack[i].pos
        BY <1>1, <2>2, <2>8, <3>1, NotPast
      <3>3. Denotes(d, Ref) \intersect Generated = {} /\ Ref = Refs(d)[Top.pos]
        BY <2>6, DenotesType DEF Ref
      <3>4. Top.pos \notin 1..(stack[i].pos - 1)
        BY <2>8, <3>1, <3>3 DEF Good
      <3>5. stack[i].pos = Top.pos
        BY <2>2, <3>1, <3>2, <3>4
      <3>6. RefOf(stack[i]) = Ref
        BY <2>8, <3>5 DEF RefOf, Ref
      <3>7. stack[i + 1].decl \in F
        BY <2>6, <3>1, <3>6 DEF Waits
      <3>8. QED
        BY <2>1, <2>4, <3>7 DEF Sinks, L
    <2> DEFINE H == F \union {d}
    <2>9. Sinks(stack', H)
      <3>1. ASSUME NEW i \in 1..N, NEW j \in 1..N, i <= j, stack[i].decl \in H
            PROVE  stack[j].decl \in H
        BY <2>1, <2>4, <2>8, <3>1 DEF Sinks, L
      <3>2. QED
        BY <1>4, <3>1 DEF Sinks
    <2>10. Tried(stack', H)
      <3>1. ASSUME NEW i \in 1..(N - 1)
            PROVE  Covered(stack'[i], stack'[i].tried - 1, H)
        <4>1. i \in 1..N /\ i \in 1..(L - 1)
          BY <1>4, <2>1
        <4>2. QED
          BY <1>4, <2>4, <4>1 DEF Tried, Covered, L
      <3>2. Covered(stack[N], stack[N].tried, H)
        <4>1. Covered(stack[N], stack[N].tried - 1, F)
          BY <2>1, <2>4 DEF Tried, L
        <4>2. \A x \in 1..stack[N].tried : x = stack[N].tried \/ x \in 1..(stack[N].tried - 1)
          BY <2>3
        <4>3. QED
          BY <2>3, <4>1, <4>2 DEF Covered
      <3>3. N \in 1..N
        BY <1>4, <1>6
      <3>4. QED
        BY <1>4, <3>1, <3>2, <3>3 DEF Tried
    <2>11. QED
      BY <1>1, <1>2, <1>3, <2>7, <2>9, <2>10, OnceAfter
  <1>7. QED
    BY <1>5, <1>6
\* What is emplaced is new.
LEMMA EmplacedOnce ==
  ASSUME OnceInv, Emplace
  PROVE  MadeOnce' /\ Generated' = Generated \union {Top.decl} /\ Top.decl \notin Generated
  <1> DEFINE d == Top.decl
  <1>1. /\ TypeOK /\ stack # <<>> /\ made \in Seq(Declared) /\ Len(made) \in Nat
        /\ DOMAIN made = 1..Len(made)
    BY Frames, LenProperties DEF Emplace, Running, TypeOK
  <1>2. d \in Declared /\ made' = Append(made, d)
    BY <1>1, TopTyped DEF Emplace
  <1>3. d \notin Generated
    <2>1. Len(stack) \in 1..Len(stack)
      BY <1>1, TopTyped
    <2>2. QED
      BY <2>1 DEF OnceInv, Apart, Top
  <1> HIDE DEF d
  <1>4. /\ Len(made') = Len(made) + 1 /\ made'[Len(made) + 1] = d
        /\ \A i \in 1..Len(made) : made'[i] = made[i]
        /\ DOMAIN made' = 1..(Len(made) + 1)
    <2>1. made' \in Seq(Declared)
      BY <1>1, <1>2
    <2>2. QED
      BY <1>1, <1>2, <2>1, Pushed, LenProperties
  <1>5. \A i \in 1..Len(made) : made[i] \in Generated
    BY <1>1 DEF Generated
  <1>6. MadeOnce'
    <2> SUFFICES ASSUME NEW i \in 1..(Len(made) + 1), NEW j \in 1..(Len(made) + 1),
                        made'[i] = made'[j]
                 PROVE  i = j
      BY <1>4 DEF MadeOnce
    <2>1. /\ i = Len(made) + 1 \/ i \in 1..Len(made)
          /\ j = Len(made) + 1 \/ j \in 1..Len(made)
      BY <1>1
    <2>2. CASE i \in 1..Len(made) /\ j \in 1..Len(made)
      BY <1>1, <1>4, <2>2 DEF OnceInv, MadeOnce
    <2>3. CASE ~(i \in 1..Len(made) <=> j \in 1..Len(made))
      BY <1>3, <1>4, <1>5, <2>1, <2>3
    <2>4. QED
      BY <2>1, <2>2, <2>3
  <1>7. QED
    BY <1>3, <1>6, Emplaced DEF OnceInv, d

LEMMA OnceEmplace == ASSUME OnceInv, Emplace PROVE OnceInv'
  <1> DEFINE L == Len(stack)
             N == L - 1
             d == Top.decl
             G == Generated \union {d}
  <1>1. /\ TypeOK /\ stack # <<>> /\ unit' = unit /\ at' = at
        /\ stack' = LookAgain(Below)
    BY Frames DEF Emplace, Running
  <1>2. MadeOnce' /\ Generated' = G /\ d \notin Generated
    BY EmplacedOnce
  <1>3. IInv'
    BY NextKeeps DEF OnceInv, Next
  <1>4. /\ N \in Nat /\ Len(Below) = N /\ L = N + 1 /\ Below \in Seq(CallType)
        /\ \A i \in 1..N : Below[i] = stack[i]
        /\ Waiting(Below, Generated) /\ Apart(Below, Generated) /\ Listed(Below, Generated, at)
    BY <1>1, BelowKeeps, Frames, Popped DEF Below
  <1>5. L \in 1..L /\ Top = stack[L]
    BY <1>4 DEF Top
  <1>6. CASE N = 0
    <2>1. stack' = <<>>
      BY <1>1, <1>4, <1>6, EmptySeq DEF LookAgain
    <2>2. Listed(stack', Generated', at')
      <3>1. \A e \in Declared :
              e[1] \notin TypeKinds /\ e \in G => \E x \in 1..(at - 1) : Work[x] = e
        BY <1>5 DEF OnceInv, Listed
      <3>2. QED
        BY <1>1, <1>2, <2>1, <3>1 DEF Listed
    <2>3. QED
      BY <1>1, <1>2, <1>3, <2>1, <2>2, OnceAfterAll
  <1>7. CASE N # 0
    <2>1. /\ N \in 1..(L - 1) /\ N + 1 = L /\ N \in 1..N
          /\ \A i \in 1..N : i \in 1..L /\ i \in 1..(L - 1) /\ i + 1 \in 1..L /\ i + 1 <= L
          /\ \A i \in 1..N : i = N \/ i \in 1..(N - 1)
          /\ \A i \in 1..(N - 1) : i \in 1..N /\ i + 1 \in 1..N
          /\ Below # <<>>
      BY <1>4, <1>7, EmptySeq
    <2> DEFINE c == [stack[N] EXCEPT !.tried = 0]
    <2>2. c \in CallType /\ c.decl = stack[N].decl /\ c.pos = stack[N].pos /\ c.tried = 0
      <3>1. stack[N] \in CallType
        BY <2>1, Frames
      <3>2. QED
        BY <3>1 DEF CallType
    <2>3. stack' = [Below EXCEPT ![Len(Below)] = c]
      BY <1>1, <1>4, <2>1 DEF LookAgain
    <2> HIDE DEF c, L, N
    <2>4. /\ Len(stack') = N /\ stack'[N] = c
          /\ \A i \in 1..(N - 1) : stack'[i] = stack[i]
      BY <1>4, <2>1, <2>2, <2>3, Replaced
    <2>5. \A i \in 1..N : stack'[i].decl = stack[i].decl
      BY <2>1, <2>2, <2>4
    <2>6. /\ Top \in CallType /\ Good(Top, Generated) /\ Top.pos \in Nat \ {0}
          /\ Top.pos > Len(Refs(d)) /\ Len(Refs(d)) \in Nat
      BY <1>5, Frames DEF L, Emplace
    <2>7. /\ d[1] \in TypeKinds /\ d = Types[stack[N].tried]
          /\ stack[N].tried \in 1..Len(Types) /\ Name(d) = RefOf(stack[N]).name
      BY <1>5, <2>1, Caller DEF L, Named
    <2>8. PICK F : Doomed(F, Generated) /\ Tried(stack, F) /\ Sinks(stack, F)
      BY DEF OnceInv
    <2>9. d \notin F
      BY <1>1, <2>6, <2>8, CompleteIsNotDoomed
    <2>10. ASSUME NEW i \in 1..N
           PROVE  stack[i].decl # d
      <3> SUFFICES ASSUME stack[i].decl = d PROVE FALSE
        OBVIOUS
      <3>1. Waits(stack[i], Generated) /\ stack[i] \in CallType /\ stack[i].pos \in Nat
        BY <2>1, Caller, Frames DEF L
      <3>2. Top.pos <= stack[i].pos
        BY <1>1, <2>6, <3>1, NotPast
      <3>3. stack[i].pos <= Len(Refs(d))
        BY <3>1 DEF Waits
      <3>4. QED
        BY <2>6, <3>1, <3>2, <3>3
    <2>11. ASSUME NEW i \in 1..(N - 1)
           PROVE  d \notin Named(RefOf(stack[i]).name)
      <3> SUFFICES ASSUME d \in Named(RefOf(stack[i]).name) PROVE FALSE
        OBVIOUS
      <3> DEFINE m == stack[N].tried
                 k == stack[i].tried
      <3>1. /\ k \in 1..Len(Types) /\ stack[i + 1].decl = Types[k]
            /\ Name(stack[i + 1].decl) = RefOf(stack[i]).name /\ Name(d) = RefOf(stack[i]).name
        BY <2>1, Caller DEF L, Named
      <3>2. k \in Nat /\ m \in Nat /\ k > 0 /\ m > 0 /\ k <= Len(Types) /\ m <= Len(Types)
        BY <1>1, <2>7, <3>1, TypesAre
      <3>3. Covered(stack[i], k - 1, F) /\ Covered(stack[N], m - 1, F)
        BY <2>1, <2>8 DEF Tried, L
      <3> HIDE DEF k, m
      <3>4. CASE m < k
        <4>1. m \in 1..(k - 1)
          BY <3>2, <3>4
        <4>2. QED
          BY <2>7, <2>9, <3>1, <3>2, <3>3, <4>1 DEF Covered, m
      <3>5. CASE m = k
        BY <2>1, <2>7, <2>10, <3>1, <3>5 DEF m
      <3>6. CASE k < m
        <4>1. k \in 1..(m - 1)
          BY <3>2, <3>6
        <4>2. stack[i + 1].decl \in F
          BY <2>7, <3>1, <3>2, <3>3, <4>1 DEF Covered
        <4>3. stack[L].decl \in F
          BY <1>5, <2>1, <2>8, <4>2 DEF Sinks, L
        <4>4. QED
          BY <1>5, <2>9, <4>3
      <3>7. QED
        BY <3>2, <3>4, <3>5, <3>6
    <2>12. Waiting(stack', G)
      <3>1. ASSUME NEW i \in 1..N, stack'[i].tried > 0
            PROVE  Waits(stack'[i], G) /\ stack'[i].tried <= Len(Types)
        <4>1. i \in 1..(N - 1)
          BY <2>1, <2>2, <2>4, <3>1
        <4>2. stack'[i] = stack[i] /\ Below[i] = stack[i]
          BY <1>4, <2>1, <2>4, <4>1
        <4>3. Waits(stack[i], Generated) /\ stack[i].tried <= Len(Types)
          BY <1>4, <3>1, <4>2 DEF Waiting
        <4>4. QED
          BY <2>11, <4>1, <4>2, <4>3 DEF Waits
      <3>2. ASSUME NEW i \in 1..(N - 1)
            PROVE  /\ stack'[i].tried > 0 /\ Types[stack'[i].tried] = stack'[i + 1].decl
                   /\ Name(stack'[i + 1].decl) = RefOf(stack'[i]).name
        <4>1. /\ stack'[i] = stack[i] /\ Below[i] = stack[i]
              /\ stack'[i + 1].decl = stack[i + 1].decl /\ Below[i + 1] = stack[i + 1]
          BY <1>4, <2>1, <2>4, <2>5
        <4>2. QED
          BY <1>4, <4>1 DEF Waiting
      <3>3. QED
        BY <2>4, <3>1, <3>2 DEF Waiting
    <2>13. Apart(stack', G)
      <3>1. \A i \in 1..N : stack[i].decl \notin Generated
        BY <2>1 DEF OnceInv, Apart, L
      <3>2. QED
        BY <2>4, <2>5, <2>10, <3>1 DEF Apart
    <2>14. Listed(stack', G, at)
      BY <1>4, <2>4, <2>5, <2>7 DEF Listed
    <2>15. Doomed(F, G)
      BY <2>7, <2>8, <2>9, DoomedStays
    <2>16. Tried(stack', F)
      <3>1. \A i \in 1..(N - 1) : Covered(stack'[i], stack'[i].tried - 1, F)
        BY <2>1, <2>4, <2>8 DEF Tried, L
      <3>2. Covered(stack'[N], stack'[N].tried, F)
        BY <2>2, <2>4 DEF Covered
      <3>3. QED
        BY <2>4, <3>1, <3>2 DEF Tried
    <2>17. Sinks(stack', F)
      BY <2>1, <2>4, <2>5, <2>8 DEF Sinks, L
    <2>18. QED
      BY <1>1, <1>2, <1>3, <2>12, <2>13, <2>14, <2>15, <2>16, <2>17, OnceAfter
  <1>8. QED
    BY <1>6, <1>7
-----------------------------------------------------------------------------
(* The theorems.                                                           *)

LEMMA InitOnce == Init => OnceInv
  <1> SUFFICES ASSUME Init PROVE OnceInv
    OBVIOUS
  <1>1. IInv /\ stack = <<>> /\ made = <<>> /\ Generated = {}
    BY InitKeeps DEF Init, Generated
  <1>2. MadeOnce /\ Waiting(stack, Generated) /\ Apart(stack, Generated)
        /\ Listed(stack, Generated, at)
    BY <1>1 DEF MadeOnce, Waiting, Apart, Listed
  <1>3. Doomed({}, Generated) /\ Tried(stack, {}) /\ Sinks(stack, {})
    BY <1>1 DEF Doomed, Tried, Sinks
  <1>4. QED
    BY <1>1, <1>2, <1>3 DEF OnceInv

LEMMA NextOnce == OnceInv /\ [Next]_vars => OnceInv'
  <1> SUFFICES ASSUME OnceInv, [Next]_vars PROVE OnceInv'
    OBVIOUS
  <1>1. CASE Next
    BY <1>1, OnceNextDeclaration, OnceFinish, OnceEmplace, OnceResolve,
       OnceTryCandidate, OnceGiveUp DEF Next
  <1>2. CASE UNCHANGED vars
    <2>1. /\ unit' = unit /\ made' = made /\ stack' = stack /\ at' = at
          /\ Generated' = Generated
      BY <1>2 DEF vars, Generated
    <2>2. IInv' /\ MadeOnce'
      BY <2>1, NextKeeps DEF OnceInv, MadeOnce
    <2>3. PICK F : Doomed(F, Generated) /\ Tried(stack, F) /\ Sinks(stack, F)
      BY DEF OnceInv
    <2>4. QED
      BY <2>1, <2>2, <2>3, OnceAfter DEF OnceInv
  <1>3. QED
    BY <1>1, <1>2

\* "...so that this main loop does not generate the same type twice": no declaration
\* is emplaced twice by AstUnit::codegen and AstIdentType::codegen, although the mark is
\* set after the recursion and a type may be entered again while it is generated.
THEOREM MadeOnceEver == Spec => []MadeOnce
  <1>1. OnceInv => MadeOnce
    BY DEF OnceInv
  <1>2. QED
    BY <1>1, InitOnce, NextOnce, PTL DEF Spec

\* The declaration that a main loop has begun is under way or generated, or generation
\* has failed.
LEMMA NextLeaves == WholeInv /\ [Next]_vars => LeftBehind'
  <1> SUFFICES ASSUME WholeInv, [Next]_vars PROVE LeftBehind'
    OBVIOUS
  <1>1. TypeOK /\ unit' = unit /\ stack \in Seq(CallType) /\ Len(stack) \in Nat
    BY UnitStays, StackGood, LenProperties DEF WholeInv, IInv
  <1>2. Work' = Work
    BY <1>1 DEF Work, All
  <1> DEFINE Behind(x, s, G) == Work[x] \in G \/ (s # <<>> /\ Work[x] = s[1].decl)
  <1>3. LeftBehind <=>
          (status \in {"gen", "done"} =>
             /\ \A x \in 1..(at - 1) : Behind(x, stack, Generated)
             /\ status = "done" => at > Len(Work) /\ stack = <<>>)
    BY DEF LeftBehind
  <1>4. LeftBehind' <=>
          (status' \in {"gen", "done"} =>
             /\ \A x \in 1..(at' - 1) : Behind(x, stack', Generated')
             /\ status' = "done" => at' > Len(Work) /\ stack' = <<>>)
    BY <1>2 DEF LeftBehind
  <1>5. LeftBehind
    BY DEF WholeInv
  <1>6. ASSUME at' = at, Generated' = Generated, status' = status, status = "gen",
               stack # <<>>, stack' # <<>>, stack'[1].decl = stack[1].decl
        PROVE  LeftBehind'
    BY <1>3, <1>4, <1>5, <1>6
  <1>7. ASSUME NEW c \in CallType, c.decl = Top.decl, stack # <<>>
        PROVE  /\ WithTop(c) \in Seq(CallType) /\ Len(WithTop(c)) = Len(stack)
               /\ WithTop(c)[1].decl = stack[1].decl
    <2> DEFINE t == [stack EXCEPT ![Len(stack)] = c]
    <2>1. /\ t \in Seq(CallType) /\ Len(t) = Len(stack) /\ t[Len(stack)] = c
          /\ \A i \in 1..(Len(stack) - 1) : t[i] = stack[i]
      BY <1>1, <1>7, Replaced
    <2>2. Len(stack) = 1 \/ 1 \in 1..(Len(stack) - 1)
      <3>1. Len(stack) \in Nat \ {0}
        BY <1>1, <1>7, TopTyped
      <3>2. QED
        BY <3>1
    <2> HIDE DEF t
    <2>3. t[1].decl = stack[1].decl
      BY <1>7, <2>1, <2>2 DEF Top
    <2>4. QED
      BY <2>1, <2>3 DEF t, WithTop
  <1> HIDE DEF Behind
  <1>8. CASE NextDeclaration
    <2>1. /\ status' = "gen" /\ status = "gen" /\ stack = <<>> /\ at' = at + 1
          /\ Generated' = Generated /\ at \in Nat
      BY <1>1, <1>8 DEF NextDeclaration, Generated, TypeOK
    <2>2. \A x \in 1..(at' - 1) : x = at \/ x \in 1..(at - 1)
      BY <2>1
    <2>3. Behind(at, stack', Generated)
      BY <1>8 DEF NextDeclaration, Behind, Call
    <2>4. ASSUME NEW x \in 1..(at - 1)
          PROVE  Behind(x, stack', Generated)
      BY <1>3, <1>5, <2>1 DEF Behind
    <2>5. QED
      BY <1>4, <2>1, <2>2, <2>3, <2>4
  <1>9. CASE Finish
    BY <1>3, <1>4, <1>5, <1>9 DEF Finish, Generated
  <1>10. CASE Emplace
    <2>1. /\ status' = "gen" /\ status = "gen" /\ at' = at /\ stack # <<>>
          /\ stack' = LookAgain(Below) /\ Generated' = Generated \union {Top.decl}
      BY <1>10, Emplaced DEF Emplace, Running, WholeInv
    <2>2. /\ Len(stack) - 1 \in Nat /\ Len(Below) = Len(stack) - 1 /\ Below \in Seq(CallType)
          /\ \A i \in 1..(Len(stack) - 1) : Below[i] = stack[i]
      BY <1>1, <2>1, Popped DEF Below
    <2>3. CASE Len(stack) = 1
      <3>1. Top = stack[1]
        BY <2>3 DEF Top
      <3>2. \A x \in 1..(at - 1) : Behind(x, stack', Generated')
        BY <1>3, <1>5, <2>1, <3>1 DEF Behind
      <3>3. QED
        BY <1>4, <2>1, <3>2
    <2>4. CASE Len(stack) # 1
      <3>1. Below # <<>> /\ Below[1] = stack[1] /\ Len(Below) \in Nat \ {0}
        BY <2>2, <2>4, EmptySeq
      <3>2. stack' = [Below EXCEPT ![Len(Below)].tried = 0]
        BY <2>1, <3>1 DEF LookAgain
      <3>3. stack' # <<>> /\ stack'[1].decl = stack[1].decl
        <4>1. Below[1] \in CallType /\ 1 \in DOMAIN Below
          BY <2>2, <3>1
        <4>2. DOMAIN stack' = DOMAIN Below
          BY <3>2
        <4>3. stack'[1].decl = Below[1].decl
          BY <3>2, <4>1 DEF CallType
        <4>4. QED
          BY <3>1, <4>1, <4>2, <4>3
      <3>4. \A x \in 1..(at - 1) : Behind(x, stack', Generated')
        BY <1>3, <1>5, <2>1, <3>3 DEF Behind
      <3>5. QED
        BY <1>4, <2>1, <3>4
    <2>5. QED
      BY <2>3, <2>4
  <1>11. CASE ResolveValue \/ ResolveType
    <2>1. /\ status' = status /\ status = "gen" /\ at' = at /\ stack # <<>>
          /\ Generated' = Generated /\ NextRef
      BY <1>11 DEF ResolveValue, ResolveType, AtRef, Running, Generated
    <2> DEFINE c == [Call(Top.decl) EXCEPT !.pos = Top.pos + 1]
    <2>2. c \in CallType /\ c.decl = Top.decl
      BY <1>1, <2>1, TopTyped DEF Call, CallType
    <2>3. stack' = WithTop(c)
      BY <2>1 DEF NextRef
    <2> HIDE DEF c
    <2>4. Len(stack') = Len(stack) /\ stack'[1].decl = stack[1].decl
      BY <1>7, <2>1, <2>2, <2>3
    <2>5. stack' # <<>>
      BY <1>1, <2>1, <2>4, TopTyped
    <2>6. QED
      BY <1>6, <2>1, <2>4, <2>5
  <1>12. CASE TryCandidate
    <2>1. /\ status = "gen" /\ at' = at /\ stack # <<>> /\ Generated' = Generated
      BY <1>12 DEF TryCandidate, AtRef, Running, Generated
    <2>2. PICK k \in Candidate :
            \/ stack' = LookAgain(stack) /\ UNCHANGED status
            \/ UNCHANGED stack /\ status' = "overflow"
            \/ /\ stack' = Append(WithTop([Top EXCEPT !.tried = k]), Call(Types[k]))
               /\ UNCHANGED status
      BY <1>12 DEF TryCandidate
    <2>3. k \in Nat /\ Types[k] \in Declared
      <3>1. Top.tried \in Nat /\ Len(Types) \in Nat
        BY <1>1, <2>1, TopTyped, TypesAre
      <3>2. k \in (Top.tried + 1)..Len(Types)
        BY DEF Candidate
      <3>3. k \in 1..Len(Types) /\ k \in Nat
        BY <3>1, <3>2
      <3>4. QED
        BY <1>1, <3>3, TypeAt
    <2> DEFINE c == [Top EXCEPT !.tried = k]
               z == [Top EXCEPT !.tried = 0]
    <2>4. c \in CallType /\ c.decl = Top.decl /\ z \in CallType /\ z.decl = Top.decl
      BY <1>1, <2>1, <2>3, TopTyped DEF CallType
    <2>5. /\ WithTop(c) \in Seq(CallType) /\ Len(WithTop(c)) = Len(stack)
          /\ WithTop(c)[1].decl = stack[1].decl
          /\ Len(WithTop(z)) = Len(stack) /\ WithTop(z)[1].decl = stack[1].decl
      BY <1>7, <2>1, <2>4
    <2>6. CASE stack' = LookAgain(stack) /\ UNCHANGED status
      <3>1. stack' = WithTop(z)
        BY <2>1, <2>6 DEF LookAgain, WithTop, Top
      <3>2. stack' # <<>>
        BY <1>1, <2>1, <2>5, <3>1, TopTyped
      <3>3. QED
        BY <1>6, <2>1, <2>5, <2>6, <3>1, <3>2
    <2>7. CASE status' = "overflow"
      BY <1>4, <2>7
    <2>8. CASE /\ stack' = Append(WithTop([Top EXCEPT !.tried = k]), Call(Types[k]))
               /\ UNCHANGED status
      <3> DEFINE n == Call(Types[k])
                 w == WithTop(c)
      <3>1. n \in CallType /\ stack' = Append(w, n)
        BY <1>1, <2>3, <2>8, CallGood
      <3>2. w \in Seq(CallType) /\ Len(w) = Len(stack) /\ w[1].decl = stack[1].decl
        BY <2>5
      <3> HIDE DEF n, w
      <3>3. Len(stack') = Len(w) + 1 /\ \A i \in 1..Len(w) : stack'[i] = w[i]
        BY <3>1, <3>2, Pushed
      <3>4. 1 \in 1..Len(w) /\ stack' # <<>>
        BY <1>1, <2>1, <3>2, <3>3, TopTyped
      <3>5. stack'[1].decl = stack[1].decl
        BY <3>2, <3>3, <3>4
      <3>6. QED
        BY <1>6, <2>1, <2>8, <3>4, <3>5
    <2>9. QED
      BY <2>2, <2>6, <2>7, <2>8
  <1>13. CASE GiveUp
    <2>1. /\ status = "gen" /\ at' = at /\ stack # <<>> /\ Generated' = Generated
          /\ stack' = Below
          /\ status' = IF Len(stack) = 1 THEN "failed" ELSE status
      BY <1>13 DEF GiveUp, AtRef, Running, Generated
    <2>2. CASE Len(stack) = 1
      BY <1>4, <2>1, <2>2
    <2>3. CASE Len(stack) # 1
      <3>1. /\ Len(stack) - 1 \in Nat /\ Len(Below) = Len(stack) - 1
            /\ \A i \in 1..(Len(stack) - 1) : Below[i] = stack[i]
        BY <1>1, <2>1, Popped DEF Below
      <3>2. Below # <<>> /\ Below[1] = stack[1]
        BY <2>3, <3>1
      <3>3. QED
        BY <1>6, <2>1, <2>3, <3>2
    <2>4. QED
      BY <2>2, <2>3
  <1>14. CASE UNCHANGED vars
    BY <1>3, <1>4, <1>5, <1>14 DEF vars, Generated
  <1>15. QED
    BY <1>8, <1>9, <1>10, <1>11, <1>12, <1>13, <1>14 DEF Next

LEMMA WholeKept == Spec => []WholeInv
  <1>1. Init => WholeInv
    BY InitKeeps DEF Init, WholeInv, LeftBehind
  <1>2. WholeInv /\ [Next]_vars => WholeInv'
    BY NextKeeps, NextLeaves DEF WholeInv
  <1>3. QED
    BY <1>1, <1>2, PTL DEF Spec

\* Lazily or in the loops of AstUnit::codegen, everything a unit declares has been
\* generated when code generation is done.
THEOREM NothingLeft == Spec => []NothingLeftOut
  <1>1. WholeInv => NothingLeftOut
    <2> SUFFICES ASSUME WholeInv, status = "done" PROVE Generated = Declared
      BY DEF NothingLeftOut
    <2>1. TypeOK /\ Generated \subseteq Declared
      BY GeneratedTyped DEF WholeInv, IInv
    <2>2. /\ at > Len(Work) /\ at \in Nat /\ Len(Work) \in Nat
          /\ \A x \in 1..(at - 1) : Work[x] \in Generated
      BY <2>1, WorkIs DEF WholeInv, LeftBehind, TypeOK
    <2>3. ASSUME NEW e \in Declared
          PROVE  e \in Generated
      <3>1. PICK x \in 1..Len(Work) : Work[x] = e
        BY <2>1, WorkIs DEF Members
      <3>2. x \in 1..(at - 1)
        BY <2>2
      <3>3. QED
        BY <2>2, <3>1, <3>2
    <2>4. QED
      BY <2>1, <2>3
  <1>2. QED
    BY <1>1, WholeKept, PTL
-----------------------------------------------------------------------------
(* The meaning of a name.                                                  *)

\* Mistaken for d, which is an effect, would be a type of the same name that is generated
\* later: there is none.
NoOlder(d, G) ==
  d[1] = "effect" =>
    \A t \in Declared : t[1] = "typedef" /\ Name(t) = Name(d) => t \in G

\* The calls on s were all the first choice for their name, and will be again.
FirstChoices(s, G) ==
  /\ s # <<>> => s[Len(s)].tried = 0
  /\ \A i \in 1..Len(s) : NoOlder(s[i].decl, G)

\* Until an error is reported no candidate fails, so the first one of a name is what is
\* generated, and types come before effects.
Unmistaken ==
  ~reported =>
    /\ FirstChoices(stack, Generated)
    /\ \A e \in Generated : NoOlder(e, Generated)
    /\ \A m \in meant : m[2] \in Lookup(m[1])

MeaningInv == OnceInv /\ WholeInv /\ Unmistaken

LEMMA FoundOne ==
  ASSUME TypeOK, NEW kind, NEW n, NEW d \in Found(kind, n), NEW e \in Found(kind, n)
  PROVE  d = e
  <1> DEFINE has == {i \in DOMAIN made : made[i][1] = kind /\ Name(made[i]) = n}
  <1>1. has \subseteq Nat
    BY LenProperties DEF TypeOK
  <1>2. Found(kind, n) = {made[i] : i \in {i \in has : \A j \in has : i <= j}}
    BY DEF Found
  <1> HIDE DEF has
  <1>3. PICK i \in has : d = made[i] /\ \A j \in has : i <= j
    BY <1>2
  <1>4. PICK j \in has : e = made[j] /\ \A k \in has : j <= k
    BY <1>2
  <1>5. i = j
    BY <1>1, <1>3, <1>4
  <1>6. QED
    BY <1>3, <1>4, <1>5

LEMMA LookupOne ==
  ASSUME TypeOK, NEW n, NEW d \in Lookup(n), NEW e \in Lookup(n)
  PROVE  d = e
  BY FoundOne DEF Lookup

LEMMA FoundStays ==
  ASSUME TypeOK, unit' = unit, NEW d \in Declared, made' = Append(made, d), NEW kind, NEW n
  PROVE  /\ \A e \in Found(kind, n) : e \in Found(kind, n)'
         /\ Found(kind, n) = {} /\ ~(d[1] = kind /\ Name(d) = n) => Found(kind, n)' = {}
  <1> DEFINE has == {i \in DOMAIN made : made[i][1] = kind /\ Name(made[i]) = n}
             had == {i \in DOMAIN made' : made'[i][1] = kind /\ Name(made'[i]) = n}
             L == Len(made)
  <1>1. /\ Found(kind, n) = {made[i] : i \in {i \in has : \A j \in has : i <= j}}
        /\ Found(kind, n)' = {made'[i] : i \in {i \in had : \A j \in had : i <= j}}
    BY DEF Found, Name
  <1>2. /\ DOMAIN made = 1..L /\ L \in Nat /\ DOMAIN made' = 1..(L + 1)
        /\ \A i \in 1..L : made'[i] = made[i]
        /\ made'[L + 1] = d
    BY Pushed, LenProperties DEF TypeOK
  <1>3. \A i \in 1..(L + 1) : i \in 1..L \/ i = L + 1
    BY <1>2
  <1>4. \A i \in has : i \in 1..L /\ i \in had /\ made'[i] = made[i] /\ i <= L + 1
    BY <1>2
  <1>5. \A i \in had : i \in has \/ i = L + 1
    BY <1>2, <1>3
  <1>6. ~(d[1] = kind /\ Name(d) = n) => L + 1 \notin had
    BY <1>2
  <1> HIDE DEF has, had
  <1>7. ASSUME NEW e \in Found(kind, n)
        PROVE  e \in Found(kind, n)'
    <2>1. PICK i \in has : e = made[i] /\ \A j \in has : i <= j
      BY <1>1
    <2>2. i \in had /\ e = made'[i] /\ \A j \in had : i <= j
      BY <1>4, <1>5, <2>1
    <2>3. QED
      BY <1>1, <2>2
  <1>8. ASSUME Found(kind, n) = {}, ~(d[1] = kind /\ Name(d) = n)
        PROVE  Found(kind, n)' = {}
    <2>1. has \subseteq Nat
      BY <1>2, <1>4
    <2>2. has = {}
      <3> SUFFICES ASSUME has # {} PROVE FALSE
        OBVIOUS
      <3>1. PICK i \in has : \A j \in has : i <= j
        BY <2>1, Least
      <3>2. i \in {k \in has : \A j \in has : k <= j}
        BY <3>1
      <3>3. made[i] \in Found(kind, n)
        BY <1>1, <3>2
      <3>4. QED
        BY <1>8, <3>3
    <2>3. had = {}
      BY <1>5, <1>6, <1>8, <2>2
    <2>4. QED
      BY <1>1, <2>3
  <1>9. QED
    BY <1>7, <1>8

\* What a name means when another declaration is generated.
LEMMA LookupStays ==
  ASSUME TypeOK, unit' = unit, NEW d \in Declared, made' = Append(made, d), d \notin Generated,
         NEW n, NEW e \in Lookup(n), \A f \in Generated : NoOlder(f, Generated)
  PROVE  e \in Lookup(n)'
  <1>1. Lookup(n)' = IF Found("typedef", n)' # {} THEN Found("typedef", n)'
                     ELSE Found("effect", n)'
    BY DEF Lookup
  <1>2. CASE Found("typedef", n) # {}
    BY <1>1, <1>2, FoundStays DEF Lookup
  <1>3. CASE Found("typedef", n) = {}
    <2>1. e \in Found("effect", n) /\ e \in Generated /\ Name(e) = n /\ e[1] = "effect"
      <3>1. e \in Found("effect", n)
        BY <1>3 DEF Lookup
      <3>2. QED
        BY <3>1 DEF Found, Generated
    <2>2. ~(d[1] = "typedef" /\ Name(d) = n)
      BY <2>1 DEF NoOlder
    <2>3. Found("typedef", n)' = {} /\ e \in Found("effect", n)'
      BY <1>3, <2>1, <2>2, FoundStays
    <2>4. QED
      BY <1>1, <2>3
  <1>4. QED
    BY <1>2, <1>3

\* The type t is in p, and before every effect of p.
Leads(t, p) ==
  /\ t \in Members(p)
  /\ \A y \in 1..Len(p) : p[y][1] = "effect" => \E x \in 1..(y - 1) : p[x] = t

LEMMA LeadsOn ==
  ASSUME NEW S, NEW t, NEW p \in Seq(S), NEW q \in Seq(S), Leads(t, p)
  PROVE  Leads(t, p \o q) /\ p \o q \in Seq(S)
  <1> DEFINE r == p \o q
  <1>1. /\ Len(p) \in Nat /\ Len(q) \in Nat /\ r \in Seq(S) /\ Len(r) = Len(p) + Len(q)
        /\ \A i \in 1..Len(r) : i <= Len(p) => r[i] = p[i]
    BY ConcatProperties, LenProperties
  <1> HIDE DEF r
  <1>2. \A i \in 1..Len(p) : i \in 1..Len(r) /\ r[i] = p[i]
    BY <1>1
  <1>3. PICK x \in 1..Len(p) : p[x] = t
    BY DEF Leads, Members
  <1>4. t \in Members(r)
    BY <1>2, <1>3 DEF Members
  <1>5. ASSUME NEW y \in 1..Len(r), r[y][1] = "effect"
        PROVE  \E z \in 1..(y - 1) : r[z] = t
    <2>1. CASE y \in 1..Len(p)
      <3>1. PICK z \in 1..(y - 1) : p[z] = t
        BY <1>2, <1>5, <2>1 DEF Leads
      <3>2. z \in 1..Len(p)
        BY <1>1, <2>1
      <3>3. QED
        BY <1>2, <3>1, <3>2
    <2>2. CASE y \notin 1..Len(p)
      <3>1. x \in 1..(y - 1)
        BY <1>1, <2>2
      <3>2. QED
        BY <1>2, <1>3, <3>1
    <2>3. QED
      BY <2>1, <2>2
  <1>6. QED
    BY <1>1, <1>4, <1>5 DEF Leads, r

\* In both orders the types come before the effects.
LEMMA EffectsLast ==
  ASSUME TypeOK, NEW t \in Declared, t[1] = "typedef"
  PROVE  Leads(t, Work) /\ Leads(t, Types)
  <1> DEFINE a == All("let")
             b == All("typedef")
             c == All("effect")
             d == All("fn")
             e == All("body")
  <1>1. /\ a \in Seq(Declared) /\ Members(a) = Of("let")
        /\ b \in Seq(Declared) /\ Members(b) = Of("typedef")
        /\ c \in Seq(Declared) /\ d \in Seq(Declared) /\ e \in Seq(Declared)
    BY AllAre DEF Kinds
  <1>2. Work = (((a \o b) \o c) \o d) \o e /\ Types = b \o c
    BY DEF Work, Types
  <1>3. t \in Of("typedef")
    BY DeclaredIs DEF Of
  <1>4. \A f \in Of("let") \union Of("typedef") : f[1] # "effect"
    BY DEF Of
  <1> HIDE DEF a, b, c, d, e
  <1> DEFINE ab == a \o b
             abc == ab \o c
             abcd == abc \o d
  <1>5. ab \in Seq(Declared) /\ Members(ab) = Of("let") \union Of("typedef")
    BY <1>1, Joined
  <1> HIDE DEF ab
  <1>6. ASSUME NEW p \in Seq(Declared), t \in Members(p), \A f \in Members(p) : f[1] # "effect"
        PROVE  Leads(t, p)
    BY <1>6 DEF Leads, Members
  <1>7. Leads(t, ab) /\ Leads(t, b)
    BY <1>1, <1>3, <1>4, <1>5, <1>6
  <1>8. Leads(t, abc) /\ abc \in Seq(Declared)
    BY <1>1, <1>5, <1>7, LeadsOn
  <1> HIDE DEF abc
  <1>9. Leads(t, abcd) /\ abcd \in Seq(Declared)
    BY <1>1, <1>8, LeadsOn
  <1> HIDE DEF abcd
  <1>10. Leads(t, abcd \o e)
    BY <1>1, <1>9, LeadsOn
  <1>11. Leads(t, b \o c)
    BY <1>1, <1>7, LeadsOn
  <1>12. Work = abcd \o e
    BY <1>2 DEF ab, abc, abcd
  <1>13. QED
    BY <1>2, <1>10, <1>11, <1>12

LEMMA NoOlderStays ==
  ASSUME NEW d, NEW G, NEW H, G \subseteq H, NoOlder(d, G)
  PROVE  NoOlder(d, H)
  BY DEF NoOlder

LEMMA UnmistakenAfter ==
  ASSUME unit' = unit, FirstChoices(stack', Generated'),
         \A e \in Generated' : NoOlder(e, Generated'),
         \A m \in meant' : m[2] \in Lookup(m[1])'
  PROVE  Unmistaken'
  <1>1. Declared' = Declared /\ \A d : Name(d)' = Name(d)
    BY DEF Declared, Name
  <1>2. \A d : NoOlder(d, Generated') => NoOlder(d, Generated)'
    BY <1>1 DEF NoOlder
  <1>3. FirstChoices(stack, Generated)'
    BY <1>2 DEF FirstChoices
  <1>4. QED
    BY <1>2, <1>3 DEF Unmistaken

LEMMA LookupKept == ASSUME unit' = unit, made' = made, NEW n PROVE Lookup(n)' = Lookup(n)
  BY DEF Lookup, Found, Name

\* The innermost call begins again, or goes on to its next reference.
LEMMA FirstChoicesTop ==
  ASSUME TypeOK, stack # <<>>, NEW G, \A i \in 1..Len(stack) : NoOlder(stack[i].decl, G),
         NEW c \in CallType, c.decl = Top.decl, c.tried = 0
  PROVE  FirstChoices(WithTop(c), G)
  <1> DEFINE t == [stack EXCEPT ![Len(stack)] = c]
  <1>1. stack \in Seq(CallType) /\ Len(stack) \in Nat \ {0}
    BY TopTyped DEF TypeOK
  <1>2. /\ t \in Seq(CallType) /\ Len(t) = Len(stack) /\ t[Len(stack)] = c
        /\ \A i \in 1..(Len(stack) - 1) : t[i] = stack[i]
    BY <1>1, Replaced
  <1> HIDE DEF t
  <1>3. ASSUME NEW i \in 1..Len(t)
        PROVE  NoOlder(t[i].decl, G)
    <2>1. i \in 1..(Len(stack) - 1) \/ i = Len(stack)
      BY <1>1, <1>2
    <2>2. t[i].decl = stack[i].decl
      BY <1>2, <2>1 DEF Top
    <2>3. QED
      BY <1>2, <2>2
  <1>4. FirstChoices(t, G)
    BY <1>2, <1>3 DEF FirstChoices
  <1>5. QED
    BY <1>4 DEF t, WithTop

LEMMA FirstChoicesAgain ==
  ASSUME NEW s \in Seq(CallType), NEW G, \A i \in 1..Len(s) : NoOlder(s[i].decl, G)
  PROVE  FirstChoices(LookAgain(s), G)
  <1>1. CASE s = <<>>
    BY <1>1 DEF LookAgain, FirstChoices
  <1>2. CASE s # <<>>
    <2> DEFINE L == Len(s)
               t == [s EXCEPT ![L].tried = 0]
    <2>1. L \in Nat \ {0} /\ DOMAIN s = 1..L /\ \A i \in 1..L : s[i] \in CallType
      BY <1>2
    <2>2. /\ Len(t) = L /\ DOMAIN t = 1..L
          /\ \A i \in 1..L : t[i].decl = s[i].decl
          /\ t[L].tried = 0
      BY <2>1 DEF CallType
    <2>3. LookAgain(s) = t
      BY <1>2 DEF LookAgain
    <2> HIDE DEF t, L
    <2>4. \A i \in 1..Len(t) : NoOlder(t[i].decl, G)
      BY <2>2 DEF L
    <2>5. QED
      BY <2>2, <2>3, <2>4 DEF FirstChoices
  <1>3. QED
    BY <1>1, <1>2

LEMMA MeaningNextDeclaration == ASSUME MeaningInv, ~reported, NextDeclaration PROVE Unmistaken'
  <1>1. /\ TypeOK /\ unit' = unit /\ made' = made /\ meant' = meant /\ Generated' = Generated
        /\ stack = <<>> /\ status = "gen" /\ at \in 1..Len(Work)
        /\ stack' = <<>> \/ stack' = <<Call(Work[at])>>
    <2>1. TypeOK
      BY DEF MeaningInv, WholeInv, IInv
    <2>2. at \in 1..(Len(Work) + 1) /\ Len(Work) \in Nat /\ at <= Len(Work)
      BY <2>1, WorkIs DEF TypeOK, NextDeclaration
    <2>3. QED
      BY <2>1, <2>2 DEF NextDeclaration, Generated
  <1> DEFINE d == Work[at]
  <1>2. ASSUME NEW t \in Declared, d[1] = "effect", t[1] = "typedef"
        PROVE  t \in Generated
    <2>1. PICK x \in 1..(at - 1) : Work[x] = t
      BY <1>1, <1>2, EffectsLast DEF Leads
    <2>2. Work[x] \in Generated
      BY <1>1 DEF MeaningInv, WholeInv, LeftBehind
    <2>3. QED
      BY <2>1, <2>2
  <1>3. NoOlder(d, Generated)
    BY <1>2 DEF NoOlder
  <1>4. FirstChoices(<<>>, Generated)
    BY DEF FirstChoices
  <1>5. FirstChoices(<<Call(d)>>, Generated)
    <2> DEFINE s == <<Call(d)>>
    <2>1. Len(s) = 1 /\ s[1].decl = d /\ s[1].tried = 0
      BY DEF Call
    <2>2. \A i \in 1..Len(s) : i = 1
      BY <2>1
    <2> HIDE DEF s, d
    <2>3. QED
      BY <1>3, <2>1, <2>2 DEF FirstChoices, s
  <1>6. FirstChoices(stack', Generated')
    BY <1>1, <1>4, <1>5
  <1>7. QED
    BY <1>1, <1>6, UnmistakenAfter, LookupKept DEF MeaningInv, Unmistaken

LEMMA MeaningEmplace == ASSUME MeaningInv, ~reported, Emplace PROVE Unmistaken'
  <1> DEFINE d == Top.decl
             H == Generated \union {d}
  <1>1. /\ TypeOK /\ stack # <<>> /\ unit' = unit /\ made' = Append(made, d)
        /\ meant' = meant /\ stack' = LookAgain(Below)
        /\ d \in Declared /\ d \notin Generated /\ Generated' = H
    BY TopTyped, EmplacedOnce DEF MeaningInv, WholeInv, IInv, Emplace, Running
  <1>2. /\ \A e \in Generated : NoOlder(e, Generated)
        /\ \A i \in 1..Len(stack) : NoOlder(stack[i].decl, Generated)
        /\ \A m \in meant : m[2] \in Lookup(m[1])
    BY DEF MeaningInv, Unmistaken, FirstChoices
  <1>3. /\ Below \in Seq(CallType) /\ Len(Below) = Len(stack) - 1 /\ Len(stack) \in Nat \ {0}
        /\ \A i \in 1..(Len(stack) - 1) : Below[i] = stack[i]
    <2>1. stack \in Seq(CallType)
      BY <1>1 DEF TypeOK
    <2>2. QED
      BY <1>1, <2>1, Popped, TopTyped DEF Below
  <1>4. NoOlder(d, Generated)
    BY <1>2, <1>3 DEF Top
  <1>5. \A e \in Generated' : NoOlder(e, Generated')
    <2>1. Generated \subseteq H
      OBVIOUS
    <2> HIDE DEF d
    <2>2. \A e \in H : NoOlder(e, H)
      BY <1>2, <1>4, <2>1, NoOlderStays
    <2>3. QED
      BY <1>1, <2>2
  <1>6. \A i \in 1..Len(Below) : NoOlder(Below[i].decl, Generated')
    <2> SUFFICES ASSUME NEW i \in 1..Len(Below) PROVE NoOlder(Below[i].decl, Generated')
      OBVIOUS
    <2>1. Below[i] = stack[i] /\ NoOlder(stack[i].decl, Generated)
      BY <1>2, <1>3
    <2>2. Generated \subseteq Generated'
      BY <1>1
    <2>3. QED
      BY <2>1, <2>2, NoOlderStays
  <1>7. FirstChoices(LookAgain(Below), Generated')
    BY <1>3, <1>6, FirstChoicesAgain
  <1>8. \A m \in meant : m[2] \in Lookup(m[1])'
    <2> SUFFICES ASSUME NEW m \in meant PROVE m[2] \in Lookup(m[1])'
      OBVIOUS
    <2> HIDE DEF d
    <2>1. m[2] \in Lookup(m[1])
      BY <1>2
    <2>2. QED
      BY <1>1, <1>2, <2>1, LookupStays
  <1>9. QED
    BY <1>1, <1>5, <1>7, <1>8, UnmistakenAfter

LEMMA MeaningResolve ==
  ASSUME MeaningInv, ~reported, ResolveValue \/ ResolveType
  PROVE  Unmistaken'
  <1>1. /\ TypeOK /\ stack # <<>> /\ unit' = unit /\ made' = made /\ Generated' = Generated
        /\ NextRef
    BY DEF MeaningInv, WholeInv, IInv, ResolveValue, ResolveType, AtRef, Running, Generated
  <1>2. /\ \A e \in Generated : NoOlder(e, Generated)
        /\ \A i \in 1..Len(stack) : NoOlder(stack[i].decl, Generated)
        /\ \A m \in meant : m[2] \in Lookup(m[1])
    BY DEF MeaningInv, Unmistaken, FirstChoices
  <1>3. FirstChoices(stack', Generated')
    <2> DEFINE c == [Call(Top.decl) EXCEPT !.pos = Top.pos + 1]
    <2>1. c \in CallType /\ c.decl = Top.decl /\ c.tried = 0
      BY <1>1, TopTyped DEF Call, CallType
    <2>2. stack' = WithTop(c)
      BY <1>1 DEF NextRef
    <2> HIDE DEF c
    <2>3. QED
      BY <1>1, <1>2, <2>1, <2>2, FirstChoicesTop
  <1>4. \A m \in meant' : m[2] \in Lookup(m[1])
    <2>1. CASE ResolveValue
      BY <1>2, <2>1 DEF ResolveValue
    <2>2. CASE ResolveType
      <3>1. PICK d \in Lookup(Ref.name) : meant' = meant \union {<<Ref.name, d>>}
        BY <2>2 DEF ResolveType
      <3>2. QED
        BY <1>2, <3>1
    <2>3. QED
      BY <2>1, <2>2
  <1>5. \A m \in meant' : m[2] \in Lookup(m[1])'
    BY <1>1, <1>4, LookupKept
  <1>6. QED
    BY <1>1, <1>2, <1>3, <1>5, UnmistakenAfter

\* The first candidate for a name is a type, if there is a type of that name at all.
LEMMA FirstCandidate ==
  ASSUME TypeOK, stack # <<>>, Top.tried = 0, NEW k \in Candidate, NEW G
  PROVE  NoOlder(Types[k], G)
  <1> DEFINE later == {x \in (Top.tried + 1)..Len(Types) : Name(Types[x]) = Ref.name}
  <1>1. Len(Types) \in Nat
    BY TypesAre
  <1>2. Candidate = {x \in later : \A y \in later : x <= y}
    BY DEF Candidate
  <1>3. later = {x \in 1..Len(Types) : Name(Types[x]) = Ref.name}
    OBVIOUS
  <1>4. /\ k \in 1..Len(Types) /\ Name(Types[k]) = Ref.name
        /\ \A y \in 1..Len(Types) : Name(Types[y]) = Ref.name => k <= y
    BY <1>2, <1>3
  <1> HIDE DEF later
  <1>5. ASSUME Types[k][1] = "effect",
               NEW t \in Declared, t[1] = "typedef", Name(t) = Name(Types[k])
        PROVE  FALSE
    <2>1. PICK x \in 1..(k - 1) : Types[x] = t
      BY <1>4, <1>5, EffectsLast DEF Leads
    <2>2. x \in 1..Len(Types) /\ ~(k <= x)
      BY <1>1, <1>4
    <2>3. QED
      BY <1>4, <1>5, <2>1, <2>2
  <1>6. QED
    BY <1>5 DEF NoOlder

LEMMA MeaningTryCandidate == ASSUME MeaningInv, ~reported, TryCandidate PROVE Unmistaken'
  <1>1. /\ TypeOK /\ stack # <<>> /\ unit' = unit /\ made' = made /\ Generated' = Generated
        /\ meant' = meant /\ stack \in Seq(CallType)
    BY DEF MeaningInv, WholeInv, IInv, TryCandidate, AtRef, Running, Generated, TypeOK
  <1>2. /\ \A e \in Generated : NoOlder(e, Generated)
        /\ FirstChoices(stack, Generated) /\ Top.tried = 0
        /\ \A i \in 1..Len(stack) : NoOlder(stack[i].decl, Generated)
        /\ \A m \in meant : m[2] \in Lookup(m[1])
    BY <1>1 DEF MeaningInv, Unmistaken, FirstChoices, Top
  <1>3. PICK k \in Candidate :
          \/ stack' = LookAgain(stack)
          \/ stack' = stack
          \/ stack' = Append(WithTop([Top EXCEPT !.tried = k]), Call(Types[k]))
    BY DEF TryCandidate
  <1>4. k \in Nat /\ Types[k] \in Declared
    <2>1. Top.tried \in Nat /\ Len(Types) \in Nat
      BY <1>1, TopTyped, TypesAre
    <2>2. k \in (Top.tried + 1)..Len(Types)
      BY DEF Candidate
    <2>3. k \in 1..Len(Types) /\ k \in Nat
      BY <2>1, <2>2
    <2>4. QED
      BY <1>1, <2>3, TypeAt
  <1>5. FirstChoices(stack', Generated)
    <2>1. CASE stack' = LookAgain(stack)
      BY <1>1, <1>2, <2>1, FirstChoicesAgain
    <2>2. CASE stack' = stack
      BY <1>2, <2>2
    <2>3. CASE stack' = Append(WithTop([Top EXCEPT !.tried = k]), Call(Types[k]))
      <3> DEFINE c == [Top EXCEPT !.tried = k]
                 n == Call(Types[k])
                 w == WithTop(c)
                 s == Append(w, n)
      <3>1. /\ n \in CallType /\ n.decl = Types[k] /\ n.tried = 0
            /\ c \in CallType /\ c.decl = Top.decl
        <4>1. n \in CallType
          BY <1>1, <1>4, CallGood
        <4>2. QED
          BY <1>1, <1>4, <4>1, TopTyped DEF Call, CallType
      <3>2. NoOlder(n.decl, Generated)
        BY <1>1, <1>2, <3>1, FirstCandidate
      <3>3. /\ w \in Seq(CallType) /\ Len(w) = Len(stack) /\ w[Len(stack)] = c
            /\ \A i \in 1..(Len(stack) - 1) : w[i] = stack[i]
        BY <1>1, <3>1, Replaced DEF WithTop
      <3>4. Len(stack) \in Nat \ {0}
        BY <1>1, TopTyped
      <3> HIDE DEF c, n, w
      <3>5. /\ Len(s) = Len(w) + 1 /\ s[Len(w) + 1] = n
            /\ \A i \in 1..Len(w) : s[i] = w[i]
        BY <3>1, <3>3, Pushed
      <3> HIDE DEF s
      <3>6. ASSUME NEW i \in 1..Len(s)
            PROVE  NoOlder(s[i].decl, Generated)
        <4>1. i \in 1..(Len(stack) - 1) \/ i = Len(stack) \/ i = Len(w) + 1
          BY <3>3, <3>4, <3>5
        <4>2. CASE i \in 1..(Len(stack) - 1)
          BY <1>2, <3>3, <3>4, <3>5, <4>2
        <4>3. CASE i = Len(stack)
          <5>1. s[i].decl = stack[i].decl
            BY <3>1, <3>3, <3>4, <3>5, <4>3 DEF Top
          <5>2. i \in 1..Len(stack)
            BY <3>4, <4>3
          <5>3. QED
            BY <1>2, <5>1, <5>2
        <4>4. CASE i = Len(w) + 1
          BY <3>2, <3>5, <4>4
        <4>5. QED
          BY <4>1, <4>2, <4>3, <4>4
      <3>7. FirstChoices(s, Generated)
        BY <3>1, <3>5, <3>6 DEF FirstChoices
      <3>8. stack' = s
        BY <2>3 DEF s, w, n, c
      <3>9. QED
        BY <3>7, <3>8
    <2>4. QED
      BY <1>3, <2>1, <2>2, <2>3
  <1>6. QED
    BY <1>1, <1>2, <1>5, UnmistakenAfter, LookupKept

LEMMA NextMeaning == MeaningInv /\ [Next]_vars => MeaningInv'
  <1> SUFFICES ASSUME MeaningInv, [Next]_vars PROVE MeaningInv'
    OBVIOUS
  <1>1. OnceInv' /\ WholeInv'
    BY NextOnce, NextKeeps, NextLeaves DEF MeaningInv, WholeInv
  <1>2. CASE reported \/ GiveUp
    <2>1. reported' = TRUE \/ reported' = reported
      BY DEF Next, vars, NextDeclaration, Finish, Emplace, ResolveValue, ResolveType,
             TryCandidate, GiveUp
    <2>2. reported'
      BY <1>2, <2>1 DEF GiveUp
    <2>3. QED
      BY <1>1, <2>2 DEF MeaningInv, Unmistaken
  <1>3. CASE ~reported /\ (Finish \/ UNCHANGED vars)
    <2>1. /\ unit' = unit /\ made' = made /\ meant' = meant /\ stack' = stack
          /\ Generated' = Generated
      BY <1>3 DEF Finish, vars, Generated
    <2>2. Unmistaken'
      BY <1>3, <2>1, UnmistakenAfter, LookupKept DEF MeaningInv, Unmistaken
    <2>3. QED
      BY <1>1, <2>2 DEF MeaningInv
  <1>4. QED
    BY <1>1, <1>2, <1>3, MeaningNextDeclaration, MeaningEmplace, MeaningResolve,
       MeaningTryCandidate DEF Next, MeaningInv

\* Unless an error was reported, a name that was resolved while the unit was generated
\* means the same declaration wherever it was met: AstIdentType::codegen searches the
\* types before the effects, and generates what it has not found in that order too.
THEOREM NamesMeanOne == Spec => []OneMeaning
  <1>1. Init => MeaningInv
    <2> SUFFICES ASSUME Init PROVE MeaningInv
      OBVIOUS
    <2>1. OnceInv /\ WholeInv
      BY InitOnce, InitKeeps DEF Init, WholeInv, LeftBehind
    <2>2. Unmistaken
      BY DEF Init, Unmistaken, FirstChoices, Generated
    <2>3. QED
      BY <2>1, <2>2 DEF MeaningInv
  <1>2. MeaningInv => OneMeaning
    <2> SUFFICES ASSUME MeaningInv, ~reported, NEW m \in meant, NEW n \in meant, m[1] = n[1]
                 PROVE  m = n
      BY DEF OneMeaning
    <2>1. TypeOK /\ m \in Names \X Declared /\ n \in Names \X Declared
      BY DEF MeaningInv, WholeInv, IInv, TypeOK
    <2>2. m[2] \in Lookup(m[1]) /\ n[2] \in Lookup(m[1])
      BY DEF MeaningInv, Unmistaken
    <2>3. m[2] = n[2]
      BY <2>1, <2>2, LookupOne
    <2>4. QED
      BY <2>1, <2>3
  <1>3. QED
    BY <1>1, <1>2, NextMeaning, PTL DEF Spec
-----------------------------------------------------------------------------
(* Only what cannot be built is refused. First, what can be generated.     *)

LEMMA SatisfiedGrows ==
  ASSUME NEW refs, NEW S, NEW T, NEW W, S \subseteq T, Satisfied(refs, S, W)
  PROVE  Satisfied(refs, T, W)
  BY DEF Satisfied

LEMMA DerivableLeast ==
  ASSUME NEW W, NEW S \in SUBSET Names, Closed(S, W)
  PROVE  Derivable(W) \subseteq S
  BY DEF Derivable

LEMMA DerivableClosed ==
  ASSUME TypeOK, NEW W
  PROVE  Closed(Derivable(W), W)
  <1> DEFINE D == Derivable(W)
  <1> SUFFICES ASSUME NEW x \in DOMAIN Types, Satisfied(Refs(Types[x]), D, W)
               PROVE  Name(Types[x]) \in D
    BY DEF Closed
  <1>1. Name(Types[x]) \in Names
    <2>1. x \in 1..Len(Types)
      BY TypesAre, LenProperties
    <2>2. QED
      BY <2>1, TypeAt, DeclTyped
  <1>2. ASSUME NEW S \in SUBSET Names, Closed(S, W)
        PROVE  Name(Types[x]) \in S
    <2>1. D \subseteq S
      BY <1>2, DerivableLeast
    <2> HIDE DEF D
    <2>2. Satisfied(Refs(Types[x]), S, W)
      BY <2>1, SatisfiedGrows
    <2>3. QED
      BY <1>2, <2>2 DEF Closed
  <1>3. QED
    BY <1>1, <1>2 DEF Derivable

\* A name that can be generated is that of a type whose references can be.
LEMMA DerivableFrom ==
  ASSUME TypeOK, NEW W, NEW n \in Derivable(W)
  PROVE  \E x \in 1..Len(Types) :
           Name(Types[x]) = n /\ Satisfied(Refs(Types[x]), Derivable(W), W)
  <1> DEFINE D == Derivable(W)
             From(m) == \E x \in 1..Len(Types) :
                          Name(Types[x]) = m /\ Satisfied(Refs(Types[x]), D, W)
             S == {m \in D : From(m)}
  <1>1. S \subseteq D /\ S \in SUBSET Names
    BY DEF Derivable
  <1>2. DOMAIN Types = 1..Len(Types)
    BY TypesAre, LenProperties
  <1>3. Closed(D, W)
    BY DerivableClosed
  <1>4. \A m : From(m) /\ m \in D => m \in S
    OBVIOUS
  <1>5. \A x \in 1..Len(Types) : Satisfied(Refs(Types[x]), D, W) => From(Name(Types[x]))
    OBVIOUS
  <1>6. \A m \in S : From(m)
    OBVIOUS
  <1> HIDE DEF D, S, From
  <1>7. ASSUME NEW x \in DOMAIN Types, Satisfied(Refs(Types[x]), S, W)
        PROVE  Name(Types[x]) \in S
    <2>1. Satisfied(Refs(Types[x]), D, W)
      BY <1>1, <1>7, SatisfiedGrows
    <2>2. Name(Types[x]) \in D
      BY <1>3, <2>1 DEF Closed
    <2>3. QED
      BY <1>2, <1>4, <1>5, <2>1, <2>2
  <1>8. Closed(S, W)
    BY <1>7 DEF Closed
  <1>9. D \subseteq S
    BY <1>1, <1>8, DerivableLeast DEF D
  <1>10. From(n)
    BY <1>6, <1>9 DEF D
  <1>11. QED
    BY <1>10 DEF From, D

\* Names being distinct, the references of the type itself can be.
LEMMA DerivableSatisfied ==
  ASSUME TypeOK, DistinctTypes, NEW W,
         NEW x \in 1..Len(Types), Name(Types[x]) \in Derivable(W)
  PROVE  Satisfied(Refs(Types[x]), Derivable(W), W)
  <1>1. PICK y \in 1..Len(Types) : /\ Name(Types[y]) = Name(Types[x])
                                   /\ Satisfied(Refs(Types[y]), Derivable(W), W)
    BY DerivableFrom
  <1>2. DOMAIN Types = 1..Len(Types)
    BY TypesAre, LenProperties
  <1>3. y = x
    BY <1>1, <1>2 DEF DistinctTypes
  <1>4. QED
    BY <1>1, <1>3
-----------------------------------------------------------------------------
(* Calls that succeed.                                                     *)

\* The unit can be built, its types have names of their own and there is stack for all.
Feasible == Buildable /\ DistinctTypes /\ Len(Types) < StackLimit

\* The types that d refers to can be generated from the lets in W, and its values are in G.
Provided(d, W, G) ==
  \A k \in 1..Len(Refs(d)) :
    IF Refs(d)[k].kind = "type"
      THEN Refs(d)[k].name \in Derivable(W)
      ELSE \E e \in G : e[1] \in Values(d) /\ Name(e) = Refs(d)[k].name

\* The lets in W are in G.
Offered(W, G) == \A n \in W : \E e \in G : e[1] = "let" /\ Name(e) = n

\* No candidate has failed, none is tried twice, and all that is on s will succeed.
OnTrack(s, G) ==
  /\ s # <<>> => s[Len(s)].tried = 0
  /\ \A i, j \in 1..(Len(s) - 1) : s[i].tried = s[j].tried => i = j
  /\ \E W \in SUBSET Names : Offered(W, G) /\ \A i \in 1..Len(s) : Provided(s[i].decl, W, G)

Succeeds == Feasible => status \in {"gen", "done"} /\ OnTrack(stack, Generated)

BuildInv == OnceInv /\ WholeInv /\ Succeeds

LEMMA ProvidedGrows ==
  ASSUME NEW d, NEW W, NEW G, NEW H, G \subseteq H, Provided(d, W, G)
  PROVE  Provided(d, W, H)
  BY DEF Provided

LEMMA OfferedGrows ==
  ASSUME NEW W, NEW G, NEW H, G \subseteq H, Offered(W, G)
  PROVE  Offered(W, H)
  BY DEF Offered

\* A type that can be generated is provided for.
LEMMA TypeProvided ==
  ASSUME TypeOK, DistinctTypes, NEW W, NEW G, Offered(W, G),
         NEW x \in 1..Len(Types), Name(Types[x]) \in Derivable(W)
  PROVE  Provided(Types[x], W, G)
  <1> DEFINE d == Types[x]
  <1>1. Satisfied(Refs(d), Derivable(W), W)
    BY DerivableSatisfied
  <1>2. d \in Declared /\ d[1] \in TypeKinds
    BY TypeAt
  <1>3. DOMAIN Refs(d) = 1..Len(Refs(d))
    BY <1>2, DeclTyped, LenProperties
  <1>4. "let" \in Values(d)
    BY DEF Values
  <1> HIDE DEF d
  <1>5. Provided(d, W, G)
    BY <1>1, <1>3, <1>4 DEF Satisfied, Provided, Offered
  <1>6. QED
    BY <1>5 DEF d

\* What is stated of the unit stays.
LEMMA UnitAlike ==
  ASSUME unit' = unit
  PROVE  /\ Types' = Types /\ Work' = Work
         /\ \A d : Name(d)' = Name(d) /\ Refs(d)' = Refs(d)
         /\ \A W : Derivable(W)' = Derivable(W)
         /\ Feasible' = Feasible
  <1>1. Types' = Types /\ Work' = Work
    BY DEF Types, Work, All
  <1>2. \A d : Name(d)' = Name(d) /\ Refs(d)' = Refs(d)
    BY DEF Name, Refs
  <1>3. ASSUME NEW S, NEW W
        PROVE  Closed(S, W)' = Closed(S, W)
    BY <1>1, <1>2 DEF Closed, Satisfied
  <1>4. \A W : Derivable(W)' = Derivable(W)
    BY <1>3 DEF Derivable
  <1>5. DistinctTypes' = DistinctTypes
    BY <1>1, <1>2 DEF DistinctTypes
  <1>6. Buildable' = Buildable
    <2>1. \A k, n : NamesOf(k, n)' = NamesOf(k, n)
      BY DEF NamesOf
    <2>2. QED
      BY <1>4, <2>1 DEF Buildable, Satisfied
  <1>7. QED
    BY <1>1, <1>2, <1>4, <1>5, <1>6 DEF Feasible

LEMMA BuildAfter ==
  ASSUME BuildInv, [Next]_vars,
         Feasible => status' \in {"gen", "done"} /\ OnTrack(stack', Generated')
  PROVE  BuildInv'
  <1>1. OnceInv' /\ WholeInv'
    BY NextOnce, NextKeeps, NextLeaves DEF BuildInv, WholeInv
  <1>2. unit' = unit
    BY UnitStays
  <1>3. ASSUME NEW d, NEW W
        PROVE  Provided(d, W, Generated)' <=> Provided(d, W, Generated')
    BY <1>2, UnitAlike DEF Provided, Values
  <1>4. ASSUME NEW W
        PROVE  Offered(W, Generated)' <=> Offered(W, Generated')
    BY <1>2, UnitAlike DEF Offered
  <1>5. OnTrack(stack', Generated') => OnTrack(stack, Generated)'
    BY <1>3, <1>4 DEF OnTrack
  <1>6. QED
    BY <1>1, <1>2, <1>5, UnitAlike DEF BuildInv, Succeeds
-----------------------------------------------------------------------------
(* What has been generated when a declaration's turn comes.                *)

LEMMA PrefixKept ==
  ASSUME NEW S, NEW p \in Seq(S), NEW q \in Seq(S)
  PROVE  /\ p \o q \in Seq(S) /\ Len(p) \in Nat /\ Len(p) <= Len(p \o q)
         /\ \A i \in 1..Len(p) : (p \o q)[i] = p[i]
  BY ConcatProperties, LenProperties

LEMMA LetsFirst ==
  ASSUME TypeOK
  PROVE  LET n == Len(unit["let"])
         IN  /\ n \in Nat /\ n <= Len(Work) /\ unit["let"] \in Seq(Declarations)
             /\ \A i \in 1..n : Work[i] = <<"let", i>>
  <1> DEFINE a == All("let")
             b == All("typedef")
             c == All("effect")
             d == All("fn")
             e == All("body")
             n == Len(unit["let"])
  <1>1. /\ a \in Seq(Declared) /\ b \in Seq(Declared) /\ c \in Seq(Declared)
        /\ d \in Seq(Declared) /\ e \in Seq(Declared)
    BY AllAre DEF Kinds
  <1>2. Work = (((a \o b) \o c) \o d) \o e
    BY DEF Work
  <1>3. /\ n \in Nat /\ unit["let"] \in Seq(Declarations)
        /\ Len(a) = n /\ \A i \in 1..n : a[i] = <<"let", i>>
    <2>1. unit["let"] \in Seq(Declarations)
      BY DEF TypeOK, Kinds
    <2>2. QED
      BY <2>1, LenProperties DEF All
  <1> HIDE DEF a, b, c, d, e, n
  <1> DEFINE ab == a \o b
             abc == ab \o c
             abcd == abc \o d
             w == abcd \o e
  <1>4. /\ ab \in Seq(Declared) /\ Len(a) \in Nat /\ Len(a) <= Len(ab)
        /\ \A i \in 1..Len(a) : ab[i] = a[i]
    BY <1>1, PrefixKept
  <1> HIDE DEF ab
  <1>5. /\ abc \in Seq(Declared) /\ Len(ab) \in Nat /\ Len(ab) <= Len(abc)
        /\ \A i \in 1..Len(ab) : abc[i] = ab[i]
    BY <1>1, <1>4, PrefixKept
  <1> HIDE DEF abc
  <1>6. /\ abcd \in Seq(Declared) /\ Len(abc) \in Nat /\ Len(abc) <= Len(abcd)
        /\ \A i \in 1..Len(abc) : abcd[i] = abc[i]
    BY <1>1, <1>5, PrefixKept
  <1> HIDE DEF abcd
  <1>7. /\ w \in Seq(Declared) /\ Len(abcd) \in Nat /\ Len(abcd) <= Len(w)
        /\ \A i \in 1..Len(abcd) : w[i] = abcd[i]
    BY <1>1, <1>6, PrefixKept
  <1>8. Len(w) \in Nat
    BY <1>7, LenProperties
  <1>9. w = Work
    BY <1>2 DEF w, abcd, abc, ab
  <1> HIDE DEF w
  <1>10. Len(a) <= Len(w) /\ \A i \in 1..Len(a) : w[i] = a[i]
    BY <1>4, <1>5, <1>6, <1>7, <1>8
  <1>11. QED
    BY <1>3, <1>9, <1>10 DEF n

\* The lets come first, in source order.
LEMMA LetBefore ==
  ASSUME TypeOK, NEW x \in 1..Len(Work), NEW i \in 1..Len(unit["let"]),
         Work[x][1] = "let" => i < Work[x][2]
  PROVE  \E y \in 1..(x - 1) : Work[y] = <<"let", i>>
  <1> DEFINE n == Len(unit["let"])
  <1>1. n \in Nat /\ Len(Work) \in Nat /\ \A j \in 1..n : Work[j] = <<"let", j>>
    BY LetsFirst, WorkIs
  <1>2. i < x
    <2>1. CASE x <= n
      <3>1. Work[x] = <<"let", x>>
        BY <1>1, <2>1
      <3>2. QED
        BY <3>1
    <2>2. CASE x > n
      BY <1>1, <2>2
    <2>3. QED
      BY <1>1, <2>1, <2>2
  <1>3. i \in 1..(x - 1)
    BY <1>1, <1>2
  <1>4. QED
    BY <1>1, <1>3

\* The prototypes of the functions come before their bodies.
LEMMA FnBefore ==
  ASSUME TypeOK, NEW x \in 1..Len(Work), Work[x][1] = "body",
         NEW i \in 1..Len(unit["fn"])
  PROVE  \E y \in 1..(x - 1) : Work[y] = <<"fn", i>>
  <1> DEFINE a == All("let")
             b == All("typedef")
             c == All("effect")
             d == All("fn")
             e == All("body")
             f == <<"fn", i>>
  <1>1. /\ a \in Seq(Declared) /\ Members(a) = Of("let")
        /\ b \in Seq(Declared) /\ Members(b) = Of("typedef")
        /\ c \in Seq(Declared) /\ Members(c) = Of("effect")
        /\ d \in Seq(Declared) /\ Members(d) = Of("fn")
        /\ e \in Seq(Declared)
    BY AllAre DEF Kinds
  <1>2. Work = (((a \o b) \o c) \o d) \o e
    BY DEF Work
  <1>3. f \in Of("fn")
    <2>1. unit["fn"] \in Seq(Declarations)
      BY DEF TypeOK, Kinds
    <2>2. QED
      BY <2>1, LenProperties DEF Of
  <1>4. \A g \in Of("let") \union Of("typedef") \union Of("effect") \union Of("fn") :
          g[1] # "body"
    BY DEF Of
  <1> HIDE DEF a, b, c, d, e, f
  <1> DEFINE ab == a \o b
             abc == ab \o c
             p == abc \o d
             w == p \o e
  <1>5. ab \in Seq(Declared) /\ Members(ab) = Of("let") \union Of("typedef")
    BY <1>1, Joined
  <1> HIDE DEF ab
  <1>6. abc \in Seq(Declared) /\ Members(abc) = Members(ab) \union Of("effect")
    BY <1>1, <1>5, Joined
  <1> HIDE DEF abc
  <1>7. p \in Seq(Declared) /\ Members(p) = Members(abc) \union Of("fn")
    BY <1>1, <1>6, Joined
  <1> HIDE DEF p
  <1>8. /\ Len(p) \in Nat /\ \A j \in 1..Len(p) : w[j] = p[j]
    BY <1>1, <1>7, PrefixKept
  <1>9. w = Work
    BY <1>2 DEF w, p, abc, ab
  <1> HIDE DEF w
  <1>10. \A g \in Members(p) : g[1] # "body"
    BY <1>4, <1>5, <1>6, <1>7
  <1>11. x \notin 1..Len(p)
    BY <1>8, <1>9, <1>10 DEF Members
  <1>12. PICK y \in 1..Len(p) : p[y] = f
    BY <1>3, <1>7 DEF Members
  <1>13. x \in Nat /\ y \in Nat /\ Len(p) \in Nat
    BY <1>8
  <1>14. y \in 1..(x - 1)
    BY <1>11, <1>13
  <1>15. QED
    BY <1>8, <1>9, <1>12, <1>14 DEF f

LEMMA LetsOffered ==
  ASSUME TypeOK, NEW n \in Nat, n <= Len(unit["let"]),
         NEW G, \A i \in 1..n : <<"let", i>> \in G
  PROVE  NamesOf("let", n) \in SUBSET Names /\ Offered(NamesOf("let", n), G)
  <1>1. unit["let"] \in Seq(Declarations) /\ Len(unit["let"]) \in Nat
    BY LetsFirst
  <1>2. ASSUME NEW m \in NamesOf("let", n)
        PROVE  m \in Names /\ \E e \in G : e[1] = "let" /\ Name(e) = m
    <2>1. PICK i \in 1..n : m = unit["let"][i].name
      BY <1>2 DEF NamesOf
    <2>2. i \in 1..Len(unit["let"])
      BY <1>1
    <2>3. m \in Names
      <3>1. unit["let"][i] \in Declarations
        BY <1>1, <2>2, Elements
      <3>2. QED
        BY <2>1, <3>1 DEF Declarations
    <2>4. <<"let", i>> \in G /\ Name(<<"let", i>>) = m
      BY <2>1 DEF Name
    <2>5. QED
      BY <2>3, <2>4
  <1>3. QED
    BY <1>2 DEF Offered

LEMMA SatisfiedProvided ==
  ASSUME TypeOK, NEW d \in Declared, NEW W, NEW V, NEW G,
         Satisfied(Refs(d), Derivable(W), V),
         \A n \in V : \E e \in G : e[1] \in Values(d) /\ Name(e) = n
  PROVE  Provided(d, W, G)
  <1>1. DOMAIN Refs(d) = 1..Len(Refs(d))
    BY DeclTyped, LenProperties
  <1>2. QED
    BY <1>1 DEF Satisfied, Provided

\* When all that comes before has been generated, a declaration is provided for.
LEMMA TurnComes ==
  ASSUME TypeOK, Buildable, NEW x \in 1..Len(Work), NEW G,
         \A y \in 1..(x - 1) : Work[y] \in G
  PROVE  \E W \in SUBSET Names : Offered(W, G) /\ Provided(Work[x], W, G)
  <1> DEFINE d == Work[x]
             n == Len(unit["let"])
             lets == NamesOf("let", n)
             fns == NamesOf("fn", Len(unit["fn"]))
  <1>1. d \in Declared /\ n \in Nat
    BY WorkIs, LetsFirst DEF Members
  <1>2. PICK k \in Kinds : \E j \in DOMAIN unit[k] : d = <<k, j>>
    BY <1>1 DEF Declared
  <1>3. PICK j \in DOMAIN unit[k] : d = <<k, j>>
    BY <1>2
  <1>4. d[1] = k /\ d[2] = j /\ Refs(d) = unit[k][j].refs
    BY <1>3 DEF Refs
  <1>5. CASE k = "let"
    <2>1. j \in 1..n
      <3>1. unit["let"] \in Seq(Declarations)
        BY LetsFirst
      <3>2. QED
        BY <1>5, <3>1, LenProperties
    <2>2. j - 1 \in Nat /\ j - 1 <= n /\ \A i \in 1..(j - 1) : i \in 1..n /\ i < j
      BY <1>1, <2>1
    <2>3. \A i \in 1..(j - 1) : <<"let", i>> \in G
      BY <1>4, <2>2, LetBefore
    <2>4. NamesOf("let", j - 1) \in SUBSET Names /\ Offered(NamesOf("let", j - 1), G)
      BY <2>2, <2>3, LetsOffered
    <2> DEFINE W == NamesOf("let", j - 1)
    <2>5. Satisfied(Refs(d), Derivable(W), W)
      BY <1>2, <1>4, <1>5 DEF Buildable
    <2>6. "let" \in Values(d)
      BY DEF Values
    <2> HIDE DEF W, d
    <2>7. Provided(d, W, G)
      <3>1. \A m \in W : \E e \in G : e[1] \in Values(d) /\ Name(e) = m
        BY <2>4, <2>6 DEF Offered, W
      <3>2. QED
        BY <1>1, <2>5, <3>1, SatisfiedProvided
    <2>8. QED
      BY <2>4, <2>7 DEF W, d
  <1>6. CASE k # "let"
    <2>1. \A i \in 1..n : <<"let", i>> \in G
      BY <1>4, <1>6, LetBefore
    <2>2. lets \in SUBSET Names /\ Offered(lets, G)
      <3>1. n <= Len(unit["let"])
        BY <1>1
      <3> HIDE DEF n
      <3>2. NamesOf("let", n) \in SUBSET Names /\ Offered(NamesOf("let", n), G)
        BY <1>1, <2>1, <3>1, LetsOffered
      <3>3. QED
        BY <3>2
    <2>3. CASE k = "body"
      <3>1. Satisfied(Refs(d), Derivable(lets), lets \union fns)
        BY <1>2, <1>4, <2>3 DEF Buildable
      <3>2. "let" \in Values(d) /\ "fn" \in Values(d)
        BY <1>4, <2>3 DEF Values
      <3>3. ASSUME NEW m \in fns
            PROVE  \E e \in G : e[1] = "fn" /\ Name(e) = m
        <4>1. PICK i \in 1..Len(unit["fn"]) : m = unit["fn"][i].name
          BY DEF NamesOf
        <4>2. PICK y \in 1..(x - 1) : Work[y] = <<"fn", i>>
          BY <1>4, <2>3, FnBefore
        <4>3. <<"fn", i>> \in G /\ Name(<<"fn", i>>) = m
          BY <4>1, <4>2 DEF Name
        <4>4. QED
          BY <4>3
      <3> HIDE DEF d, lets, fns
      <3>4. \A m \in lets \union fns : \E e \in G : e[1] \in Values(d) /\ Name(e) = m
        BY <2>2, <3>2, <3>3 DEF Offered
      <3>5. Provided(d, lets, G)
        BY <1>1, <3>1, <3>4, SatisfiedProvided
      <3>6. QED
        BY <2>2, <3>5 DEF d
    <2>4. CASE k # "body"
      <3>1. k \in TypeKinds \union {"fn"}
        BY <1>6, <2>4 DEF Kinds, TypeKinds
      <3>2. Satisfied(Refs(d), Derivable(lets), lets)
        BY <1>2, <1>4, <3>1 DEF Buildable
      <3>3. "let" \in Values(d)
        BY DEF Values
      <3> HIDE DEF d, lets
      <3>4. \A m \in lets : \E e \in G : e[1] \in Values(d) /\ Name(e) = m
        BY <2>2, <3>3 DEF Offered
      <3>5. Provided(d, lets, G)
        BY <1>1, <3>2, <3>4, SatisfiedProvided
      <3>6. QED
        BY <2>2, <3>5 DEF d
    <2>5. QED
      BY <2>3, <2>4
  <1>7. QED
    BY <1>5, <1>6
-----------------------------------------------------------------------------
(* Every action keeps it.                                                  *)

LEMMA OnTrackFacts ==
  ASSUME BuildInv, Feasible
  PROVE  /\ TypeOK /\ stack \in Seq(CallType) /\ Len(stack) \in Nat
         /\ OnceInv /\ DistinctTypes /\ Buildable /\ Len(Types) < StackLimit
         /\ OnTrack(stack, Generated)
  BY StackGood, LenProperties DEF BuildInv, WholeInv, IInv, Succeeds, Feasible, OnceInv

\* The innermost call is replaced by one that has tried nothing.
LEMMA TopTracks ==
  ASSUME NEW s \in Seq(CallType), s # <<>>, NEW G, OnTrack(s, G),
         NEW c \in CallType, c.decl = s[Len(s)].decl, c.tried = 0
  PROVE  OnTrack([s EXCEPT ![Len(s)] = c], G)
  <1> DEFINE L == Len(s)
             t == [s EXCEPT ![Len(s)] = c]
  <1>1. /\ t \in Seq(CallType) /\ Len(t) = L /\ t[L] = c
        /\ \A i \in 1..(L - 1) : t[i] = s[i]
    BY Replaced
  <1>2. L \in Nat \ {0}
    BY EmptySeq, LenProperties
  <1> HIDE DEF t, L
  <1>3. \A i \in 1..L : i = L \/ i \in 1..(L - 1)
    BY <1>2
  <1>4. \A i \in 1..L : t[i].decl = s[i].decl
    BY <1>1, <1>3 DEF L
  <1>5. PICK W \in SUBSET Names : Offered(W, G) /\ \A i \in 1..L : Provided(s[i].decl, W, G)
    BY DEF OnTrack, L
  <1>6. \A i, j \in 1..(L - 1) : t[i].tried = t[j].tried => i = j
    BY <1>1 DEF OnTrack, L
  <1>7. \A i \in 1..L : Provided(t[i].decl, W, G)
    BY <1>4, <1>5
  <1>8. OnTrack(t, G)
    BY <1>1, <1>5, <1>6, <1>7 DEF OnTrack
  <1>9. QED
    BY <1>8 DEF t

LEMMA AgainTracks ==
  ASSUME NEW s \in Seq(CallType), NEW G,
         \A i, j \in 1..(Len(s) - 1) : s[i].tried = s[j].tried => i = j,
         NEW W \in SUBSET Names, Offered(W, G),
         \A i \in 1..Len(s) : Provided(s[i].decl, W, G)
  PROVE  OnTrack(LookAgain(s), G)
  <1>1. CASE s = <<>>
    <2>1. LookAgain(s) = <<>>
      BY <1>1 DEF LookAgain
    <2>2. OnTrack(<<>>, G)
      <3> DEFINE e == <<>>
      <3>1. Len(e) = 0 /\ 1..Len(e) = {} /\ 1..(Len(e) - 1) = {} /\ e = <<>>
        OBVIOUS
      <3> HIDE DEF e
      <3>2. OnTrack(e, G)
        BY <3>1 DEF OnTrack
      <3>3. QED
        BY <3>2 DEF e
    <2>3. QED
      BY <2>1, <2>2
  <1>2. CASE s # <<>>
    <2> DEFINE L == Len(s)
               c == [s[L] EXCEPT !.tried = 0]
               t == [s EXCEPT ![Len(s)] = c]
    <2>1. L \in Nat \ {0} /\ s[L] \in CallType
      BY <1>2
    <2>2. c \in CallType /\ c.decl = s[L].decl /\ c.tried = 0
      BY <2>1 DEF CallType
    <2> HIDE DEF c
    <2>3. /\ t \in Seq(CallType) /\ Len(t) = L /\ t[L] = c
          /\ \A i \in 1..(L - 1) : t[i] = s[i]
      BY <1>2, <2>2, Replaced
    <2>4. LookAgain(s) = t
      BY <1>2 DEF LookAgain, c
    <2> HIDE DEF t, L
    <2>5. \A i \in 1..L : i = L \/ i \in 1..(L - 1)
      BY <2>1
    <2>6. \A i \in 1..L : t[i].decl = s[i].decl
      BY <2>2, <2>3, <2>5
    <2>7. \A i, j \in 1..(L - 1) : t[i].tried = t[j].tried => i = j
      BY <2>3 DEF L
    <2>8. \A i \in 1..L : Provided(t[i].decl, W, G)
      BY <2>6 DEF L
    <2>9. OnTrack(t, G)
      BY <2>2, <2>3, <2>7, <2>8 DEF OnTrack
    <2>10. QED
      BY <2>4, <2>9
  <1>3. QED
    BY <1>1, <1>2

LEMMA BuildNextDeclaration ==
  ASSUME BuildInv, Feasible, NextDeclaration
  PROVE  status' \in {"gen", "done"} /\ OnTrack(stack', Generated')
  <1>1. /\ TypeOK /\ Buildable /\ OnTrack(stack, Generated) /\ LeftBehind
        /\ Generated' = Generated
        /\ stack = <<>> /\ status = "gen" /\ status' = status /\ at \in 1..Len(Work)
        /\ stack' = <<>> \/ stack' = <<Call(Work[at])>>
    <2>1. TypeOK /\ Buildable /\ OnTrack(stack, Generated) /\ LeftBehind
      BY OnTrackFacts DEF BuildInv, WholeInv
    <2>2. at \in 1..(Len(Work) + 1) /\ Len(Work) \in Nat /\ at <= Len(Work)
      BY <2>1, WorkIs DEF TypeOK, NextDeclaration
    <2>3. QED
      BY <2>1, <2>2 DEF NextDeclaration, Generated
  <1>2. CASE stack' = <<>>
    BY <1>1, <1>2
  <1>3. CASE stack' = <<Call(Work[at])>>
    <2> DEFINE d == Work[at]
               s == <<Call(d)>>
    <2>1. \A y \in 1..(at - 1) : Work[y] \in Generated
      BY <1>1 DEF LeftBehind
    <2>2. PICK W \in SUBSET Names : Offered(W, Generated) /\ Provided(d, W, Generated)
      BY <1>1, <2>1, TurnComes
    <2>3. Len(s) = 1 /\ s[1].decl = d /\ s[1].tried = 0
      BY DEF Call
    <2> HIDE DEF s, d
    <2>4. /\ \A i \in 1..Len(s) : i = 1
          /\ \A i, j \in 1..(Len(s) - 1) : i = j
      BY <2>3
    <2>5. OnTrack(s, Generated)
      BY <2>2, <2>3, <2>4 DEF OnTrack
    <2>6. QED
      BY <1>1, <1>3, <2>5 DEF s, d
  <1>4. QED
    BY <1>1, <1>2, <1>3

LEMMA BuildEmplace ==
  ASSUME BuildInv, Feasible, Emplace
  PROVE  status' \in {"gen", "done"} /\ OnTrack(stack', Generated')
  <1>1. /\ stack # <<>> /\ status = "gen" /\ status' = status
        /\ stack' = LookAgain(Below) /\ made' = Append(made, Top.decl)
    BY DEF Emplace, Running
  <1>2. /\ TypeOK /\ stack \in Seq(CallType) /\ Len(stack) \in Nat
        /\ OnTrack(stack, Generated)
    BY OnTrackFacts
  <1>3. /\ Below \in Seq(CallType) /\ Len(Below) = Len(stack) - 1 /\ Len(stack) - 1 \in Nat
        /\ \A i \in 1..(Len(stack) - 1) : Below[i] = stack[i]
    BY <1>1, <1>2, Popped DEF Below
  <1>4. Generated \subseteq Generated'
    <2> DEFINE d == Top.decl
    <2>1. made \in Seq(Declared) /\ d \in Declared
      BY <1>1, <1>2, TopTyped DEF TypeOK
    <2> HIDE DEF d
    <2>2. /\ DOMAIN made = 1..Len(made) /\ DOMAIN Append(made, d) = 1..(Len(made) + 1)
          /\ Len(made) \in Nat /\ \A i \in 1..Len(made) : Append(made, d)[i] = made[i]
      BY <2>1, Pushed, LenProperties
    <2>3. \A i \in DOMAIN made : i \in DOMAIN made' /\ made'[i] = made[i]
      BY <1>1, <2>2 DEF d
    <2>4. QED
      BY <2>3 DEF Generated
  <1>5. PICK W \in SUBSET Names : /\ Offered(W, Generated)
                                  /\ \A i \in 1..Len(stack) : Provided(stack[i].decl, W, Generated)
    BY <1>2 DEF OnTrack
  <1>6. Offered(W, Generated')
    BY <1>4, <1>5, OfferedGrows
  <1>7. \A i \in 1..Len(Below) : Provided(Below[i].decl, W, Generated')
    <2> SUFFICES ASSUME NEW i \in 1..Len(Below) PROVE Provided(Below[i].decl, W, Generated')
      OBVIOUS
    <2>1. i \in 1..Len(stack) /\ Below[i] = stack[i]
      BY <1>2, <1>3
    <2>2. Provided(stack[i].decl, W, Generated)
      BY <1>5, <2>1
    <2>3. QED
      BY <1>4, <2>1, <2>2, ProvidedGrows
  <1>8. \A i, j \in 1..(Len(Below) - 1) : Below[i].tried = Below[j].tried => i = j
    <2>1. \A i \in 1..(Len(Below) - 1) : i \in 1..(Len(stack) - 1) /\ Below[i] = stack[i]
      BY <1>2, <1>3
    <2>2. QED
      BY <1>2, <2>1 DEF OnTrack
  <1>9. OnTrack(LookAgain(Below), Generated')
    BY <1>3, <1>6, <1>7, <1>8, AgainTracks
  <1>10. QED
    BY <1>1, <1>9

LEMMA BuildResolve ==
  ASSUME BuildInv, Feasible, ResolveValue \/ ResolveType
  PROVE  status' \in {"gen", "done"} /\ OnTrack(stack', Generated')
  <1>1. /\ stack # <<>> /\ status = "gen" /\ status' = status /\ Generated' = Generated
        /\ NextRef
    BY DEF ResolveValue, ResolveType, AtRef, Running, Generated
  <1>2. TypeOK /\ stack \in Seq(CallType) /\ OnTrack(stack, Generated)
    BY OnTrackFacts
  <1> DEFINE c == [Call(Top.decl) EXCEPT !.pos = Top.pos + 1]
  <1>3. c \in CallType /\ c.decl = stack[Len(stack)].decl /\ c.tried = 0
    BY <1>1, <1>2, TopTyped DEF Call, CallType, Top
  <1>4. stack' = [stack EXCEPT ![Len(stack)] = c]
    BY <1>1 DEF NextRef, WithTop
  <1> HIDE DEF c
  <1>5. OnTrack([stack EXCEPT ![Len(stack)] = c], Generated)
    BY <1>1, <1>2, <1>3, TopTracks
  <1>6. QED
    BY <1>1, <1>4, <1>5

\* The reference of the innermost call is provided for: it is not given up.
LEMMA BuildGiveUp ==
  ASSUME BuildInv, Feasible, GiveUp
  PROVE  FALSE
  <1>1. /\ stack # <<>> /\ Top.pos <= Len(Refs(Top.decl))
        /\ \/ /\ Ref.kind = "value"
              /\ ~ \E d \in Generated : d[1] \in Values(Top.decl) /\ Name(d) = Ref.name
           \/ Ref.kind = "type" /\ Candidate = {}
    BY DEF GiveUp, AtRef, Running
  <1>2. TypeOK /\ OnTrack(stack, Generated)
    BY OnTrackFacts
  <1>3. /\ Len(stack) \in Nat \ {0} /\ Top.pos \in 1..Len(Refs(Top.decl))
        /\ Top = stack[Len(stack)]
    BY <1>1, <1>2, TopTyped DEF Top
  <1>4. PICK W \in SUBSET Names : Provided(Top.decl, W, Generated)
    BY <1>2, <1>3 DEF OnTrack
  <1>5. CASE Ref.kind = "value"
    BY <1>1, <1>3, <1>4, <1>5 DEF Provided, Ref
  <1>6. CASE Ref.kind = "type"
    <2>1. Ref.name \in Derivable(W)
      BY <1>3, <1>4, <1>6 DEF Provided, Ref
    <2>2. PICK x \in 1..Len(Types) : Name(Types[x]) = Ref.name
      BY <1>2, <2>1, DerivableFrom
    <2>3. x <= Top.tried
      BY <1>1, <1>2, <1>6, <2>2, NoneLater
    <2>4. Top.tried = 0
      BY <1>1, <1>2, <1>3 DEF OnTrack
    <2>5. QED
      BY <2>3, <2>4
  <1>7. QED
    BY <1>1, <1>5, <1>6

\* A type that is being generated is not asked for again: the names from its call up to
\* the one that would ask could be taken out of what can be generated.
LEMMA CandidateIsNew ==
  ASSUME BuildInv, Feasible, AtRef("type"), NEW k \in 1..Len(Types),
         Name(Types[k]) = Ref.name, NEW W, Ref.name \in Derivable(W)
  PROVE  \A a \in 1..(Len(stack) - 1) : stack[a].tried # k
  <1> SUFFICES ASSUME NEW a \in 1..(Len(stack) - 1), stack[a].tried = k
               PROVE  FALSE
    OBVIOUS
  <1> DEFINE L == Len(stack)
             D == Derivable(W)
             Cycle == {Name(stack[b].decl) : b \in (a + 1)..L}
             S == D \ Cycle
  <1>1. /\ TypeOK /\ OnceInv /\ DistinctTypes /\ stack # <<>> /\ L \in Nat
        /\ Ref.kind = "type" /\ Top = stack[L] /\ Top.pos \in 1..Len(Refs(Top.decl))
    <2>1. TypeOK /\ OnceInv /\ DistinctTypes /\ L \in Nat
      BY OnTrackFacts
    <2>2. stack # <<>> /\ Ref.kind = "type" /\ Top.pos <= Len(Refs(Top.decl))
      BY DEF AtRef, Running
    <2>3. QED
      BY <2>1, <2>2, TopTyped DEF Top
  <1>2. a + 1 \in (a + 1)..L
    BY <1>1
  <1>3. Name(stack[a + 1].decl) = Ref.name
    BY <1>1, Caller
  <1>4. Ref.name \in Cycle
    BY <1>2, <1>3
  <1>5. \A b \in (a + 1)..L : Name(stack[b].decl) \in Cycle
    OBVIOUS
  <1>6. S \in SUBSET Names /\ S \subseteq D /\ S \intersect Cycle = {}
    BY DEF Derivable
  <1>7. \A n \in D : n \in S \/ \E b \in (a + 1)..L : n = Name(stack[b].decl)
    OBVIOUS
  <1> HIDE DEF S, D, Cycle
  <1>8. ASSUME NEW x \in DOMAIN Types, Satisfied(Refs(Types[x]), S, W), Name(Types[x]) \notin S
        PROVE  FALSE
    <2>1. x \in 1..Len(Types) /\ DOMAIN Types = 1..Len(Types)
      BY <1>1, TypesAre, LenProperties
    <2>2. Name(Types[x]) \in D
      <3>1. Satisfied(Refs(Types[x]), D, W)
        BY <1>6, <1>8, SatisfiedGrows
      <3>2. QED
        BY <1>1, <3>1, DerivableClosed DEF Closed, D
    <2>3. PICK b \in (a + 1)..L : Name(Types[x]) = Name(stack[b].decl)
      BY <1>7, <1>8, <2>2
    <2>4. Types[x] = stack[b].decl
      <3>1. b - 1 \in 1..(L - 1) /\ (b - 1) + 1 = b
        BY <1>1
      <3>2. PICK y \in 1..Len(Types) : stack[b].decl = Types[y]
        BY <1>1, <3>1, Caller
      <3>3. y = x
        BY <1>1, <2>1, <2>3, <3>2 DEF DistinctTypes
      <3>4. QED
        BY <3>2, <3>3
    <2>5. ASSUME NEW p \in 1..Len(Refs(stack[b].decl)), Refs(stack[b].decl)[p].kind = "type"
          PROVE  Refs(stack[b].decl)[p].name \in S
      <3>1. Refs(Types[x]) \in Seq(References)
        BY <1>1, <2>1, TypeAt, DeclTyped
      <3>2. DOMAIN Refs(Types[x]) = 1..Len(Refs(Types[x]))
        BY <3>1, LenProperties
      <3>3. QED
        BY <1>8, <2>4, <2>5, <3>2 DEF Satisfied
    <2>6. CASE b = L
      <3>1. Ref.name \in S
        BY <1>1, <2>5, <2>6 DEF Ref
      <3>2. QED
        BY <1>4, <1>6, <3>1
    <2>7. CASE b # L
      <3>1. b \in 1..(L - 1) /\ b + 1 \in (a + 1)..L
        BY <1>1, <2>7
      <3>2. /\ Waits(stack[b], Generated) /\ Name(stack[b + 1].decl) = RefOf(stack[b]).name
            /\ b \in 1..L
        BY <1>1, <3>1, Caller DEF Named
      <3>3. stack[b].pos \in 1..Len(Refs(stack[b].decl)) /\ RefOf(stack[b]).kind = "type"
        BY <1>1, <3>2, Frames DEF Waits
      <3>4. RefOf(stack[b]).name \in S
        BY <2>5, <3>3 DEF RefOf
      <3>5. QED
        BY <1>5, <1>6, <3>1, <3>2, <3>4
    <2>8. QED
      BY <2>6, <2>7
  <1>9. Closed(S, W)
    BY <1>8 DEF Closed
  <1>10. D \subseteq S
    BY <1>6, <1>9, DerivableLeast DEF D
  <1>11. QED
    BY <1>4, <1>6, <1>10 DEF D

\* There is stack for the candidate.
LEMMA StackSuffices ==
  ASSUME BuildInv, Feasible, stack # <<>>, NEW k \in 1..Len(Types),
         \A a \in 1..(Len(stack) - 1) : stack[a].tried # k
  PROVE  Len(stack) < StackLimit
  <1> DEFINE L == Len(stack)
             M == Len(Types)
             f == [i \in 1..L |-> IF i = L THEN k ELSE stack[i].tried]
  <1>1. /\ TypeOK /\ OnceInv /\ L \in Nat /\ M \in Nat /\ M < StackLimit
        /\ OnTrack(stack, Generated) /\ StackLimit \in Nat
    BY OnTrackFacts, TypesAre, UnitAssumption
  <1>2. \A i \in 1..L : i = L \/ i \in 1..(L - 1)
    BY <1>1
  <1>3. \A i \in 1..(L - 1) : stack[i].tried \in 1..M
    BY <1>1, Caller
  <1>4. \A i, j \in 1..(L - 1) : stack[i].tried = stack[j].tried => i = j
    BY <1>1 DEF OnTrack
  <1> HIDE DEF L, M
  <1>5. f \in [1..L -> 1..M]
    BY <1>2, <1>3 DEF M
  <1>6. \A i, j \in 1..L : f[i] = f[j] => i = j
    BY <1>2, <1>4 DEF L
  <1> HIDE DEF f
  <1>7. /\ IsFiniteSet(1..L) /\ Cardinality(1..L) = L
        /\ IsFiniteSet(1..M) /\ Cardinality(1..M) = M
    BY <1>1, FS_Interval
  <1>8. ASSUME M < L
        PROVE  FALSE
    <2> DEFINE P == 1..L
               Q == 1..M
    <2>1. IsFiniteSet(P) /\ IsFiniteSet(Q) /\ Cardinality(Q) < Cardinality(P) /\ f \in [P -> Q]
      BY <1>5, <1>7, <1>8
    <2> HIDE DEF P, Q
    <2>2. \E x, y \in P : x # y /\ f[x] = f[y]
      BY <2>1, FS_PigeonHole
    <2>3. QED
      BY <1>6, <2>2 DEF P
  <1>9. QED
    BY <1>1, <1>8 DEF L

\* The stack when the k-th type is called.
Calling(k) == Append(WithTop([Top EXCEPT !.tried = k]), Call(Types[k]))

\* The call of a candidate that is not tried yet.
LEMMA CallTracks ==
  ASSUME TypeOK, stack # <<>>, DistinctTypes, NEW G, NEW W \in SUBSET Names, Offered(W, G),
         \A i \in 1..Len(stack) : Provided(stack[i].decl, W, G),
         \A i, j \in 1..(Len(stack) - 1) : stack[i].tried = stack[j].tried => i = j,
         NEW k \in 1..Len(Types), Name(Types[k]) \in Derivable(W),
         \A a \in 1..(Len(stack) - 1) : stack[a].tried # k
  PROVE  OnTrack(Calling(k), G)
  <1> DEFINE L == Len(stack)
             c == [Top EXCEPT !.tried = k]
             n == Call(Types[k])
             w == WithTop(c)
             s == Append(w, n)
  <1>1. /\ stack \in Seq(CallType) /\ L \in Nat \ {0} /\ k \in Nat
        /\ Types[k] \in Declared
    BY TopTyped, TypeAt, TypesAre DEF TypeOK
  <1>2. /\ n \in CallType /\ n.decl = Types[k] /\ n.tried = 0
        /\ c \in CallType /\ c.decl = stack[L].decl /\ c.tried = k
    <2>1. n \in CallType
      BY <1>1, CallGood
    <2>2. QED
      BY <1>1, <2>1, TopTyped DEF Call, CallType, Top
  <1>3. /\ w \in Seq(CallType) /\ Len(w) = L /\ w[L] = c
        /\ \A i \in 1..(L - 1) : w[i] = stack[i]
    BY <1>1, <1>2, Replaced DEF WithTop
  <1>4. Provided(Types[k], W, G)
    BY TypeProvided
  <1> HIDE DEF c, n, w, L
  <1>5. /\ s \in Seq(CallType) /\ Len(s) = L + 1 /\ s[L + 1] = n
        /\ \A i \in 1..L : s[i] = w[i]
    BY <1>2, <1>3, Pushed
  <1> HIDE DEF s
  <1>6. \A i \in 1..(L - 1) : i \in 1..L /\ s[i] = stack[i]
    BY <1>1, <1>3, <1>5
  <1>7. L \in 1..L /\ s[L] = c /\ \A i \in 1..L : i = L \/ i \in 1..(L - 1)
    BY <1>1, <1>3, <1>5
  <1>8. ASSUME NEW i \in 1..Len(s)
        PROVE  Provided(s[i].decl, W, G)
    <2>1. i \in 1..(L - 1) \/ i = L \/ i = L + 1
      BY <1>1, <1>5
    <2>2. CASE i \in 1..(L - 1)
      BY <1>6, <2>2 DEF L
    <2>3. CASE i = L
      BY <1>2, <1>7, <2>3 DEF L
    <2>4. CASE i = L + 1
      BY <1>2, <1>4, <1>5, <2>4
    <2>5. QED
      BY <2>1, <2>2, <2>3, <2>4
  <1>9. \A i, j \in 1..L : s[i].tried = s[j].tried => i = j
    <2> SUFFICES ASSUME NEW i \in 1..L, NEW j \in 1..L, s[i].tried = s[j].tried
                 PROVE  i = j
      OBVIOUS
    <2>1. CASE i \in 1..(L - 1) /\ j \in 1..(L - 1)
      BY <1>6, <2>1 DEF L
    <2>2. CASE i \in 1..(L - 1) /\ j = L
      BY <1>2, <1>6, <1>7, <2>2 DEF L
    <2>3. CASE i = L /\ j \in 1..(L - 1)
      BY <1>2, <1>6, <1>7, <2>3 DEF L
    <2>4. QED
      BY <1>7, <2>1, <2>2, <2>3
  <1>10. Len(s) - 1 = L
    BY <1>1, <1>5
  <1>11. OnTrack(s, G)
    BY <1>2, <1>5, <1>8, <1>9, <1>10 DEF OnTrack
  <1>12. QED
    BY <1>11 DEF Calling, s, w, n, c

LEMMA BuildTryCandidate ==
  ASSUME BuildInv, Feasible, TryCandidate
  PROVE  status' \in {"gen", "done"} /\ OnTrack(stack', Generated')
  <1>1. /\ AtRef("type") /\ stack # <<>> /\ status = "gen" /\ Generated' = Generated
        /\ Top.pos <= Len(Refs(Top.decl)) /\ Ref.kind = "type"
    BY DEF TryCandidate, AtRef, Running, Generated
  <1>2. PICK k \in Candidate :
          IF Types[k] \in Generated
            THEN stack' = LookAgain(stack) /\ status' = status
            ELSE IF Len(stack) = StackLimit
                   THEN status' = "overflow" /\ stack' = stack
                   ELSE stack' = Calling(k) /\ status' = status
    BY DEF TryCandidate, Calling
  <1>3. /\ TypeOK /\ DistinctTypes /\ stack \in Seq(CallType) /\ OnTrack(stack, Generated)
        /\ StackLimit \in Nat /\ Len(stack) \in Nat
    BY OnTrackFacts, UnitAssumption
  <1>4. k \in 1..Len(Types) /\ Name(Types[k]) = Ref.name
    <2>1. Top.tried \in Nat /\ Len(Types) \in Nat
      BY <1>1, <1>3, TopTyped, TypesAre
    <2>2. k \in (Top.tried + 1)..Len(Types) /\ Name(Types[k]) = Ref.name
      BY DEF Candidate
    <2>3. QED
      BY <2>1, <2>2
  <1>5. PICK W \in SUBSET Names :
          Offered(W, Generated) /\ \A i \in 1..Len(stack) : Provided(stack[i].decl, W, Generated)
    BY <1>3 DEF OnTrack
  <1>6. Ref.name \in Derivable(W)
    <2>1. /\ Len(stack) \in 1..Len(stack) /\ Top.pos \in 1..Len(Refs(Top.decl))
          /\ Top = stack[Len(stack)]
      BY <1>1, <1>3, TopTyped DEF Top
    <2>2. Provided(Top.decl, W, Generated)
      BY <1>5, <2>1
    <2>3. QED
      BY <1>1, <2>1, <2>2 DEF Provided, Ref
  <1>7. \A a \in 1..(Len(stack) - 1) : stack[a].tried # k
    BY <1>1, <1>4, <1>6, CandidateIsNew
  <1>8. Len(stack) # StackLimit
    BY <1>1, <1>3, <1>4, <1>7, StackSuffices
  <1>9. \A i, j \in 1..(Len(stack) - 1) : stack[i].tried = stack[j].tried => i = j
    BY <1>3 DEF OnTrack
  <1>10. CASE Types[k] \in Generated
    <2>1. OnTrack(LookAgain(stack), Generated)
      BY <1>3, <1>5, <1>9, AgainTracks
    <2>2. QED
      BY <1>1, <1>2, <1>10, <2>1
  <1>11. CASE Types[k] \notin Generated
    <2>1. Name(Types[k]) \in Derivable(W)
      BY <1>4, <1>6
    <2>2. OnTrack(Calling(k), Generated)
      BY <1>1, <1>3, <1>4, <1>5, <1>7, <1>9, <2>1, CallTracks
    <2>3. QED
      BY <1>1, <1>2, <1>8, <1>11, <2>2
  <1>12. QED
    BY <1>10, <1>11

LEMMA NextBuilds == BuildInv /\ [Next]_vars => BuildInv'
  <1> SUFFICES ASSUME BuildInv, [Next]_vars PROVE BuildInv'
    OBVIOUS
  <1>1. ASSUME Feasible
        PROVE  status' \in {"gen", "done"} /\ OnTrack(stack', Generated')
    <2>1. CASE Finish
      BY <1>1, <2>1 DEF BuildInv, Succeeds, Finish, Generated
    <2>2. CASE UNCHANGED vars
      BY <1>1, <2>2 DEF BuildInv, Succeeds, vars, Generated
    <2>3. QED
      BY <1>1, <2>1, <2>2, BuildNextDeclaration, BuildEmplace, BuildResolve, BuildTryCandidate,
         BuildGiveUp DEF Next
  <1>2. QED
    BY <1>1, BuildAfter

\* AstUnit::codegen and AstIdentType::codegen find an order whenever there is one: a unit
\* is given up, or its generation runs out of stack, only if no order puts every declaration
\* after what it refers to, provided that its types have different names and that there is
\* stack for a call of each.
THEOREM RejectsRightly == Spec => []RejectsOnlyUnbuildable
  <1>1. Init => BuildInv
    <2> SUFFICES ASSUME Init PROVE BuildInv
      OBVIOUS
    <2>1. OnceInv /\ WholeInv
      BY InitOnce, InitKeeps DEF Init, WholeInv, LeftBehind
    <2>2. status = "gen" /\ stack = <<>>
      BY DEF Init
    <2>3. OnTrack(stack, Generated)
      <3>1. Len(stack) = 0 /\ 1..Len(stack) = {} /\ 1..(Len(stack) - 1) = {}
        BY <2>2
      <3>2. Offered({}, Generated)
        BY DEF Offered
      <3>3. QED
        BY <2>2, <3>1, <3>2 DEF OnTrack
    <2>4. QED
      BY <2>1, <2>2, <2>3 DEF BuildInv, Succeeds
  <1>2. BuildInv => RejectsOnlyUnbuildable
    BY DEF BuildInv, Succeeds, Feasible, RejectsOnlyUnbuildable
  <1>3. QED
    BY <1>1, <1>2, NextBuilds, PTL DEF Spec

-----------------------------------------------------------------------------
(* Generation ends: the walk only goes on, and it can go on only so far.   *)

\* How far a call is with its reference: the candidate it was tried with last, or past
\* all of them once the name is found.
Progress(c) ==
  IF c.tried = 0 /\ c.pos <= Len(Refs(c.decl)) /\ Lookup(RefOf(c).name) # {}
  THEN Len(Types) + 1 ELSE c.tried

Further(c, d) ==
  /\ d.decl = c.decl
  /\ d.pos > c.pos \/ (d.pos = c.pos /\ Progress(d) > Progress(c))

\* The innermost call returns or gets further, and may call; those below it stay.
Advances ==
  LET n == Len(stack) IN
  /\ n > 0 /\ \A i \in 1..(n - 1) : stack'[i] = stack[i]
  /\ Len(stack') = n - 1 \/ (Len(stack') >= n /\ Further(stack[n], stack'[n]))

\* Once generation ended nothing happens; until then every step ends it, begins the next
\* round of a loop, generates a declaration, or advances the walk.
AlwaysAdvances ==
  [][/\ status = "gen"
     /\ \/ status' # "gen"
        \/ at' > at
        \/ at' = at /\ Len(made') > Len(made)
        \/ at' = at /\ made' = made /\ Advances]_vars

\* How far everything can go.
Limited ==
  /\ at <= Len(Work) + 1
  /\ Len(made) <= Len(Work)
  /\ Len(stack) <= StackLimit
  /\ \A i \in 1..Len(stack) :
       /\ stack[i].pos <= Len(Refs(stack[i].decl)) + 1
       /\ Progress(stack[i]) <= Len(Types) + 1

\* Calls are as deep as the stack allows and have tried no more than there is.
Deep(calls) ==
  /\ Len(calls) <= StackLimit
  /\ \A i \in 1..Len(calls) : calls[i].tried <= Len(Types)

LEMMA TopIs ==
  ASSUME TypeOK, stack # <<>>
  PROVE  /\ Len(stack) \in Nat \ {0} /\ stack[Len(stack)] = Top /\ stack \in Seq(CallType)
         /\ \A i \in 1..Len(stack) : i = Len(stack) \/ i \in 1..(Len(stack) - 1)
  BY TopTyped DEF Top, TypeOK

LEMMA SwappedTop ==
  ASSUME TypeOK, stack # <<>>, NEW c \in CallType
  PROVE  /\ WithTop(c) \in Seq(CallType)
         /\ Len(WithTop(c)) = Len(stack) /\ WithTop(c)[Len(stack)] = c
         /\ \A i \in 1..(Len(stack) - 1) : WithTop(c)[i] = stack[i]
  <1>1. stack \in Seq(CallType)
    BY TopIs
  <1>2. LET t == [stack EXCEPT ![Len(stack)] = c]
        IN  /\ t \in Seq(CallType) /\ Len(t) = Len(stack) /\ t[Len(stack)] = c
            /\ \A i \in 1..(Len(stack) - 1) : t[i] = stack[i]
    BY <1>1, Replaced
  <1>3. QED
    BY <1>2 DEF WithTop

LEMMA CandidateIs ==
  ASSUME TypeOK, stack # <<>>, NEW k \in Candidate
  PROVE  /\ k \in Nat /\ Top.tried < k /\ k <= Len(Types) /\ k \in 1..Len(Types)
         /\ Name(Types[k]) = Ref.name
  <1>1. Top.tried \in Nat /\ Len(Types) \in Nat
    BY TopTyped, TypesAre
  <1>2. k \in (Top.tried + 1)..Len(Types) /\ Name(Types[k]) = Ref.name
    BY DEF Candidate
  <1>3. QED
    BY <1>1, <1>2

\* A candidate that is generated can be found.
LEMMA FoundCandidate ==
  ASSUME TypeOK, stack # <<>>, NEW k \in Candidate, Types[k] \in Generated
  PROVE  Lookup(Ref.name) # {}
  <1>1. k \in 1..Len(Types) /\ Name(Types[k]) = Ref.name
    BY CandidateIs
  <1>2. Types[k] \in Named(Ref.name)
    BY <1>1, TypeAt DEF Named
  <1>3. QED
    BY <1>2, LookupNone

\* NextRef.
LEMMA ResolveAdvances ==
  ASSUME TypeOK, NextRef, stack # <<>>
  PROVE  Advances
  <1> DEFINE c == [Call(Top.decl) EXCEPT !.pos = Top.pos + 1]
  <1>1. Top \in CallType /\ Top.pos \in Nat /\ Top.decl \in Declared
    BY TopTyped
  <1>2. c \in CallType /\ c.pos = Top.pos + 1 /\ c.decl = Top.decl
    BY <1>1 DEF Call, CallType
  <1>3. stack' = WithTop(c)
    BY DEF NextRef
  <1> HIDE DEF c
  <1>4. /\ Len(stack') = Len(stack) /\ stack'[Len(stack)] = c
        /\ \A i \in 1..(Len(stack) - 1) : stack'[i] = stack[i]
    BY <1>2, <1>3, SwappedTop
  <1>5. Further(Top, c)
    BY <1>1, <1>2 DEF Further
  <1>6. Len(stack) > 0 /\ Len(stack') >= Len(stack) /\ stack[Len(stack)] = Top
    BY <1>4, TopIs
  <1>7. QED
    BY <1>4, <1>5, <1>6 DEF Advances

LEMMA GiveUpAdvances ==
  ASSUME TypeOK, stack # <<>>, stack' = Below
  PROVE  Advances
  <1>1. /\ Below \in Seq(CallType) /\ Len(Below) = Len(stack) - 1
        /\ \A i \in 1..(Len(stack) - 1) : Below[i] = stack[i]
    BY TopIs, Popped DEF Below
  <1>2. Len(stack) > 0
    BY TopIs
  <1>3. QED
    BY <1>1, <1>2 DEF Advances

LEMMA TryAdvances ==
  ASSUME TypeOK, Deep(stack), TryCandidate
  PROVE  status' # "gen" \/ Advances
  <1>1. /\ stack # <<>> /\ Top.pos <= Len(Refs(Top.decl))
        /\ Top.tried = 0 => Lookup(Ref.name) = {}
    BY DEF TryCandidate, AtRef, Running
  <1>2. PICK k \in Candidate :
          IF Types[k] \in Generated
          THEN stack' = LookAgain(stack)
          ELSE IF Len(stack) = StackLimit
               THEN status' = "overflow"
               ELSE stack' = Append(WithTop([Top EXCEPT !.tried = k]), Call(Types[k]))
    BY DEF TryCandidate
  <1>3. /\ k \in Nat /\ Top.tried < k /\ k <= Len(Types) /\ Len(Types) \in Nat
        /\ k \in 1..Len(Types)
    BY <1>1, CandidateIs, TypesAre
  <1>4. /\ Top \in CallType /\ Top.tried \in Nat /\ Top.decl \in Declared
        /\ Len(stack) \in Nat /\ Len(stack) > 0 /\ stack[Len(stack)] = Top
        /\ Top.tried <= Len(Types)
    <2>1. Top \in CallType /\ Top.tried \in Nat /\ Top.decl \in Declared
      BY <1>1, TopTyped
    <2>2. Len(stack) \in Nat /\ Len(stack) > 0 /\ stack[Len(stack)] = Top
      BY <1>1, TopIs
    <2>3. QED
      BY <2>1, <2>2 DEF Deep
  <1>5. RefOf(Top) = Ref
    BY DEF RefOf, Ref
  <1>6. Progress(Top) = Top.tried
    BY <1>1, <1>5 DEF Progress
  <1>7. CASE Types[k] \in Generated
    <2> DEFINE c == [Top EXCEPT !.tried = 0]
    <2>1. Lookup(Ref.name) # {}
      BY <1>1, <1>7, FoundCandidate
    <2>2. c \in CallType /\ c.tried = 0 /\ c.pos = Top.pos /\ c.decl = Top.decl
      BY <1>4 DEF CallType
    <2>3. stack' = WithTop(c)
      <3>1. stack' = [stack EXCEPT ![Len(stack)].tried = 0]
        BY <1>1, <1>2, <1>7 DEF LookAgain
      <3>2. QED
        BY <3>1, <1>4 DEF WithTop
    <2> HIDE DEF c
    <2>4. /\ Len(stack') = Len(stack) /\ stack'[Len(stack)] = c
          /\ \A i \in 1..(Len(stack) - 1) : stack'[i] = stack[i]
      BY <1>1, <2>2, <2>3, SwappedTop
    <2>5. RefOf(c) = Ref
      BY <1>5, <2>2 DEF RefOf
    <2>6. Progress(c) = Len(Types) + 1
      BY <1>1, <2>1, <2>2, <2>5 DEF Progress
    <2>7. Further(Top, c)
      BY <1>3, <1>4, <1>6, <2>2, <2>6 DEF Further
    <2>8. QED
      BY <1>4, <2>4, <2>7 DEF Advances
  <1>8. CASE Types[k] \notin Generated /\ Len(stack) = StackLimit
    BY <1>2, <1>8
  <1>9. CASE Types[k] \notin Generated /\ Len(stack) # StackLimit
    <2> DEFINE c == [Top EXCEPT !.tried = k]
               e == Call(Types[k])
               t == WithTop(c)
    <2>1. c \in CallType /\ c.tried = k /\ c.pos = Top.pos /\ c.decl = Top.decl
      BY <1>3, <1>4 DEF CallType
    <2>2. stack' = Append(t, e)
      BY <1>2, <1>9
    <2> HIDE DEF c
    <2>3. /\ t \in Seq(CallType) /\ Len(t) = Len(stack) /\ t[Len(stack)] = c
          /\ \A i \in 1..(Len(stack) - 1) : t[i] = stack[i]
      BY <1>1, <2>1, SwappedTop
    <2>4. e \in CallType
      BY <1>3, TypeAt, CallGood
    <2> HIDE DEF e, t
    <2>5. /\ Len(stack') = Len(stack) + 1
          /\ \A i \in 1..Len(stack) : stack'[i] = t[i]
      BY <2>2, <2>3, <2>4, Pushed
    <2>6. /\ stack'[Len(stack)] = c
          /\ \A i \in 1..(Len(stack) - 1) : stack'[i] = stack[i]
      BY <1>4, <2>3, <2>5
    <2>7. Progress(c) = k
      BY <1>3, <2>1 DEF Progress
    <2>8. Further(Top, c)
      BY <1>3, <1>4, <1>6, <2>1, <2>7 DEF Further
    <2>9. QED
      BY <1>4, <2>5, <2>6, <2>8 DEF Advances
  <1>10. QED
    BY <1>7, <1>8, <1>9

LEMMA DeepNone == Deep(<<>>)
  <1>1. Len(<<>>) = 0 /\ StackLimit \in Nat
    BY UnitAssumption
  <1>2. QED
    BY <1>1 DEF Deep

LEMMA DeepOne ==
  ASSUME TypeOK, NEW d
  PROVE  Deep(<<Call(d)>>)
  <1> DEFINE s == <<Call(d)>>
  <1>1. Len(s) = 1 /\ s[1] = Call(d) /\ Call(d).tried = 0
    BY DEF Call
  <1> HIDE DEF s
  <1>2. Len(Types) \in Nat /\ StackLimit \in Nat /\ StackLimit >= 1
    BY TypesAre, UnitAssumption
  <1>3. Deep(s)
    BY <1>1, <1>2 DEF Deep
  <1>4. QED
    BY <1>3 DEF s

LEMMA DeepTop ==
  ASSUME TypeOK, stack # <<>>, Deep(stack), NEW c \in CallType, c.tried <= Len(Types)
  PROVE  Deep(WithTop(c))
  <1>1. /\ Len(WithTop(c)) = Len(stack) /\ WithTop(c)[Len(stack)] = c
        /\ \A i \in 1..(Len(stack) - 1) : WithTop(c)[i] = stack[i]
    BY SwappedTop
  <1>2. \A i \in 1..Len(stack) : i = Len(stack) \/ i \in 1..(Len(stack) - 1)
    BY TopIs
  <1>3. QED
    BY <1>1, <1>2 DEF Deep

LEMMA DeepBelow ==
  ASSUME TypeOK, stack # <<>>, Deep(stack)
  PROVE  Deep(Below) /\ Below \in Seq(CallType)
  <1>1. /\ Below \in Seq(CallType) /\ Len(Below) = Len(stack) - 1
        /\ \A i \in 1..(Len(stack) - 1) : Below[i] = stack[i]
    BY TopIs, Popped DEF Below
  <1>2. /\ Len(stack) \in Nat /\ StackLimit \in Nat
        /\ \A i \in 1..(Len(stack) - 1) : i \in 1..Len(stack)
    BY TopIs, UnitAssumption
  <1>3. Len(Below) <= StackLimit
    BY <1>1, <1>2 DEF Deep
  <1>4. QED
    BY <1>1, <1>2, <1>3 DEF Deep

LEMMA DeepAgain ==
  ASSUME TypeOK, NEW s \in Seq(CallType), Deep(s)
  PROVE  Deep(LookAgain(s))
  <1>1. CASE s = <<>>
    BY <1>1 DEF LookAgain
  <1>2. CASE s # <<>>
    <2> DEFINE n == Len(s)
               e == [s[n] EXCEPT !.tried = 0]
               t == [s EXCEPT ![n] = e]
    <2>1. n \in Nat \ {0} /\ s[n] \in CallType
      BY <1>2, EmptySeq
    <2>2. e \in CallType /\ e.tried = 0
      BY <2>1 DEF CallType
    <2> HIDE DEF e
    <2>3. /\ t \in Seq(CallType) /\ Len(t) = n /\ t[n] = e
          /\ \A i \in 1..(n - 1) : t[i] = s[i]
      BY <1>2, <2>2, Replaced
    <2>4. LookAgain(s) = t
      BY <1>2 DEF LookAgain, e
    <2> HIDE DEF t
    <2>5. Len(Types) \in Nat
      BY TypesAre
    <2>6. \A i \in 1..n : i = n \/ i \in 1..(n - 1)
      BY <2>1
    <2>7. QED
      BY <2>2, <2>3, <2>4, <2>5, <2>6 DEF Deep
  <1>3. QED
    BY <1>1, <1>2

LEMMA NextDeep ==
  ASSUME TypeOK, Deep(stack), [Next]_vars
  PROVE  Deep(stack)'
  <1>1. unit' = unit
    BY UnitStays
  <1>3. Types' = Types
    BY <1>1 DEF Types, All
  <1>4. SUFFICES Deep(stack')
    BY <1>3 DEF Deep
  <1>5. CASE NextDeclaration
    <2>1. stack' = <<>> \/ stack' = <<Call(Work[at])>>
      BY <1>5 DEF NextDeclaration
    <2>2. QED
      BY <2>1, DeepNone, DeepOne
  <1>6. CASE Finish \/ UNCHANGED vars
    BY <1>6 DEF Finish, vars
  <1>7. CASE Emplace
    <2>1. stack # <<>> /\ stack' = LookAgain(Below)
      BY <1>7 DEF Emplace, Running
    <2>2. QED
      BY <2>1, DeepBelow, DeepAgain
  <1>8. CASE ResolveValue \/ ResolveType
    <2> DEFINE c == [Call(Top.decl) EXCEPT !.pos = Top.pos + 1]
    <2>1. stack # <<>> /\ stack' = WithTop(c)
      BY <1>8 DEF ResolveValue, ResolveType, AtRef, Running, NextRef
    <2>2. Top.pos \in Nat /\ Top.decl \in Declared
      BY <2>1, TopTyped
    <2>3. c \in CallType /\ c.tried = 0
      BY <2>2 DEF Call, CallType
    <2> HIDE DEF c
    <2>4. Len(Types) \in Nat
      BY TypesAre
    <2>5. c.tried <= Len(Types)
      BY <2>3, <2>4
    <2>6. QED
      BY <2>1, <2>3, <2>5, DeepTop
  <1>9. CASE TryCandidate
    <2>1. stack # <<>> /\ stack \in Seq(CallType)
      BY <1>9 DEF TryCandidate, AtRef, Running, TypeOK
    <2>2. PICK k \in Candidate :
            \/ stack' = LookAgain(stack)
            \/ stack' = stack
            \/ /\ Len(stack) # StackLimit
               /\ stack' = Append(WithTop([Top EXCEPT !.tried = k]), Call(Types[k]))
      BY <1>9 DEF TryCandidate
    <2>3. k \in Nat /\ k <= Len(Types) /\ k \in 1..Len(Types)
      BY <2>1, CandidateIs
    <2>4. CASE /\ Len(stack) # StackLimit
               /\ stack' = Append(WithTop([Top EXCEPT !.tried = k]), Call(Types[k]))
      <3> DEFINE c == [Top EXCEPT !.tried = k]
                 e == Call(Types[k])
                 t == WithTop(c)
      <3>1. c \in CallType /\ c.tried = k
        <4>1. Top \in CallType
          BY <2>1, TopTyped
        <4>2. QED
          BY <2>3, <4>1 DEF CallType
      <3>2. stack' = Append(t, e)
        BY <2>4
      <3>3. e \in CallType /\ e.tried = 0
        <4>1. e \in CallType
          BY <2>3, TypeAt, CallGood
        <4>2. QED
          BY <4>1 DEF Call
      <3> HIDE DEF c, e
      <3>4. Deep(t) /\ t \in Seq(CallType) /\ Len(t) = Len(stack)
        BY <2>1, <2>3, <3>1, DeepTop, SwappedTop
      <3> HIDE DEF t
      <3>5. /\ Len(stack') = Len(t) + 1 /\ stack'[Len(t) + 1] = e
            /\ \A i \in 1..Len(t) : stack'[i] = t[i]
        BY <3>2, <3>3, <3>4, Pushed
      <3>6. Len(t) \in Nat /\ StackLimit \in Nat /\ Len(Types) \in Nat
        BY <3>4, UnitAssumption, TypesAre
      <3>7. Len(stack') <= StackLimit
        BY <2>4, <3>4, <3>5, <3>6 DEF Deep
      <3>8. \A i \in 1..Len(stack') : i = Len(t) + 1 \/ i \in 1..Len(t)
        BY <3>5, <3>6
      <3>9. QED
        BY <3>3, <3>4, <3>5, <3>6, <3>7, <3>8 DEF Deep
    <2>5. QED
      BY <2>1, <2>2, <2>4, DeepAgain
  <1>10. CASE GiveUp
    <2>1. stack # <<>> /\ stack' = Below
      BY <1>10 DEF GiveUp, AtRef, Running
    <2>2. QED
      BY <2>1, DeepBelow
  <1>11. QED
    BY <1>5, <1>6, <1>7, <1>8, <1>9, <1>10 DEF Next

LEMMA NextAdvances ==
  ASSUME TypeOK, Deep(stack), Next
  PROVE  /\ status = "gen"
         /\ \/ status' # "gen"
            \/ at' > at
            \/ at' = at /\ Len(made') > Len(made)
            \/ at' = at /\ made' = made /\ Advances
  <1>1. at \in Nat /\ Len(made) \in Nat /\ made \in Seq(Declared)
    <2>1. made \in Seq(Declared) /\ at \in 1..(Len(Work) + 1) /\ Len(Work) \in Nat
      BY OrdersTyped, LenProperties DEF TypeOK
    <2>2. QED
      BY <2>1, LenProperties
  <1>2. CASE NextDeclaration
    BY <1>1, <1>2 DEF NextDeclaration
  <1>3. CASE Finish
    BY <1>3 DEF Finish
  <1>4. CASE Emplace
    <2>1. stack # <<>> /\ made' = Append(made, Top.decl) /\ status = "gen" /\ at' = at
      BY <1>4 DEF Emplace, Running
    <2>2. Top.decl \in Declared
      BY <2>1, TopTyped
    <2>3. Len(Append(made, Top.decl)) = Len(made) + 1
      BY <1>1, <2>2, Pushed
    <2>4. QED
      BY <1>1, <2>1, <2>3
  <1>5. CASE ResolveValue \/ ResolveType
    <2>1. stack # <<>> /\ NextRef /\ status = "gen" /\ at' = at /\ made' = made
      BY <1>5 DEF ResolveValue, ResolveType, AtRef, Running
    <2>2. QED
      BY <2>1, ResolveAdvances
  <1>6. CASE TryCandidate
    <2>1. status = "gen" /\ at' = at /\ made' = made
      BY <1>6 DEF TryCandidate, AtRef, Running
    <2>2. QED
      BY <1>6, <2>1, TryAdvances
  <1>7. CASE GiveUp
    <2>1. stack # <<>> /\ stack' = Below /\ status = "gen" /\ at' = at /\ made' = made
      BY <1>7 DEF GiveUp, AtRef, Running
    <2>2. QED
      BY <2>1, GiveUpAdvances
  <1>8. QED
    BY <1>2, <1>3, <1>4, <1>5, <1>6, <1>7 DEF Next

LEMMA DeepKept == Spec => [](TypeOK /\ Deep(stack))
  <1>1. Init => Deep(stack)
    BY DeepNone DEF Init
  <1>2. TypeOK /\ Deep(stack) /\ [Next]_vars => Deep(stack)'
    BY NextDeep
  <1>3. QED
    BY <1>1, <1>2, TypeCorrect, PTL DEF Spec

\* No more is generated than is declared.
LEMMA MadeIsBounded ==
  ASSUME TypeOK, MadeOnce
  PROVE  Len(made) <= Len(Work)
  <1> DEFINE m == Len(made)
             n == Len(Work)
             S == 1..m
             T == 1..n
             f == [i \in S |-> CHOOSE x \in T : Work[x] = made[i]]
  <1>1. made \in Seq(Declared) /\ m \in Nat /\ n \in Nat /\ Members(Work) = Declared
    BY WorkIs, LenProperties DEF TypeOK
  <1>2. ASSUME NEW i \in S PROVE \E x \in T : Work[x] = made[i]
    <2>1. made[i] \in Members(Work)
      BY <1>1, Elements
    <2>2. QED
      BY <2>1 DEF Members
  <1>3. f \in [S -> T] /\ \A i \in S : Work[f[i]] = made[i]
    BY <1>2
  <1>4. ASSUME NEW i \in S, NEW j \in S, f[i] = f[j] PROVE i = j
    <2>1. made[i] = made[j]
      BY <1>3, <1>4
    <2>2. DOMAIN made = S
      BY <1>1, LenProperties
    <2>3. QED
      BY <2>1, <2>2 DEF MadeOnce
  <1>5. IsFiniteSet(S) /\ IsFiniteSet(T) /\ Cardinality(S) = m /\ Cardinality(T) = n
    <2> HIDE DEF m, n
    <2>1. /\ 1 \in Int /\ m \in Int /\ n \in Int
      BY <1>1
    <2>2. /\ IsFiniteSet(1..m) /\ IsFiniteSet(1..n)
          /\ Cardinality(1..m) = IF 1 > m THEN 0 ELSE m - 1 + 1
          /\ Cardinality(1..n) = IF 1 > n THEN 0 ELSE n - 1 + 1
      BY <2>1, FS_Interval
    <2>3. QED
      BY <1>1, <2>2
  <1> HIDE DEF f, S, T, m, n
  <1>6. ~(Cardinality(T) < Cardinality(S))
    BY <1>3, <1>4, <1>5, FS_PigeonHole
  <1>7. m <= n
    BY <1>1, <1>5, <1>6
  <1>8. QED
    BY <1>7 DEF m, n

\* AstUnit::codegen and AstIdentType::codegen come to an end for every unit, those that
\* refer to themselves included: each step begins the next round of a loop, generates a
\* declaration, or else leaves the calls below the innermost as they are and takes that one
\* past a reference or on to a later candidate, or returns from it.
THEOREM WalkAdvances == Spec => AlwaysAdvances
  <1> DEFINE step == /\ status = "gen"
                     /\ \/ status' # "gen"
                        \/ at' > at
                        \/ at' = at /\ Len(made') > Len(made)
                        \/ at' = at /\ made' = made /\ Advances
  <1>1. TypeOK /\ Deep(stack) /\ [Next]_vars => [step]_vars
    BY NextAdvances
  <1>2. QED
    BY <1>1, DeepKept, PTL DEF Spec, AlwaysAdvances

\* There are only so many rounds, declarations, calls, references and candidates
\* (AstUnit::codegen, AstIdentType::codegen).
THEOREM WalkIsLimited == Spec => []Limited
  <1>1. TypeOK /\ Deep(stack) /\ MadeOnce => Limited
    <2> SUFFICES ASSUME TypeOK, Deep(stack), MadeOnce PROVE Limited
      OBVIOUS
    <2>1. at <= Len(Work) + 1 /\ Len(made) <= Len(Work)
      <3>1. Len(Work) \in Nat /\ at \in 1..(Len(Work) + 1)
        BY WorkIs DEF TypeOK
      <3>2. QED
        BY <3>1, MadeIsBounded
    <2>2. ASSUME NEW i \in 1..Len(stack)
          PROVE  /\ stack[i].pos <= Len(Refs(stack[i].decl)) + 1
                 /\ Progress(stack[i]) <= Len(Types) + 1
      <3>1. stack \in Seq(CallType) /\ DOMAIN stack = 1..Len(stack) /\ Len(Types) \in Nat
        BY TypesAre, LenProperties DEF TypeOK
      <3>2. stack[i].tried \in Nat /\ stack[i].tried <= Len(Types)
        <4>1. stack[i] \in CallType
          BY <3>1, Elements
        <4>2. QED
          BY <4>1 DEF CallType, Deep
      <3>3. Progress(stack[i]) <= Len(Types) + 1
        BY <3>1, <3>2 DEF Progress
      <3>4. QED
        BY <3>1, <3>3 DEF TypeOK
    <2>3. QED
      BY <2>1, <2>2 DEF Limited, Deep
  <1>2. QED
    BY <1>1, DeepKept, MadeOnceEver, PTL

=============================================================================
