---------------------------- MODULE CgStmtProofs ----------------------------
(***************************************************************************)
(* The scope discipline of statement lowering, for functions of any size.  *)
(***************************************************************************)
EXTENDS CgStmt, SequenceTheorems, FiniteSetTheorems, TLAPS

IInv == TypeOK /\ CallsAreSound /\ ScopesAreOwned /\ NextFnFindsNoScopes

-----------------------------------------------------------------------------
(* Sequences used as stacks.                                               *)

LEMMA Elements ==
  ASSUME NEW S, NEW s \in Seq(S)
  PROVE  Len(s) \in Nat /\ \A k \in 1..Len(s) : s[k] \in S
  OBVIOUS

LEMMA Singleton ==
  ASSUME NEW S, NEW e \in S
  PROVE  <<e>> \in Seq(S)
  OBVIOUS

LEMMA Pushed ==
  ASSUME NEW S, NEW s \in Seq(S), NEW e \in S
  PROVE  /\ Append(s, e) \in Seq(S)
         /\ Append(s, e) # <<>>
         /\ Len(Append(s, e)) = Len(s) + 1
         /\ \A i \in 1..Len(s) : Append(s, e)[i] = s[i]
         /\ Append(s, e)[Len(s) + 1] = e
  OBVIOUS

LEMMA Popped ==
  ASSUME NEW S, NEW s \in Seq(S), s # <<>>
  PROVE  /\ Front(s) \in Seq(S)
         /\ Len(Front(s)) = Len(s) - 1
         /\ Len(s) - 1 \in Nat
         /\ \A i \in 1..(Len(s) - 1) : Front(s)[i] = s[i]
  <1> DEFINE n == Len(s) - 1
  <1>1. n \in Nat /\ 1 \in Int /\ n \in Int /\ \A i \in 1..n : s[i] \in S
    OBVIOUS
  <1> HIDE DEF n
  <1>2. /\ SubSeq(s, 1, n) \in Seq(S)
        /\ Len(SubSeq(s, 1, n)) = IF 1 <= n THEN n - 1 + 1 ELSE 0
        /\ \A i \in 1..(n - 1 + 1) : SubSeq(s, 1, n)[i] = s[1 + i - 1]
    BY <1>1, SubSeqProperties
  <1>3. Len(SubSeq(s, 1, n)) = n /\ \A i \in 1..n : SubSeq(s, 1, n)[i] = s[i]
    BY <1>1, <1>2
  <1>4. QED
    BY <1>1, <1>2, <1>3 DEF Front, n

LEMMA Replaced ==
  ASSUME NEW S, NEW s \in Seq(S), s # <<>>, NEW e \in S
  PROVE  LET t == [s EXCEPT ![Len(s)] = e]
         IN  /\ t \in Seq(S)
             /\ t # <<>>
             /\ Len(t) = Len(s)
             /\ \A i \in 1..(Len(s) - 1) : t[i] = s[i]
             /\ t[Len(s)] = e
  OBVIOUS

LEMMA ReplacedAt ==
  ASSUME NEW S, NEW s \in Seq(S), NEW k \in DOMAIN s, NEW e \in S
  PROVE  [s EXCEPT ![k] = e] \in Seq(S) /\ Len([s EXCEPT ![k] = e]) = Len(s)
  OBVIOUS

-----------------------------------------------------------------------------
(* The instruction stream.                                                 *)

LEMMA EmittedTo ==
  ASSUME NEW bs \in Seq(Seq(Instr)), NEW b \in DOMAIN bs, NEW i \in Instr
  PROVE  /\ Put(bs, b, i) \in Seq(Seq(Instr))
         /\ Len(Put(bs, b, i)) = Len(bs)
  <1>1. Append(bs[b], i) \in Seq(Instr)
    OBVIOUS
  <1>2. QED
    BY <1>1, ReplacedAt DEF Put

LEMMA Emitted ==
  ASSUME blocks \in Seq(Seq(Instr)), NEW b \in DOMAIN blocks, NEW i \in Instr
  PROVE  /\ With(b, i) \in Seq(Seq(Instr))
         /\ Len(With(b, i)) = Len(blocks)
  BY EmittedTo DEF With

LEMMA Widened ==
  ASSUME NEW bs \in Seq(Seq(Instr)), NEW n \in Nat
  PROVE  /\ Grown(bs, n) \in Seq(Seq(Instr))
         /\ Len(Grown(bs, n)) = Len(bs) + n
  <1>1. [k \in 1..n |-> <<>>] \in Seq(Seq(Instr))
    OBVIOUS
  <1>2. QED
    BY <1>1, ConcatProperties DEF Grown

LEMMA InstrTypes ==
  /\ \A o \in {"open", "close", "alloca", "store", "ret"} : Op(o) \in Instr
  /\ \A d \in Nat : Reg(d) \in Instr /\ Run(d) \in Instr
  /\ \A b, c \in Nat : Br(b) \in Instr /\ CondBr(b, c) \in Instr /\ Jump(b, c) \in Instr
  BY DEF Instr, Op, Reg, Run, Br, CondBr, Jump

-----------------------------------------------------------------------------
(* The call stack: pushing, resuming and popping calls.                    *)

LEMMA TopFacts ==
  ASSUME IInv, status = "gen"
  PROVE  /\ calls \in Seq(CallType) /\ calls # <<>>
         /\ Len(calls) \in Nat \ {0}
         /\ Top \in CallType
         /\ Top.base \in Nat
         /\ Accounts(calls, Len(scopes))
         /\ Sound(calls, Len(blocks))
         /\ SoundCall(Top, Len(calls), Len(calls), Len(blocks))
  <1>1. calls \in Seq(CallType) /\ calls # <<>>
    BY DEF IInv, TypeOK, ScopesAreOwned, Accounts
  <1>2. Len(calls) \in Nat \ {0} /\ Top \in CallType
    BY <1>1 DEF Top
  <1>3. Top.base \in Nat
    BY <1>2 DEF CallType
  <1>4. Accounts(calls, Len(scopes)) /\ Sound(calls, Len(blocks))
    BY DEF IInv, ScopesAreOwned, CallsAreSound
  <1>5. SoundCall(Top, Len(calls), Len(calls), Len(blocks))
    BY <1>2, <1>4 DEF Sound, Top
  <1>6. QED
    BY <1>1, <1>2, <1>3, <1>4, <1>5

\* A call resumes at another part and makes a new call.
LEMMA CallPushed ==
  ASSUME NEW cs \in Seq(CallType), NEW n, NEW p \in CallType, NEW c \in CallType,
         Accounts(cs, n),
         p.base = cs[Len(cs)].base, Owned(p) = Owned(cs[Len(cs)]),
         c.base = n
  PROVE  LET ds == Append([cs EXCEPT ![Len(cs)] = p], c)
         IN  ds \in Seq(CallType) /\ Accounts(ds, n + Owned(c))
  <1> DEFINE t == [cs EXCEPT ![Len(cs)] = p]
             ds == Append(t, c)
  <1>1. cs # <<>> /\ Len(cs) \in Nat \ {0}
    BY DEF Accounts
  <1>2. /\ t \in Seq(CallType) /\ t # <<>> /\ Len(t) = Len(cs)
        /\ \A i \in 1..(Len(cs) - 1) : t[i] = cs[i]
        /\ t[Len(cs)] = p
    BY <1>1
  <1> HIDE DEF t
  <1>3. /\ ds \in Seq(CallType) /\ ds # <<>> /\ Len(ds) = Len(cs) + 1
        /\ \A i \in 1..Len(cs) : ds[i] = t[i]
        /\ ds[Len(cs) + 1] = c
    BY <1>2, Pushed
  <1> HIDE DEF ds
  <1>4. \A i \in 1..Len(cs) : ds[i].base = cs[i].base /\ Owned(ds[i]) = Owned(cs[i])
    BY <1>1, <1>2, <1>3
  <1>5. ds[1].base = 0
    BY <1>1, <1>4 DEF Accounts
  <1>6. ASSUME NEW i \in 2..Len(ds)
        PROVE  ds[i].base = ds[i-1].base + Owned(ds[i-1])
    <2>1. CASE i = Len(ds)
      BY <2>1, <1>1, <1>3, <1>4 DEF Accounts
    <2>2. CASE i # Len(ds)
      <3>1. i \in 2..Len(cs) /\ i \in 1..Len(cs) /\ i - 1 \in 1..Len(cs)
        BY <2>2, <1>1, <1>3
      <3>2. QED
        BY <3>1, <1>4 DEF Accounts
    <2>3. QED
      BY <2>1, <2>2
  <1>7. n + Owned(c) = ds[Len(ds)].base + Owned(ds[Len(ds)])
    BY <1>1, <1>3
  <1>8. QED
    BY <1>3, <1>5, <1>6, <1>7 DEF Accounts, t, ds

\* A call resumes at another part.
LEMMA CallResumed ==
  ASSUME NEW cs \in Seq(CallType), NEW n, NEW p \in CallType,
         Accounts(cs, n),
         p.base = cs[Len(cs)].base, Owned(p) = Owned(cs[Len(cs)])
  PROVE  LET ds == [cs EXCEPT ![Len(cs)] = p]
         IN  ds \in Seq(CallType) /\ Accounts(ds, n)
  <1> DEFINE ds == [cs EXCEPT ![Len(cs)] = p]
  <1>1. cs # <<>> /\ Len(cs) \in Nat \ {0}
    BY DEF Accounts
  <1>2. /\ ds \in Seq(CallType) /\ ds # <<>> /\ Len(ds) = Len(cs)
        /\ \A i \in 1..(Len(cs) - 1) : ds[i] = cs[i]
        /\ ds[Len(cs)] = p
    BY <1>1
  <1> HIDE DEF ds
  <1>3. \A i \in 1..Len(cs) : ds[i].base = cs[i].base /\ Owned(ds[i]) = Owned(cs[i])
    BY <1>1, <1>2
  <1>4. \A i \in 2..Len(cs) : i \in 1..Len(cs) /\ i - 1 \in 1..Len(cs)
    OBVIOUS
  <1>5. ds # <<>> /\ ds[1].base = 0
    BY <1>1, <1>2, <1>3 DEF Accounts
  <1>6. \A i \in 2..Len(ds) : ds[i].base = ds[i-1].base + Owned(ds[i-1])
    BY <1>1, <1>2, <1>3, <1>4 DEF Accounts
  <1>7. n = ds[Len(ds)].base + Owned(ds[Len(ds)])
    BY <1>1, <1>2, <1>3 DEF Accounts
  <1>8. QED
    BY <1>2, <1>5, <1>6, <1>7 DEF Accounts, ds

\* A call that is not the function returns.
LEMMA CallPopped ==
  ASSUME NEW cs \in Seq(CallType), NEW n, Accounts(cs, n), Len(cs) # 1
  PROVE  /\ Front(cs) \in Seq(CallType)
         /\ Accounts(Front(cs), cs[Len(cs)].base)
  <1> DEFINE ds == Front(cs)
  <1>1. cs # <<>> /\ Len(cs) \in Nat /\ Len(cs) > 1
    <2>1. cs # <<>>
      BY DEF Accounts
    <2>2. Len(cs) \in Nat \ {0}
      BY <2>1, EmptySeq
    <2>3. QED
      BY <2>1, <2>2
  <1>2. /\ ds \in Seq(CallType) /\ Len(ds) = Len(cs) - 1
        /\ \A i \in 1..(Len(cs) - 1) : ds[i] = cs[i]
    BY <1>1, Popped
  <1> HIDE DEF ds
  <1>3. ds # <<>> /\ ds[1].base = 0
    BY <1>1, <1>2 DEF Accounts
  <1>4. \A i \in 2..Len(ds) : ds[i].base = ds[i-1].base + Owned(ds[i-1])
    BY <1>1, <1>2 DEF Accounts
  <1>5. cs[Len(cs)].base = ds[Len(ds)].base + Owned(ds[Len(ds)])
    BY <1>1, <1>2 DEF Accounts
  <1>6. QED
    BY <1>2, <1>3, <1>4, <1>5 DEF Accounts, ds

LEMMA SoundPushed ==
  ASSUME NEW cs \in Seq(CallType), cs # <<>>, cs[Len(cs)].op # "emit",
         NEW nb \in Nat, NEW mb \in Nat, nb <= mb, Sound(cs, nb),
         NEW p \in CallType, p.op # "emit", SoundCall(p, Len(cs), Len(cs), mb),
         NEW c \in CallType, SoundCall(c, Len(cs) + 1, Len(cs) + 1, mb)
  PROVE  Sound(Append([cs EXCEPT ![Len(cs)] = p], c), mb)
  <1> DEFINE t == [cs EXCEPT ![Len(cs)] = p]
             ds == Append(t, c)
  <1>1. Len(cs) \in Nat \ {0}
    BY EmptySeq
  <1>2. /\ t \in Seq(CallType) /\ t # <<>> /\ Len(t) = Len(cs)
        /\ \A i \in 1..(Len(cs) - 1) : t[i] = cs[i]
        /\ t[Len(cs)] = p
    BY <1>1
  <1> HIDE DEF t
  <1>3. /\ Len(ds) = Len(cs) + 1
        /\ \A i \in 1..Len(cs) : ds[i] = t[i]
        /\ ds[Len(cs) + 1] = c
    BY <1>2, Pushed
  <1> HIDE DEF ds
  <1>4. ASSUME NEW i \in 1..Len(ds)
        PROVE  SoundCall(ds[i], i, Len(ds), mb)
    <2>1. CASE i = Len(ds)
      BY <2>1, <1>3
    <2>2. CASE i = Len(cs)
      <3>1. ds[i] = p
        BY <2>2, <1>1, <1>2, <1>3
      <3>2. QED
        BY <3>1, <2>2 DEF SoundCall
    <2>3. CASE i < Len(cs)
      <3>1. i \in 1..Len(cs) /\ i # Len(cs) /\ ds[i] = cs[i] /\ cs[i] \in CallType
        BY <2>3, <1>1, <1>2, <1>3
      <3>2. SoundCall(cs[i], i, Len(cs), nb)
        BY <3>1 DEF Sound
      <3>3. /\ cs[i].op = "if" => cs[i].join \in Nat /\ cs[i].else \in Nat
            /\ cs[i].op = "for" => /\ cs[i].loop \in Nat /\ cs[i].post \in Nat
                                  /\ cs[i].else \in Nat /\ cs[i].exit \in Nat
        BY <3>1 DEF CallType, BlockIds
      <3>4. QED
        BY <3>1, <3>2, <3>3 DEF SoundCall
    <2>4. QED
      BY <2>1, <2>2, <2>3, <1>1, <1>3
  <1>5. QED
    BY <1>4 DEF Sound, ds, t

LEMMA SoundResumed ==
  ASSUME NEW cs \in Seq(CallType), cs # <<>>,
         NEW nb \in Nat, Sound(cs, nb),
         NEW p \in CallType, SoundCall(p, Len(cs), Len(cs), nb)
  PROVE  Sound([cs EXCEPT ![Len(cs)] = p], nb)
  <1> DEFINE ds == [cs EXCEPT ![Len(cs)] = p]
  <1>1. Len(cs) \in Nat \ {0}
    BY EmptySeq
  <1>2. /\ Len(ds) = Len(cs)
        /\ \A i \in 1..(Len(cs) - 1) : ds[i] = cs[i]
        /\ ds[Len(cs)] = p
    BY <1>1
  <1> HIDE DEF ds
  <1>3. ASSUME NEW i \in 1..Len(ds)
        PROVE  SoundCall(ds[i], i, Len(ds), nb)
    BY <1>1, <1>2 DEF Sound
  <1>4. QED
    BY <1>3 DEF Sound, ds

LEMMA SoundPopped ==
  ASSUME NEW cs \in Seq(CallType), cs # <<>>, NEW nb \in Nat, Sound(cs, nb)
  PROVE  Sound(Front(cs), nb)
  <1>1. /\ Len(cs) \in Nat \ {0} /\ Len(Front(cs)) = Len(cs) - 1
        /\ \A i \in 1..(Len(cs) - 1) : Front(cs)[i] = cs[i]
    BY EmptySeq, Popped
  <1>2. ASSUME NEW i \in 1..Len(Front(cs))
        PROVE  SoundCall(Front(cs)[i], i, Len(Front(cs)), nb)
    BY <1>1 DEF Sound, SoundCall
  <1>3. QED
    BY <1>2 DEF Sound

-----------------------------------------------------------------------------
(* The same facts as the actions use them.                                 *)

\* The parts of the code of each member function that a call may resume at.
PartsOf == [fn |-> {"body", "return"}, block |-> {"stmts", "pop"},
            if |-> {"then", "endthen", "else", "endelse"},
            for |-> {"loop", "post", "forelse", "exit"}]

LEMMA PartChanged ==
  ASSUME NEW c \in CallType, c.op \in {"fn", "block", "if", "for"},
         NEW x \in PartsOf[c.op]
  PROVE  LET p == [c EXCEPT !.part = x]
         IN  /\ p \in CallType
             /\ p.op = c.op /\ p.part = x /\ p.base = c.base
             /\ Owned(p) = Owned(c)
             /\ \A i, n, m : SoundCall(c, i, n, m) => SoundCall(p, i, n, m)
  <1> DEFINE p == [c EXCEPT !.part = x]
  <1>1. p \in CallType /\ p.op = c.op /\ p.part = x /\ p.base = c.base
    <2>1. CASE c.op = "fn"
      BY <2>1 DEF CallType, PartsOf
    <2>2. CASE c.op = "block"
      BY <2>2 DEF CallType, PartsOf
    <2>3. CASE c.op = "if"
      BY <2>3 DEF CallType, PartsOf
    <2>4. CASE c.op = "for"
      BY <2>4 DEF CallType, PartsOf
    <2>5. QED
      BY <2>1, <2>2, <2>3, <2>4
  <1>2. /\ c.op = "if" => p.init = c.init /\ p.join = c.join /\ p.else = c.else
        /\ c.op = "for" => /\ p.loop = c.loop /\ p.post = c.post
                          /\ p.else = c.else /\ p.exit = c.exit
    BY DEF CallType
  <1> HIDE DEF p
  <1>3. Owned(p) = Owned(c)
    BY <1>1, <1>2 DEF Owned
  <1>4. \A i, n, m : SoundCall(c, i, n, m) => SoundCall(p, i, n, m)
    BY <1>1, <1>2 DEF SoundCall
  <1>5. QED
    BY <1>1, <1>3, <1>4 DEF p

LEMMA ResumeIsReplace ==
  ASSUME calls \in Seq(CallType), calls # <<>>, NEW x
  PROVE  Resume(x) = [calls EXCEPT ![Len(calls)] = [Top EXCEPT !.part = x]]
  BY DEF Resume, Top

\* A running call that is not the function, and what is left when it returns.
LEMMA Returning ==
  ASSUME IInv, status = "gen", Top.op # "fn"
  PROVE  /\ Below \in Seq(CallType) /\ Below # <<>>
         /\ Accounts(Below, Top.base)
         /\ Sound(Below, Len(blocks))
         /\ Below[Len(Below)].op # "emit"
         /\ Len(scopes) = Top.base + Owned(Top)
  <1>1. Len(calls) # 1 /\ Len(calls) \in Nat \ {0}
    BY TopFacts DEF SoundCall
  <1>2. Below \in Seq(CallType) /\ Accounts(Below, Top.base)
    BY <1>1, TopFacts, CallPopped DEF Below, Top
  <1>3. Len(blocks) \in Nat
    BY DEF IInv, TypeOK
  <1>4. Sound(Below, Len(blocks))
    BY <1>3, TopFacts, SoundPopped DEF Below
  <1>5. Below[Len(Below)].op # "emit"
    <2>1. /\ Len(Below) = Len(calls) - 1
          /\ \A i \in 1..(Len(calls) - 1) : Below[i] = calls[i]
      BY <1>1, TopFacts, Popped DEF Below
    <2>2. Len(Below) \in 1..Len(calls) /\ Len(Below) # Len(calls)
          /\ Below[Len(Below)] = calls[Len(Below)]
      BY <1>1, <2>1
    <2>3. QED
      BY <2>2, TopFacts DEF Sound, SoundCall
  <1>6. Below # <<>>
    BY <1>2 DEF Accounts
  <1>7. Len(scopes) = Top.base + Owned(Top)
    BY TopFacts DEF Accounts, Top
  <1>8. QED
    BY <1>2, <1>4, <1>5, <1>6, <1>7

\* A running call resumes at another part.
LEMMA Resuming ==
  ASSUME IInv, status = "gen", Top.op \in {"fn", "block", "if", "for"},
         NEW x \in PartsOf[Top.op]
  PROVE  /\ Resume(x) \in Seq(CallType) /\ Resume(x) # <<>>
         /\ Accounts(Resume(x), Len(scopes))
         /\ Sound(Resume(x), Len(blocks))
         /\ Resume(x)[Len(Resume(x))].op # "emit"
  <1> DEFINE p == [Top EXCEPT !.part = x]
  <1>1. calls \in Seq(CallType) /\ calls # <<>> /\ Len(calls) \in Nat \ {0}
    BY TopFacts
  <1>2. /\ p \in CallType /\ p.op = Top.op /\ p.base = Top.base
        /\ Owned(p) = Owned(Top)
        /\ SoundCall(p, Len(calls), Len(calls), Len(blocks))
    BY TopFacts, PartChanged
  <1>3. Resume(x) = [calls EXCEPT ![Len(calls)] = p]
    BY <1>1, ResumeIsReplace
  <1> HIDE DEF p
  <1>4. Resume(x) \in Seq(CallType) /\ Accounts(Resume(x), Len(scopes))
    <2>1. /\ Accounts(calls, Len(scopes))
          /\ p.base = calls[Len(calls)].base /\ Owned(p) = Owned(calls[Len(calls)])
      BY <1>2, TopFacts DEF Top
    <2>2. /\ [calls EXCEPT ![Len(calls)] = p] \in Seq(CallType)
          /\ Accounts([calls EXCEPT ![Len(calls)] = p], Len(scopes))
      BY <2>1, <1>1, <1>2, CallResumed
    <2>3. QED
      BY <2>2, <1>3
  <1>5. Len(blocks) \in Nat
    BY DEF IInv, TypeOK
  <1>6. Sound(Resume(x), Len(blocks))
    BY <1>1, <1>2, <1>3, <1>5, TopFacts, SoundResumed
  <1>7. Resume(x)[Len(Resume(x))].op # "emit" /\ Resume(x) # <<>>
    BY <1>1, <1>2, <1>3
  <1>8. QED
    BY <1>4, <1>6, <1>7

\* A running call makes another, and will resume at some part.
LEMMA Calling ==
  ASSUME IInv, status = "gen",
         NEW p \in CallType, p.op = Top.op, p.op # "emit", p.base = Top.base,
         Owned(p) = Owned(Top),
         NEW mb \in Nat, Len(blocks) <= mb,
         SoundCall(p, Len(calls), Len(calls), mb),
         NEW c \in CallType, c.base = Len(scopes), c.op # "fn",
         SoundCall(c, Len(calls) + 1, Len(calls) + 1, mb)
  PROVE  LET ds == Append([calls EXCEPT ![Len(calls)] = p], c)
         IN  /\ ds \in Seq(CallType) /\ ds # <<>>
             /\ Accounts(ds, Len(scopes) + Owned(c))
             /\ Sound(ds, mb)
             /\ ds[Len(ds)] = c
  <1>1. calls \in Seq(CallType) /\ calls # <<>> /\ Len(calls) \in Nat \ {0}
    BY TopFacts
  <1>2. Len(blocks) \in Nat
    BY DEF IInv, TypeOK
  <1> DEFINE t == [calls EXCEPT ![Len(calls)] = p]
             ds == Append(t, c)
  <1>3. ds \in Seq(CallType) /\ Accounts(ds, Len(scopes) + Owned(c))
    BY <1>1, TopFacts, CallPushed DEF Top
  <1>4. Sound(ds, mb)
    BY <1>1, <1>2, TopFacts, SoundPushed DEF Top
  <1>5. ds # <<>> /\ ds[Len(ds)] = c
    <2>1. t \in Seq(CallType)
      BY <1>1
    <2> HIDE DEF t
    <2>2. QED
      BY <2>1, Pushed
  <1>6. QED
    BY <1>3, <1>4, <1>5

LEMMA ScopePushed ==
  ASSUME TypeOK, NEW sc \in ScopeType, Push(sc)
  PROVE  /\ scopes' \in Seq(ScopeType)
         /\ Len(scopes') = Len(scopes) + 1
         /\ storage'.moves \in Nat
  BY DEF TypeOK, Push, Reserve

LEMMA ScopeTypes ==
  ASSUME NEW m \in Nat, NEW n \in Nat
  PROVE  /\ Scope(NoLoop) \in ScopeType
         /\ Scope([post |-> m, exit |-> n]) \in ScopeType
  BY DEF Scope, NoLoop, ScopeType

LEMMA SpentTyped ==
  ASSUME spent \in Nat, NEW f \in Forms, Meet(f)
  PROVE  spent' \in Nat
  <1>1. Cost[f] \in Nat
    BY StmtAssumption
  <1>2. QED
    BY <1>1 DEF Meet

-----------------------------------------------------------------------------
(* Every action keeps the invariant.                                       *)

\* What a step that leaves the function under way has to provide.
LEMMA Kept ==
  ASSUME TypeOK', status' = "gen", EmitInRange',
         Accounts(calls', Len(scopes')), Sound(calls', Len(blocks'))
  PROVE  IInv'
  BY DEF IInv, CallsAreSound, ScopesAreOwned, NextFnFindsNoScopes

LEMMA KeptByFailure ==
  ASSUME TypeOK', status' \in {"failed", "crashed"}
  PROVE  IInv'
  BY DEF IInv, CallsAreSound, ScopesAreOwned, NextFnFindsNoScopes

LEMMA EnterBlockKeeps == ASSUME IInv, EnterBlock PROVE IInv'
  <1> DEFINE x == AfterBlock[Top.part]
             p == [Top EXCEPT !.part = x]
             c == BlockCall(Len(scopes))
  <1>1. status = "gen" /\ status' = "gen" /\ Top.part \in DOMAIN AfterBlock
    BY DEF EnterBlock
  <1>2. calls \in Seq(CallType) /\ calls # <<>> /\ Top \in CallType
    BY <1>1, TopFacts
  <1>3. Top.op \in {"fn", "block", "if", "for"} /\ x \in PartsOf[Top.op]
    BY <1>1, <1>2 DEF CallType, AfterBlock, PartsOf
  <1>4. /\ p \in CallType /\ p.op = Top.op /\ p.base = Top.base
        /\ Owned(p) = Owned(Top)
        /\ SoundCall(p, Len(calls), Len(calls), Len(blocks))
    BY <1>1, <1>2, <1>3, TopFacts, PartChanged
  <1>5. Len(scopes) \in Nat /\ Len(blocks) \in Nat /\ TypeOK
    BY DEF IInv, TypeOK
  <1>6. /\ c \in CallType /\ c.base = Len(scopes) /\ c.op = "block"
        /\ Owned(c) = 1
        /\ SoundCall(c, Len(calls) + 1, Len(calls) + 1, Len(blocks))
    BY <1>1, <1>5, TopFacts DEF BlockCall, CallType, Owned, SoundCall
  <1>7. calls' = Append([calls EXCEPT ![Len(calls)] = p], c)
    BY <1>2, ResumeIsReplace DEF EnterBlock
  <1> HIDE DEF p, c, x
  <1>8. /\ calls' \in Seq(CallType) /\ Accounts(calls', Len(scopes) + 1)
        /\ Sound(calls', Len(blocks)) /\ calls'[Len(calls')] = c
    BY <1>1, <1>3, <1>4, <1>5, <1>6, <1>7, Calling
  <1>9. /\ scopes' \in Seq(ScopeType) /\ Len(scopes') = Len(scopes) + 1
        /\ storage'.moves \in Nat
    BY <1>5, ScopePushed, ScopeTypes DEF EnterBlock
  <1>10. blocks' \in Seq(Seq(Instr)) /\ Len(blocks') = Len(blocks)
    BY <1>5, Emitted, InstrTypes DEF EnterBlock, TypeOK
  <1>11. bb' \in DOMAIN blocks'
    BY <1>5, <1>10 DEF EnterBlock, TypeOK
  <1>12. spent' \in Nat
    BY <1>5, SpentTyped DEF EnterBlock, TypeOK, Forms
  <1>13. EmitInRange'
    BY <1>6, <1>8 DEF Top, EmitInRange
  <1>14. TypeOK'
    BY <1>1, <1>8, <1>9, <1>10, <1>11, <1>12 DEF TypeOK
  <1>15. QED
    BY <1>1, <1>8, <1>9, <1>10, <1>13, <1>14, Kept

LEMMA DefersTyped ==
  ASSUME TypeOK, NEW i \in DOMAIN scopes
  PROVE  /\ i \in Nat
         /\ scopes[i].defers \in Seq([id : Nat, block : BOOLEAN])
         /\ Len(scopes[i].defers) \in Nat
         /\ \A k \in 1..Len(scopes[i].defers) : scopes[i].defers[k].id \in Nat
  <1>1. i \in Nat /\ scopes[i] \in ScopeType
    BY DEF TypeOK
  <1> DEFINE ds == scopes[i].defers
  <1>2. ds \in Seq([id : Nat, block : BOOLEAN])
    BY <1>1 DEF ScopeType
  <1> HIDE DEF ds
  <1>3. Len(ds) \in Nat /\ \A k \in 1..Len(ds) : ds[k] \in [id : Nat, block : BOOLEAN]
    BY <1>2, Elements
  <1>4. QED
    BY <1>1, <1>2, <1>3 DEF ds

\* A call of emit_defers on one of the scopes there are.
LEMMA EmitCallTyped ==
  ASSUME TypeOK, NEW i \in DOMAIN scopes, NEW n \in Nat, NEW nb
  PROVE  LET c == EmitCall(Len(scopes), i)
         IN  /\ c \in CallType
             /\ c.op = "emit" /\ c.base = Len(scopes) /\ Owned(c) = 0
             /\ c.scope \in DOMAIN scopes /\ c.next <= Len(scopes[c.scope].defers)
             /\ SoundCall(c, n + 2, n + 2, nb)
  <1> DEFINE m == Len(scopes[i].defers)
  <1>1. m \in Nat /\ i \in Nat /\ Len(scopes) \in Nat /\ storage.moves \in Nat
    BY DefersTyped DEF TypeOK
  <1>2. EmitCall(Len(scopes), i) =
          [op |-> "emit", part |-> "defers", base |-> Len(scopes), scope |-> i,
           next |-> m, moves |-> storage.moves]
    BY DEF EmitCall
  <1>3. m <= Len(scopes[i].defers)
    BY <1>1
  <1> HIDE DEF m
  <1>4. QED
    BY <1>1, <1>2, <1>3 DEF CallType, Owned, SoundCall

\* A running call has emit_defers emit the defers of scope i.
LEMMA CallingEmit ==
  ASSUME IInv, status = "gen",
         NEW p \in CallType, p.op = Top.op, p.op # "emit", p.base = Top.base,
         Owned(p) = Owned(Top),
         SoundCall(p, Len(calls), Len(calls), Len(blocks)),
         NEW i \in DOMAIN scopes,
         calls' = Append([calls EXCEPT ![Len(calls)] = p],
                         EmitCall(Len(scopes), i)),
         UNCHANGED <<scopes, storage, blocks, bb, status>>,
         spent' \in Nat
  PROVE  IInv'
  <1> DEFINE c == EmitCall(Len(scopes), i)
  <1>1. Len(calls) \in Nat \ {0} /\ Len(blocks) \in Nat /\ Len(scopes) \in Nat /\ TypeOK
    BY TopFacts DEF IInv, TypeOK
  <1>2. /\ c \in CallType /\ c.op = "emit" /\ c.base = Len(scopes) /\ Owned(c) = 0
        /\ c.scope \in DOMAIN scopes /\ c.next <= Len(scopes[c.scope].defers)
        /\ SoundCall(c, Len(calls) + 1, Len(calls) + 1, Len(blocks))
    <2>1. Len(calls) - 1 \in Nat /\ (Len(calls) - 1) + 2 = Len(calls) + 1
      BY <1>1
    <2>2. QED
      BY <1>1, <2>1, EmitCallTyped
  <1>3. calls' = Append([calls EXCEPT ![Len(calls)] = p], c)
    OBVIOUS
  <1> HIDE DEF c
  <1>4. /\ calls' \in Seq(CallType) /\ Accounts(calls', Len(scopes) + 0)
        /\ Sound(calls', Len(blocks)) /\ calls'[Len(calls')] = c
    BY <1>1, <1>2, <1>3, Calling
  <1>5. TypeOK'
    BY <1>1, <1>4 DEF TypeOK
  <1>6. EmitInRange'
    BY <1>2, <1>4 DEF EmitInRange, Top
  <1>7. Accounts(calls', Len(scopes')) /\ Sound(calls', Len(blocks'))
    BY <1>1, <1>4
  <1>8. QED
    BY <1>5, <1>6, <1>7, Kept

LEMMA LeaveBlockKeeps == ASSUME IInv, LeaveBlock PROVE IInv'
  <1> DEFINE p == [Top EXCEPT !.part = "pop"]
  <1>1. status = "gen" /\ Top.part = "stmts"
    BY DEF LeaveBlock, At
  <1>2. calls \in Seq(CallType) /\ calls # <<>> /\ Top \in CallType /\ Top.base \in Nat
    BY <1>1, TopFacts
  <1>3. Top.op = "block" /\ "pop" \in PartsOf[Top.op]
    BY <1>1, <1>2 DEF CallType, PartsOf
  <1>4. /\ p \in CallType /\ p.op = Top.op /\ p.base = Top.base
        /\ Owned(p) = Owned(Top)
        /\ SoundCall(p, Len(calls), Len(calls), Len(blocks))
    BY <1>1, <1>2, <1>3, TopFacts, PartChanged
  <1>5. Len(scopes) = Top.base + 1
    BY <1>1, <1>3, Returning DEF Owned
  <1>6. Len(scopes) \in DOMAIN scopes
    BY <1>2, <1>5 DEF IInv, TypeOK
  <1>7. calls' = Append([calls EXCEPT ![Len(calls)] = p],
                        EmitCall(Len(scopes), Len(scopes)))
    BY <1>2, ResumeIsReplace DEF LeaveBlock
  <1>8. UNCHANGED <<scopes, storage, blocks, bb, status>> /\ spent' \in Nat
    BY DEF LeaveBlock, IInv, TypeOK
  <1> HIDE DEF p
  <1>9. QED
    BY <1>1, <1>3, <1>4, <1>6, <1>7, <1>8, CallingEmit

LEMMA ReturnScopeKeeps == ASSUME IInv, ReturnScope PROVE IInv'
  <1> DEFINE p == [Top EXCEPT !.scope = @ - 1]
  <1>1. status = "gen" /\ Top.op = "return" /\ Top.scope > 0
    BY DEF ReturnScope, At
  <1>2. /\ calls \in Seq(CallType) /\ calls # <<>> /\ Len(calls) \in Nat \ {0}
        /\ Top \in CallType /\ Top.base \in Nat
        /\ SoundCall(Top, Len(calls), Len(calls), Len(blocks))
    BY <1>1, TopFacts
  <1>3. Top \in [op : {"return"}, part : {"defers"}, base : Nat, scope : Nat]
    BY <1>1, <1>2 DEF CallType
  <1>4. /\ p \in CallType /\ p.op = Top.op /\ p.base = Top.base
        /\ Owned(p) = Owned(Top) /\ p.scope <= p.base
    BY <1>1, <1>2, <1>3 DEF CallType, Owned, SoundCall
  <1>5. SoundCall(p, Len(calls), Len(calls), Len(blocks))
    BY <1>1, <1>2, <1>4 DEF SoundCall
  <1>6. Top.scope <= Top.base /\ Len(scopes) = Top.base
    <2>1. Owned(Top) = 0
      BY <1>1 DEF Owned
    <2>2. Len(scopes) = Top.base + 0
      BY <1>1, <2>1, Returning
    <2>3. QED
      BY <1>1, <1>2, <2>2 DEF SoundCall
  <1>7. Top.scope \in DOMAIN scopes
    BY <1>1, <1>3, <1>6 DEF IInv, TypeOK
  <1>8. calls' = Append([calls EXCEPT ![Len(calls)] = p],
                        EmitCall(Len(scopes), Top.scope))
    BY <1>2, <1>3 DEF ReturnScope, Top
  <1>9. UNCHANGED <<scopes, storage, blocks, bb, status>> /\ spent' \in Nat
    BY DEF ReturnScope, IInv, TypeOK
  <1> HIDE DEF p
  <1>10. QED
    BY <1>1, <1>4, <1>5, <1>7, <1>8, <1>9, CallingEmit

\* The active call returns, having owned what the step takes off the scopes.
LEMMA PopKeeps ==
  ASSUME IInv, status = "gen", status' = "gen", Top.op # "fn",
         calls' = Below,
         scopes' \in Seq(ScopeType), Len(scopes') = Top.base,
         storage' = storage, spent' = spent,
         blocks' \in Seq(Seq(Instr)), Len(blocks') = Len(blocks),
         bb' \in 1..Len(blocks)
  PROVE  IInv'
  <1>1. /\ calls' \in Seq(CallType) /\ calls' # <<>>
        /\ Accounts(calls', Len(scopes')) /\ Sound(calls', Len(blocks'))
        /\ calls'[Len(calls')].op # "emit"
    BY Returning
  <1>2. TypeOK'
    BY <1>1 DEF TypeOK, IInv
  <1>3. EmitInRange'
    BY <1>1 DEF EmitInRange, Top
  <1>4. QED
    BY <1>1, <1>2, <1>3, Kept

\* The last scope comes off.
LEMMA ScopePopped ==
  ASSUME TypeOK, NEW n \in Nat, Len(scopes) = n + 1
  PROVE  Front(scopes) \in Seq(ScopeType) /\ Len(Front(scopes)) = n
  <1>1. scopes \in Seq(ScopeType) /\ scopes # <<>>
    BY DEF TypeOK
  <1>2. QED
    BY <1>1, Popped

LEMMA PopBlockKeeps == ASSUME IInv, PopBlock PROVE IInv'
  <1>1. status = "gen" /\ status' = "gen" /\ Top.part = "pop" /\ TypeOK
    BY DEF PopBlock, At, IInv
  <1>2. Top.op = "block" /\ Top.base \in Nat
    BY <1>1, TopFacts DEF CallType
  <1>3. Len(scopes) = Top.base + 1
    BY <1>1, <1>2, Returning DEF Owned
  <1>4. scopes' \in Seq(ScopeType) /\ Len(scopes') = Top.base
    BY <1>1, <1>2, <1>3, ScopePopped DEF PopBlock
  <1>5. blocks' \in Seq(Seq(Instr)) /\ Len(blocks') = Len(blocks)
    BY <1>1, Emitted, InstrTypes DEF PopBlock, TypeOK
  <1>6. bb' \in 1..Len(blocks) /\ calls' = Below /\ storage' = storage /\ spent' = spent
    BY <1>1 DEF PopBlock, TypeOK
  <1>7. QED
    BY <1>1, <1>2, <1>4, <1>5, <1>6, PopKeeps

LEMMA DefersEmittedKeeps == ASSUME IInv, DefersEmitted PROVE IInv'
  <1>1. status = "gen" /\ status' = "gen" /\ Top.op = "emit" /\ TypeOK
    BY DEF DefersEmitted, At, IInv
  <1>2. Len(scopes) = Top.base + 0 /\ Top.base \in Nat
    BY <1>1, TopFacts, Returning DEF Owned
  <1>3. /\ scopes' \in Seq(ScopeType) /\ Len(scopes') = Top.base
        /\ blocks' \in Seq(Seq(Instr)) /\ Len(blocks') = Len(blocks)
        /\ bb' \in 1..Len(blocks)
        /\ calls' = Below /\ storage' = storage /\ spent' = spent
    BY <1>1, <1>2 DEF DefersEmitted, TypeOK
  <1>4. QED
    BY <1>1, <1>3, PopKeeps

LEMMA ReturnValueKeeps == ASSUME IInv, ReturnValue PROVE IInv'
  <1>1. status = "gen" /\ status' = "gen" /\ Top.op = "return" /\ TypeOK
    BY DEF ReturnValue, At, IInv
  <1>2. Len(scopes) = Top.base + 0 /\ Top.base \in Nat
    BY <1>1, TopFacts, Returning DEF Owned
  <1>3. blocks' \in Seq(Seq(Instr)) /\ Len(blocks') = Len(blocks)
    BY <1>1, Emitted, InstrTypes DEF ReturnValue, TypeOK
  <1>4. /\ scopes' \in Seq(ScopeType) /\ Len(scopes') = Top.base
        /\ bb' \in 1..Len(blocks)
        /\ calls' = Below /\ storage' = storage /\ spent' = spent
    BY <1>1, <1>2 DEF ReturnValue, TypeOK
  <1>5. QED
    BY <1>1, <1>3, <1>4, PopKeeps

LEMMA EmitDeferKeeps == ASSUME IInv, EmitDefer PROVE IInv'
  <1> DEFINE p == [Top EXCEPT !.next = @ - 1]
             d == scopes[Top.scope].defers[Top.next]
  <1>1. status = "gen" /\ Top.op = "emit" /\ Top.next > 0 /\ TypeOK
    BY DEF EmitDefer, At, IInv
  <1>2. /\ calls \in Seq(CallType) /\ calls # <<>> /\ Len(calls) \in Nat \ {0}
        /\ Top \in CallType
        /\ Accounts(calls, Len(scopes)) /\ Sound(calls, Len(blocks))
    BY <1>1, TopFacts
  <1>3. CASE Top.moves # storage.moves
    <2>1. status' = "crashed" /\ UNCHANGED <<scopes, storage, calls, blocks, bb, spent>>
      BY <1>3 DEF EmitDefer
    <2>2. TypeOK'
      BY <1>1, <2>1 DEF TypeOK
    <2>3. QED
      BY <2>1, <2>2, KeptByFailure
  <1>4. CASE Top.moves = storage.moves
    <2>1. Top \in [op : {"emit"}, part : {"defers"}, base : Nat, scope : Nat,
                   next : Nat, moves : Nat]
      BY <1>1, <1>2 DEF CallType
    <2>2. /\ p \in CallType /\ p.op = "emit" /\ p.base = Top.base
          /\ Owned(p) = Owned(Top)
          /\ p.scope = Top.scope /\ p.next = Top.next - 1
      BY <1>1, <2>1 DEF CallType, Owned
    <2>3. SoundCall(p, Len(calls), Len(calls), Len(blocks))
      BY <1>1, <1>2, <2>2, TopFacts DEF SoundCall
    <2>4. calls' = [calls EXCEPT ![Len(calls)] = p]
      BY <1>4, <1>2, <2>1 DEF EmitDefer, Top
    <2>5. Top.scope \in DOMAIN scopes /\ Top.next <= Len(scopes[Top.scope].defers)
      BY <1>1 DEF IInv, CallsAreSound, EmitInRange
    <2> HIDE DEF p
    <2>6. calls' \in Seq(CallType) /\ Accounts(calls', Len(scopes))
      <3>1. p.base = calls[Len(calls)].base /\ Owned(p) = Owned(calls[Len(calls)])
        BY <2>2 DEF Top
      <3>2. /\ [calls EXCEPT ![Len(calls)] = p] \in Seq(CallType)
            /\ Accounts([calls EXCEPT ![Len(calls)] = p], Len(scopes))
        BY <3>1, <1>2, <2>2, CallResumed
      <3>3. QED
        BY <3>2, <2>4
    <2>7. Len(blocks) \in Nat
      BY <1>1 DEF TypeOK
    <2>8. Sound(calls', Len(blocks))
      BY <1>2, <2>2, <2>3, <2>4, <2>7, SoundResumed
    <2>9. d.id \in Nat
      <3>1. Top.next \in 1..Len(scopes[Top.scope].defers)
        BY <1>1, <2>1, <2>5, DefersTyped
      <3>2. QED
        BY <1>1, <2>5, <3>1, DefersTyped
    <2>10. blocks' = With(bb, Run(d.id)) /\ UNCHANGED <<scopes, bb, spent, status>>
      BY <1>4 DEF EmitDefer
    <2> HIDE DEF d
    <2>11. blocks' \in Seq(Seq(Instr)) /\ Len(blocks') = Len(blocks)
      BY <1>1, <2>9, <2>10, Emitted, InstrTypes DEF TypeOK
    <2>12. storage'.moves \in Nat
      <3>1. storage' = storage \/ storage' = Reserve(storage, Len(scopes) + 1)
        BY <1>4 DEF EmitDefer
      <3>2. QED
        BY <1>1, <3>1 DEF TypeOK, Reserve
    <2>13. TypeOK'
      BY <1>1, <2>6, <2>10, <2>11, <2>12 DEF TypeOK
    <2>14. EmitInRange'
      <3>1. Top' = p
        BY <1>2, <2>2, <2>4 DEF Top
      <3>2. Len(scopes[Top.scope].defers) \in Nat
        BY <1>1, <2>5, DefersTyped
      <3>3. Top.next - 1 <= Len(scopes[Top.scope].defers)
        BY <2>1, <2>5, <3>2
      <3>4. QED
        BY <2>2, <2>5, <2>10, <3>1, <3>3 DEF EmitInRange
    <2>15. QED
      BY <1>1, <2>6, <2>8, <2>10, <2>11, <2>13, <2>14, Kept
  <1>5. QED
    BY <1>3, <1>4

\* A step that appends to blocks and may change the scopes, not their number.
LEMMA PlainKeeps ==
  ASSUME IInv, status = "gen", status' = "gen", Top.op # "emit",
         calls' = calls, storage' = storage, bb' = bb,
         scopes' \in Seq(ScopeType), Len(scopes') = Len(scopes),
         blocks' \in Seq(Seq(Instr)), Len(blocks') = Len(blocks),
         spent' \in Nat
  PROVE  IInv'
  <1>1. TypeOK'
    BY DEF TypeOK, IInv
  <1>2. EmitInRange'
    BY DEF EmitInRange, Top
  <1>3. Accounts(calls', Len(scopes')) /\ Sound(calls', Len(blocks'))
    BY TopFacts
  <1>4. QED
    BY <1>1, <1>2, <1>3, Kept

\* The walk is at a statement: a block call runs.
LEMMA AtStmt ==
  ASSUME IInv, NEW f \in Forms, Stmt(f)
  PROVE  /\ TypeOK /\ status = "gen" /\ Top.op = "block" /\ Top.part = "stmts"
         /\ spent' \in Nat
         /\ Len(scopes) \in Nat \ {0} /\ scopes # <<>>
  <1>1. TypeOK /\ status = "gen" /\ Top.part = "stmts"
    BY DEF Stmt, At, IInv
  <1>2. Top.op = "block" /\ Top.base \in Nat
    BY <1>1, TopFacts DEF CallType
  <1>3. Len(scopes) = Top.base + 1
    BY <1>1, <1>2, Returning DEF Owned
  <1>4. spent' \in Nat
    BY <1>1, SpentTyped DEF Stmt, TypeOK
  <1>5. QED
    BY <1>1, <1>2, <1>3, <1>4 DEF TypeOK

LEMMA DeferKeeps == ASSUME IInv, NEW b \in BOOLEAN, Defer(b) PROVE IInv'
  <1> DEFINE f == IF b THEN "defer block" ELSE "defer"
             d == [id |-> spent', block |-> b]
             n == Len(scopes)
             ds == Append(scopes[n].defers, d)
             sc == [scopes[n] EXCEPT !.defers = ds]
  <1>1. f \in Forms /\ Stmt(f)
    BY DEF Defer, Forms
  <1> HIDE DEF f
  <1>2. /\ TypeOK /\ status = "gen" /\ Top.op = "block" /\ spent' \in Nat
        /\ n \in Nat \ {0} /\ scopes # <<>>
    BY <1>1, AtStmt
  <1>3. n \in DOMAIN scopes /\ scopes[n] \in ScopeType
    BY <1>2 DEF TypeOK
  <1>4. d \in [id : Nat, block : BOOLEAN]
    BY <1>2
  <1> HIDE DEF d
  <1>5. ds \in Seq([id : Nat, block : BOOLEAN])
    BY <1>2, <1>3, <1>4, DefersTyped, Pushed
  <1> HIDE DEF ds
  <1>6. sc \in ScopeType
    BY <1>3, <1>5 DEF ScopeType
  <1>7. scopes' = [scopes EXCEPT ![n] = sc]
    BY <1>3 DEF Defer, d, ds
  <1> HIDE DEF sc
  <1>8. scopes' \in Seq(ScopeType) /\ Len(scopes') = Len(scopes)
    BY <1>2, <1>6, <1>7, Replaced DEF TypeOK
  <1>9. blocks' \in Seq(Seq(Instr)) /\ Len(blocks') = Len(blocks)
    BY <1>2, Emitted, InstrTypes DEF Defer, TypeOK
  <1>10. QED
    BY <1>2, <1>8, <1>9, PlainKeeps DEF Defer

LEMMA LetKeeps == ASSUME IInv, Let PROVE IInv'
  <1>1. TypeOK /\ status = "gen" /\ Top.op = "block" /\ spent' \in Nat
    BY AtStmt DEF Let, Forms
  <1>2. blocks' \in Seq(Seq(Instr)) /\ Len(blocks') = Len(blocks)
    <2> DEFINE bs == With(Entry, Op("alloca"))
    <2>1. Op("alloca") \in Instr /\ Op("store") \in Instr
      BY InstrTypes
    <2>2. Entry \in DOMAIN blocks
      BY <1>1 DEF TypeOK, Entry
    <2>3. bs \in Seq(Seq(Instr)) /\ Len(bs) = Len(blocks)
      BY <1>1, <2>1, <2>2, Emitted DEF TypeOK
    <2>4. blocks' = Put(bs, bb, Op("store"))
      BY DEF Let
    <2> HIDE DEF bs
    <2>5. bb \in DOMAIN bs
      BY <1>1, <2>3 DEF TypeOK
    <2>6. QED
      BY <2>1, <2>3, <2>4, <2>5, EmittedTo
  <1>3. QED
    BY <1>1, <1>2, PlainKeeps DEF Let, TypeOK

LEMMA ReturnKeeps == ASSUME IInv, Return PROVE IInv'
  <1> DEFINE c == ReturnCall(Len(scopes))
             p == Top
  <1>1. /\ TypeOK /\ status = "gen" /\ Top.op = "block" /\ spent' \in Nat
        /\ Len(scopes) \in Nat
    BY AtStmt DEF Return, Forms
  <1>2. /\ calls \in Seq(CallType) /\ calls # <<>> /\ Len(calls) \in Nat \ {0}
        /\ p \in CallType /\ p.op = Top.op /\ p.op # "emit" /\ p.base = Top.base
        /\ Owned(p) = Owned(Top)
        /\ SoundCall(p, Len(calls), Len(calls), Len(blocks))
    BY <1>1, TopFacts
  <1>3. /\ c \in CallType /\ c.base = Len(scopes) /\ c.op = "return"
        /\ Owned(c) = 0
        /\ SoundCall(c, Len(calls) + 1, Len(calls) + 1, Len(blocks))
    BY <1>1, <1>2 DEF ReturnCall, CallType, Owned, SoundCall
  <1>4. calls' = Append([calls EXCEPT ![Len(calls)] = p], c)
    BY <1>2 DEF Return, Top
  <1>5. Len(blocks) \in Nat
    BY <1>1 DEF TypeOK
  <1> HIDE DEF c, p
  <1>6. /\ calls' \in Seq(CallType) /\ Accounts(calls', Len(scopes) + 0)
        /\ Sound(calls', Len(blocks)) /\ calls'[Len(calls')] = c
    BY <1>1, <1>2, <1>3, <1>4, <1>5, Calling
  <1>7. TypeOK'
    BY <1>1, <1>6 DEF Return, TypeOK
  <1>8. EmitInRange'
    BY <1>3, <1>6 DEF EmitInRange, Top
  <1>9. QED
    BY <1>1, <1>6, <1>7, <1>8, Kept DEF Return

\* A scope that has a loop gives break and continue their blocks.
LEMMA LoopScopeTyped ==
  ASSUME TypeOK, LoopScope # 0
  PROVE  LoopScope \in DOMAIN scopes /\ scopes[LoopScope].loop # NoLoop
  <1> DEFINE W == {i \in DOMAIN scopes : scopes[i].loop # NoLoop}
             n == Len(scopes)
             T == {n - i : i \in W}
  <1>1. W # {} /\ LoopScope = CHOOSE i \in W : \A j \in W : j <= i
    BY DEF LoopScope
  <1>2. n \in Nat /\ W \subseteq 1..n
    BY DEF TypeOK
  <1> HIDE DEF W, n
  <1>3. T \subseteq Nat /\ T # {}
    BY <1>1, <1>2
  <1>4. \E x \in T : \A y \in T : ~ (<<y, x>> \in OpToRel(<, Nat))
    BY <1>3, WFMin, NatLessThanWellFounded
  <1>5. PICK i \in W : \A y \in T : ~ (<<y, n - i>> \in OpToRel(<, Nat))
    BY <1>4
  <1>6. \A j \in W : j <= i
    <2> SUFFICES ASSUME NEW j \in W PROVE j <= i
      OBVIOUS
    <2>1. n - j \in T /\ n - i \in Nat /\ n - j \in Nat
      BY <1>2, <1>3
    <2>2. ~ (n - j < n - i)
      BY <1>5, <2>1 DEF OpToRel
    <2>3. QED
      BY <1>2, <2>2
  <1>7. LoopScope \in W
    BY <1>1, <1>5, <1>6
  <1>8. QED
    BY <1>7 DEF W

LEMMA JumpKeeps ==
  ASSUME IInv, NEW f \in Forms, Stmt(f), NEW x \in {"post", "exit"}, JumpTo(x)
  PROVE  IInv'
  <1>1. TypeOK /\ status = "gen" /\ Top.op = "block" /\ spent' \in Nat
    BY AtStmt
  <1>2. CASE LoopScope = 0
    <2>1. status' = "failed" /\ UNCHANGED <<scopes, storage, calls, blocks, bb>>
      BY <1>2 DEF JumpTo
    <2>2. TypeOK'
      BY <1>1, <2>1 DEF TypeOK
    <2>3. QED
      BY <2>1, <2>2, KeptByFailure
  <1>3. CASE LoopScope # 0
    <2> DEFINE s == scopes[LoopScope]
               n == Len(scopes) - LoopScope
    <2>1. LoopScope \in DOMAIN scopes
      BY <1>1, <1>3, LoopScopeTyped
    <2>2. s \in ScopeType /\ LoopScope \in Nat
      BY <1>1, <2>1 DEF TypeOK
    <2>3. s.loop[x] \in Nat
      BY <2>2 DEF ScopeType
    <2>4. n \in Nat
      BY <1>1, <2>1 DEF TypeOK
    <2> HIDE DEF n
    <2>5. /\ blocks' = With(bb, Jump(s.loop[x], n)) /\ status' = "gen"
          /\ UNCHANGED <<scopes, storage, calls, bb>>
      BY <1>1, <1>3 DEF JumpTo, n
    <2> HIDE DEF s
    <2>6. blocks' \in Seq(Seq(Instr)) /\ Len(blocks') = Len(blocks)
      BY <1>1, <2>3, <2>4, <2>5, Emitted, InstrTypes DEF TypeOK
    <2>7. QED
      BY <1>1, <2>5, <2>6, PlainKeeps DEF TypeOK
  <1>4. QED
    BY <1>2, <1>3

LEMMA StmtFailsKeeps == ASSUME IInv, StmtFails PROVE IInv'
  <1>1. TypeOK /\ spent' \in Nat
    BY AtStmt DEF StmtFails, Forms
  <1>2. TypeOK'
    BY <1>1 DEF StmtFails, TypeOK
  <1>3. QED
    BY <1>2, KeptByFailure DEF StmtFails

LEMMA SoundWidened ==
  ASSUME NEW p \in CallType, NEW i, NEW n, NEW nb \in Nat, NEW mb \in Nat,
         nb <= mb, SoundCall(p, i, n, nb)
  PROVE  SoundCall(p, i, n, mb)
  <1>1. /\ p.op = "if" => p.join \in Nat /\ p.else \in Nat
        /\ p.op = "for" => /\ p.loop \in Nat /\ p.post \in Nat
                          /\ p.else \in Nat /\ p.exit \in Nat
    BY DEF CallType, BlockIds
  <1>2. QED
    BY <1>1 DEF SoundCall

\* A step that begins a call with blocks of its own.
LEMMA BranchKeeps ==
  ASSUME IInv, status = "gen", status' = "gen",
         NEW p \in CallType, p.op = Top.op, p.op # "emit", p.base = Top.base,
         Owned(p) = Owned(Top),
         SoundCall(p, Len(calls), Len(calls), Len(blocks)),
         NEW c \in CallType, c.base = Len(scopes), c.op \notin {"fn", "emit"},
         SoundCall(c, Len(calls) + 1, Len(calls) + 1, Len(blocks')),
         calls' = Append([calls EXCEPT ![Len(calls)] = p], c),
         blocks' \in Seq(Seq(Instr)), Len(blocks) <= Len(blocks'),
         bb' \in DOMAIN blocks', spent' \in Nat,
         scopes' \in Seq(ScopeType), Len(scopes') = Len(scopes) + Owned(c),
         storage'.moves \in Nat
  PROVE  IInv'
  <1>1. Len(calls) \in Nat \ {0} /\ Len(blocks) \in Nat
    BY TopFacts DEF IInv, TypeOK
  <1>2. Len(blocks') \in Nat
    BY Elements
  <1>3. SoundCall(p, Len(calls), Len(calls), Len(blocks'))
    BY <1>1, <1>2, SoundWidened
  <1>4. /\ calls' \in Seq(CallType) /\ Accounts(calls', Len(scopes) + Owned(c))
        /\ Sound(calls', Len(blocks')) /\ calls'[Len(calls')] = c
    BY <1>1, <1>2, <1>3, Calling
  <1>5. TypeOK'
    BY <1>4 DEF TypeOK
  <1>6. EmitInRange'
    BY <1>4 DEF EmitInRange, Top
  <1>7. QED
    BY <1>4, <1>5, <1>6, Kept

LEMMA IfKeeps ==
  ASSUME IInv, NEW init \in BOOLEAN, NEW hasElse \in BOOLEAN, If(init, hasElse)
  PROVE  IInv'
  <1> DEFINE n == Len(blocks)
             else == IF hasElse THEN n + 3 ELSE n + 2
             p == IF Top.part = "else" THEN [Top EXCEPT !.part = "endelse"] ELSE Top
             c == [op |-> "if", part |-> "then", base |-> Len(scopes),
                   init |-> init, join |-> n + 2, else |-> else]
             opened == IF init THEN With(bb, Op("open")) ELSE blocks
             emitted == Put(opened, bb, CondBr(n + 1, else))
  <1>1. status = "gen" /\ status' = "gen" /\ Top.part \in {"stmts", "else"} /\ TypeOK
    BY DEF If, IInv
  <1>2. /\ calls \in Seq(CallType) /\ calls # <<>> /\ Len(calls) \in Nat \ {0}
        /\ Top \in CallType /\ Top.base \in Nat
        /\ SoundCall(Top, Len(calls), Len(calls), n)
    BY <1>1, TopFacts
  <1>3. /\ Top.op \in {"block", "if"}
        /\ Top.part = "else" => "endelse" \in PartsOf[Top.op]
    BY <1>1, <1>2 DEF CallType, PartsOf
  <1>4. /\ p \in CallType /\ p.op = Top.op /\ p.base = Top.base
        /\ Owned(p) = Owned(Top)
        /\ SoundCall(p, Len(calls), Len(calls), n)
    BY <1>1, <1>2, <1>3, PartChanged
  <1>5. Len(scopes) \in Nat /\ n \in Nat
    BY <1>1 DEF TypeOK
  <1>6. else \in n + 2..n + 3
    BY <1>5
  <1>7. /\ c \in CallType /\ c.base = Len(scopes) /\ c.op = "if"
        /\ Owned(c) = IF init THEN 1 ELSE 0
        /\ c.join = n + 2 /\ c.else = else
    BY <1>5, <1>6 DEF CallType, BlockIds, Owned
  <1>8. calls' = Append([calls EXCEPT ![Len(calls)] = p], c)
    <2>1. CASE Top.part = "else"
      BY <2>1, <1>2, ResumeIsReplace DEF If
    <2>2. CASE Top.part # "else"
      <3>1. calls' = Append(calls, c)
        BY <2>2 DEF If
      <3>2. calls = [calls EXCEPT ![Len(calls)] = p]
        BY <2>2, <1>2 DEF Top
      <3>3. QED
        BY <3>1, <3>2
    <2>3. QED
      BY <2>1, <2>2
  <1>9. /\ blocks' = Grown(emitted, else - n) /\ bb' = n + 1
        /\ IF init THEN Push(Scope(NoLoop)) ELSE UNCHANGED <<scopes, storage>>
    BY DEF If
  <1>10. spent' \in Nat
    BY <1>1, SpentTyped DEF If, TypeOK, Forms
  <1> HIDE DEF p, c, else
  <1>11. emitted \in Seq(Seq(Instr)) /\ Len(emitted) = n
    <2>1. n + 1 \in Nat /\ else \in Nat
      BY <1>5, <1>6
    <2>2. CondBr(n + 1, else) \in Instr /\ Op("open") \in Instr
      BY <2>1, InstrTypes
    <2>3. opened \in Seq(Seq(Instr)) /\ Len(opened) = n
      BY <1>1, <2>2, Emitted DEF TypeOK
    <2> HIDE DEF opened
    <2>4. bb \in DOMAIN opened
      BY <1>1, <2>3 DEF TypeOK
    <2>5. QED
      BY <2>2, <2>3, <2>4, EmittedTo
  <1> HIDE DEF emitted, n
  <1>12. else - n \in Nat
    BY <1>5, <1>6
  <1>13. blocks' \in Seq(Seq(Instr)) /\ Len(blocks') = n + (else - n)
    BY <1>9, <1>11, <1>12, Widened
  <1>14. Len(blocks') = else /\ else >= n + 2
    BY <1>5, <1>6, <1>13
  <1>15. bb' \in DOMAIN blocks'
    BY <1>5, <1>9, <1>13, <1>14
  <1>16. SoundCall(c, Len(calls) + 1, Len(calls) + 1, Len(blocks'))
    BY <1>2, <1>5, <1>6, <1>7, <1>14 DEF SoundCall
  <1>17. /\ scopes' \in Seq(ScopeType) /\ Len(scopes') = Len(scopes) + Owned(c)
         /\ storage'.moves \in Nat
    <2>1. CASE init
      BY <2>1, <1>1, <1>7, <1>9, ScopePushed, ScopeTypes
    <2>2. CASE ~init
      BY <2>2, <1>1, <1>5, <1>7, <1>9 DEF TypeOK
    <2>3. QED
      BY <2>1, <2>2
  <1>18. Len(blocks) <= Len(blocks')
    BY <1>5, <1>14, <1>6 DEF n
  <1>19. SoundCall(p, Len(calls), Len(calls), Len(blocks))
    BY <1>4 DEF n
  <1>20. QED
    BY <1>1, <1>3, <1>4, <1>7, <1>8, <1>10, <1>13, <1>15, <1>16, <1>17, <1>18,
       <1>19, BranchKeeps

LEMMA ForKeeps ==
  ASSUME IInv, NEW cond \in BOOLEAN, NEW hasElse \in BOOLEAN, For(cond, hasElse)
  PROVE  IInv'
  <1> DEFINE n == Len(blocks)
             p == Top
             c == [op |-> "for", part |-> "loop", base |-> Len(scopes),
                   loop |-> n + 1, post |-> n + 3, else |-> n + 4, exit |-> n + 5,
                   hasElse |-> hasElse]
             test == IF cond THEN CondBr(n + 2, n + 4) ELSE Br(n + 2)
             emitted == Put(With(bb, Op("open")), bb, Br(n + 1))
             grown == Grown(emitted, 5)
  <1>1. /\ TypeOK /\ status = "gen" /\ Top.op = "block" /\ spent' \in Nat
        /\ Len(scopes) \in Nat /\ n \in Nat
    <2> DEFINE f == IF cond THEN "for" ELSE "for ever"
    <2>1. f \in Forms /\ Stmt(f)
      BY DEF For, Forms
    <2> HIDE DEF f
    <2>2. /\ TypeOK /\ status = "gen" /\ Top.op = "block" /\ spent' \in Nat
          /\ Len(scopes) \in Nat
      BY <2>1, AtStmt
    <2>3. QED
      BY <2>2 DEF TypeOK
  <1>2. /\ calls \in Seq(CallType) /\ calls # <<>> /\ Len(calls) \in Nat \ {0}
        /\ p \in CallType /\ p.op = "block" /\ p.base = Top.base
        /\ Owned(p) = Owned(Top) /\ p.op = Top.op
        /\ SoundCall(p, Len(calls), Len(calls), Len(blocks))
    BY <1>1, TopFacts
  <1>3. /\ c \in CallType /\ c.base = Len(scopes) /\ c.op = "for" /\ Owned(c) = 1
        /\ c.loop = n + 1 /\ c.post = n + 3 /\ c.else = n + 4 /\ c.exit = n + 5
    BY <1>1 DEF CallType, BlockIds, Owned
  <1>4. /\ calls' = Append(calls, c) /\ bb' = n + 2 /\ status' = "gen"
        /\ Push(Scope([post |-> n + 3, exit |-> n + 5]))
        /\ blocks' = Put(grown, n + 1, test)
    BY <1>1 DEF For
  <1>5. calls' = Append([calls EXCEPT ![Len(calls)] = p], c)
    BY <1>2, <1>4 DEF Top
  <1>6. test \in Instr
    BY <1>1, InstrTypes
  <1> HIDE DEF p, c, test
  <1>7. emitted \in Seq(Seq(Instr)) /\ Len(emitted) = n
    <2> DEFINE opened == With(bb, Op("open"))
    <2>1. Br(n + 1) \in Instr /\ Op("open") \in Instr
      BY <1>1, InstrTypes
    <2>2. opened \in Seq(Seq(Instr)) /\ Len(opened) = n
      BY <1>1, <2>1, Emitted DEF TypeOK
    <2> HIDE DEF opened
    <2>3. bb \in DOMAIN opened
      BY <1>1, <2>2 DEF TypeOK
    <2>4. Put(opened, bb, Br(n + 1)) \in Seq(Seq(Instr))
          /\ Len(Put(opened, bb, Br(n + 1))) = n
      BY <2>1, <2>2, <2>3, EmittedTo
    <2>5. QED
      BY <2>4 DEF opened
  <1> HIDE DEF emitted
  <1>8. grown \in Seq(Seq(Instr)) /\ Len(grown) = n + 5
    BY <1>7, Widened
  <1> HIDE DEF grown
  <1>9. n + 1 \in DOMAIN grown
    BY <1>1, <1>8
  <1>10. blocks' \in Seq(Seq(Instr)) /\ Len(blocks') = n + 5
    BY <1>4, <1>6, <1>8, <1>9, EmittedTo
  <1>11. /\ scopes' \in Seq(ScopeType) /\ Len(scopes') = Len(scopes) + Owned(c)
         /\ storage'.moves \in Nat
    <2>1. n + 3 \in Nat /\ n + 5 \in Nat
      BY <1>1
    <2>2. Scope([post |-> n + 3, exit |-> n + 5]) \in ScopeType
      BY <2>1, ScopeTypes
    <2>3. QED
      BY <1>1, <1>3, <1>4, <2>2, ScopePushed
  <1>12. SoundCall(c, Len(calls) + 1, Len(calls) + 1, Len(blocks'))
    BY <1>1, <1>2, <1>3, <1>10 DEF SoundCall
  <1>13. bb' \in DOMAIN blocks' /\ Len(blocks) <= Len(blocks')
    BY <1>1, <1>4, <1>10
  <1>14. QED
    BY <1>1, <1>2, <1>3, <1>4, <1>5, <1>10, <1>11, <1>12, <1>13, BranchKeeps

LEMMA ArmJoinedTyped ==
  ASSUME TypeOK, Top.join \in BlockIds
  PROVE  ArmJoined \in Seq(Seq(Instr)) /\ Len(ArmJoined) = Len(blocks)
  <1>1. Br(Top.join) \in Instr
    BY InstrTypes DEF BlockIds
  <1>2. QED
    BY <1>1, Emitted DEF ArmJoined, TypeOK

\* The end of an if statement.
LEMMA JoinKeeps ==
  ASSUME IInv, status = "gen", status' = "gen", Top.op = "if",
         JoinArms, UNCHANGED <<storage, spent>>
  PROVE  IInv'
  <1>1. Top \in CallType /\ Top.base \in Nat /\ TypeOK
        /\ SoundCall(Top, Len(calls), Len(calls), Len(blocks))
    BY TopFacts DEF IInv
  <1>2. Top.join \in BlockIds /\ Top.join <= Len(blocks)
    BY <1>1 DEF CallType, SoundCall
  <1>3. blocks' \in Seq(Seq(Instr)) /\ Len(blocks') = Len(blocks)
    <2>1. ArmJoined \in Seq(Seq(Instr)) /\ Len(ArmJoined) = Len(blocks)
      BY <1>1, <1>2, ArmJoinedTyped
    <2>2. Top.join \in DOMAIN ArmJoined /\ Op("close") \in Instr
      BY <1>1, <1>2, <2>1, InstrTypes DEF BlockIds, TypeOK
    <2>3. QED
      BY <2>1, <2>2, EmittedTo DEF JoinArms
  <1>4. bb' \in 1..Len(blocks)
    BY <1>1, <1>2 DEF JoinArms, BlockIds, TypeOK
  <1>5. scopes' \in Seq(ScopeType) /\ Len(scopes') = Top.base
    <2>1. CASE Top.init
      BY <2>1, <1>1, Returning, ScopePopped DEF JoinArms, Owned
    <2>2. CASE ~Top.init
      BY <2>2, <1>1, Returning DEF JoinArms, Owned, TypeOK
    <2>3. QED
      BY <2>1, <2>2
  <1>6. QED
    BY <1>3, <1>4, <1>5, PopKeeps DEF JoinArms

LEMMA EndElseKeeps == ASSUME IInv, EndElse PROVE IInv'
  <1>1. status = "gen" /\ status' = "gen" /\ Top.part = "endelse"
    BY DEF EndElse, At
  <1>2. Top.op = "if"
    BY <1>1, TopFacts DEF CallType
  <1>3. QED
    BY <1>1, <1>2, JoinKeeps DEF EndElse

\* A step in which the running call goes on at another part.
LEMMA ResumeKeeps ==
  ASSUME IInv, status = "gen", status' = "gen",
         Top.op \in {"fn", "block", "if", "for"}, NEW x \in PartsOf[Top.op],
         calls' = Resume(x),
         blocks' \in Seq(Seq(Instr)), Len(blocks') = Len(blocks),
         bb' \in 1..Len(blocks),
         UNCHANGED <<scopes, storage, spent>>
  PROVE  IInv'
  <1>1. /\ calls' \in Seq(CallType) /\ Accounts(calls', Len(scopes))
        /\ Sound(calls', Len(blocks)) /\ calls'[Len(calls')].op # "emit"
    BY Resuming
  <1>2. TypeOK'
    BY <1>1 DEF TypeOK, IInv
  <1>3. EmitInRange'
    BY <1>1 DEF EmitInRange, Top
  <1>4. QED
    BY <1>1, <1>2, <1>3, Kept

LEMMA EndThenKeeps == ASSUME IInv, EndThen PROVE IInv'
  <1>1. status = "gen" /\ status' = "gen" /\ Top.part = "endthen" /\ TypeOK
    BY DEF EndThen, At, IInv
  <1>2. /\ Top.op = "if" /\ Top \in CallType
        /\ SoundCall(Top, Len(calls), Len(calls), Len(blocks))
    BY <1>1, TopFacts DEF CallType
  <1>3. CASE Top.else = Top.join
    BY <1>1, <1>2, <1>3, JoinKeeps DEF EndThen
  <1>4. CASE Top.else # Top.join
    <2>1. "else" \in PartsOf[Top.op] /\ Top.op \in {"fn", "block", "if", "for"}
      BY <1>2 DEF PartsOf
    <2>2. /\ Top.join \in BlockIds /\ Top.join <= Len(blocks)
          /\ Top.else \in BlockIds /\ Top.else <= Len(blocks)
      BY <1>2 DEF CallType, SoundCall
    <2>3. bb' \in 1..Len(blocks)
      BY <1>1, <1>4, <2>2 DEF EndThen, BlockIds, TypeOK
    <2>4. blocks' \in Seq(Seq(Instr)) /\ Len(blocks') = Len(blocks)
      BY <1>1, <1>4, <2>2, ArmJoinedTyped DEF EndThen
    <2>5. calls' = Resume("else") /\ UNCHANGED <<scopes, storage, spent>>
      BY <1>4 DEF EndThen
    <2>6. QED
      BY <1>1, <2>1, <2>3, <2>4, <2>5, ResumeKeeps
  <1>5. QED
    BY <1>3, <1>4

LEMMA EndBodyKeeps == ASSUME IInv, EndBody PROVE IInv'
  <1> DEFINE bs == With(bb, Br(Top.post))
             x == IF Top.hasElse THEN "forelse" ELSE "exit"
  <1>1. status = "gen" /\ status' = "gen" /\ Top.part = "post" /\ TypeOK
    BY DEF EndBody, At, IInv
  <1>2. /\ Top.op = "for" /\ Top \in CallType
        /\ SoundCall(Top, Len(calls), Len(calls), Len(blocks))
    BY <1>1, TopFacts DEF CallType
  <1>3. /\ Top.loop \in BlockIds /\ Top.post \in BlockIds /\ Top.else \in BlockIds
        /\ Top.post <= Len(blocks) /\ Top.else <= Len(blocks)
    BY <1>2 DEF CallType, SoundCall
  <1>4. Br(Top.post) \in Instr /\ Br(Top.loop) \in Instr
    BY <1>3, InstrTypes DEF BlockIds
  <1>5. bs \in Seq(Seq(Instr)) /\ Len(bs) = Len(blocks)
    BY <1>1, <1>4, Emitted DEF TypeOK
  <1>6. blocks' = Put(bs, Top.post, Br(Top.loop))
    BY DEF EndBody
  <1> HIDE DEF bs
  <1>8. blocks' \in Seq(Seq(Instr)) /\ Len(blocks') = Len(blocks)
    <2>1. Top.post \in DOMAIN bs
      BY <1>1, <1>3, <1>5 DEF BlockIds, TypeOK
    <2>2. QED
      BY <1>4, <1>5, <1>6, <2>1, EmittedTo
  <1>9. bb' \in 1..Len(blocks)
    BY <1>1, <1>3 DEF EndBody, BlockIds, TypeOK
  <1>10. calls' = Resume(x) /\ x \in PartsOf[Top.op]
    BY <1>2 DEF EndBody, PartsOf
  <1> HIDE DEF x
  <1>11. QED
    BY <1>1, <1>2, <1>8, <1>9, <1>10, ResumeKeeps DEF EndBody

LEMMA EndForKeeps == ASSUME IInv, EndFor PROVE IInv'
  <1>1. status = "gen" /\ status' = "gen" /\ Top.part = "exit" /\ TypeOK
    BY DEF EndFor, At, IInv
  <1>2. /\ Top.op = "for" /\ Top \in CallType /\ Top.base \in Nat
        /\ SoundCall(Top, Len(calls), Len(calls), Len(blocks))
    BY <1>1, TopFacts DEF CallType
  <1>3. Top.exit \in BlockIds /\ Top.exit <= Len(blocks)
    BY <1>2 DEF CallType, SoundCall
  <1>4. Br(Top.exit) \in Instr
    BY <1>3, InstrTypes DEF BlockIds
  <1>5. blocks' \in Seq(Seq(Instr)) /\ Len(blocks') = Len(blocks)
    <2> DEFINE bs == With(bb, Br(Top.exit))
    <2>1. bs \in Seq(Seq(Instr)) /\ Len(bs) = Len(blocks)
      BY <1>1, <1>4, Emitted DEF TypeOK
    <2>2. blocks' = Put(bs, Top.exit, Op("close")) /\ Op("close") \in Instr
      BY InstrTypes DEF EndFor
    <2> HIDE DEF bs
    <2>3. Top.exit \in DOMAIN bs
      BY <1>1, <1>3, <2>1 DEF BlockIds, TypeOK
    <2>4. QED
      BY <2>1, <2>2, <2>3, EmittedTo
  <1>6. bb' \in 1..Len(blocks)
    BY <1>1, <1>3 DEF EndFor, BlockIds, TypeOK
  <1>7. Len(scopes) = Top.base + 1
    BY <1>1, <1>2, Returning DEF Owned
  <1>8. scopes' \in Seq(ScopeType) /\ Len(scopes') = Top.base
    BY <1>1, <1>2, <1>7, ScopePopped DEF EndFor
  <1>9. QED
    BY <1>1, <1>2, <1>5, <1>6, <1>8, PopKeeps DEF EndFor

\* The function's own scope is the last to go.
LEMMA EndFnKeeps == ASSUME IInv, EndFn PROVE IInv'
  <1>1. status = "gen" /\ status' = "done" /\ Top.part = "return" /\ TypeOK
    BY DEF EndFn, At, IInv
  <1>2. /\ Top.op = "fn" /\ calls \in Seq(CallType) /\ calls # <<>>
        /\ SoundCall(Top, Len(calls), Len(calls), Len(blocks))
        /\ Accounts(calls, Len(scopes))
    BY <1>1, TopFacts DEF CallType
  <1>3. Len(calls) = 1
    BY <1>2 DEF SoundCall
  <1>4. Len(scopes) = 0 + 1
    <2>1. calls[1].op = "fn" /\ calls[1].base = 0
      BY <1>2, <1>3 DEF Top, Accounts
    <2>2. QED
      BY <2>1, <1>2, <1>3 DEF Accounts, Owned
  <1>5. scopes' \in Seq(ScopeType) /\ Len(scopes') = 0
    BY <1>1, <1>4, ScopePopped DEF EndFn
  <1>6. calls' \in Seq(CallType)
    BY <1>2, Popped DEF EndFn, Below
  <1>7. blocks' \in Seq(Seq(Instr)) /\ Len(blocks') = Len(blocks)
    <2> DEFINE joined == With(Entry, Br(2))
               left == Put(joined, bb, Op("close"))
    <2>1. Br(2) \in Instr /\ Op("ret") \in Instr /\ Op("close") \in Instr
      BY InstrTypes
    <2>2. Entry \in DOMAIN blocks
      BY <1>1 DEF TypeOK, Entry
    <2>3. joined \in Seq(Seq(Instr)) /\ Len(joined) = Len(blocks)
      BY <1>1, <2>1, <2>2, Emitted DEF TypeOK
    <2>4. blocks' = left \/ blocks' = Put(left, bb, Op("ret"))
      BY DEF EndFn
    <2> HIDE DEF joined
    <2>5. bb \in DOMAIN joined
      BY <1>1, <2>3 DEF TypeOK
    <2>6. left \in Seq(Seq(Instr)) /\ Len(left) = Len(blocks)
      BY <2>1, <2>3, <2>5, EmittedTo
    <2> HIDE DEF left
    <2>7. bb \in DOMAIN left
      BY <1>1, <2>6 DEF TypeOK
    <2>8. QED
      BY <2>1, <2>4, <2>6, <2>7, EmittedTo
  <1>8. TypeOK'
    BY <1>1, <1>5, <1>6, <1>7 DEF EndFn, TypeOK
  <1>9. scopes' = <<>>
    BY <1>5, EmptySeq
  <1>10. QED
    BY <1>1, <1>8, <1>9
       DEF IInv, CallsAreSound, ScopesAreOwned, NextFnFindsNoScopes

-----------------------------------------------------------------------------
LEMMA InitKeeps == Init => IInv
  <1> SUFFICES ASSUME Init PROVE IInv
    OBVIOUS
  <1>1. scopes = <<Scope(NoLoop)>> /\ Scope(NoLoop) \in ScopeType
    BY DEF Init, Scope, NoLoop, ScopeType
  <1>2. calls = <<FnCall>> /\ FnCall \in CallType /\ FnCall.op = "fn"
        /\ FnCall.base = 0 /\ Owned(FnCall) = 1
    BY DEF Init, FnCall, CallType, Owned
  <1>3. storage.moves \in Nat
    BY DEF Init, Reserve
  <1>4. status = "gen" /\ blocks = << <<>>, <<Op("open")>> >> /\ bb = 2 /\ spent = 0
    BY DEF Init
  <1> HIDE DEF FnCall
  <1>5. TypeOK
    <2> DEFINE open == Op("open")
    <2>1. << <<>>, <<open>> >> \in Seq(Seq(Instr))
      <3>1. open \in Instr
        BY InstrTypes
      <3> HIDE DEF open
      <3>2. QED
        BY <3>1
    <2>2. blocks \in Seq(Seq(Instr)) /\ bb \in DOMAIN blocks
      BY <1>4, <2>1
    <2>3. scopes \in Seq(ScopeType) /\ calls \in Seq(CallType)
      BY <1>1, <1>2, Singleton
    <2>4. QED
      BY <1>3, <1>4, <2>2, <2>3 DEF TypeOK
  <1>6. Len(calls) = 1 /\ Len(scopes) = 1 /\ calls[1] = FnCall /\ calls # <<>>
    BY <1>1, <1>2
  <1>7. Accounts(calls, Len(scopes))
    BY <1>2, <1>6 DEF Accounts
  <1>8. Sound(calls, Len(blocks)) /\ EmitInRange
    BY <1>2, <1>6 DEF Sound, SoundCall, EmitInRange, Top
  <1>9. QED
    BY <1>4, <1>5, <1>7, <1>8
       DEF IInv, CallsAreSound, ScopesAreOwned, NextFnFindsNoScopes

LEMMA NextKeeps == IInv /\ [Next]_vars => IInv'
  <1> SUFFICES ASSUME IInv, [Next]_vars PROVE IInv'
    OBVIOUS
  <1>1. CASE EnterBlock \/ LeaveBlock \/ PopBlock \/ EmitDefer \/ DefersEmitted
    BY <1>1, EnterBlockKeeps, LeaveBlockKeeps, PopBlockKeeps, EmitDeferKeeps,
       DefersEmittedKeeps
  <1>2. CASE \E block \in BOOLEAN : Defer(block)
    BY <1>2, DeferKeeps
  <1>3. CASE Let \/ Return \/ ReturnScope \/ ReturnValue
    BY <1>3, LetKeeps, ReturnKeeps, ReturnScopeKeeps, ReturnValueKeeps
  <1>4. CASE Break \/ Continue
    BY <1>4, JumpKeeps DEF Break, Continue, Forms
  <1>5. CASE \E init, hasElse \in BOOLEAN : If(init, hasElse)
    BY <1>5, IfKeeps
  <1>6. CASE \E cond, hasElse \in BOOLEAN : For(cond, hasElse)
    BY <1>6, ForKeeps
  <1>7. CASE EndThen \/ EndElse \/ EndBody \/ EndFor \/ EndFn \/ StmtFails
    BY <1>7, EndThenKeeps, EndElseKeeps, EndBodyKeeps, EndForKeeps, EndFnKeeps,
       StmtFailsKeeps
  <1>8. CASE UNCHANGED vars
    BY <1>8 DEF vars, IInv, TypeOK, CallsAreSound, ScopesAreOwned,
                NextFnFindsNoScopes, EmitInRange, Top
  <1>9. QED
    BY <1>1, <1>2, <1>3, <1>4, <1>5, <1>6, <1>7, <1>8 DEF Next

LEMMA Invariance == Spec => []IInv
  BY InitKeeps, NextKeeps, PTL DEF Spec

\* The state of the walk is well typed whatever function is generated: every
\* block that codegen branches to or appends to exists.
THEOREM TypeCorrect == Spec => []TypeOK
  <1>1. IInv => TypeOK
    BY DEF IInv
  <1>2. QED
    BY <1>1, Invariance, PTL

\* Every push of cg.scopes in cg_stmt.cpp and AstFn::codegen has its pop: at any
\* moment the scopes are exactly those of the calls that are active.
THEOREM ScopesOwned == Spec => []ScopesAreOwned
  <1>1. IInv => ScopesAreOwned
    BY DEF IInv
  <1>2. QED
    BY <1>1, Invariance, PTL

\* The assertion at the start of AstFn::codegen holds for the function that
\* comes after one that was generated.
THEOREM NextFnClean == Spec => []NextFnFindsNoScopes
  <1>1. IInv => NextFnFindsNoScopes
    BY DEF IInv
  <1>2. QED
    BY <1>1, Invariance, PTL

=============================================================================
