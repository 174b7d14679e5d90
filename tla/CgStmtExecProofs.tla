-------------------------- MODULE CgStmtExecProofs --------------------------
(***************************************************************************)
(* What the emitted code does when it runs, for functions of any size.     *)
(*                                                                         *)
(* The code is checked as it is emitted, before it runs: to each block     *)
(* belongs what is owed whenever control enters it, and the instructions   *)
(* of the block lead from there to what its terminator passes on.  The     *)
(* block that is being emitted leads to what the scopes of the compiler    *)
(* say at that moment.  A run then follows what was checked.               *)
(***************************************************************************)
EXTENDS CgStmtProofs, CgStmtExec

-----------------------------------------------------------------------------
(* What is owed: for each open scope the defers, numbered up to n, that    *)
(* have been passed and not run.                                           *)

Debts(n) == Seq(Seq(1..n))

\* An instruction that is no terminator takes what is owed from s to t.
Flow(i, s, t) ==
  \/ i.op \in {"alloca", "store"} /\ t = s
  \/ i.op = "open" /\ t = Append(s, <<>>)
  \/ i.op = "close" /\ s # <<>> /\ s[Len(s)] = <<>> /\ t = Front(s)
  \/ i.op = "reg" /\ s # <<>> /\ t = [s EXCEPT ![Len(s)] = Append(@, i.d)]
  \/ /\ i.op = "run"
     /\ \E k \in DOMAIN s :
          /\ s[k] # <<>>
          /\ \A j \in DOMAIN s : j > k => s[j] = <<>>
          /\ i.d = s[k][Len(s[k])]
          /\ t = [s EXCEPT ![k] = Front(@)]

\* A terminator passes on what block b is entered with, e[b].
Ends(i, s, e) ==
  \/ /\ i.op = "br"
     /\ i.to \in DOMAIN e /\ i.leaves \in 0..Len(s)
     /\ e[i.to] = SubSeq(s, 1, Len(s) - i.leaves)
  \/ /\ i.op = "condbr"
     /\ i.then \in DOMAIN e /\ i.else \in DOMAIN e
     /\ e[i.then] = s /\ e[i.else] = s
  \/ i.op = "ret" /\ \A k \in DOMAIN s : s[k] = <<>>

\* w says what is owed before each instruction, as far as it goes.
Walk(code, n, w) ==
  /\ w \in Seq(Debts(n)) /\ w # <<>>
  /\ \A i \in 1..(Len(w) - 1) : Flow(code[i], w[i], w[i + 1])

\* Control that enters with s comes to the end with t.
Live(code, n, s, t) ==
  \E w : /\ Walk(code, n, w) /\ Len(w) = Len(code) + 1
         /\ w[1] = s /\ w[Len(w)] = t

\* Control that enters with s meets a terminator.
Closed(code, n, s, e) ==
  \E w : /\ Walk(code, n, w) /\ Len(w) <= Len(code)
         /\ w[1] = s /\ Ends(code[Len(w)], w[Len(w)], e)

Extends(f, e) ==
  /\ Len(e) \in Nat /\ Len(f) \in Nat
  /\ DOMAIN e = 1..Len(e) /\ DOMAIN f = 1..Len(f) /\ Len(e) <= Len(f)
  /\ \A b \in 1..Len(e) : f[b] = e[b]

LEMMA DebtsGrow ==
  ASSUME NEW n \in Nat, NEW m \in Nat, n <= m
  PROVE  Debts(n) \subseteq Debts(m)
<1> SUFFICES ASSUME NEW s \in Debts(n) PROVE s \in Debts(m)
  OBVIOUS
<1>1. s \in Seq(Seq(1..n))
  BY DEF Debts
<1>2. ASSUME NEW k \in DOMAIN s PROVE s[k] \in Seq(1..m)
  <2>1. s[k] \in Seq(1..n)
    BY <1>1, <1>2
  <2>2. \A j \in DOMAIN s[k] : s[k][j] \in 1..m
    BY <2>1
  <2> QED  BY <2>1, <2>2
<1>3. s = [k \in 1..Len(s) |-> s[k]] /\ Len(s) \in Nat
  BY <1>1
<1>4. [k \in 1..Len(s) |-> s[k]] \in Seq(Seq(1..m))
  BY <1>1, <1>2, <1>3
<1> QED  BY <1>3, <1>4 DEF Debts

LEMMA WalkGrows ==
  ASSUME NEW n \in Nat, NEW m \in Nat, n <= m, NEW code, NEW w, Walk(code, n, w)
  PROVE  Walk(code, m, w)
<1>1. w \in Seq(Debts(n)) /\ Debts(n) \subseteq Debts(m)
  BY DebtsGrow DEF Walk
<1> DEFINE S == Debts(n)
           T == Debts(m)
<1>2. w \in Seq(S) /\ S \subseteq T
  BY <1>1
<1> HIDE DEF S, T
<1>3. w \in Seq(T)
  BY <1>2
<1> QED  BY <1>3 DEF Walk, T

LEMMA LiveGrows ==
  ASSUME NEW n \in Nat, NEW m \in Nat, n <= m, NEW code, NEW s, NEW t,
         Live(code, n, s, t)
  PROVE  Live(code, m, s, t)
BY WalkGrows DEF Live

LEMMA EndsExtends ==
  ASSUME NEW i, NEW s, NEW e, NEW f, Extends(f, e), Ends(i, s, e)
  PROVE  Ends(i, s, f)
BY DEF Ends, Extends

LEMMA ClosedGrows ==
  ASSUME NEW n \in Nat, NEW m \in Nat, n <= m, NEW code, NEW s, NEW e, NEW f,
         Closed(code, n, s, e), Extends(f, e)
  PROVE  Closed(code, m, s, f)
<1>1. PICK w : /\ Walk(code, n, w) /\ Len(w) <= Len(code)
               /\ w[1] = s /\ Ends(code[Len(w)], w[Len(w)], e)
  BY DEF Closed
<1>2. Walk(code, m, w) /\ Ends(code[Len(w)], w[Len(w)], f)
  BY <1>1, WalkGrows, EndsExtends
<1> QED  BY <1>1, <1>2 DEF Closed

LEMMA ClosedExtends ==
  ASSUME NEW n \in Nat, NEW code, NEW s, NEW e, NEW f,
         Closed(code, n, s, e), Extends(f, e)
  PROVE  Closed(code, n, s, f)
BY EndsExtends DEF Closed

LEMMA LiveEmpty ==
  ASSUME NEW n \in Nat, NEW s \in Debts(n)
  PROVE  Live(<<>>, n, s, s)
<1> DEFINE w == <<s>>
<1>1. w \in Seq(Debts(n)) /\ w # <<>> /\ Len(w) = 1 /\ w[1] = s
  OBVIOUS
<1>2. Walk(<<>>, n, w)
  BY <1>1 DEF Walk
<1> QED  BY <1>1, <1>2 DEF Live

\* The instructions so far are still there behind one more.
LEMMA WalkOn ==
  ASSUME NEW n \in Nat, NEW code \in Seq(Instr), NEW i \in Instr, NEW w,
         Walk(code, n, w), Len(w) <= Len(code) + 1
  PROVE  Walk(Append(code, i), n, w)
<1>1. \A k \in 1..Len(code) : Append(code, i)[k] = code[k]
  BY Pushed
<1>2. Len(w) \in Nat /\ Len(code) \in Nat
  BY DEF Walk
<1>3. \A k \in 1..(Len(w) - 1) : k \in 1..Len(code)
  BY <1>2
<1> QED  BY <1>1, <1>3 DEF Walk

LEMMA ClosedStays ==
  ASSUME NEW n \in Nat, NEW code \in Seq(Instr), NEW i \in Instr,
         NEW s, NEW e, Closed(code, n, s, e)
  PROVE  Closed(Append(code, i), n, s, e)
<1>1. PICK w : /\ Walk(code, n, w) /\ Len(w) <= Len(code)
               /\ w[1] = s /\ Ends(code[Len(w)], w[Len(w)], e)
  BY DEF Closed
<1>2. Len(w) \in Nat \ {0} /\ Len(code) \in Nat
  BY <1>1 DEF Walk
<1>3. Walk(Append(code, i), n, w)
  BY <1>1, <1>2, WalkOn
<1>4. Append(code, i)[Len(w)] = code[Len(w)] /\ Len(w) <= Len(Append(code, i))
  BY <1>1, <1>2, Pushed
<1> QED  BY <1>1, <1>3, <1>4 DEF Closed

LEMMA LiveEnds ==
  ASSUME NEW n \in Nat, NEW code \in Seq(Instr), NEW i \in Instr,
         NEW s, NEW t, NEW e, Live(code, n, s, t), Ends(i, t, e)
  PROVE  Closed(Append(code, i), n, s, e)
<1>1. PICK w : /\ Walk(code, n, w) /\ Len(w) = Len(code) + 1
               /\ w[1] = s /\ w[Len(w)] = t
  BY DEF Live
<1>2. Len(code) \in Nat
  OBVIOUS
<1>3. Walk(Append(code, i), n, w)
  BY <1>1, <1>2, WalkOn
<1>4. Append(code, i)[Len(w)] = i /\ Len(w) <= Len(Append(code, i))
  BY <1>1, <1>2, Pushed
<1> QED  BY <1>1, <1>3, <1>4 DEF Closed

LEMMA LiveFlows ==
  ASSUME NEW n \in Nat, NEW code \in Seq(Instr), NEW i \in Instr,
         NEW s, NEW t, NEW u \in Debts(n), Live(code, n, s, t), Flow(i, t, u)
  PROVE  Live(Append(code, i), n, s, u)
<1>1. PICK w : /\ Walk(code, n, w) /\ Len(w) = Len(code) + 1
               /\ w[1] = s /\ w[Len(w)] = t
  BY DEF Live
<1>2. Len(code) \in Nat /\ Len(w) \in Nat /\ w \in Seq(Debts(n))
  BY <1>1 DEF Walk
<1> DEFINE x == Append(w, u)
           c == Append(code, i)
<1>3. /\ x \in Seq(Debts(n)) /\ x # <<>> /\ Len(x) = Len(w) + 1
      /\ \A k \in 1..Len(w) : x[k] = w[k]
      /\ x[Len(w) + 1] = u
  BY <1>2, Pushed
<1>4. /\ Len(c) = Len(code) + 1 /\ c[Len(code) + 1] = i
      /\ \A k \in 1..Len(code) : c[k] = code[k]
  BY Pushed
<1> HIDE DEF x, c
<1>5. ASSUME NEW k \in 1..(Len(x) - 1)
      PROVE  Flow(c[k], x[k], x[k + 1])
  <2>1. CASE k = Len(w)
    <3>1. k = Len(code) + 1 /\ c[k] = i /\ x[k] = t /\ x[k + 1] = u
      BY <1>1, <1>2, <1>3, <1>4, <2>1
    <3> QED  BY <3>1
  <2>2. CASE k # Len(w)
    <3>1. k \in 1..(Len(w) - 1) /\ k \in 1..Len(w) /\ k + 1 \in 1..Len(w) /\ k \in 1..Len(code)
      BY <1>1, <1>2, <1>3, <1>5, <2>2
    <3>2. Flow(code[k], w[k], w[k + 1])
      BY <1>1, <3>1 DEF Walk
    <3>3. c[k] = code[k] /\ x[k] = w[k] /\ x[k + 1] = w[k + 1]
      BY <1>3, <1>4, <3>1
    <3> QED  BY <3>2, <3>3
  <2> QED  BY <2>1, <2>2
<1>6. Walk(c, n, x)
  BY <1>3, <1>5 DEF Walk
<1>7. Len(x) = Len(c) + 1 /\ x[1] = s /\ x[Len(x)] = u
  BY <1>1, <1>2, <1>3, <1>4
<1> QED  BY <1>6, <1>7 DEF Live, c

\* Where control comes to the end there is no terminator.
LEMMA LiveHasNone ==
  ASSUME NEW n \in Nat, NEW code \in Seq(Instr), NEW s, NEW t,
         Live(code, n, s, t), NEW i \in DOMAIN code
  PROVE  ~IsTerminator(code[i])
<1>1. PICK w : Walk(code, n, w) /\ Len(w) = Len(code) + 1
  BY DEF Live
<1>2. i \in 1..(Len(w) - 1)
  BY <1>1
<1>3. Flow(code[i], w[i], w[i + 1])
  BY <1>1, <1>2 DEF Walk
<1> QED  BY <1>3 DEF Flow, IsTerminator

-----------------------------------------------------------------------------
(* The blocks                                                              *)

\* Blocks bs are checked, entered with e; those in A are still to be written,
\* and block cur, in which s is owed now, is being written.
Checked(bs, e, n, A, cur, s) ==
  /\ bs \in Seq(Seq(Instr)) /\ Len(bs) >= 2
  /\ e \in Seq(Debts(n)) /\ Len(e) = Len(bs)
  /\ e[1] = <<>> /\ e[2] = <<>>
  /\ Live(bs[1], n, <<>>, <<>>)
  /\ A \subseteq 2..Len(bs)
  /\ \A b \in A : bs[b] = <<>>
  /\ cur \in 2..Len(bs) /\ cur \notin A
  /\ Closed(bs[cur], n, e[cur], e) \/ Live(bs[cur], n, e[cur], s)
  /\ \A b \in 2..Len(bs) : b \notin A /\ b # cur => Closed(bs[b], n, e[b], e)

\* What Put does.
LEMMA PutFacts ==
  ASSUME NEW bs \in Seq(Seq(Instr)), NEW b \in DOMAIN bs, NEW i \in Instr
  PROVE  /\ Put(bs, b, i) \in Seq(Seq(Instr))
         /\ Len(Put(bs, b, i)) = Len(bs)
         /\ Put(bs, b, i)[b] = Append(bs[b], i)
         /\ \A c \in DOMAIN bs : c # b => Put(bs, b, i)[c] = bs[c]
         /\ bs[b] \in Seq(Instr)
<1>1. Put(bs, b, i) \in Seq(Seq(Instr)) /\ Len(Put(bs, b, i)) = Len(bs)
  BY EmittedTo
<1>2. Put(bs, b, i)[b] = Append(bs[b], i)
  BY DEF Put
<1>3. \A c \in DOMAIN bs : c # b => Put(bs, b, i)[c] = bs[c]
  BY DEF Put
<1> QED  BY <1>1, <1>2, <1>3

LEMMA LaterIn ==
  ASSUME NEW bs \in Seq(Seq(Instr)), NEW c \in 2..Len(bs)
  PROVE  c \in DOMAIN bs /\ c # 1
<1>1. Len(bs) \in Nat /\ DOMAIN bs = 1..Len(bs)
  OBVIOUS
<1> QED  BY <1>1

LEMMA CheckedFlows ==
  ASSUME NEW bs, NEW e, NEW n \in Nat, NEW A, NEW cur, NEW s,
         Checked(bs, e, n, A, cur, s),
         NEW i \in Instr, NEW t \in Debts(n), Flow(i, s, t)
  PROVE  Checked(Put(bs, cur, i), e, n, A, cur, t)
<1> DEFINE cs == Put(bs, cur, i)
<1>1. bs \in Seq(Seq(Instr)) /\ cur \in DOMAIN bs /\ DOMAIN bs = 1..Len(bs)
  BY DEF Checked
<1>2. /\ cs \in Seq(Seq(Instr)) /\ Len(cs) = Len(bs)
      /\ cs[cur] = Append(bs[cur], i) /\ bs[cur] \in Seq(Instr)
      /\ \A c \in DOMAIN bs : c # cur => cs[c] = bs[c]
  BY <1>1, PutFacts
<1> HIDE DEF cs
<1>3. Closed(cs[cur], n, e[cur], e) \/ Live(cs[cur], n, e[cur], t)
  <2>1. CASE Closed(bs[cur], n, e[cur], e)
    BY <1>2, <2>1, ClosedStays
  <2>2. CASE Live(bs[cur], n, e[cur], s)
    BY <1>2, <2>2, LiveFlows
  <2> QED  BY <2>1, <2>2 DEF Checked
<1>4. 1 # cur /\ 1 \in DOMAIN bs /\ cs[1] = bs[1]
  <2>1. Len(bs) \in Nat /\ Len(bs) >= 2 /\ cur \in 2..Len(bs)
    BY <1>1 DEF Checked
  <2>2. 1 # cur /\ 1 \in 1..Len(bs)
    BY <2>1
  <2> QED  BY <1>1, <1>2, <2>2
<1>5. \A b \in 2..Len(bs) : b # cur => cs[b] = bs[b]
  BY <1>1, <1>2, LaterIn
<1>6. \A b \in A : b \in 2..Len(bs) /\ b # cur
  BY DEF Checked
<1> QED  BY <1>1, <1>2, <1>3, <1>4, <1>5, <1>6 DEF Checked, cs

LEMMA CheckedEnds ==
  ASSUME NEW bs, NEW e, NEW n \in Nat, NEW A, NEW cur, NEW s,
         Checked(bs, e, n, A, cur, s),
         NEW i \in Instr, NEW t, Ends(i, s, e)
  PROVE  /\ Checked(Put(bs, cur, i), e, n, A, cur, t)
         /\ Closed(Put(bs, cur, i)[cur], n, e[cur], e)
<1> DEFINE cs == Put(bs, cur, i)
<1>1. bs \in Seq(Seq(Instr)) /\ cur \in DOMAIN bs /\ DOMAIN bs = 1..Len(bs)
  BY DEF Checked
<1>2. /\ cs \in Seq(Seq(Instr)) /\ Len(cs) = Len(bs)
      /\ cs[cur] = Append(bs[cur], i) /\ bs[cur] \in Seq(Instr)
      /\ \A c \in DOMAIN bs : c # cur => cs[c] = bs[c]
  BY <1>1, PutFacts
<1> HIDE DEF cs
<1>3. Closed(cs[cur], n, e[cur], e)
  <2>1. CASE Closed(bs[cur], n, e[cur], e)
    BY <1>2, <2>1, ClosedStays
  <2>2. CASE Live(bs[cur], n, e[cur], s)
    BY <1>2, <2>2, LiveEnds
  <2> QED  BY <2>1, <2>2 DEF Checked
<1>4. 1 # cur /\ 1 \in DOMAIN bs /\ cs[1] = bs[1]
  <2>1. Len(bs) \in Nat /\ Len(bs) >= 2 /\ cur \in 2..Len(bs)
    BY <1>1 DEF Checked
  <2>2. 1 # cur /\ 1 \in 1..Len(bs)
    BY <2>1
  <2> QED  BY <1>1, <1>2, <2>2
<1>5. \A b \in 2..Len(bs) : b # cur => cs[b] = bs[b]
  BY <1>1, <1>2, LaterIn
<1>6. \A b \in A : b \in 2..Len(bs) /\ b # cur
  BY DEF Checked
<1> QED  BY <1>1, <1>2, <1>3, <1>4, <1>5, <1>6 DEF Checked, cs

\* An alloca in the entry block.
LEMMA CheckedAlloca ==
  ASSUME NEW bs, NEW e, NEW n \in Nat, NEW A, NEW cur, NEW s,
         Checked(bs, e, n, A, cur, s),
         NEW i \in Instr, i.op = "alloca"
  PROVE  Checked(Put(bs, 1, i), e, n, A, cur, s)
<1> DEFINE cs == Put(bs, 1, i)
<1>1. bs \in Seq(Seq(Instr)) /\ 1 \in DOMAIN bs /\ DOMAIN bs = 1..Len(bs)
  BY DEF Checked
<1>2. /\ cs \in Seq(Seq(Instr)) /\ Len(cs) = Len(bs)
      /\ cs[1] = Append(bs[1], i) /\ bs[1] \in Seq(Instr)
      /\ \A c \in DOMAIN bs : c # 1 => cs[c] = bs[c]
  BY <1>1, PutFacts
<1> HIDE DEF cs
<1>3. Live(cs[1], n, <<>>, <<>>)
  <2>1. Flow(i, <<>>, <<>>)
    BY DEF Flow
  <2>2. Live(bs[1], n, <<>>, <<>>) /\ <<>> \in Debts(n)
    BY DEF Checked, Debts
  <2> QED  BY <1>2, <2>1, <2>2, LiveFlows
<1>4. \A b \in 2..Len(bs) : cs[b] = bs[b]
  BY <1>1, <1>2, LaterIn
<1>5. cur \in 2..Len(bs) /\ \A b \in A : b \in 2..Len(bs)
  BY DEF Checked
<1> QED  BY <1>1, <1>2, <1>3, <1>4, <1>5 DEF Checked, cs

LEMMA ExtendsItself ==
  ASSUME NEW n, NEW e \in Seq(Debts(n))
  PROVE  Extends(e, e)
<1> DEFINE S == Debts(n)
<1>1. e \in Seq(S)
  OBVIOUS
<1> HIDE DEF S
<1> QED  BY <1>1 DEF Extends

\* More defers may be met.
LEMMA CheckedGrows ==
  ASSUME NEW bs, NEW e, NEW n \in Nat, NEW A, NEW cur, NEW s,
         Checked(bs, e, n, A, cur, s), NEW m \in Nat, n <= m
  PROVE  Checked(bs, e, m, A, cur, s)
<1>1. Extends(e, e)
  BY ExtendsItself DEF Checked
<1>2. e \in Seq(Debts(m))
  <2> DEFINE S == Debts(n)
             T == Debts(m)
  <2>1. e \in Seq(S) /\ S \subseteq T
    BY DebtsGrow DEF Checked
  <2> HIDE DEF S, T
  <2>2. e \in Seq(T)
    BY <2>1
  <2> QED  BY <2>2 DEF T
<1>3. Live(bs[1], m, <<>>, <<>>)
  BY LiveGrows DEF Checked
<1>4. Closed(bs[cur], m, e[cur], e) \/ Live(bs[cur], m, e[cur], s)
  BY <1>1, LiveGrows, ClosedGrows DEF Checked
<1>5. \A b \in 2..Len(bs) : b \notin A /\ b # cur => Closed(bs[b], m, e[b], e)
  BY <1>1, ClosedGrows DEF Checked
<1> QED  BY <1>2, <1>3, <1>4, <1>5 DEF Checked

\* The current block is done with; the next one is begun.
LEMMA CheckedMoves ==
  ASSUME NEW bs, NEW e, NEW n \in Nat, NEW A, NEW cur, NEW s,
         Checked(bs, e, n, A, cur, s), Closed(bs[cur], n, e[cur], e),
         NEW b \in A
  PROVE  Checked(bs, e, n, A \ {b}, b, e[b])
<1>1. b \in 2..Len(bs) /\ bs[b] = <<>>
  BY DEF Checked
<1>2. e[b] \in Debts(n)
  <2> DEFINE S == Debts(n)
  <2>1. e \in Seq(S) /\ Len(e) = Len(bs) /\ bs \in Seq(Seq(Instr))
    BY DEF Checked
  <2> HIDE DEF S
  <2>2. b \in 1..Len(e)
    BY <1>1, <2>1
  <2>3. e[b] \in S
    BY <2>1, <2>2
  <2> QED  BY <2>3 DEF S
<1>3. Live(bs[b], n, e[b], e[b])
  BY <1>1, <1>2, LiveEmpty
<1>4. \A c \in 2..Len(bs) : c \notin A \ {b} /\ c # b => Closed(bs[c], n, e[c], e)
  BY DEF Checked
<1> QED  BY <1>1, <1>3, <1>4 DEF Checked

\* A block is written by its terminator alone.
LEMMA CheckedFilled ==
  ASSUME NEW bs, NEW e, NEW n \in Nat, NEW A, NEW cur, NEW s,
         Checked(bs, e, n, A, cur, s),
         NEW b \in A, NEW i \in Instr, Ends(i, e[b], e)
  PROVE  /\ Checked(Put(bs, b, i), e, n, A \ {b}, cur, s)
         /\ Put(bs, b, i)[cur] = bs[cur]
<1> DEFINE cs == Put(bs, b, i)
<1>1. /\ bs \in Seq(Seq(Instr)) /\ DOMAIN bs = 1..Len(bs) /\ b \in 2..Len(bs)
      /\ b \in DOMAIN bs /\ bs[b] = <<>> /\ b # cur /\ cur \in DOMAIN bs
  BY DEF Checked
<1>2. /\ cs \in Seq(Seq(Instr)) /\ Len(cs) = Len(bs)
      /\ cs[b] = Append(bs[b], i) /\ bs[b] \in Seq(Instr)
      /\ \A c \in DOMAIN bs : c # b => cs[c] = bs[c]
  BY <1>1, PutFacts
<1> HIDE DEF cs
<1>3. Closed(cs[b], n, e[b], e)
  <2>1. e[b] \in Debts(n)
    <3> DEFINE S == Debts(n)
    <3>1. e \in Seq(S) /\ Len(e) = Len(bs)
      BY DEF Checked
    <3> HIDE DEF S
    <3>2. e[b] \in S
      BY <1>1, <3>1
    <3> QED  BY <3>2 DEF S
  <2>2. Live(bs[b], n, e[b], e[b])
    BY <1>1, <2>1, LiveEmpty
  <2> QED  BY <1>2, <2>2, LiveEnds
<1>4. 1 # b /\ 1 \in DOMAIN bs /\ cs[1] = bs[1] /\ cs[cur] = bs[cur]
  <2>1. Len(bs) \in Nat /\ Len(bs) >= 2 /\ b \in 2..Len(bs)
    BY <1>1 DEF Checked
  <2>2. 1 # b /\ 1 \in 1..Len(bs)
    BY <2>1
  <2> QED  BY <1>1, <1>2, <2>2
<1>5. \A c \in 2..Len(bs) : c # b => cs[c] = bs[c]
  BY <1>1, <1>2, LaterIn
<1>6. \A c \in A : c \in 2..Len(bs)
  BY DEF Checked
<1>7. \A c \in 2..Len(bs) : c \notin A \ {b} /\ c # cur => Closed(cs[c], n, e[c], e)
  BY <1>3, <1>5 DEF Checked
<1> QED  BY <1>1, <1>2, <1>4, <1>5, <1>6, <1>7 DEF Checked, cs

\* f continues e with k blocks that are entered with t.
Prolongs(f, e, n, k, t) ==
  /\ f \in Seq(Debts(n)) /\ Len(f) = Len(e) + k /\ Extends(f, e)
  /\ \A b \in (Len(e) + 1)..(Len(e) + k) : f[b] = t

LEMMA Prolonged ==
  ASSUME NEW n \in Nat, NEW e \in Seq(Debts(n)), NEW k \in Nat,
         NEW t \in Debts(n)
  PROVE  \E f : Prolongs(f, e, n, k, t)
<1> DEFINE S == Debts(n)
           l == Len(e)
           x == [i \in 1..k |-> t]
           f == e \o x
<1>1. e \in Seq(S) /\ l \in Nat /\ t \in S /\ Len(e) = l
  OBVIOUS
<1> HIDE DEF S, l
<1>2. x \in Seq(S) /\ Len(x) = k /\ \A b \in 1..k : x[b] = t
  BY <1>1
<1>3. f = e \o x
  OBVIOUS
<1> HIDE DEF x, f
<1>4. f \in Seq(S) /\ Len(f) = l + k
  BY <1>1, <1>2, <1>3, ConcatProperties
<1>5. \A b \in 1..(l + k) : f[b] = IF b <= l THEN e[b] ELSE x[b - l]
  BY <1>1, <1>2, <1>3, ConcatProperties
<1>6. ASSUME NEW b \in 1..l PROVE f[b] = e[b]
  BY <1>1, <1>5
<1>7. ASSUME NEW b \in (l + 1)..(l + k) PROVE f[b] = t
  <2>1. b \in 1..(l + k) /\ ~(b <= l) /\ b - l \in 1..k
    BY <1>1
  <2> QED  BY <1>2, <1>5, <2>1
<1>8. Extends(f, e)
  <2>1. DOMAIN e = 1..Len(e) /\ DOMAIN f = 1..Len(f) /\ Len(e) <= Len(f)
    BY <1>1, <1>4
  <2> QED  BY <1>1, <1>4, <1>6, <2>1 DEF Extends
<1> QED  BY <1>1, <1>4, <1>7, <1>8 DEF Prolongs, S

\* k more blocks, to be entered with t.
LEMMA CheckedGrown ==
  ASSUME NEW bs, NEW e, NEW n \in Nat, NEW A, NEW cur, NEW s,
         Checked(bs, e, n, A, cur, s),
         NEW k \in Nat, NEW t \in Debts(n), NEW f, Prolongs(f, e, n, k, t),
         NEW B, B = A \union (Len(bs) + 1)..(Len(bs) + k)
  PROVE  Checked(Grown(bs, k), f, n, B, cur, s)
<1> DEFINE cs == Grown(bs, k)
           l == Len(bs)
           S == Debts(n)
           y == [i \in 1..k |-> <<>>]
<1>1. bs \in Seq(Seq(Instr)) /\ l \in Nat /\ e \in Seq(S) /\ Len(e) = l /\ l >= 2
  BY DEF Checked
<1>2. /\ cs \in Seq(Seq(Instr)) /\ Len(cs) = l + k
      /\ \A b \in 1..l : cs[b] = bs[b]
      /\ \A b \in (l + 1)..(l + k) : cs[b] = <<>>
  <2>1. y \in Seq(Seq(Instr)) /\ Len(y) = k /\ \A b \in 1..k : y[b] = <<>>
    OBVIOUS
  <2> HIDE DEF y
  <2>2. cs = bs \o y
    BY DEF Grown, y
  <2>3. cs \in Seq(Seq(Instr)) /\ Len(cs) = l + k
    <3> DEFINE I == Seq(Instr)
    <3>1. bs \in Seq(I) /\ y \in Seq(I) /\ Len(bs) = l
      BY <1>1, <2>1
    <3> HIDE DEF I, l, cs
    <3>2. cs \in Seq(I) /\ Len(cs) = l + k
      BY <2>1, <2>2, <3>1, ConcatProperties
    <3> QED  BY <3>2 DEF I
  <2>4. \A b \in 1..(l + k) : cs[b] = IF b <= l THEN bs[b] ELSE y[b - l]
    BY <1>1, <2>1, <2>2, ConcatProperties
  <2> HIDE DEF cs, l
  <2>5. ASSUME NEW b \in 1..l PROVE cs[b] = bs[b]
    BY <1>1, <2>4
  <2>6. ASSUME NEW b \in (l + 1)..(l + k) PROVE cs[b] = <<>>
    <3>1. b \in 1..(l + k) /\ ~(b <= l) /\ b - l \in 1..k
      BY <1>1
    <3> QED  BY <2>1, <2>4, <3>1
  <2> QED  BY <2>3, <2>5, <2>6
<1>3. /\ f \in Seq(S) /\ Len(f) = l + k
      /\ \A b \in 1..l : f[b] = e[b]
      /\ \A b \in (l + 1)..(l + k) : f[b] = t
  BY <1>1 DEF Prolongs, Extends
<1>4. Extends(f, e)
  BY DEF Prolongs
<1>a. B = A \union (l + 1)..(l + k)
  OBVIOUS
<1>5. /\ Live(bs[1], n, <<>>, <<>>) /\ e[1] = <<>> /\ e[2] = <<>>
      /\ A \subseteq 2..l /\ (\A b \in A : bs[b] = <<>>)
      /\ cur \in 2..l /\ cur \notin A
      /\ Closed(bs[cur], n, e[cur], e) \/ Live(bs[cur], n, e[cur], s)
      /\ \A b \in 2..l : b \notin A /\ b # cur => Closed(bs[b], n, e[b], e)
  BY DEF Checked
<1> HIDE DEF cs, l, S
<1>6. Live(cs[1], n, <<>>, <<>>) /\ f[1] = <<>> /\ f[2] = <<>>
  BY <1>1, <1>2, <1>3, <1>5
<1>7. B \subseteq 2..Len(cs) /\ cur \in 2..Len(cs) /\ cur \notin B
  <2>1. cur \in 2..(l + k) /\ cur \notin (l + 1)..(l + k) /\ cur \notin A
    BY <1>1, <1>5
  <2>2. ASSUME NEW b \in B PROVE b \in 2..(l + k)
    <3>1. CASE b \in A
      BY <1>1, <1>5, <3>1
    <3>2. CASE b \in (l + 1)..(l + k)
      BY <1>1, <3>2
    <3> QED  BY <1>a, <3>1, <3>2
  <2> QED  BY <1>2, <1>a, <2>1, <2>2
<1>8. \A b \in B : cs[b] = <<>>
  <2> SUFFICES ASSUME NEW b \in B PROVE cs[b] = <<>>
    OBVIOUS
  <2>1. CASE b \in A
    <3>1. bs[b] = <<>> /\ b \in 2..l
      BY <1>5, <2>1
    <3>2. b \in 1..l
      BY <1>1, <3>1
    <3> QED  BY <1>2, <3>1, <3>2
  <2>2. CASE b \in (l + 1)..(l + k)
    BY <1>2, <2>2
  <2> QED  BY <1>a, <2>1, <2>2
<1>9. Closed(cs[cur], n, f[cur], f) \/ Live(cs[cur], n, f[cur], s)
  <2>1. cur \in 1..l /\ cs[cur] = bs[cur] /\ f[cur] = e[cur]
    BY <1>1, <1>2, <1>3, <1>5
  <2>2. CASE Closed(bs[cur], n, e[cur], e)
    <3>1. Closed(bs[cur], n, e[cur], f)
      BY <1>4, <2>2, ClosedExtends
    <3> QED  BY <2>1, <3>1
  <2>3. CASE Live(bs[cur], n, e[cur], s)
    BY <2>1, <2>3
  <2> QED  BY <1>5, <2>2, <2>3
<1>10. ASSUME NEW b \in 2..Len(cs), b \notin B, b # cur
       PROVE  Closed(cs[b], n, f[b], f)
  <2>1. b \in 2..l /\ b \in 1..l /\ b \notin A
    <3>1. b \in 2..(l + k) /\ b \notin A /\ b \notin (l + 1)..(l + k)
      BY <1>2, <1>a, <1>10
    <3> QED  BY <1>1, <3>1
  <2>2. Closed(bs[b], n, e[b], e)
    BY <1>5, <1>10, <2>1
  <2>3. cs[b] = bs[b] /\ f[b] = e[b]
    BY <1>2, <1>3, <2>1
  <2>4. Closed(bs[b], n, e[b], f)
    BY <1>4, <2>2, ClosedExtends
  <2> QED  BY <2>3, <2>4
<1>11. Len(cs) >= 2 /\ Len(f) = Len(cs) /\ f \in Seq(Debts(n))
  BY <1>1, <1>2, <1>3 DEF S
<1>12. Checked(cs, f, n, B, cur, s)
  BY <1>2, <1>6, <1>7, <1>8, <1>9, <1>10, <1>11 DEF Checked
<1> QED  BY <1>12 DEF cs

-----------------------------------------------------------------------------
(* What the scopes of the compiler say is owed                             *)

Ids(ds, m) == [k \in 1..m |-> ds[k].id]

\* The outermost n scopes, with every defer they have registered.
Full(sc, n) == [i \in 1..n |-> Ids(sc[i].defers, Len(sc[i].defers))]

\* The defers of scope k have been emitted down to the first m, those of the
\* scopes inside it altogether.
Left(sc, k, m, i) == IF i < k THEN Len(sc[i].defers) ELSE IF i = k THEN m ELSE 0
Owing(sc, k, m) == [i \in 1..Len(sc) |-> Ids(sc[i].defers, Left(sc, k, m, i))]

\* The defers in scopes sc are numbered up to n.
Numbered(sc, n) ==
  \A i \in DOMAIN sc : \A k \in DOMAIN sc[i].defers : sc[i].defers[k].id \in 1..n

LEMMA IdsTyped ==
  ASSUME NEW ds, NEW n \in Nat, NEW m \in Nat, \A k \in 1..m : ds[k].id \in 1..n
  PROVE  /\ Ids(ds, m) \in Seq(1..n)
         /\ Len(Ids(ds, m)) = m
         /\ \A k \in 1..m : Ids(ds, m)[k] = ds[k].id
         /\ (m = 0) <=> (Ids(ds, m) = <<>>)
<1>1. Ids(ds, m) = [k \in 1..m |-> ds[k].id]
  BY DEF Ids
<1>2. Ids(ds, m) \in Seq(1..n) /\ Len(Ids(ds, m)) = m
  BY <1>1
<1>3. \A k \in 1..m : Ids(ds, m)[k] = ds[k].id
  BY <1>1
<1>4. (m = 0) <=> (Ids(ds, m) = <<>>)
  BY <1>2
<1> QED  BY <1>2, <1>3, <1>4

\* No defers left, whatever they are.
LEMMA NoIds == \A ds : Ids(ds, 0) = <<>>
BY DEF Ids

LEMMA ScopeFacts ==
  ASSUME NEW sc \in Seq(ScopeType), NEW n \in Nat, Numbered(sc, n)
  PROVE  /\ Len(sc) \in Nat /\ DOMAIN sc = 1..Len(sc)
         /\ \A i \in 1..Len(sc) :
              /\ Len(sc[i].defers) \in Nat
              /\ DOMAIN sc[i].defers = 1..Len(sc[i].defers)
              /\ \A k \in 1..Len(sc[i].defers) : sc[i].defers[k].id \in 1..n
<1>1. Len(sc) \in Nat /\ DOMAIN sc = 1..Len(sc)
  OBVIOUS
<1>2. \A i \in 1..Len(sc) : sc[i] \in ScopeType
  BY <1>1
<1>3. \A i \in 1..Len(sc) : /\ Len(sc[i].defers) \in Nat
                            /\ DOMAIN sc[i].defers = 1..Len(sc[i].defers)
  BY <1>2 DEF ScopeType
<1> QED  BY <1>1, <1>3 DEF Numbered

\* A sequence of sequences, given element by element.
LEMMA DebtsGiven ==
  ASSUME NEW n \in Nat, NEW l \in Nat, NEW s, s = [i \in 1..l |-> s[i]],
         \A i \in 1..l : s[i] \in Seq(1..n)
  PROVE  s \in Debts(n) /\ Len(s) = l
<1> DEFINE S == Seq(1..n)
<1>1. \A i \in 1..l : s[i] \in S
  OBVIOUS
<1> HIDE DEF S
<1>2. [i \in 1..l |-> s[i]] \in Seq(S) /\ Len([i \in 1..l |-> s[i]]) = l
  BY <1>1
<1>3. s \in Seq(S) /\ Len(s) = l
  BY <1>2
<1> QED  BY <1>3 DEF S, Debts

LEMMA FullTyped ==
  ASSUME NEW sc \in Seq(ScopeType), NEW n \in Nat, Numbered(sc, n),
         NEW l \in 0..Len(sc)
  PROVE  /\ Full(sc, l) \in Debts(n) /\ Len(Full(sc, l)) = l
         /\ \A i \in 1..l : Full(sc, l)[i] = Ids(sc[i].defers, Len(sc[i].defers))
<1>1. l \in Nat /\ \A i \in 1..l : i \in 1..Len(sc)
  BY ScopeFacts
<1>2. \A i \in 1..l : Ids(sc[i].defers, Len(sc[i].defers)) \in Seq(1..n)
  BY <1>1, ScopeFacts, IdsTyped
<1>3. \A i \in 1..l : Full(sc, l)[i] = Ids(sc[i].defers, Len(sc[i].defers))
  BY DEF Full
<1>4. Full(sc, l) = [i \in 1..l |-> Full(sc, l)[i]]
  BY DEF Full
<1>5. Full(sc, l) \in Debts(n) /\ Len(Full(sc, l)) = l
  BY <1>1, <1>2, <1>3, <1>4, DebtsGiven
<1> QED  BY <1>3, <1>5

\* The number of defers left to scope i.
LEMMA LeftTyped ==
  ASSUME NEW sc \in Seq(ScopeType), NEW n \in Nat, Numbered(sc, n),
         NEW k \in Nat, NEW m \in Nat,
         k \in DOMAIN sc => m <= Len(sc[k].defers),
         NEW i \in 1..Len(sc)
  PROVE  /\ Left(sc, k, m, i) \in 0..Len(sc[i].defers)
         /\ Ids(sc[i].defers, Left(sc, k, m, i)) \in Seq(1..n)
<1>1. Len(sc[i].defers) \in Nat /\ i \in DOMAIN sc
  BY ScopeFacts
<1>2. Left(sc, k, m, i) \in 0..Len(sc[i].defers)
  BY <1>1 DEF Left
<1>3. /\ Left(sc, k, m, i) \in Nat
      /\ \A j \in 1..Left(sc, k, m, i) : sc[i].defers[j].id \in 1..n
  BY <1>1, <1>2, ScopeFacts
<1> QED  BY <1>2, <1>3, IdsTyped

LEMMA OwingTyped ==
  ASSUME NEW sc \in Seq(ScopeType), NEW n \in Nat, Numbered(sc, n),
         NEW k \in Nat, NEW m \in Nat,
         k \in DOMAIN sc => m <= Len(sc[k].defers)
  PROVE  /\ Owing(sc, k, m) \in Debts(n) /\ Len(Owing(sc, k, m)) = Len(sc)
         /\ DOMAIN Owing(sc, k, m) = 1..Len(sc)
         /\ \A i \in 1..Len(sc) :
              Owing(sc, k, m)[i] = Ids(sc[i].defers, Left(sc, k, m, i))
<1>1. Len(sc) \in Nat
  OBVIOUS
<1>2. \A i \in 1..Len(sc) : Ids(sc[i].defers, Left(sc, k, m, i)) \in Seq(1..n)
  BY LeftTyped
<1>3. \A i \in 1..Len(sc) :
        Owing(sc, k, m)[i] = Ids(sc[i].defers, Left(sc, k, m, i))
  BY DEF Owing
<1>4. Owing(sc, k, m) = [i \in 1..Len(sc) |-> Owing(sc, k, m)[i]]
  BY DEF Owing
<1>5. Owing(sc, k, m) \in Debts(n) /\ Len(Owing(sc, k, m)) = Len(sc)
  <2> DEFINE s == Owing(sc, k, m)
             l == Len(sc)
  <2>1. s = [i \in 1..l |-> s[i]] /\ l \in Nat
    BY <1>1, <1>4
  <2>2. \A i \in 1..l : s[i] \in Seq(1..n)
    BY <1>2, <1>3
  <2> HIDE DEF s, l
  <2>3. s \in Debts(n) /\ Len(s) = l
    BY <2>1, <2>2, DebtsGiven
  <2> QED  BY <2>3 DEF s, l
<1>6. DOMAIN Owing(sc, k, m) = 1..Len(sc)
  BY DEF Owing
<1> QED  BY <1>3, <1>5, <1>6

\* No scope has been begun.
LEMMA OwingAll ==
  ASSUME NEW sc \in Seq(ScopeType)
  PROVE  Owing(sc, Len(sc) + 1, 0) = Full(sc, Len(sc))
<1>1. \A i \in 1..Len(sc) : Left(sc, Len(sc) + 1, 0, i) = Len(sc[i].defers)
  BY DEF Left
<1> QED  BY <1>1 DEF Owing, Full

\* Scope k has been begun; it is the next, with all its defers.
LEMMA OwingNext ==
  ASSUME NEW sc \in Seq(ScopeType), NEW k \in DOMAIN sc
  PROVE  Owing(sc, k, Len(sc[k].defers)) = Owing(sc, k + 1, 0)
<1>1. k \in Nat
  OBVIOUS
<1>2. \A i \in 1..Len(sc) :
        Left(sc, k, Len(sc[k].defers), i) = Left(sc, k + 1, 0, i)
  BY <1>1 DEF Left
<1> QED  BY <1>2 DEF Owing

\* A scope without defers is empty from the start.
LEMMA OwingEmpty ==
  ASSUME NEW sc \in Seq(ScopeType), sc # <<>>, sc[Len(sc)].defers = <<>>
  PROVE  Owing(sc, Len(sc), 0) = Full(sc, Len(sc))
<1>1. Len(sc) \in DOMAIN sc /\ Len(sc[Len(sc)].defers) = 0
  OBVIOUS
<1> QED  BY <1>1, OwingNext, OwingAll

-----------------------------------------------------------------------------
(* The instructions that the walk emits                                    *)

LEMMA OpenFlows ==
  ASSUME NEW sc \in Seq(ScopeType), NEW c, c.defers = <<>>,
         NEW l, l = Len(sc) + 1
  PROVE  Flow(Op("open"), Full(sc, Len(sc)), Full(Append(sc, c), l))
<1> DEFINE d == Append(sc, c)
           s == Full(sc, Len(sc))
           t == Full(d, l)
<1>1. /\ Len(sc) \in Nat /\ l \in Nat /\ d[l] = c
      /\ \A i \in 1..Len(sc) : d[i] = sc[i]
  OBVIOUS
<1>2. Len(c.defers) = 0
  OBVIOUS
<1> HIDE DEF d
<1>3. t = [i \in 1..l |-> Ids(d[i].defers, Len(d[i].defers))]
  BY DEF Full
<1>4. s = [i \in 1..Len(sc) |-> Ids(sc[i].defers, Len(sc[i].defers))]
  BY DEF Full
<1>5. t[l] = <<>>
  BY <1>1, <1>2, <1>3, NoIds
<1>6. \A i \in 1..Len(sc) : t[i] = s[i]
  <2> TAKE i \in 1..Len(sc)
  <2>1. i \in 1..l /\ d[i] = sc[i]
    BY <1>1
  <2> QED  BY <1>3, <1>4, <2>1
<1>7. DOMAIN t = 1..l
  BY <1>3
<1>8. DOMAIN s = 1..Len(sc) /\ Len(s) = Len(sc)
  BY <1>1, <1>4
<1>9. t = Append(s, <<>>)
  <2>1. Append(s, <<>>) = [i \in 1..l |-> IF i = l THEN <<>> ELSE s[i]]
    BY <1>1, <1>4, <1>8
  <2>2. \A i \in 1..l : t[i] = IF i = l THEN <<>> ELSE s[i]
    <3> TAKE i \in 1..l
    <3>1. CASE i = l  BY <1>5, <3>1
    <3>2. CASE i # l
      <4>1. i \in 1..Len(sc)  BY <1>1, <3>2
      <4> QED  BY <1>6, <3>2, <4>1
    <3> QED  BY <3>1, <3>2
  <2>3. t = [i \in 1..l |-> t[i]]
    BY <1>3
  <2> QED  BY <2>1, <2>2, <2>3
<1> QED  BY <1>9 DEF Flow, Op, d

LEMMA CloseFlows ==
  ASSUME NEW sc \in Seq(ScopeType), sc # <<>>, NEW n \in Nat, Numbered(sc, n)
  PROVE  Flow(Op("close"), Owing(sc, Len(sc), 0), Full(Front(sc), Len(Front(sc))))
<1> DEFINE l == Len(sc) - 1
           s == Owing(sc, Len(sc), 0)
           d == Front(sc)
           t == Full(d, Len(d))
<1>1. /\ Len(sc) \in Nat \ {0} /\ l \in Nat /\ Len(d) = l
      /\ \A i \in 1..l : d[i] = sc[i]
  BY Popped
<1>2. /\ s \in Debts(n) /\ Len(s) = Len(sc)
      /\ \A i \in 1..Len(sc) : s[i] = Ids(sc[i].defers, Left(sc, Len(sc), 0, i))
  <2>1. Len(sc[Len(sc)].defers) \in Nat
    BY <1>1, ScopeFacts
  <2>2. Len(sc) \in Nat /\ 0 \in Nat /\ (Len(sc) \in DOMAIN sc => 0 <= Len(sc[Len(sc)].defers))
    BY <1>1, <2>1
  <2> QED  BY <2>2, OwingTyped
<1>3. s[Len(sc)] = <<>>
  <2>1. Left(sc, Len(sc), 0, Len(sc)) = 0
    BY <1>1 DEF Left
  <2> QED  BY <1>1, <1>2, <2>1, NoIds
<1>4. \A i \in 1..l : s[i] = Ids(sc[i].defers, Len(sc[i].defers))
  <2> TAKE i \in 1..l
  <2>1. Left(sc, Len(sc), 0, i) = Len(sc[i].defers) /\ i \in 1..Len(sc)
    BY <1>1 DEF Left
  <2> QED  BY <1>2, <2>1
<1> HIDE DEF s, d
<1>5. s # <<>> /\ Len(Front(s)) = l /\ \A i \in 1..l : Front(s)[i] = s[i]
  <2> DEFINE S == Seq(1..n)
  <2>1. s \in Seq(S) /\ s # <<>> /\ Len(s) - 1 = l
    BY <1>1, <1>2 DEF Debts
  <2> HIDE DEF S, l
  <2> QED  BY <2>1, Popped
<1>6. Front(s) = [i \in 1..l |-> Front(s)[i]]
  <2>1. Front(s) \in Debts(n)
    <3> DEFINE S == Seq(1..n)
    <3>1. s \in Seq(S) /\ s # <<>>
      BY <1>2, <1>5 DEF Debts
    <3> HIDE DEF S
    <3>2. Front(s) \in Seq(S)
      BY <3>1, Popped
    <3> QED  BY <3>2 DEF S, Debts
  <2> QED  BY <1>5, <2>1 DEF Debts
<1>7. t = [i \in 1..l |-> Ids(d[i].defers, Len(d[i].defers))]
  BY <1>1 DEF Full, d
<1> HIDE DEF l, t
<1>8. t = Front(s)
  <2>1. \A i \in 1..l : Front(s)[i] = Ids(d[i].defers, Len(d[i].defers))
    BY <1>1, <1>4, <1>5 DEF d
  <2> QED  BY <1>6, <1>7, <2>1
<1>9. Flow(Op("close"), s, t)
  BY <1>2, <1>3, <1>5, <1>8 DEF Flow, Op
<1> QED  BY <1>9 DEF s, t, d

LEMMA RunFlows ==
  ASSUME NEW sc \in Seq(ScopeType), NEW n \in Nat, Numbered(sc, n),
         NEW k \in DOMAIN sc, NEW m \in 1..Len(sc[k].defers)
  PROVE  Flow(Run(sc[k].defers[m].id), Owing(sc, k, m), Owing(sc, k, m - 1))
<1> DEFINE s == Owing(sc, k, m)
           t == Owing(sc, k, m - 1)
           ds == sc[k].defers
<1>1. /\ Len(sc) \in Nat /\ k \in 1..Len(sc) /\ k \in Nat
      /\ Len(ds) \in Nat /\ m \in Nat /\ m - 1 \in Nat
      /\ m <= Len(ds) /\ m - 1 <= Len(ds) /\ m # 0
      /\ \A j \in 1..Len(ds) : ds[j].id \in 1..n
  BY ScopeFacts
<1>2. /\ s \in Debts(n) /\ Len(s) = Len(sc) /\ DOMAIN s = 1..Len(sc)
      /\ \A i \in 1..Len(sc) : s[i] = Ids(sc[i].defers, Left(sc, k, m, i))
  BY <1>1, OwingTyped
<1>3. /\ t \in Debts(n) /\ Len(t) = Len(sc) /\ DOMAIN t = 1..Len(sc)
      /\ \A i \in 1..Len(sc) : t[i] = Ids(sc[i].defers, Left(sc, k, m - 1, i))
  BY <1>1, OwingTyped
<1>4. s[k] = Ids(ds, m) /\ t[k] = Ids(ds, m - 1)
  BY <1>1, <1>2, <1>3 DEF Left
<1>5. \A i \in 1..Len(sc) : i # k => t[i] = s[i]
  BY <1>1, <1>2, <1>3 DEF Left
<1>6. \A i \in 1..Len(sc) : i > k => s[i] = <<>>
  <2> SUFFICES ASSUME NEW i \in 1..Len(sc), i > k PROVE s[i] = <<>>
    OBVIOUS
  <2>1. Left(sc, k, m, i) = 0
    BY <1>1 DEF Left
  <2> QED  BY <1>2, <2>1, NoIds
<1>7. /\ Ids(ds, m) \in Seq(1..n) /\ Len(Ids(ds, m)) = m
      /\ Ids(ds, m)[m] = ds[m].id /\ Ids(ds, m) # <<>>
      /\ \A j \in 1..m : Ids(ds, m)[j] = ds[j].id
  <2>1. \A j \in 1..m : ds[j].id \in 1..n
    BY <1>1
  <2> HIDE DEF ds
  <2>2. /\ Ids(ds, m) \in Seq(1..n) /\ Len(Ids(ds, m)) = m
        /\ \A j \in 1..m : Ids(ds, m)[j] = ds[j].id
    BY <1>1, <2>1, IdsTyped
  <2>3. m \in 1..m
    BY <1>1
  <2>4. Ids(ds, m) # <<>>
    BY <1>1, <2>2
  <2> QED  BY <2>2, <2>3, <2>4
<1>8. Front(Ids(ds, m)) = Ids(ds, m - 1)
  <2> DEFINE x == Ids(ds, m)
             y == Front(x)
  <2>1. /\ y \in Seq(1..n) /\ Len(y) = m - 1
        /\ \A j \in 1..(m - 1) : y[j] = x[j]
    BY <1>7, Popped
  <2>2. Ids(ds, m - 1) = [j \in 1..(m - 1) |-> ds[j].id]
    BY DEF Ids
  <2>3. ASSUME NEW j \in 1..(m - 1) PROVE y[j] = ds[j].id
    <3>1. j \in 1..m
      BY <1>1
    <3>2. y[j] = x[j]
      BY <2>1
    <3>3. x[j] = ds[j].id
      BY <1>7, <3>1
    <3> QED  BY <3>2, <3>3
  <2> HIDE DEF y
  <2>4. y = [j \in 1..(m - 1) |-> y[j]]
    BY <1>1, <2>1
  <2> QED  BY <2>2, <2>3, <2>4 DEF y
<1> HIDE DEF s, t, ds
<1>9. t = [s EXCEPT ![k] = Front(@)]
  <2> DEFINE u == [s EXCEPT ![k] = Front(s[k])]
  <2>1. s = [i \in 1..Len(sc) |-> s[i]] /\ t = [i \in 1..Len(sc) |-> t[i]]
    <3> DEFINE S == Seq(1..n)
    <3>1. s \in Seq(S) /\ t \in Seq(S)
      BY <1>2, <1>3 DEF Debts
    <3> HIDE DEF S
    <3> QED  BY <1>2, <1>3, <3>1
  <2>2. u = [i \in 1..Len(sc) |-> IF i = k THEN Front(s[k]) ELSE s[i]]
    BY <1>1, <2>1
  <2>3. \A i \in 1..Len(sc) : t[i] = IF i = k THEN Front(s[k]) ELSE s[i]
    BY <1>4, <1>5, <1>8
  <2> QED  BY <2>1, <2>2, <2>3
<1>10. Flow(Run(ds[m].id), s, t)
  <2>1. k \in DOMAIN s /\ s[k] # <<>> /\ \A j \in DOMAIN s : j > k => s[j] = <<>>
    BY <1>1, <1>2, <1>4, <1>6, <1>7
  <2>2. ds[m].id = s[k][Len(s[k])]
    BY <1>4, <1>7
  <2> QED  BY <1>9, <2>1, <2>2 DEF Flow, Run
<1> QED  BY <1>10 DEF s, t, ds

LEMMA RegFlows ==
  ASSUME NEW sc \in Seq(ScopeType), NEW n \in Nat, Numbered(sc, n),
         NEW l \in Nat \ {0}, l = Len(sc), NEW d,
         NEW e \in Seq(ScopeType), Len(e) = l,
         \A i \in 1..(l - 1) : e[i] = sc[i],
         e[l].defers = Append(sc[l].defers, d)
  PROVE  Flow(Reg(d.id), Full(sc, l), Full(e, l))
<1> DEFINE s == Full(sc, l)
           t == Full(e, l)
           ds == sc[l].defers
           es == e[l].defers
           m == Len(ds)
<1>1. s = [i \in 1..l |-> Ids(sc[i].defers, Len(sc[i].defers))]
  BY DEF Full
<1>2. t = [i \in 1..l |-> Ids(e[i].defers, Len(e[i].defers))]
  BY DEF Full
<1>3. ds \in Seq([id : Nat, block : BOOLEAN]) /\ m \in Nat
  <2>1. sc[l] \in ScopeType
    OBVIOUS
  <2> DEFINE D == [id : Nat, block : BOOLEAN]
  <2>2. ds \in Seq(D)
    BY <2>1 DEF ScopeType
  <2> HIDE DEF D, ds
  <2>3. Len(ds) \in Nat
    BY <2>2
  <2> QED  BY <2>2, <2>3 DEF D
<1>4. /\ es = Append(ds, d) /\ Len(es) = m + 1 /\ es[m + 1] = d
      /\ \A j \in 1..m : es[j] = ds[j]
  BY <1>3
<1> HIDE DEF ds, es, m
<1>5. t[l] = Append(s[l], d.id)
  <2>0. l \in 1..l
    OBVIOUS
  <2>1. s[l] = Ids(ds, m) /\ t[l] = Ids(es, Len(es))
    BY <1>1, <1>2, <2>0 DEF ds, es, m
  <2>2. Ids(ds, m) = [j \in 1..m |-> ds[j].id]
    BY DEF Ids
  <2>3. Ids(es, m + 1) = [j \in 1..(m + 1) |-> es[j].id]
    BY DEF Ids
  <2>4. Append(Ids(ds, m), d.id) =
          [j \in 1..(m + 1) |-> IF j = m + 1 THEN d.id ELSE ds[j].id]
    BY <1>3, <2>2
  <2>5. \A j \in 1..(m + 1) : es[j].id = IF j = m + 1 THEN d.id ELSE ds[j].id
    BY <1>3, <1>4
  <2> QED  BY <1>4, <2>1, <2>3, <2>4, <2>5
<1>6. \A i \in 1..(l - 1) : t[i] = s[i]
  <2> TAKE i \in 1..(l - 1)
  <2>1. i \in 1..l /\ e[i] = sc[i]
    OBVIOUS
  <2> QED  BY <1>1, <1>2, <2>1
<1>7. DOMAIN s = 1..l /\ DOMAIN t = 1..l /\ Len(s) = l /\ s # <<>>
  BY <1>1, <1>2
<1>8. s = [i \in 1..l |-> s[i]] /\ t = [i \in 1..l |-> t[i]]
  BY <1>1, <1>2
<1> HIDE DEF s, t
<1>9. t = [s EXCEPT ![l] = Append(@, d.id)]
  <2> DEFINE u == [s EXCEPT ![l] = Append(s[l], d.id)]
  <2>1. u = [i \in 1..l |-> IF i = l THEN Append(s[l], d.id) ELSE s[i]]
    BY <1>8
  <2>2. \A i \in 1..l : t[i] = IF i = l THEN Append(s[l], d.id) ELSE s[i]
    <3> TAKE i \in 1..l
    <3>1. CASE i = l  BY <1>5, <3>1
    <3>2. CASE i # l
      <4>1. i \in 1..(l - 1)  BY <3>2
      <4> QED  BY <1>6, <3>2, <4>1
    <3> QED  BY <3>1, <3>2
  <2> QED  BY <1>8, <2>1, <2>2
<1>10. Flow(Reg(d.id), s, t)
  BY <1>7, <1>9 DEF Flow, Reg
<1> QED  BY <1>10 DEF s, t

LEMMA RetEnds ==
  ASSUME NEW sc \in Seq(ScopeType), NEW e
  PROVE  Ends(Op("ret"), Owing(sc, 1, 0), e)
<1> DEFINE s == Owing(sc, 1, 0)
<1>1. \A i \in 1..Len(sc) : Left(sc, 1, 0, i) = 0
  BY DEF Left
<1>2. \A i \in DOMAIN s : s[i] = <<>>
  BY <1>1, NoIds DEF Owing
<1> QED  BY <1>2 DEF Ends, Op

LEMMA BrEnds ==
  ASSUME NEW n, NEW s \in Debts(n), NEW e, NEW b \in DOMAIN e, e[b] = s
  PROVE  Ends(Br(b), s, e)
<1> DEFINE S == Seq(1..n)
<1>1. s \in Seq(S)
  BY DEF Debts
<1> HIDE DEF S
<1>2. Len(s) \in Nat /\ SubSeq(s, 1, Len(s)) = s
  BY <1>1
<1>3. Len(s) - 0 = Len(s) /\ 0 \in 0..Len(s)
  BY <1>2
<1> QED  BY <1>2, <1>3 DEF Ends, Br

LEMMA CondEnds ==
  ASSUME NEW s, NEW e, NEW b \in DOMAIN e, NEW c \in DOMAIN e, e[b] = s, e[c] = s
  PROVE  Ends(CondBr(b, c), s, e)
BY DEF Ends, CondBr

LEMMA JumpEnds ==
  ASSUME NEW sc \in Seq(ScopeType), NEW n \in Nat, Numbered(sc, n),
         NEW l \in 0..Len(sc), NEW e, NEW b \in DOMAIN e, e[b] = Full(sc, l)
  PROVE  Ends(Jump(b, Len(sc) - l), Full(sc, Len(sc)), e)
<1> DEFINE m == Len(sc)
           s == Full(sc, m)
           t == Full(sc, l)
           S == Seq(1..n)
<1>1. /\ m \in Nat /\ l \in 0..m /\ m \in 0..m
  OBVIOUS
<1>2. /\ s \in Seq(S) /\ Len(s) = m
      /\ \A i \in 1..m : s[i] = Ids(sc[i].defers, Len(sc[i].defers))
  BY <1>1, FullTyped DEF Debts
<1>3. /\ t \in Seq(S) /\ Len(t) = l
      /\ \A i \in 1..l : t[i] = Ids(sc[i].defers, Len(sc[i].defers))
  BY <1>1, FullTyped DEF Debts
<1> HIDE DEF m, s, t, S
<1>4. m - (m - l) = l /\ m - l \in 0..m
  BY <1>1
<1>5. SubSeq(s, 1, l) = t
  <2>1. /\ SubSeq(s, 1, l) \in Seq(S) /\ Len(SubSeq(s, 1, l)) = l
        /\ \A i \in 1..l : SubSeq(s, 1, l)[i] = s[i]
    BY <1>1, <1>2
  <2> DEFINE u == SubSeq(s, 1, l)
  <2> HIDE DEF u
  <2>2. u \in Seq(S) /\ Len(u) = l /\ \A i \in 1..l : u[i] = t[i]
    BY <1>1, <1>2, <1>3, <2>1 DEF u
  <2>3. u = t
    BY <1>1, <1>3, <2>2
  <2> QED  BY <2>3 DEF u
<1>6. Ends(Jump(b, m - l), s, e)
  <2>1. e[b] = SubSeq(s, 1, Len(s) - (m - l)) /\ m - l \in 0..Len(s)
    BY <1>2, <1>4, <1>5 DEF t
  <2> QED  BY <2>1 DEF Ends, Jump
<1> QED  BY <1>6 DEF m, s

-----------------------------------------------------------------------------
(* The calls that are active                                               *)

\* The blocks a call has yet to begin.
Awaits(c) ==
  CASE c.op = "if" -> IF c.part \in {"then", "endthen"} THEN {c.join, c.else}
                      ELSE {c.join}
    [] c.op = "for" -> IF c.part \in {"loop", "post"} THEN {c.post, c.else, c.exit}
                       ELSE {c.exit}
    [] OTHER -> {}

Awaited(cs) == UNION {Awaits(cs[i]) : i \in 1..Len(cs)}

\* The blocks it still branches to.
Goals(c) == Awaits(c) \union (IF c.op = "for" THEN {c.loop} ELSE {})

\* The last scope it owns, or that it found.
Through(c) == c.base + Owned(c)

\* It emits no defers.
Calm(c) == c.op \notin {"emit", "return"} /\ c.part # "pop"

\* From which scope on defers have been emitted, and what that one has left.
Cut(c, n) ==
  CASE c.op = "emit" -> c.scope
    [] c.op = "return" -> c.scope + 1
    [] OTHER -> IF c.part = "pop" THEN n ELSE n + 1
Rest(c) == IF c.op = "emit" THEN c.next ELSE 0

\* What is owed where the code being emitted is.
Now(cs, sc) == Owing(sc, Cut(cs[Len(cs)], Len(sc)), Rest(cs[Len(cs)]))

SoundFrame(c, sc, e) ==
  /\ Owned(c) = 1 /\ c.op # "block" => sc[Through(c)].defers = <<>>
  /\ c.op = "block" => sc[Through(c)].loop = NoLoop
  /\ c.op = "for" => c.post # c.else /\ c.exit # c.post /\ c.exit # c.else
  /\ \A b \in Goals(c) : b \in DOMAIN e /\ e[b] = Full(sc, Through(c))

\* Call d was made by c.
Over(c, d, n) ==
  IF d.op = "emit" THEN \/ c.op = "block" /\ c.part = "pop" /\ d.scope = n
                        \/ c.op = "return" /\ d.scope = c.scope + 1
  ELSE Calm(c)

\* Call d is active inside c.
Within(c, d) == Through(c) <= d.base /\ Awaits(c) \cap Awaits(d) = {}

Frames(cs, sc, e) ==
  /\ \A i \in 1..Len(cs) : SoundFrame(cs[i], sc, e)
  /\ \A i, j \in 1..Len(cs) : i < j => Within(cs[i], cs[j])
  /\ \A i \in 1..Len(cs) :
       i < Len(cs) => cs[i].op # "emit" /\ Over(cs[i], cs[i + 1], Len(sc))

\* Where break and continue go.
Loops(sc, e) ==
  \A i \in 1..Len(sc) : sc[i].loop # NoLoop =>
    /\ sc[i].loop.post \in DOMAIN e /\ e[sc[i].loop.post] = Full(sc, i)
    /\ sc[i].loop.exit \in DOMAIN e /\ e[sc[i].loop.exit] = Full(sc, i)

\* The function generated so far, entered with e.
EmitsIn(bs, e, n, cs, b, sc) ==
  /\ Checked(bs, e, n, Awaited(cs), b, Now(cs, sc))
  /\ Frames(cs, sc, e)
  /\ Loops(sc, e)
  /\ Numbered(sc, n)

LEMMA ThroughTyped ==
  ASSUME NEW c \in CallType
  PROVE  /\ c.base \in Nat /\ Owned(c) \in {0, 1}
         /\ Through(c) \in Nat /\ c.base <= Through(c)
<1>1. c.base \in Nat
  BY DEF CallType
<1>2. Owned(c) \in {0, 1}
  BY DEF Owned
<1> QED  BY <1>1, <1>2 DEF Through

\* Scopes that agree as far as l.
LEMMA FullAgrees ==
  ASSUME NEW sc, NEW sd, NEW l, \A i \in 1..l : sd[i] = sc[i]
  PROVE  Full(sd, l) = Full(sc, l)
BY DEF Full

LEMMA FrameKept ==
  ASSUME NEW c \in CallType, NEW sc, NEW sd, NEW e, NEW f,
         SoundFrame(c, sc, e), Extends(f, e),
         \A i \in 1..Through(c) : sd[i] = sc[i]
  PROVE  SoundFrame(c, sd, f)
<1>1. c.base \in Nat /\ Owned(c) \in {0, 1} /\ Through(c) \in Nat
  BY ThroughTyped
<1>2. Full(sd, Through(c)) = Full(sc, Through(c))
  BY FullAgrees
<1>3. \A b \in DOMAIN e : b \in DOMAIN f /\ f[b] = e[b]
  BY DEF Extends
<1>4. Owned(c) = 1 => sd[Through(c)] = sc[Through(c)]
  BY <1>1 DEF Through
<1>5. c.op = "block" => Owned(c) = 1
  BY DEF Owned
<1> QED  BY <1>2, <1>3, <1>4, <1>5 DEF SoundFrame

\* What the walk makes of the innermost call.
LEMMA FramesResumed ==
  ASSUME NEW cs \in Seq(CallType), cs # <<>>, NEW sc, NEW sd, NEW e, NEW f,
         Frames(cs, sc, e), Extends(f, e),
         NEW c, c = cs[Len(cs)],
         \A i \in 1..c.base : sd[i] = sc[i],
         NEW p \in CallType, p.base = c.base, Awaits(p) \subseteq Awaits(c),
         SoundFrame(p, sd, f),
         p.op = "emit" <=> c.op = "emit",
         c.op = "emit" => p.scope = c.scope /\ Len(sd) = Len(sc)
  PROVE  Frames([cs EXCEPT ![Len(cs)] = p], sd, f)
<1> DEFINE l == Len(cs)
           ds == [cs EXCEPT ![Len(cs)] = p]
<1>1. /\ l \in Nat \ {0} /\ Len(ds) = l /\ ds[l] = p
      /\ \A i \in 1..l : i # l => ds[i] = cs[i]
      /\ \A i \in 1..l : cs[i] \in CallType
  OBVIOUS
<1>2. /\ \A i \in 1..l : SoundFrame(cs[i], sc, e)
      /\ \A i, j \in 1..l : i < j => Within(cs[i], cs[j])
      /\ \A i \in 1..l :
           i < l => cs[i].op # "emit" /\ Over(cs[i], cs[i + 1], Len(sc))
  BY DEF Frames
<1>3. c = cs[l]
  OBVIOUS
<1> HIDE DEF l, ds
<1>4. ASSUME NEW i \in 1..l PROVE SoundFrame(ds[i], sd, f)
  <2>1. CASE i = l
    BY <1>1, <2>1
  <2>2. CASE i # l
    <3>1. Within(cs[i], c) /\ cs[i] \in CallType
      BY <1>1, <1>2, <1>3, <2>2
    <3>2. Through(cs[i]) <= c.base /\ Through(cs[i]) \in Nat /\ c.base \in Nat
      BY <1>1, <1>3, <3>1, ThroughTyped DEF Within
    <3>3. \A k \in 1..Through(cs[i]) : sd[k] = sc[k]
      BY <3>2
    <3>4. SoundFrame(cs[i], sd, f)
      BY <1>2, <3>1, <3>3, FrameKept
    <3> QED  BY <1>1, <2>2, <3>4
  <2> QED  BY <2>1, <2>2
<1>5. ASSUME NEW i \in 1..l, NEW j \in 1..l, i < j PROVE Within(ds[i], ds[j])
  <2>1. i # l /\ ds[i] = cs[i]
    BY <1>1, <1>5
  <2>2. Within(cs[i], cs[j])
    BY <1>2, <1>5
  <2>3. CASE j = l
    BY <1>1, <1>3, <2>1, <2>2, <2>3 DEF Within
  <2>4. CASE j # l
    BY <1>1, <2>1, <2>2, <2>4
  <2> QED  BY <2>3, <2>4
<1>6. ASSUME NEW i \in 1..l, i < l
      PROVE  ds[i].op # "emit" /\ Over(ds[i], ds[i + 1], Len(sd))
  <2>1. i # l /\ ds[i] = cs[i] /\ i + 1 \in 1..l
    BY <1>1, <1>6
  <2>2. cs[i].op # "emit" /\ Over(cs[i], cs[i + 1], Len(sc))
    BY <1>2, <1>6
  <2>3. CASE i + 1 = l
    <3>1. ds[i + 1] = p /\ cs[i + 1] = c
      BY <1>1, <1>3, <2>3
    <3> QED  BY <2>1, <2>2, <3>1 DEF Over
  <2>4. CASE i + 1 # l
    <3>1. ds[i + 1] = cs[i + 1] /\ i + 1 < l
      BY <1>1, <2>1, <2>4
    <3>2. cs[i + 1].op # "emit"
      BY <1>2, <2>1, <3>1
    <3> QED  BY <2>1, <2>2, <3>1, <3>2 DEF Over
  <2> QED  BY <2>3, <2>4
<1>7. Frames(ds, sd, f)
  BY <1>1, <1>4, <1>5, <1>6 DEF Frames
<1> QED  BY <1>7 DEF ds

LEMMA FramesPushed ==
  ASSUME NEW cs \in Seq(CallType), cs # <<>>, NEW sc, NEW sd, NEW e, NEW f,
         Frames(cs, sc, e), Extends(f, e),
         NEW t, t = cs[Len(cs)], t.op # "emit",
         \A i \in 1..Through(t) : sd[i] = sc[i],
         NEW c \in CallType, c.base = Through(t),
         Awaits(c) \cap Awaited(cs) = {},
         SoundFrame(c, sd, f), Over(t, c, Len(sd))
  PROVE  Frames(Append(cs, c), sd, f)
<1> DEFINE l == Len(cs)
           ds == Append(cs, c)
<1>1. /\ l \in Nat \ {0} /\ Len(ds) = l + 1 /\ ds[l + 1] = c
      /\ \A i \in 1..l : ds[i] = cs[i]
      /\ \A i \in 1..l : cs[i] \in CallType
  <2>1. l \in Nat \ {0} /\ \A i \in 1..l : cs[i] \in CallType
    OBVIOUS
  <2> QED  BY <2>1, Pushed
<1>2. /\ \A i \in 1..l : SoundFrame(cs[i], sc, e)
      /\ \A i, j \in 1..l : i < j => Within(cs[i], cs[j])
      /\ \A i \in 1..l :
           i < l => cs[i].op # "emit" /\ Over(cs[i], cs[i + 1], Len(sc))
  BY DEF Frames
<1>3. t = cs[l] /\ t \in CallType /\ Through(t) \in Nat
  BY <1>1, ThroughTyped
<1>4. \A i \in 1..l : Awaits(c) \cap Awaits(cs[i]) = {}
  BY DEF Awaited
<1> HIDE DEF l, ds
<1>5. ASSUME NEW i \in 1..l PROVE Through(cs[i]) <= Through(t) /\ Through(cs[i]) \in Nat
  <2>1. cs[i] \in CallType /\ Through(cs[i]) \in Nat
    BY <1>1, ThroughTyped
  <2>2. CASE i = l
    BY <1>3, <2>1, <2>2
  <2>3. CASE i # l
    <3>1. Within(cs[i], t)
      BY <1>1, <1>2, <1>3, <2>3
    <3>2. Through(cs[i]) <= t.base /\ t.base <= Through(t) /\ t.base \in Nat
      BY <1>3, <3>1, ThroughTyped DEF Within
    <3> QED  BY <1>3, <2>1, <3>2
  <2> QED  BY <2>2, <2>3
<1>6. ASSUME NEW i \in 1..(l + 1) PROVE SoundFrame(ds[i], sd, f)
  <2>1. CASE i = l + 1
    BY <1>1, <2>1
  <2>2. CASE i # l + 1
    <3>1. i \in 1..l /\ ds[i] = cs[i] /\ cs[i] \in CallType
      BY <1>1, <2>2
    <3>2. \A k \in 1..Through(cs[i]) : sd[k] = sc[k]
      BY <1>3, <1>5, <3>1
    <3>3. SoundFrame(cs[i], sd, f)
      BY <1>2, <3>1, <3>2, FrameKept
    <3> QED  BY <3>1, <3>3
  <2> QED  BY <2>1, <2>2
<1>7. ASSUME NEW i \in 1..(l + 1), NEW j \in 1..(l + 1), i < j
      PROVE  Within(ds[i], ds[j])
  <2>1. i \in 1..l /\ ds[i] = cs[i]
    BY <1>1, <1>7
  <2>2. CASE j = l + 1
    BY <1>1, <1>4, <1>5, <2>1, <2>2 DEF Within
  <2>3. CASE j # l + 1
    BY <1>1, <1>2, <1>7, <2>1, <2>3
  <2> QED  BY <2>2, <2>3
<1>8. ASSUME NEW i \in 1..(l + 1), i < l + 1
      PROVE  ds[i].op # "emit" /\ Over(ds[i], ds[i + 1], Len(sd))
  <2>1. i \in 1..l /\ ds[i] = cs[i]
    BY <1>1, <1>8
  <2>2. CASE i = l
    BY <1>1, <1>3, <2>1, <2>2
  <2>3. CASE i # l
    <3>1. i < l /\ i + 1 \in 1..l
      BY <1>1, <2>1, <2>3
    <3>2. cs[i].op # "emit" /\ Over(cs[i], cs[i + 1], Len(sc))
      BY <1>2, <2>1, <3>1
    <3>3. ds[i + 1] = cs[i + 1] /\ cs[i + 1].op # "emit"
      <4>1. CASE i + 1 = l
        BY <1>1, <1>3, <3>1, <4>1
      <4>2. CASE i + 1 # l
        BY <1>1, <1>2, <3>1, <4>2
      <4> QED  BY <4>1, <4>2
    <3> QED  BY <2>1, <3>2, <3>3 DEF Over
  <2> QED  BY <2>2, <2>3
<1>9. Frames(ds, sd, f)
  BY <1>1, <1>6, <1>7, <1>8 DEF Frames
<1> QED  BY <1>9 DEF ds

LEMMA FramesPopped ==
  ASSUME NEW cs \in Seq(CallType), Len(cs) > 1, NEW sc, NEW sd, NEW e,
         Frames(cs, sc, e), Extends(e, e),
         NEW c, c = cs[Len(cs)],
         \A i \in 1..c.base : sd[i] = sc[i]
  PROVE  Frames(Front(cs), sd, e)
<1> DEFINE l == Len(cs) - 1
           ds == Front(cs)
<1>1. /\ l \in Nat \ {0} /\ Len(ds) = l /\ Len(cs) = l + 1
      /\ \A i \in 1..l : ds[i] = cs[i]
      /\ \A i \in 1..(l + 1) : cs[i] \in CallType
  <2>1. cs # <<>> /\ Len(cs) \in Nat /\ l \in Nat \ {0} /\ Len(cs) = l + 1
        /\ \A i \in 1..Len(cs) : cs[i] \in CallType
    OBVIOUS
  <2> QED  BY <2>1, Popped
<1> HIDE DEF l, ds
<1>2. /\ \A i \in 1..(l + 1) : SoundFrame(cs[i], sc, e)
      /\ \A i, j \in 1..(l + 1) : i < j => Within(cs[i], cs[j])
      /\ \A i \in 1..(l + 1) :
           i < l + 1 => cs[i].op # "emit" /\ Over(cs[i], cs[i + 1], Len(sc))
  BY <1>1 DEF Frames
<1>3. c = cs[l + 1] /\ c.base \in Nat
  BY <1>1, ThroughTyped
<1>4. ASSUME NEW i \in 1..l PROVE SoundFrame(ds[i], sd, e)
  <2>1. Within(cs[i], c) /\ cs[i] \in CallType /\ ds[i] = cs[i]
    BY <1>1, <1>2, <1>3
  <2>2. \A k \in 1..Through(cs[i]) : sd[k] = sc[k]
    BY <1>3, <2>1, ThroughTyped DEF Within
  <2>3. SoundFrame(cs[i], sc, e)
    BY <1>1, <1>2
  <2> QED  BY <2>1, <2>2, <2>3, FrameKept
<1>5. ASSUME NEW i \in 1..l, NEW j \in 1..l, i < j PROVE Within(ds[i], ds[j])
  BY <1>1, <1>2, <1>5
<1>6. ASSUME NEW i \in 1..l, i < l
      PROVE  ds[i].op # "emit" /\ Over(ds[i], ds[i + 1], Len(sd))
  <2>1. /\ i + 1 \in 1..l /\ i \in 1..(l + 1) /\ i + 1 \in 1..(l + 1)
        /\ i < l + 1 /\ i + 1 < l + 1
    BY <1>1, <1>6
  <2>2. cs[i].op # "emit" /\ Over(cs[i], cs[i + 1], Len(sc))
    BY <1>2, <2>1
  <2>4. cs[i + 1].op # "emit"
    BY <1>2, <2>1
  <2>3. ds[i] = cs[i] /\ ds[i + 1] = cs[i + 1]
    BY <1>1, <2>1
  <2> QED  BY <2>2, <2>3, <2>4 DEF Over
<1> QED  BY <1>1, <1>4, <1>5, <1>6 DEF Frames, ds

\* The blocks awaited, as the innermost call goes on,
LEMMA AwaitedResumed ==
  ASSUME NEW cs \in Seq(CallType), cs # <<>>, NEW sc, NEW e, Frames(cs, sc, e),
         NEW c, c = cs[Len(cs)], NEW p, NEW B,
         Awaits(p) = Awaits(c) \ B, B \subseteq Awaits(c),
         NEW ds, ds = [cs EXCEPT ![Len(cs)] = p]
  PROVE  Awaited(ds) = Awaited(cs) \ B
<1> DEFINE l == Len(cs)
<1>1. /\ l \in Nat \ {0} /\ Len(ds) = l /\ ds[l] = p /\ c = cs[l]
      /\ \A i \in 1..l : i # l => ds[i] = cs[i]
  OBVIOUS
<1>2. \A i, j \in 1..l : i < j => Within(cs[i], cs[j])
  BY DEF Frames
<1> HIDE DEF l
<1>3. ASSUME NEW i \in 1..l, i # l PROVE Awaits(cs[i]) \cap Awaits(c) = {}
  <2>1. l \in 1..l /\ i < l
    BY <1>1, <1>3
  <2>2. Within(cs[i], cs[l])
    BY <1>2, <2>1
  <2> QED  BY <1>1, <2>2 DEF Within
<1>4. ASSUME NEW b PROVE b \in Awaited(ds) <=> b \in Awaited(cs) \ B
  <2>1. b \in Awaited(ds) <=> \E i \in 1..l : b \in Awaits(ds[i])
    BY <1>1 DEF Awaited
  <2>2. b \in Awaited(cs) <=> \E i \in 1..l : b \in Awaits(cs[i])
    BY <1>1 DEF Awaited, l
  <2>3. l \in 1..l
    BY <1>1
  <2> QED  BY <1>1, <1>3, <2>1, <2>2, <2>3
<1> QED  BY <1>4

LEMMA AwaitedSame ==
  ASSUME NEW cs \in Seq(CallType), cs # <<>>,
         NEW p, Awaits(p) = Awaits(cs[Len(cs)]),
         NEW ds, ds = [cs EXCEPT ![Len(cs)] = p]
  PROVE  Awaited(ds) = Awaited(cs)
<1>1. /\ Len(cs) \in Nat \ {0} /\ Len(ds) = Len(cs)
      /\ \A i \in 1..Len(cs) : Awaits(ds[i]) = Awaits(cs[i])
  OBVIOUS
<1> QED  BY <1>1 DEF Awaited

\* as it calls another,
LEMMA AwaitedPushed ==
  ASSUME NEW cs \in Seq(CallType), NEW c \in CallType
  PROVE  Awaited(Append(cs, c)) = Awaited(cs) \union Awaits(c)
<1> DEFINE l == Len(cs)
           ds == Append(cs, c)
<1>1. /\ l \in Nat /\ Len(ds) = l + 1 /\ ds[l + 1] = c
      /\ \A i \in 1..l : ds[i] = cs[i]
  BY Pushed
<1> HIDE DEF l, ds
<1>2. ASSUME NEW b PROVE b \in Awaited(ds) <=> b \in Awaited(cs) \union Awaits(c)
  <2>1. b \in Awaited(ds) <=> \E i \in 1..(l + 1) : b \in Awaits(ds[i])
    BY <1>1 DEF Awaited
  <2>2. b \in Awaited(cs) <=> \E i \in 1..l : b \in Awaits(cs[i])
    BY <1>1 DEF Awaited, l
  <2>3. \A i \in 1..(l + 1) : i = l + 1 \/ i \in 1..l
    BY <1>1
  <2>4. \A i \in 1..l : i \in 1..(l + 1)
    BY <1>1
  <2>5. l + 1 \in 1..(l + 1)
    BY <1>1
  <2> QED  BY <1>1, <2>1, <2>2, <2>3, <2>4, <2>5
<1> QED  BY <1>2 DEF ds

\* and as it returns.
LEMMA AwaitedPopped ==
  ASSUME NEW cs \in Seq(CallType), cs # <<>>, NEW sc, NEW e, Frames(cs, sc, e),
         NEW c, c = cs[Len(cs)]
  PROVE  Awaited(Front(cs)) = Awaited(cs) \ Awaits(c)
<1> DEFINE l == Len(cs) - 1
           ds == Front(cs)
<1>1. /\ l \in Nat /\ Len(ds) = l /\ Len(cs) = l + 1
      /\ \A i \in 1..l : ds[i] = cs[i]
  BY Popped
<1> HIDE DEF l, ds
<1>2. \A i, j \in 1..(l + 1) : i < j => Within(cs[i], cs[j])
  BY <1>1 DEF Frames
<1>3. \A i \in 1..l : i \in 1..(l + 1) /\ i < l + 1
  BY <1>1
<1>4. l + 1 \in 1..(l + 1) /\ c = cs[l + 1]
  BY <1>1
<1>5. \A i \in 1..l : Awaits(cs[i]) \cap Awaits(c) = {}
  BY <1>2, <1>3, <1>4 DEF Within
<1>6. ASSUME NEW b PROVE b \in Awaited(ds) <=> b \in Awaited(cs) \ Awaits(c)
  <2>1. b \in Awaited(ds) <=> \E i \in 1..l : b \in Awaits(ds[i])
    BY <1>1 DEF Awaited
  <2>2. b \in Awaited(cs) <=> \E i \in 1..(l + 1) : b \in Awaits(cs[i])
    BY <1>1 DEF Awaited
  <2>3. \A i \in 1..(l + 1) : i = l + 1 \/ i \in 1..l
    BY <1>1
  <2> QED  BY <1>1, <1>3, <1>4, <1>5, <2>1, <2>2, <2>3
<1> QED  BY <1>6 DEF ds

-----------------------------------------------------------------------------
(* The state while a function is generated                                 *)

LEMMA EmitFacts ==
  ASSUME IInv, status = "gen",
         NEW e, EmitsIn(blocks, e, spent, calls, bb, scopes)
  PROVE  /\ calls \in Seq(CallType) /\ calls # <<>> /\ Len(calls) \in Nat \ {0}
         /\ Top = calls[Len(calls)] /\ Top \in CallType
         /\ scopes \in Seq(ScopeType) /\ Len(scopes) = Through(Top)
         /\ Len(scopes) \in Nat
         /\ spent \in Nat /\ e \in Seq(Debts(spent)) /\ Extends(e, e)
         /\ SoundFrame(Top, scopes, e) /\ Frames(calls, scopes, e)
         /\ Loops(scopes, e) /\ Numbered(scopes, spent)
         /\ Checked(blocks, e, spent, Awaited(calls), bb, Now(calls, scopes))
         /\ bb \in DOMAIN blocks /\ blocks \in Seq(Seq(Instr))
<1>1. /\ calls \in Seq(CallType) /\ calls # <<>> /\ Len(calls) \in Nat \ {0}
      /\ Top = calls[Len(calls)] /\ Top \in CallType
      /\ Accounts(calls, Len(scopes))
  BY TopFacts DEF Top
<1>2. Len(scopes) = Through(Top)
  BY <1>1 DEF Accounts, Through
<1>3. /\ Frames(calls, scopes, e) /\ Loops(scopes, e) /\ Numbered(scopes, spent)
      /\ Checked(blocks, e, spent, Awaited(calls), bb, Now(calls, scopes))
  BY DEF EmitsIn
<1>4. SoundFrame(Top, scopes, e)
  BY <1>1, <1>3 DEF Frames
<1>5. e \in Seq(Debts(spent)) /\ Extends(e, e)
  BY <1>3, ExtendsItself DEF Checked
<1>6. scopes \in Seq(ScopeType) /\ spent \in Nat /\ bb \in DOMAIN blocks
      /\ blocks \in Seq(Seq(Instr)) /\ Len(scopes) \in Nat
  BY DEF IInv, TypeOK
<1> QED  BY <1>1, <1>2, <1>3, <1>4, <1>5, <1>6

\* While no defers are emitted all are owed.
LEMMA CalmOwes ==
  ASSUME NEW sc \in Seq(ScopeType), NEW c, Calm(c)
  PROVE  Owing(sc, Cut(c, Len(sc)), Rest(c)) = Full(sc, Len(sc))
<1>1. Cut(c, Len(sc)) = Len(sc) + 1 /\ Rest(c) = 0
  BY DEF Calm, Cut, Rest
<1> QED  BY <1>1, OwingAll

LEMMA NowCalm ==
  ASSUME NEW sc \in Seq(ScopeType), NEW cs, Calm(cs[Len(cs)])
  PROVE  Now(cs, sc) = Full(sc, Len(sc))
BY CalmOwes DEF Now

LEMMA LoopsAgree ==
  ASSUME NEW sc, NEW sd, NEW e, NEW f, Loops(sc, e), Extends(f, e),
         Len(sc) \in Nat, Len(sd) \in Nat,
         NEW l \in Nat, l <= Len(sc), l <= Len(sd), \A i \in 1..l : sd[i] = sc[i],
         \A i \in 1..Len(sd) : i > l /\ sd[i].loop # NoLoop =>
           /\ sd[i].loop.post \in DOMAIN f /\ f[sd[i].loop.post] = Full(sd, i)
           /\ sd[i].loop.exit \in DOMAIN f /\ f[sd[i].loop.exit] = Full(sd, i)
  PROVE  Loops(sd, f)
<1> SUFFICES ASSUME NEW i \in 1..Len(sd), sd[i].loop # NoLoop
             PROVE  /\ sd[i].loop.post \in DOMAIN f /\ f[sd[i].loop.post] = Full(sd, i)
                    /\ sd[i].loop.exit \in DOMAIN f /\ f[sd[i].loop.exit] = Full(sd, i)
  BY DEF Loops
<1>1. CASE i > l
  BY <1>1
<1>2. CASE ~(i > l)
  <2>1. i \in 1..l /\ i \in 1..Len(sc) /\ sd[i] = sc[i]
    BY <1>2
  <2>2. \A k \in 1..i : sd[k] = sc[k]
    BY <2>1
  <2>3. Full(sd, i) = Full(sc, i)
    BY <2>2, FullAgrees
  <2>4. \A b \in DOMAIN e : b \in DOMAIN f /\ f[b] = e[b]
    BY DEF Extends
  <2> QED  BY <2>1, <2>3, <2>4 DEF Loops
<1> QED  BY <1>1, <1>2

\* The scopes of sd above l, if they are loops, are known to f.
LoopsAbove(sd, l, f) ==
  \A i \in 1..Len(sd) : i > l /\ sd[i].loop # NoLoop =>
    /\ sd[i].loop.post \in DOMAIN f /\ f[sd[i].loop.post] = Full(sd, i)
    /\ sd[i].loop.exit \in DOMAIN f /\ f[sd[i].loop.exit] = Full(sd, i)

LEMMA LoopsMore ==
  ASSUME NEW sc, NEW sd, NEW e, NEW f, Loops(sc, e), Extends(f, e),
         Len(sc) \in Nat, Len(sd) \in Nat, Len(sc) <= Len(sd),
         \A i \in 1..Len(sc) : sd[i] = sc[i], LoopsAbove(sd, Len(sc), f)
  PROVE  Loops(sd, f)
<1>1. PICK l : l = Len(sc)
  OBVIOUS
<1>2. l \in Nat /\ l <= Len(sc) /\ l <= Len(sd) /\ \A i \in 1..l : sd[i] = sc[i]
  BY <1>1
<1>3. \A i \in 1..Len(sd) : i > l /\ sd[i].loop # NoLoop =>
        /\ sd[i].loop.post \in DOMAIN f /\ f[sd[i].loop.post] = Full(sd, i)
        /\ sd[i].loop.exit \in DOMAIN f /\ f[sd[i].loop.exit] = Full(sd, i)
  BY <1>1 DEF LoopsAbove
<1> QED  BY <1>2, <1>3, LoopsAgree

LEMMA LoopsFewer ==
  ASSUME NEW sc, NEW sd, NEW e, Loops(sc, e), Extends(e, e),
         Len(sc) \in Nat, Len(sd) \in Nat, Len(sd) <= Len(sc),
         \A i \in 1..Len(sd) : sd[i] = sc[i]
  PROVE  Loops(sd, e)
<1>1. \A i \in 1..Len(sd) : ~(i > Len(sd))
  OBVIOUS
<1> QED  BY <1>1, LoopsAgree

LEMMA NumberedGrows ==
  ASSUME NEW sc, NEW n \in Nat, Numbered(sc, n), NEW m \in Nat, n <= m
  PROVE  Numbered(sc, m)
<1>1. \A i \in 1..n : i \in 1..m
  OBVIOUS
<1> QED  BY <1>1 DEF Numbered

\* A scope more.
LEMMA ScopeAdded ==
  ASSUME NEW sc \in Seq(ScopeType), NEW n \in Nat, Numbered(sc, n),
         NEW c \in ScopeType, c.defers = <<>>, NEW sd, sd = Append(sc, c)
  PROVE  /\ sd \in Seq(ScopeType) /\ Len(sd) = Len(sc) + 1 /\ sd[Len(sd)] = c
         /\ \A i \in 1..Len(sc) : sd[i] = sc[i]
         /\ Numbered(sd, n)
<1>1. /\ sd \in Seq(ScopeType) /\ Len(sd) = Len(sc) + 1 /\ sd[Len(sd)] = c
      /\ \A i \in 1..Len(sc) : sd[i] = sc[i]
  BY Pushed
<1>2. DOMAIN sc = 1..Len(sc) /\ DOMAIN sd = 1..(Len(sc) + 1) /\ Len(sc) \in Nat
  BY <1>1
<1>3. ASSUME NEW i \in DOMAIN sd, NEW k \in DOMAIN sd[i].defers
      PROVE  sd[i].defers[k].id \in 1..n
  <2>1. CASE i = Len(sd)
    BY <1>1, <1>3, <2>1
  <2>2. CASE i # Len(sd)
    <3>1. i \in DOMAIN sc /\ sd[i] = sc[i]
      BY <1>1, <1>2, <2>2
    <3>2. sd[i].defers[k].id \in 1..n
      BY <1>3, <3>1 DEF Numbered
    <3> QED  BY <3>2
  <2> QED  BY <2>1, <2>2
<1> QED  BY <1>1, <1>3 DEF Numbered

\* The innermost call resumes at p and makes call c.
LEMMA EmitsCalled ==
  ASSUME IInv, status = "gen",
         NEW e, EmitsIn(blocks, e, spent, calls, bb, scopes),
         Top.op # "emit",
         NEW p \in CallType, p.op = Top.op, p.base = Top.base,
         Owned(p) = Owned(Top), Awaits(p) = Awaits(Top), SoundFrame(p, scopes, e),
         NEW c \in CallType, c.base = Len(scopes), Awaits(c) \cap Awaited(calls) = {},
         NEW sd \in Seq(ScopeType), Len(scopes) <= Len(sd),
         \A i \in 1..Len(scopes) : sd[i] = scopes[i],
         NEW f, Extends(f, e), SoundFrame(c, sd, f), Over(p, c, Len(sd)),
         \A i \in 1..Len(sd) : i > Len(scopes) /\ sd[i].loop # NoLoop =>
           /\ sd[i].loop.post \in DOMAIN f /\ f[sd[i].loop.post] = Full(sd, i)
           /\ sd[i].loop.exit \in DOMAIN f /\ f[sd[i].loop.exit] = Full(sd, i),
         NEW n \in Nat, Numbered(sd, n), NEW bs, NEW b,
         Checked(bs, f, n, Awaited(calls) \union Awaits(c), b,
                 Owing(sd, Cut(c, Len(sd)), Rest(c)))
  PROVE  EmitsIn(bs, f, n, Append([calls EXCEPT ![Len(calls)] = p], c), b, sd)
<1> DEFINE cs == [calls EXCEPT ![Len(calls)] = p]
           ds == Append(cs, c)
<1>1. /\ calls \in Seq(CallType) /\ calls # <<>> /\ Top = calls[Len(calls)]
      /\ Len(scopes) = Through(Top) /\ Frames(calls, scopes, e) /\ Extends(e, e)
      /\ Loops(scopes, e) /\ Len(scopes) \in Nat /\ Top \in CallType
  BY EmitFacts
<1>2. /\ cs \in Seq(CallType) /\ cs # <<>> /\ Len(cs) = Len(calls) /\ cs[Len(cs)] = p
  BY <1>1
<1>3. Frames(cs, scopes, e)
  BY <1>1, FramesResumed
<1>4. Awaited(cs) = Awaited(calls)
  BY <1>1, AwaitedSame
<1> HIDE DEF cs
<1>5. Through(p) = Len(scopes)
  BY <1>1 DEF Through
<1>6. Frames(ds, sd, f)
  BY <1>2, <1>3, <1>4, <1>5, FramesPushed
<1>7. Awaited(ds) = Awaited(calls) \union Awaits(c)
  BY <1>2, <1>4, AwaitedPushed
<1>8. Now(ds, sd) = Owing(sd, Cut(c, Len(sd)), Rest(c))
  <2>1. ds[Len(ds)] = c
    BY <1>2, Pushed
  <2> QED  BY <2>1 DEF Now
<1>9. Loops(sd, f)
  <2>1. Loops(scopes, e) /\ Extends(f, e) /\ Len(scopes) \in Nat /\ Len(sd) \in Nat
    BY <1>1
  <2>2. LoopsAbove(sd, Len(scopes), f)
    BY DEF LoopsAbove
  <2> QED  BY <2>1, <2>2, LoopsMore
<1> HIDE DEF ds
<1>10. EmitsIn(bs, f, n, ds, b, sd)
  BY <1>6, <1>7, <1>8, <1>9 DEF EmitsIn
<1> QED  BY <1>10 DEF ds, cs

\* The call that made the innermost one.
LEMMA CallerFacts ==
  ASSUME IInv, status = "gen",
         NEW e, EmitsIn(blocks, e, spent, calls, bb, scopes),
         Top.op # "fn"
  PROVE  /\ Len(calls) > 1
         /\ Over(Below[Len(Below)], Top, Len(scopes))
<1> DEFINE k == Len(calls)
           l == k - 1
<1>1. /\ calls \in Seq(CallType) /\ calls # <<>> /\ Top = calls[k]
      /\ Frames(calls, scopes, e)
  BY EmitFacts
<1>2. k # 1 /\ k \in Nat \ {0}
  BY TopFacts DEF SoundCall
<1> HIDE DEF k
<1>3. k > 1 /\ l \in 1..l /\ l \in 1..k /\ l < k /\ l + 1 = k
  BY <1>2
<1>4. Len(Below) = l /\ Below[l] = calls[l]
  BY <1>1, <1>3, Popped DEF Below, k
<1> HIDE DEF l
<1>5. Over(calls[l], Top, Len(scopes))
  BY <1>1, <1>3 DEF Frames, k
<1> QED  BY <1>3, <1>4, <1>5 DEF k

\* The innermost call returns,
LEMMA EmitsPopped ==
  ASSUME IInv, status = "gen",
         NEW e, EmitsIn(blocks, e, spent, calls, bb, scopes),
         Top.op # "fn",
         NEW sd \in Seq(ScopeType), Len(sd) = Top.base,
         \A i \in 1..Top.base : sd[i] = scopes[i],
         NEW bs, NEW b,
         Checked(bs, e, spent, Awaited(calls) \ Awaits(Top), b, Now(Below, sd))
  PROVE  EmitsIn(bs, e, spent, Below, b, sd)
<1>1. /\ calls \in Seq(CallType) /\ calls # <<>> /\ Top = calls[Len(calls)]
      /\ Len(scopes) = Through(Top) /\ Frames(calls, scopes, e) /\ Extends(e, e)
      /\ Loops(scopes, e) /\ Len(scopes) \in Nat /\ Top \in CallType
      /\ Numbered(scopes, spent) /\ scopes \in Seq(ScopeType)
  BY EmitFacts
<1>2. Frames(Below, sd, e)
  BY <1>1, CallerFacts, FramesPopped DEF Below
<1>3. Awaited(Below) = Awaited(calls) \ Awaits(Top)
  BY <1>1, AwaitedPopped DEF Below
<1>4. Top.base \in Nat /\ Top.base <= Len(scopes)
  BY <1>1, ThroughTyped
<1>5. Loops(sd, e)
  <2>1. Len(sd) \in Nat /\ Len(sd) <= Len(scopes)
        /\ \A i \in 1..Len(sd) : sd[i] = scopes[i]
    BY <1>4
  <2> QED  BY <1>1, <2>1, LoopsFewer
<1>6. Numbered(sd, spent)
  <2>1. \A i \in DOMAIN sd : i \in 1..Top.base /\ i \in DOMAIN scopes
    BY <1>1, <1>4
  <2> QED  BY <1>1, <2>1 DEF Numbered
<1> QED  BY <1>2, <1>3, <1>5, <1>6 DEF EmitsIn

\* that of a statement to its caller's next.
LEMMA EmitsReturned ==
  ASSUME IInv, status = "gen",
         NEW e, EmitsIn(blocks, e, spent, calls, bb, scopes),
         Top.op # "fn", Top.op # "emit",
         NEW sd \in Seq(ScopeType), Len(sd) = Top.base,
         \A i \in 1..Top.base : sd[i] = scopes[i],
         NEW bs, NEW b,
         Checked(bs, e, spent, Awaited(calls) \ Awaits(Top), b, Full(sd, Len(sd)))
  PROVE  EmitsIn(bs, e, spent, Below, b, sd)
<1>1. Calm(Below[Len(Below)])
  BY CallerFacts DEF Over
<1>2. Now(Below, sd) = Full(sd, Len(sd))
  BY <1>1, NowCalm
<1> QED  BY <1>2, EmitsPopped

\* The innermost call goes on at p, which has B behind it.
LEMMA EmitsResumed ==
  ASSUME IInv, status = "gen",
         NEW e, EmitsIn(blocks, e, spent, calls, bb, scopes),
         NEW p \in CallType, p.base = Top.base, p.op = Top.op,
         NEW B, B \subseteq Awaits(Top), Awaits(p) = Awaits(Top) \ B,
         SoundFrame(p, scopes, e),
         p.op = "emit" => p.scope = Top.scope,
         NEW bs, NEW b,
         Checked(bs, e, spent, Awaited(calls) \ B, b,
                 Owing(scopes, Cut(p, Len(scopes)), Rest(p)))
  PROVE  EmitsIn(bs, e, spent, [calls EXCEPT ![Len(calls)] = p], b, scopes)
<1> DEFINE cs == [calls EXCEPT ![Len(calls)] = p]
<1>1. /\ calls \in Seq(CallType) /\ calls # <<>> /\ Top = calls[Len(calls)]
      /\ Frames(calls, scopes, e) /\ Extends(e, e)
      /\ Loops(scopes, e) /\ Numbered(scopes, spent) /\ Len(calls) \in Nat \ {0}
  BY EmitFacts
<1>2. Frames(cs, scopes, e)
  BY <1>1, FramesResumed
<1>3. Awaited(cs) = Awaited(calls) \ B
  BY <1>1, AwaitedResumed
<1>4. cs[Len(cs)] = p
  BY <1>1
<1> HIDE DEF cs
<1>5. EmitsIn(bs, e, spent, cs, b, scopes)
  BY <1>1, <1>2, <1>3, <1>4 DEF EmitsIn, Now
<1> QED  BY <1>5 DEF cs

-----------------------------------------------------------------------------
(* Every step of the walk emits what it should                             *)

Emits == \E e : EmitsIn(blocks, e, spent, calls, bb, scopes)

LEMMA SpentGrows ==
  ASSUME spent \in Nat, NEW f \in Forms, Meet(f)
  PROVE  spent' \in Nat /\ spent < spent'
<1>1. Cost[f] \in Nat \ {0} /\ spent' = spent + Cost[f]
  BY StmtAssumption DEF Meet
<1> QED  BY <1>1

LEMMA PartFields ==
  ASSUME NEW c \in CallType, c.op \in {"fn", "block", "if", "for"},
         NEW x \in PartsOf[c.op], NEW p, p = [c EXCEPT !.part = x]
  PROVE  /\ p \in CallType /\ p.op = c.op /\ p.part = x /\ p.base = c.base
         /\ Owned(p) = Owned(c)
         /\ c.op = "if" => p.init = c.init /\ p.join = c.join /\ p.else = c.else
         /\ c.op = "for" => /\ p.loop = c.loop /\ p.post = c.post
                           /\ p.else = c.else /\ p.exit = c.exit
<1>1. /\ p \in CallType /\ p.op = c.op /\ p.part = x /\ p.base = c.base
      /\ Owned(p) = Owned(c)
  BY PartChanged
<1>2. /\ c.op = "if" => p.init = c.init /\ p.join = c.join /\ p.else = c.else
      /\ c.op = "for" => /\ p.loop = c.loop /\ p.post = c.post
                        /\ p.else = c.else /\ p.exit = c.exit
  BY DEF CallType
<1> QED  BY <1>1, <1>2

\* A call goes on at another part, with no more blocks to begin.
LEMMA PartFrame ==
  ASSUME NEW c \in CallType, c.op \in {"fn", "block", "if", "for"},
         NEW x \in PartsOf[c.op], NEW p, p = [c EXCEPT !.part = x],
         NEW sc, NEW e, SoundFrame(c, sc, e), Awaits(p) \subseteq Awaits(c)
  PROVE  SoundFrame(p, sc, e)
<1>1. /\ p.op = c.op /\ p.base = c.base /\ Owned(p) = Owned(c)
      /\ c.op = "for" => /\ p.loop = c.loop /\ p.post = c.post
                        /\ p.else = c.else /\ p.exit = c.exit
  BY PartFields
<1>2. Through(p) = Through(c)
  BY <1>1 DEF Through
<1>3. Goals(p) \subseteq Goals(c)
  BY <1>1 DEF Goals
<1> QED  BY <1>1, <1>2, <1>3 DEF SoundFrame

\* A call that has a block generated.
LEMMA AroundBlock ==
  ASSUME NEW c \in CallType, c.part \in DOMAIN AfterBlock
  PROVE  LET p == [c EXCEPT !.part = AfterBlock[c.part]]
         IN  /\ c.op \in {"fn", "block", "if", "for"}
             /\ AfterBlock[c.part] \in PartsOf[c.op]
             /\ Awaits(p) = Awaits(c) /\ Calm(c) /\ Calm(p)
<1> DEFINE x == AfterBlock[c.part]
           p == [c EXCEPT !.part = x]
<1>1. /\ c.op \in {"fn", "block", "if", "for"} /\ x \in PartsOf[c.op]
  BY DEF CallType, AfterBlock, PartsOf
<1>2. /\ p.op = c.op /\ p.part = x
      /\ c.op = "if" => p.join = c.join /\ p.else = c.else
      /\ c.op = "for" => p.post = c.post /\ p.else = c.else /\ p.exit = c.exit
  BY <1>1, PartFields
<1>3. /\ c.op = "if" => \/ c.part = "then" /\ x = "endthen"
                        \/ c.part = "else" /\ x = "endelse"
      /\ c.op = "for" => \/ c.part = "loop" /\ x = "post"
                         \/ c.part = "forelse" /\ x = "exit"
      /\ x # "pop" /\ c.part # "pop"
  BY DEF CallType, AfterBlock
<1> HIDE DEF p, x
<1>4. Awaits(p) = Awaits(c)
  <2>1. CASE c.op = "if"
    BY <1>2, <1>3, <2>1 DEF Awaits
  <2>2. CASE c.op = "for"
    BY <1>2, <1>3, <2>2 DEF Awaits
  <2>3. CASE c.op \notin {"if", "for"}
    BY <1>2, <2>3 DEF Awaits
  <2> QED  BY <2>1, <2>2, <2>3
<1>5. Calm(c) /\ Calm(p)
  BY <1>1, <1>2, <1>3 DEF Calm
<1> QED  BY <1>1, <1>4, <1>5 DEF p, x

LEMMA EnterBlockEmits ==
  ASSUME IInv, NEW e, EmitsIn(blocks, e, spent, calls, bb, scopes), EnterBlock
  PROVE  Emits'
<1> DEFINE p == [Top EXCEPT !.part = AfterBlock[Top.part]]
           c == BlockCall(Len(scopes))
           s == Scope(NoLoop)
           A == Awaited(calls)
<1>0. status = "gen" /\ Top.part \in DOMAIN AfterBlock
  BY DEF EnterBlock
<1>a. PICK n : n = spent'
  OBVIOUS
<1>1. /\ calls \in Seq(CallType) /\ calls # <<>> /\ Top \in CallType
      /\ Top = calls[Len(calls)]
      /\ scopes \in Seq(ScopeType) /\ Len(scopes) \in Nat
      /\ spent \in Nat /\ Extends(e, e) /\ SoundFrame(Top, scopes, e)
      /\ Numbered(scopes, spent)
      /\ Checked(blocks, e, spent, A, bb, Now(calls, scopes))
  BY <1>0, EmitFacts
<1>2. n \in Nat /\ spent <= n
  <2>1. CASE Top.part = "stmts"
    <3>1. Meet("block") /\ "block" \in Forms
      BY <2>1 DEF EnterBlock, Forms
    <3> QED  BY <1>1, <1>a, <3>1, SpentGrows
  <2>2. CASE Top.part # "stmts"
    BY <1>1, <1>a, <2>2 DEF EnterBlock
  <2> QED  BY <2>1, <2>2
<1>3. /\ Top.op \in {"fn", "block", "if", "for"}
      /\ AfterBlock[Top.part] \in PartsOf[Top.op]
      /\ Awaits(p) = Awaits(Top) /\ Calm(Top) /\ Calm(p)
  BY <1>0, <1>1, AroundBlock
<1>4. /\ p \in CallType /\ p.op = Top.op /\ p.base = Top.base /\ Owned(p) = Owned(Top)
      /\ SoundFrame(p, scopes, e)
  <2> DEFINE x == AfterBlock[Top.part]
  <2>1. p = [Top EXCEPT !.part = x] /\ x \in PartsOf[Top.op] /\ Awaits(p) = Awaits(Top)
    BY <1>3
  <2> HIDE DEF p, x
  <2>2. Awaits(p) \subseteq Awaits(Top)
    BY <2>1
  <2>3. p \in CallType /\ p.op = Top.op /\ p.base = Top.base /\ Owned(p) = Owned(Top)
    BY <1>1, <1>3, <2>1, PartFields
  <2>4. SoundFrame(p, scopes, e)
    BY <1>1, <1>3, <2>1, <2>2, PartFrame
  <2> QED  BY <2>3, <2>4
<1>5. /\ c \in CallType /\ c.base = Len(scopes) /\ c.op = "block" /\ Owned(c) = 1
      /\ Awaits(c) = {} /\ Goals(c) = {} /\ Calm(c)
  BY <1>1 DEF BlockCall, CallType, Owned, Awaits, Goals, Calm
<1>6. /\ s \in ScopeType /\ s.defers = <<>> /\ s.loop = NoLoop
  BY ScopeTypes DEF Scope
<1>7. /\ calls' = Append([calls EXCEPT ![Len(calls)] = p], c)
      /\ scopes' = Append(scopes, s)
      /\ blocks' = Put(blocks, bb, Op("open")) /\ bb' = bb
  BY <1>1, ResumeIsReplace DEF EnterBlock, Push, With
<1> HIDE DEF p, c, s
<1>8. /\ scopes' \in Seq(ScopeType) /\ Len(scopes') = Len(scopes) + 1
      /\ scopes'[Len(scopes')] = s
      /\ \A i \in 1..Len(scopes) : scopes'[i] = scopes[i]
      /\ Numbered(scopes', n)
  <2>1. PICK sd : sd = Append(scopes, s) /\ sd = scopes'
    BY <1>7
  <2>a. scopes \in Seq(ScopeType) /\ s \in ScopeType /\ s.defers = <<>> /\ n \in Nat
    BY <1>1, <1>2, <1>6
  <2>b. Numbered(scopes, n)
    BY <1>1, <1>2, NumberedGrows
  <2>2. /\ sd \in Seq(ScopeType) /\ Len(sd) = Len(scopes) + 1 /\ sd[Len(sd)] = s
        /\ \A i \in 1..Len(scopes) : sd[i] = scopes[i]
        /\ Numbered(sd, n)
    BY <2>1, <2>a, <2>b, ScopeAdded
  <2> QED  BY <2>1, <2>2
<1>9. Now(calls, scopes) = Full(scopes, Len(scopes))
  BY <1>1, <1>3, NowCalm
<1>10. Full(scopes', Len(scopes')) \in Debts(n)
  <2>1. Len(scopes') \in 0..Len(scopes')
    BY <1>1, <1>8
  <2> QED  BY <1>2, <1>8, <2>1, FullTyped
<1>11. Checked(blocks', e, n, A, bb, Full(scopes', Len(scopes')))
  <2>1. Checked(blocks, e, n, A, bb, Full(scopes, Len(scopes)))
    BY <1>1, <1>2, <1>9, CheckedGrows
  <2>2. Flow(Op("open"), Full(scopes, Len(scopes)), Full(scopes', Len(scopes')))
    BY <1>1, <1>6, <1>7, <1>8, OpenFlows
  <2> QED  BY <1>2, <1>7, <1>10, <2>1, <2>2, InstrTypes, CheckedFlows
<1>12. SoundFrame(c, scopes', e)
  <2>1. Through(c) = Len(scopes')
    BY <1>5, <1>8 DEF Through
  <2> QED  BY <1>5, <1>6, <1>8, <2>1 DEF SoundFrame
<1>13. Over(p, c, Len(scopes'))
  BY <1>3, <1>5 DEF Over
<1>14. Owing(scopes', Cut(c, Len(scopes')), Rest(c)) = Full(scopes', Len(scopes'))
  <2>1. \A sc \in Seq(ScopeType) : Owing(sc, Cut(c, Len(sc)), Rest(c)) = Full(sc, Len(sc))
    BY <1>5, CalmOwes
  <2> QED  BY <1>8, <2>1
<1>15. \A i \in 1..Len(scopes') : ~(i > Len(scopes) /\ scopes'[i].loop # NoLoop)
  BY <1>1, <1>6, <1>8
<1>16. Awaits(c) \cap A = {} /\ A \union Awaits(c) = A
  BY <1>5
<1>17. EmitsIn(blocks', e, n, calls', bb', scopes')
  <2>1. Top.op # "emit" /\ Len(scopes) <= Len(scopes')
    BY <1>1, <1>3, <1>8
  <2> QED  BY <1>0, <1>1, <1>2, <1>3, <1>4, <1>5, <1>7, <1>8, <1>11, <1>12, <1>13, <1>14,
              <1>15, <1>16, <2>1, EmitsCalled
<1> QED  BY <1>a, <1>17 DEF Emits

\* The innermost call has emit_defers emit the defers of scope i, the next.
LEMMA EmitsDefersOf ==
  ASSUME IInv, status = "gen",
         NEW e, EmitsIn(blocks, e, spent, calls, bb, scopes),
         Top.op # "emit",
         NEW p \in CallType, p.op = Top.op, p.base = Top.base,
         Owned(p) = Owned(Top), Awaits(p) = Awaits(Top), SoundFrame(p, scopes, e),
         NEW i \in DOMAIN scopes, NEW c, c = EmitCall(Len(scopes), i),
         Over(p, c, Len(scopes)),
         Now(calls, scopes) = Owing(scopes, i + 1, 0)
  PROVE  EmitsIn(blocks, e, spent, Append([calls EXCEPT ![Len(calls)] = p], c),
                 bb, scopes)
<1> DEFINE A == Awaited(calls)
<1>1. /\ scopes \in Seq(ScopeType) /\ Len(scopes) \in Nat
      /\ spent \in Nat /\ Extends(e, e) /\ Numbered(scopes, spent)
      /\ Checked(blocks, e, spent, A, bb, Now(calls, scopes))
  BY EmitFacts
<1>2. /\ c \in CallType /\ c.op = "emit" /\ c.base = Len(scopes) /\ Owned(c) = 0
  BY EmitCallTyped DEF IInv
<1>3. c.scope = i /\ c.next = Len(scopes[i].defers)
  BY DEF EmitCall
<1>4. Awaits(c) = {} /\ Goals(c) = {}
  BY <1>2 DEF Awaits, Goals
<1>5. SoundFrame(c, scopes, e)
  BY <1>2, <1>4 DEF SoundFrame
<1>6. Owing(scopes, Cut(c, Len(scopes)), Rest(c)) = Owing(scopes, i + 1, 0)
  <2>1. Cut(c, Len(scopes)) = i /\ Rest(c) = Len(scopes[i].defers)
    BY <1>2, <1>3 DEF Cut, Rest
  <2> QED  BY <1>1, <2>1, OwingNext
<1>7. Awaits(c) \cap A = {} /\ A \union Awaits(c) = A
  BY <1>4
<1>8. /\ \A k \in 1..Len(scopes) : ~(k > Len(scopes) /\ scopes[k].loop # NoLoop)
      /\ Len(scopes) <= Len(scopes) /\ \A k \in 1..Len(scopes) : scopes[k] = scopes[k]
  BY <1>1
<1> HIDE DEF A
<1> QED  BY <1>1, <1>2, <1>5, <1>6, <1>7, <1>8, EmitsCalled DEF A

LEMMA LeaveBlockEmits ==
  ASSUME IInv, NEW e, EmitsIn(blocks, e, spent, calls, bb, scopes), LeaveBlock
  PROVE  Emits'
<1> DEFINE p == [Top EXCEPT !.part = "pop"]
           i == Len(scopes)
           c == EmitCall(Len(scopes), i)
<1>1. status = "gen" /\ Top.part = "stmts"
  BY DEF LeaveBlock, At
<1>2. /\ calls \in Seq(CallType) /\ calls # <<>> /\ Top \in CallType
      /\ Top = calls[Len(calls)] /\ Len(scopes) = Through(Top)
      /\ scopes \in Seq(ScopeType) /\ Len(scopes) \in Nat
      /\ SoundFrame(Top, scopes, e)
  BY <1>1, EmitFacts
<1>3. Top.op = "block" /\ "pop" \in PartsOf[Top.op]
  BY <1>1, <1>2 DEF CallType, PartsOf
<1>4. /\ p \in CallType /\ p.op = Top.op /\ p.part = "pop" /\ p.base = Top.base
      /\ Owned(p) = Owned(Top)
  BY <1>2, <1>3, PartFields
<1>5. Awaits(p) = Awaits(Top)
  BY <1>3, <1>4 DEF Awaits
<1>6. SoundFrame(p, scopes, e)
  BY <1>2, <1>3, <1>5, PartFrame
<1>7. i \in DOMAIN scopes
  <2>1. Top.base \in Nat /\ Owned(Top) = 1
    BY <1>2, <1>3, ThroughTyped DEF Owned
  <2> QED  BY <1>2, <2>1 DEF Through
<1>8. /\ calls' = Append([calls EXCEPT ![Len(calls)] = p], c)
      /\ UNCHANGED <<scopes, blocks, bb, spent>>
  BY <1>2, ResumeIsReplace DEF LeaveBlock
<1>9. Over(p, c, Len(scopes))
  BY <1>3, <1>4 DEF Over, EmitCall
<1>10. Now(calls, scopes) = Owing(scopes, i + 1, 0)
  <2>1. Cut(Top, Len(scopes)) = Len(scopes) + 1 /\ Rest(Top) = 0
    BY <1>1, <1>3 DEF Cut, Rest
  <2> QED  BY <1>2, <2>1 DEF Now
<1> HIDE DEF p, c, i
<1>11. EmitsIn(blocks, e, spent, calls', bb, scopes)
  BY <1>1, <1>3, <1>4, <1>5, <1>6, <1>7, <1>8, <1>9, <1>10, EmitsDefersOf DEF c
<1> QED  BY <1>8, <1>11 DEF Emits

LEMMA ReturnScopeEmits ==
  ASSUME IInv, NEW e, EmitsIn(blocks, e, spent, calls, bb, scopes), ReturnScope
  PROVE  Emits'
<1> DEFINE p == [Top EXCEPT !.scope = @ - 1]
           i == Top.scope
           c == EmitCall(Len(scopes), i)
<1>1. status = "gen" /\ Top.op = "return" /\ Top.scope > 0
  BY DEF ReturnScope, At
<1>2. /\ calls \in Seq(CallType) /\ calls # <<>> /\ Top \in CallType
      /\ Top = calls[Len(calls)] /\ Len(scopes) = Through(Top)
      /\ scopes \in Seq(ScopeType) /\ Len(scopes) \in Nat
      /\ SoundCall(Top, Len(calls), Len(calls), Len(blocks))
  BY <1>1, EmitFacts, TopFacts
<1>3. Top \in [op : {"return"}, part : {"defers"}, base : Nat, scope : Nat]
  BY <1>1, <1>2 DEF CallType
<1>4. /\ p \in CallType /\ p.op = Top.op /\ p.base = Top.base
      /\ Owned(p) = Owned(Top) /\ p.scope = Top.scope - 1
  BY <1>1, <1>2, <1>3 DEF CallType, Owned
<1>5. Awaits(p) = Awaits(Top) /\ Goals(p) = {}
  BY <1>1, <1>4 DEF Awaits, Goals
<1>6. SoundFrame(p, scopes, e)
  BY <1>1, <1>4, <1>5 DEF SoundFrame, Owned
<1>7. i \in DOMAIN scopes
  <2>1. Top.scope <= Top.base /\ Top.scope \in Nat /\ Top.base \in Nat /\ Owned(Top) = 0
    BY <1>1, <1>2, <1>3 DEF SoundCall, Owned
  <2> QED  BY <1>1, <1>2, <2>1 DEF Through
<1>8. /\ calls' = Append([calls EXCEPT ![Len(calls)] = p], c)
      /\ UNCHANGED <<scopes, blocks, bb, spent>>
  BY <1>2, <1>3 DEF ReturnScope, Top
<1>9. Over(p, c, Len(scopes))
  <2>1. c.op = "emit" /\ c.scope = Top.scope
    BY DEF EmitCall
  <2>2. c.scope = p.scope + 1
    BY <1>3, <1>4, <2>1
  <2> QED  BY <1>1, <1>4, <2>1, <2>2 DEF Over
<1>10. Now(calls, scopes) = Owing(scopes, i + 1, 0)
  <2>1. Cut(Top, Len(scopes)) = i + 1 /\ Rest(Top) = 0
    BY <1>1 DEF Cut, Rest
  <2> QED  BY <1>2, <2>1 DEF Now
<1> HIDE DEF p, c, i
<1>11. EmitsIn(blocks, e, spent, calls', bb, scopes)
  BY <1>1, <1>4, <1>5, <1>6, <1>7, <1>8, <1>9, <1>10, EmitsDefersOf DEF c
<1> QED  BY <1>8, <1>11 DEF Emits

LEMMA ReturnEmits ==
  ASSUME IInv, NEW e, EmitsIn(blocks, e, spent, calls, bb, scopes), Return
  PROVE  Emits'
<1> DEFINE c == ReturnCall(Len(scopes))
           A == Awaited(calls)
<1>0. status = "gen" /\ Top.part = "stmts" /\ Meet("return") /\ "return" \in Forms
  BY DEF Return, Stmt, At, Forms
<1>1. /\ calls \in Seq(CallType) /\ calls # <<>> /\ Top \in CallType
      /\ Top = calls[Len(calls)]
      /\ scopes \in Seq(ScopeType) /\ Len(scopes) \in Nat
      /\ spent \in Nat /\ Extends(e, e) /\ SoundFrame(Top, scopes, e)
      /\ Numbered(scopes, spent)
      /\ Checked(blocks, e, spent, A, bb, Now(calls, scopes))
  BY <1>0, EmitFacts
<1>a. PICK n : n = spent'
  OBVIOUS
<1>2. n \in Nat /\ spent <= n
  BY <1>0, <1>1, <1>a, SpentGrows
<1>3. Top.op = "block" /\ Calm(Top)
  BY <1>0, <1>1 DEF CallType, Calm
<1>4. /\ c \in CallType /\ c.base = Len(scopes) /\ c.op = "return" /\ Owned(c) = 0
      /\ c.scope = Len(scopes) /\ Awaits(c) = {} /\ Goals(c) = {}
  BY <1>1 DEF ReturnCall, CallType, Owned, Awaits, Goals
<1>5. /\ calls' = Append([calls EXCEPT ![Len(calls)] = Top], c)
      /\ UNCHANGED <<scopes, blocks, bb>>
  BY <1>1 DEF Return
<1> HIDE DEF c, A
<1>6. SoundFrame(c, scopes, e) /\ Over(Top, c, Len(scopes))
  BY <1>3, <1>4 DEF SoundFrame, Over
<1>7. Owing(scopes, Cut(c, Len(scopes)), Rest(c)) = Now(calls, scopes)
  <2>1. Cut(c, Len(scopes)) = Len(scopes) + 1 /\ Rest(c) = 0
    BY <1>4 DEF Cut, Rest
  <2>2. Cut(Top, Len(scopes)) = Len(scopes) + 1 /\ Rest(Top) = 0
    BY <1>3 DEF Cut, Rest, Calm
  <2> QED  BY <1>1, <2>1, <2>2 DEF Now
<1>8. Checked(blocks, e, n, A \union Awaits(c), bb, Now(calls, scopes))
  <2>1. A \union Awaits(c) = A
    BY <1>4
  <2> QED  BY <1>1, <1>2, <2>1, CheckedGrows
<1>9. Numbered(scopes, n)
  <2>1. \A i \in DOMAIN scopes : \A k \in DOMAIN scopes[i].defers :
          scopes[i].defers[k].id \in 1..spent
    BY <1>1 DEF Numbered
  <2> QED  BY <1>1, <1>2, <2>1 DEF Numbered
<1>10. /\ \A k \in 1..Len(scopes) : ~(k > Len(scopes) /\ scopes[k].loop # NoLoop)
       /\ Len(scopes) <= Len(scopes) /\ \A k \in 1..Len(scopes) : scopes[k] = scopes[k]
       /\ Awaits(c) \cap A = {}
  BY <1>1, <1>4
<1>11. EmitsIn(blocks, e, n, calls', bb, scopes)
  BY <1>0, <1>1, <1>2, <1>3, <1>4, <1>5, <1>6, <1>7, <1>8, <1>9, <1>10, EmitsCalled DEF A
<1> QED  BY <1>a, <1>5, <1>11 DEF Emits

LEMMA PopBlockEmits ==
  ASSUME IInv, NEW e, EmitsIn(blocks, e, spent, calls, bb, scopes), PopBlock
  PROVE  Emits'
<1> DEFINE A == Awaited(calls)
           d == Front(scopes)
<1>1. status = "gen" /\ Top.part = "pop"
  BY DEF PopBlock, At
<1>2. /\ calls \in Seq(CallType) /\ calls # <<>> /\ Top \in CallType
      /\ Top = calls[Len(calls)] /\ Len(scopes) = Through(Top)
      /\ scopes \in Seq(ScopeType) /\ Len(scopes) \in Nat
      /\ spent \in Nat /\ Numbered(scopes, spent)
      /\ Checked(blocks, e, spent, A, bb, Now(calls, scopes))
  BY <1>1, EmitFacts
<1>3. Top.op = "block" /\ Owned(Top) = 1 /\ Awaits(Top) = {} /\ Top.base \in Nat
  BY <1>1, <1>2, ThroughTyped DEF CallType, Owned, Awaits
<1>4. Len(scopes) = Top.base + 1 /\ scopes # <<>>
  BY <1>2, <1>3 DEF Through
<1>5. /\ d \in Seq(ScopeType) /\ Len(d) = Top.base
      /\ \A i \in 1..Top.base : d[i] = scopes[i]
  <2>1. Len(scopes) - 1 = Top.base
    BY <1>3, <1>4
  <2> QED  BY <1>2, <1>4, <2>1, Popped
<1>6. Now(calls, scopes) = Owing(scopes, Len(scopes), 0)
  <2>1. Cut(Top, Len(scopes)) = Len(scopes) /\ Rest(Top) = 0
    BY <1>1, <1>3 DEF Cut, Rest
  <2> QED  BY <1>2, <2>1 DEF Now
<1>7. Flow(Op("close"), Owing(scopes, Len(scopes), 0), Full(d, Len(d)))
  BY <1>2, <1>4, CloseFlows
<1>8. Full(d, Len(d)) \in Debts(spent)
  <2>1. Numbered(d, spent)
    <3>1. \A i \in DOMAIN d : i \in 1..Top.base /\ i \in DOMAIN scopes
      BY <1>2, <1>3, <1>4, <1>5
    <3> QED  BY <1>2, <1>5, <3>1 DEF Numbered
  <2>2. Len(d) \in 0..Len(d)
    BY <1>3, <1>5
  <2> QED  BY <1>2, <1>5, <2>1, <2>2, FullTyped
<1>9. /\ calls' = Below /\ scopes' = d /\ UNCHANGED <<bb, spent>>
      /\ blocks' = Put(blocks, bb, Op("close"))
  BY DEF PopBlock, With
<1> HIDE DEF d
<1>10. Checked(blocks', e, spent, A, bb, Full(d, Len(d)))
  BY <1>2, <1>6, <1>7, <1>8, <1>9, InstrTypes, CheckedFlows
<1>11. A \ Awaits(Top) = A
  BY <1>3
<1>12. EmitsIn(blocks', e, spent, Below, bb, d)
  BY <1>1, <1>3, <1>5, <1>10, <1>11, EmitsReturned
<1> QED  BY <1>9, <1>12 DEF Emits

LEMMA DefersEmittedEmits ==
  ASSUME IInv, NEW e, EmitsIn(blocks, e, spent, calls, bb, scopes), DefersEmitted
  PROVE  Emits'
<1> DEFINE A == Awaited(calls)
           c == Below[Len(Below)]
<1>1. status = "gen" /\ Top.op = "emit" /\ Top.next = 0
  BY DEF DefersEmitted, At
<1>2. /\ calls \in Seq(CallType) /\ calls # <<>> /\ Top \in CallType
      /\ Top = calls[Len(calls)] /\ Len(scopes) = Through(Top)
      /\ scopes \in Seq(ScopeType) /\ Len(scopes) \in Nat
      /\ Checked(blocks, e, spent, A, bb, Now(calls, scopes))
  BY <1>1, EmitFacts
<1>3. Owned(Top) = 0 /\ Awaits(Top) = {} /\ Top.base \in Nat /\ A \ Awaits(Top) = A
  BY <1>1, <1>2, ThroughTyped DEF Owned, Awaits
<1>4. Len(scopes) = Top.base
  BY <1>2, <1>3 DEF Through
<1>5. Over(c, Top, Len(scopes))
  BY <1>1, CallerFacts
<1> HIDE DEF c
<1>6. Owing(scopes, Cut(c, Len(scopes)), Rest(c)) = Owing(scopes, Top.scope, 0)
  <2>1. Cut(c, Len(scopes)) = Top.scope /\ Rest(c) = 0
    BY <1>1, <1>5 DEF Over, Cut, Rest
  <2> QED  BY <2>1
<1>7. Now(Below, scopes) = Now(calls, scopes)
  <2>1. Cut(Top, Len(scopes)) = Top.scope /\ Rest(Top) = 0
    BY <1>1 DEF Cut, Rest
  <2> QED  BY <1>2, <1>6, <2>1 DEF Now, c
<1>8. \A i \in 1..Top.base : scopes[i] = scopes[i]
  OBVIOUS
<1> HIDE DEF A
<1>9. EmitsIn(blocks, e, spent, Below, bb, scopes)
  BY <1>1, <1>2, <1>3, <1>4, <1>7, <1>8, EmitsPopped DEF A
<1> QED  BY <1>9 DEF Emits, DefersEmitted

LEMMA ReturnValueEmits ==
  ASSUME IInv, NEW e, EmitsIn(blocks, e, spent, calls, bb, scopes), ReturnValue
  PROVE  Emits'
<1> DEFINE A == Awaited(calls)
<1>1. status = "gen" /\ Top.op = "return" /\ Top.scope = 0
  BY DEF ReturnValue, At
<1>2. /\ calls \in Seq(CallType) /\ calls # <<>> /\ Top \in CallType
      /\ Top = calls[Len(calls)] /\ Len(scopes) = Through(Top)
      /\ scopes \in Seq(ScopeType) /\ Len(scopes) \in Nat /\ spent \in Nat
      /\ Checked(blocks, e, spent, A, bb, Now(calls, scopes))
  BY <1>1, EmitFacts
<1>3. Owned(Top) = 0 /\ Awaits(Top) = {} /\ Top.base \in Nat /\ A \ Awaits(Top) = A
  BY <1>1, <1>2, ThroughTyped DEF Owned, Awaits
<1>4. Len(scopes) = Top.base
  BY <1>2, <1>3 DEF Through
<1>5. Now(calls, scopes) = Owing(scopes, 1, 0)
  <2>1. Cut(Top, Len(scopes)) = 1 /\ Rest(Top) = 0
    BY <1>1 DEF Cut, Rest
  <2> QED  BY <1>2, <2>1 DEF Now
<1>6. /\ calls' = Below /\ UNCHANGED <<scopes, bb, spent>>
      /\ blocks' = Put(blocks, bb, Op("ret"))
  BY DEF ReturnValue, With
<1>7. Checked(blocks', e, spent, A, bb, Full(scopes, Len(scopes)))
  <2>1. Ends(Op("ret"), Now(calls, scopes), e) /\ Op("ret") \in Instr
    BY <1>2, <1>5, RetEnds, InstrTypes
  <2> QED  BY <1>2, <1>6, <2>1, CheckedEnds
<1>8. \A i \in 1..Top.base : scopes[i] = scopes[i]
  OBVIOUS
<1> HIDE DEF A
<1>9. EmitsIn(blocks', e, spent, Below, bb, scopes)
  BY <1>1, <1>2, <1>3, <1>4, <1>7, <1>8, EmitsReturned DEF A
<1> QED  BY <1>6, <1>9 DEF Emits

LEMMA EmitDeferEmits ==
  ASSUME IInv, NEW e, EmitsIn(blocks, e, spent, calls, bb, scopes), EmitDefer,
         status' = "gen"
  PROVE  Emits'
<1> DEFINE A == Awaited(calls)
           k == Top.scope
           m == Top.next
           d == scopes[k].defers[m]
           p == [Top EXCEPT !.next = @ - 1]
<1>1. status = "gen" /\ Top.op = "emit" /\ m > 0 /\ EmitInRange
  BY DEF EmitDefer, At, IInv, CallsAreSound
<1>2. /\ calls \in Seq(CallType) /\ calls # <<>> /\ Top \in CallType
      /\ Top = calls[Len(calls)]
      /\ scopes \in Seq(ScopeType) /\ Len(scopes) \in Nat /\ spent \in Nat
      /\ Numbered(scopes, spent) /\ SoundFrame(Top, scopes, e)
      /\ Checked(blocks, e, spent, A, bb, Now(calls, scopes))
  BY <1>1, EmitFacts
<1>3. Top \in [op : {"emit"}, part : {"defers"}, base : Nat, scope : Nat,
               next : Nat, moves : Nat]
  BY <1>1, <1>2 DEF CallType
<1>4. /\ p \in CallType /\ p.op = "emit" /\ p.base = Top.base /\ p.scope = k
      /\ p.next = m - 1 /\ Owned(p) = Owned(Top) /\ Awaits(p) = {} /\ Awaits(Top) = {}
      /\ Goals(p) = {}
  BY <1>1, <1>3 DEF CallType, Owned, Awaits, Goals
<1>5. k \in DOMAIN scopes /\ m \in Nat /\ m <= Len(scopes[k].defers)
  BY <1>1, <1>3 DEF EmitInRange
<1>6. m \in 1..Len(scopes[k].defers) /\ k \in 1..Len(scopes) /\ m - 1 \in Nat
  <2>1. k \in 1..Len(scopes)
    BY <1>2, <1>5
  <2>2. Len(scopes[k].defers) \in Nat
    BY <1>2, <2>1, ScopeFacts
  <2> QED  BY <1>1, <1>5, <2>1, <2>2
<1>7. d.id \in 1..spent /\ d.id \in Nat
  <2>1. d.id \in 1..spent
    BY <1>2, <1>6, ScopeFacts
  <2> QED  BY <1>2, <2>1
<1>8. /\ calls' = [calls EXCEPT ![Len(calls)] = p]
      /\ blocks' = Put(blocks, bb, Run(d.id))
      /\ UNCHANGED <<scopes, bb, spent>>
  BY <1>1, <1>2, <1>3 DEF EmitDefer, With, Top
<1> HIDE DEF p, d, k, m
<1>9. Now(calls, scopes) = Owing(scopes, k, m)
  <2>1. Cut(Top, Len(scopes)) = k /\ Rest(Top) = m
    BY <1>1 DEF Cut, Rest, k, m
  <2> QED  BY <1>2, <2>1 DEF Now
<1>10. Owing(scopes, Cut(p, Len(scopes)), Rest(p)) = Owing(scopes, k, m - 1)
  <2>1. Cut(p, Len(scopes)) = k /\ Rest(p) = m - 1
    BY <1>4 DEF Cut, Rest
  <2> QED  BY <2>1
<1>11. Flow(Run(d.id), Owing(scopes, k, m), Owing(scopes, k, m - 1))
  BY <1>2, <1>5, <1>6, RunFlows DEF d
<1>12. Owing(scopes, k, m - 1) \in Debts(spent)
  <2>1. k \in Nat /\ (k \in DOMAIN scopes => m - 1 <= Len(scopes[k].defers))
    <3>1. Len(scopes[k].defers) \in Nat
      BY <1>2, <1>6, ScopeFacts
    <3> QED  BY <1>2, <1>6, <3>1
  <2> QED  BY <1>2, <1>6, <2>1, OwingTyped
<1>13. Checked(blocks', e, spent, A, bb, Owing(scopes, k, m - 1))
  BY <1>2, <1>7, <1>8, <1>9, <1>11, <1>12, InstrTypes, CheckedFlows
<1>14. SoundFrame(p, scopes, e)
  BY <1>1, <1>4 DEF SoundFrame, Owned
<1>15. EmitsIn(blocks', e, spent, calls', bb, scopes)
  <2> DEFINE B == {}
  <2>1. B \subseteq Awaits(Top) /\ Awaits(p) = Awaits(Top) \ B /\ A \ B = A
    BY <1>4
  <2> HIDE DEF A, B
  <2>2. p.scope = Top.scope /\ p.op = Top.op
    BY <1>1, <1>4 DEF k
  <2> QED  BY <1>1, <1>4, <1>8, <1>10, <1>13, <1>14, <2>1, <2>2, EmitsResumed DEF A
<1> QED  BY <1>8, <1>15 DEF Emits

\* A statement that calls nothing.
LEMMA EmitsOn ==
  ASSUME IInv, status = "gen",
         NEW e, EmitsIn(blocks, e, spent, calls, bb, scopes),
         NEW n \in Nat, spent <= n, NEW bs,
         Checked(bs, e, n, Awaited(calls), bb, Now(calls, scopes))
  PROVE  EmitsIn(bs, e, n, calls, bb, scopes)
BY EmitFacts, NumberedGrows DEF EmitsIn

LEMMA LetEmits ==
  ASSUME IInv, NEW e, EmitsIn(blocks, e, spent, calls, bb, scopes), Let
  PROVE  Emits'
<1> DEFINE A == Awaited(calls)
           s == Now(calls, scopes)
           bs == Put(blocks, 1, Op("alloca"))
<1>0. status = "gen" /\ Meet("let") /\ "let" \in Forms
  BY DEF Let, Stmt, At, Forms
<1>a. PICK n : n = spent'
  OBVIOUS
<1>1. spent \in Nat /\ Checked(blocks, e, spent, A, bb, s)
  BY <1>0, EmitFacts
<1>2. n \in Nat /\ spent <= n
  BY <1>0, <1>1, <1>a, SpentGrows
<1>3. blocks' = Put(bs, bb, Op("store")) /\ UNCHANGED <<scopes, calls, bb>>
  BY DEF Let, With, Entry
<1>4. s \in Debts(n)
  <2>1. Top.part = "stmts" /\ Top \in CallType /\ Top = calls[Len(calls)]
        /\ scopes \in Seq(ScopeType) /\ Numbered(scopes, spent) /\ Len(scopes) \in Nat
    BY <1>0, EmitFacts DEF Let, Stmt, At
  <2>2. Calm(Top)
    BY <2>1 DEF Calm, CallType
  <2>3. s = Full(scopes, Len(scopes))
    BY <2>1, <2>2, NowCalm
  <2>4. Numbered(scopes, n) /\ Len(scopes) \in 0..Len(scopes)
    BY <1>1, <1>2, <2>1, NumberedGrows
  <2> QED  BY <1>2, <2>1, <2>3, <2>4, FullTyped
<1> HIDE DEF A, s, bs
<1>5. Checked(bs, e, n, A, bb, s)
  <2>1. Checked(blocks, e, n, A, bb, s)
    BY <1>1, <1>2, CheckedGrows
  <2>2. Op("alloca") \in Instr /\ Op("alloca").op = "alloca"
    BY InstrTypes DEF Op
  <2> QED  BY <1>2, <2>1, <2>2, CheckedAlloca DEF bs
<1>6. Checked(blocks', e, n, A, bb, s)
  <2>1. Op("store") \in Instr /\ Flow(Op("store"), s, s)
    BY InstrTypes DEF Flow, Op
  <2> QED  BY <1>2, <1>3, <1>4, <1>5, <2>1, CheckedFlows
<1>7. EmitsIn(blocks', e, n, calls, bb, scopes)
  BY <1>0, <1>2, <1>6, EmitsOn DEF A, s
<1> QED  BY <1>3, <1>7, <1>a DEF Emits

LEMMA JumpEmits ==
  ASSUME IInv, NEW e, EmitsIn(blocks, e, spent, calls, bb, scopes),
         NEW form \in Forms, Stmt(form), NEW field \in {"post", "exit"}, JumpTo(field),
         status' = "gen"
  PROVE  Emits'
<1> DEFINE A == Awaited(calls)
           s == Now(calls, scopes)
           l == LoopScope
           b == scopes[l].loop[field]
<1>0. status = "gen" /\ Meet(form) /\ Top.part = "stmts"
  BY DEF Stmt, At
<1>a. PICK n : n = spent'
  OBVIOUS
<1>1. /\ spent \in Nat /\ Checked(blocks, e, spent, A, bb, s)
      /\ Top \in CallType /\ Top = calls[Len(calls)]
      /\ scopes \in Seq(ScopeType) /\ Numbered(scopes, spent) /\ Len(scopes) \in Nat
      /\ Loops(scopes, e)
  BY <1>0, EmitFacts
<1>2. n \in Nat /\ spent <= n
  BY <1>0, <1>1, <1>a, SpentGrows
<1>3. /\ l # 0 /\ UNCHANGED <<scopes, calls, bb>>
      /\ blocks' = Put(blocks, bb, Jump(b, Len(scopes) - l))
  BY DEF JumpTo, With
<1>4. s = Full(scopes, Len(scopes))
  <2>1. Calm(Top)
    BY <1>0, <1>1 DEF Calm, CallType
  <2> QED  BY <1>1, <2>1, NowCalm
<1>5. l \in 1..Len(scopes) /\ scopes[l].loop # NoLoop
  BY <1>1, <1>3, LoopScopeTyped DEF IInv
<1>6. b \in DOMAIN e /\ e[b] = Full(scopes, l) /\ b \in Nat
  <2>1. b \in DOMAIN e /\ e[b] = Full(scopes, l)
    BY <1>1, <1>5 DEF Loops
  <2>2. scopes[l] \in ScopeType
    BY <1>1, <1>5
  <2>3. b \in Nat
    BY <2>2 DEF ScopeType
  <2> QED  BY <2>1, <2>3
<1> HIDE DEF A, s, l, b
<1>7. Jump(b, Len(scopes) - l) \in Instr
  <2>1. Len(scopes) - l \in Nat
    BY <1>1, <1>5
  <2> QED  BY <1>6, <2>1, InstrTypes
<1>8. Ends(Jump(b, Len(scopes) - l), s, e)
  <2>1. l \in 0..Len(scopes)
    BY <1>1, <1>5
  <2> QED  BY <1>1, <1>4, <1>6, <2>1, JumpEnds
<1>9. Checked(blocks', e, n, A, bb, s)
  <2>1. Checked(blocks, e, n, A, bb, s)
    BY <1>1, <1>2, CheckedGrows
  <2> QED  BY <1>2, <1>3, <1>7, <1>8, <2>1, CheckedEnds
<1>10. EmitsIn(blocks', e, n, calls, bb, scopes)
  BY <1>0, <1>2, <1>9, EmitsOn DEF A, s
<1> QED  BY <1>3, <1>10, <1>a DEF Emits

LEMMA DeferEmits ==
  ASSUME IInv, NEW e, EmitsIn(blocks, e, spent, calls, bb, scopes),
         NEW block \in BOOLEAN, Defer(block)
  PROVE  Emits'
<1> DEFINE A == Awaited(calls)
           l == Len(scopes)
           form == IF block THEN "defer block" ELSE "defer"
<1>0. status = "gen" /\ Meet(form) /\ Top.part = "stmts" /\ form \in Forms
  BY DEF Defer, Stmt, At, Forms
<1> HIDE DEF form
<1>a. PICK n, sd : n = spent' /\ sd = scopes'
  OBVIOUS
<1>1. /\ calls \in Seq(CallType) /\ calls # <<>> /\ Len(calls) \in Nat \ {0}
      /\ spent \in Nat /\ Checked(blocks, e, spent, A, bb, Now(calls, scopes))
      /\ Top \in CallType /\ Top = calls[Len(calls)] /\ l = Through(Top)
      /\ scopes \in Seq(ScopeType) /\ Numbered(scopes, spent) /\ l \in Nat
      /\ Loops(scopes, e) /\ Frames(calls, scopes, e) /\ Extends(e, e)
      /\ SoundFrame(Top, scopes, e)
  BY <1>0, EmitFacts
<1>2. n \in Nat /\ spent < n
  BY <1>0, <1>1, <1>a, SpentGrows
<1>3. /\ Top.op = "block" /\ Owned(Top) = 1 /\ Calm(Top) /\ Top.base \in Nat
      /\ Goals(Top) = {} /\ Awaits(Top) = {}
  BY <1>0, <1>1, ThroughTyped DEF Calm, CallType, Owned, Goals, Awaits
<1>4. l = Top.base + 1 /\ l \in Nat \ {0}
  BY <1>1, <1>3 DEF Through
<1> DEFINE d == [id |-> n, block |-> block]
<1>5. /\ sd = [scopes EXCEPT ![l].defers = Append(@, d)]
      /\ blocks' = Put(blocks, bb, Reg(d.id)) /\ UNCHANGED <<calls, bb>>
  BY <1>a DEF Defer, With
<1>6. d \in [id : Nat, block : BOOLEAN] /\ d.id = n
  BY <1>2
<1> HIDE DEF d, l
<1>7. /\ scopes[l].defers \in Seq([id : Nat, block : BOOLEAN])
      /\ scopes[l] \in ScopeType
  <2>1. l \in 1..Len(scopes)
    BY <1>4 DEF l
  <2>2. scopes[l] \in ScopeType
    BY <1>1, <2>1, Elements
  <2> QED  BY <2>2 DEF ScopeType
<1>8. /\ sd \in Seq(ScopeType) /\ Len(sd) = l
      /\ \A i \in 1..(l - 1) : sd[i] = scopes[i]
      /\ sd[l].defers = Append(scopes[l].defers, d)
      /\ sd[l].loop = scopes[l].loop
  <2> DEFINE c == [scopes[l] EXCEPT !.defers = Append(@, d)]
  <2>1. Append(scopes[l].defers, d) \in Seq([id : Nat, block : BOOLEAN])
    BY <1>6, <1>7
  <2>2. c \in ScopeType /\ c.defers = Append(scopes[l].defers, d) /\ c.loop = scopes[l].loop
    BY <1>7, <2>1 DEF ScopeType
  <2>3. sd = [scopes EXCEPT ![l] = c]
    BY <1>5
  <2> HIDE DEF c
  <2>4. sd \in Seq(ScopeType) /\ Len(sd) = l /\ sd[l] = c
        /\ \A i \in 1..(l - 1) : sd[i] = scopes[i]
    BY <1>1, <1>4, <2>2, <2>3 DEF l
  <2> QED  BY <2>2, <2>4
<1>9. Top.base = l - 1
  BY <1>3, <1>4
<1>10. scopes[l].loop = NoLoop
  BY <1>1, <1>3 DEF SoundFrame
<1>11. SoundFrame(Top, sd, e)
  BY <1>1, <1>3, <1>8, <1>10 DEF SoundFrame
<1>12. Frames(calls, sd, e)
  <2>1. \A i \in 1..Top.base : sd[i] = scopes[i]
    BY <1>8, <1>9
  <2>2. Frames([calls EXCEPT ![Len(calls)] = Top], sd, e)
    BY <1>1, <1>3, <1>11, <2>1, FramesResumed
  <2>3. calls = [calls EXCEPT ![Len(calls)] = Top]
    BY <1>1
  <2> QED  BY <2>2, <2>3
<1>13. Loops(sd, e)
  <2>1. Len(sd) \in Nat /\ Len(scopes) \in Nat /\ Top.base <= Len(scopes)
        /\ Top.base <= Len(sd)
    BY <1>3, <1>4, <1>8 DEF l
  <2>2. \A i \in 1..Top.base : sd[i] = scopes[i]
    BY <1>8, <1>9
  <2>3. \A i \in 1..Len(sd) : ~(i > Top.base /\ sd[i].loop # NoLoop)
    <3>1. \A i \in 1..Len(sd) : i > Top.base => i = l
      BY <1>3, <1>4, <1>8
    <3> QED  BY <1>8, <1>10, <3>1
  <2> QED  BY <1>1, <1>3, <2>1, <2>2, <2>3, LoopsAgree
<1>14. Numbered(scopes, n)
  BY <1>1, <1>2, NumberedGrows
<1>15. Numbered(sd, n)
  <2> SUFFICES ASSUME NEW i \in DOMAIN sd, NEW k \in DOMAIN sd[i].defers
               PROVE  sd[i].defers[k].id \in 1..n
    BY DEF Numbered
  <2>1. i \in 1..l /\ l \in 1..l
    BY <1>4, <1>8
  <2>2. CASE i = l
    <3> DEFINE ds == scopes[l].defers
               t == Len(ds)
    <3>1. /\ t \in Nat /\ Len(Append(ds, d)) = t + 1 /\ Append(ds, d)[t + 1] = d
          /\ \A j \in 1..t : Append(ds, d)[j] = ds[j] /\ ds[j].id \in 1..n
      <4>1. t \in Nat /\ \A j \in 1..t : ds[j].id \in 1..n
        BY <1>1, <1>2, <1>14, <2>1, ScopeFacts DEF l
      <4> QED  BY <1>6, <1>7, <4>1, Pushed
    <3> HIDE DEF t
    <3>2. k \in 1..(t + 1)
      <4>1. sd[i].defers = Append(ds, d)
        BY <1>8, <2>2
      <4> QED  BY <3>1, <4>1
    <3>3. n \in 1..n
      BY <1>1, <1>2
    <3>4. sd[i].defers[k] = Append(ds, d)[k]
      BY <1>8, <2>2
    <3>5. CASE k = t + 1
      BY <1>6, <3>1, <3>3, <3>4, <3>5
    <3>6. CASE k # t + 1
      <4>1. k \in 1..t
        BY <3>1, <3>2, <3>6
      <4> QED  BY <3>1, <3>4, <4>1
    <3> QED  BY <3>5, <3>6
  <2>3. CASE i # l
    <3>1. i \in 1..(l - 1) /\ i \in DOMAIN scopes /\ sd[i] = scopes[i]
      <4>1. i \in 1..(l - 1)
        BY <1>4, <2>1, <2>3
      <4> QED  BY <1>1, <1>4, <1>8, <4>1 DEF l
    <3> QED  BY <1>14, <3>1 DEF Numbered
  <2> QED  BY <2>2, <2>3
<1>16. Now(calls, scopes) = Full(scopes, l) /\ Now(calls, sd) = Full(sd, l)
  BY <1>1, <1>3, <1>8, NowCalm DEF l
<1>17. Flow(Reg(d.id), Full(scopes, l), Full(sd, l))
  BY <1>1, <1>2, <1>4, <1>8, <1>14, RegFlows DEF l
<1>18. Full(sd, l) \in Debts(n)
  <2>1. l \in 0..Len(sd)
    BY <1>4, <1>8
  <2> QED  BY <1>2, <1>8, <1>15, <2>1, FullTyped
<1>19. Checked(blocks', e, n, A, bb, Now(calls, sd))
  <2>1. Checked(blocks, e, n, A, bb, Full(scopes, l))
    BY <1>1, <1>2, <1>16, CheckedGrows
  <2>2. Reg(d.id) \in Instr
    BY <1>2, <1>6, InstrTypes
  <2> QED  BY <1>2, <1>5, <1>16, <1>17, <1>18, <2>1, <2>2, CheckedFlows
<1>20. EmitsIn(blocks', e, n, calls, bb, sd)
  BY <1>12, <1>13, <1>15, <1>19 DEF EmitsIn
<1> QED  BY <1>5, <1>20, <1>a DEF Emits

\* A block with a terminator has been left.
LEMMA TerminatorCloses ==
  ASSUME IInv, NEW e, NEW A, NEW s, Checked(blocks, e, spent, A, bb, s),
         HasTerminator(bb)
  PROVE  Closed(blocks[bb], spent, e[bb], e)
<1>1. blocks[bb] \in Seq(Instr) /\ spent \in Nat
  BY DEF IInv, TypeOK
<1>2. ~Live(blocks[bb], spent, e[bb], s)
  BY <1>1, LiveHasNone DEF HasTerminator
<1> QED  BY <1>2 DEF Checked

LEMMA ArmChecked ==
  ASSUME IInv, status = "gen",
         NEW e, EmitsIn(blocks, e, spent, calls, bb, scopes),
         Top.op = "if", Top.part \in {"endthen", "endelse"}
  PROVE  /\ Checked(ArmJoined, e, spent, Awaited(calls), bb, Now(calls, scopes))
         /\ Closed(ArmJoined[bb], spent, e[bb], e)
<1> DEFINE A == Awaited(calls)
           s == Now(calls, scopes)
           j == Top.join
<1>1. /\ spent \in Nat /\ Checked(blocks, e, spent, A, bb, s)
      /\ Top \in CallType /\ Top = calls[Len(calls)] /\ SoundFrame(Top, scopes, e)
      /\ scopes \in Seq(ScopeType) /\ Len(scopes) = Through(Top) /\ Len(scopes) \in Nat
      /\ Numbered(scopes, spent)
  BY EmitFacts
<1>2. s = Full(scopes, Len(scopes))
  BY <1>1, NowCalm DEF Calm
<1>3. j \in DOMAIN e /\ e[j] = s /\ j \in Nat
  <2>1. j \in Goals(Top)
    BY DEF Goals, Awaits
  <2>2. j \in DOMAIN e /\ e[j] = s
    BY <1>1, <1>2, <2>1 DEF SoundFrame
  <2>3. j \in Nat
    BY <1>1 DEF CallType, BlockIds
  <2> QED  BY <2>2, <2>3
<1>4. s \in Debts(spent)
  <2>1. Len(scopes) \in 0..Len(scopes)
    BY <1>1
  <2> QED  BY <1>1, <1>2, <2>1, FullTyped
<1> HIDE DEF A, s, j
<1>5. CASE HasTerminator(bb)
  BY <1>1, <1>5, TerminatorCloses DEF ArmJoined, A, s
<1>6. CASE ~HasTerminator(bb)
  <2>1. ArmJoined = Put(blocks, bb, Br(j))
    BY <1>6 DEF ArmJoined, With, j
  <2>2. Br(j) \in Instr /\ Ends(Br(j), s, e)
    BY <1>3, <1>4, BrEnds, InstrTypes
  <2>3. Checked(ArmJoined, e, spent, A, bb, s) /\ Closed(ArmJoined[bb], spent, e[bb], e)
    BY <1>1, <2>1, <2>2, CheckedEnds
  <2> QED  BY <2>3 DEF A, s
<1> QED  BY <1>5, <1>6

\* The last scope, which has no defers, closes in the block begun last.
LEMMA ScopeCloses ==
  ASSUME NEW sc \in Seq(ScopeType), sc # <<>>, sc[Len(sc)].defers = <<>>,
         NEW n \in Nat, Numbered(sc, n),
         NEW bs, NEW e, NEW A, NEW cur, Checked(bs, e, n, A, cur, Full(sc, Len(sc)))
  PROVE  Checked(Put(bs, cur, Op("close")), e, n, A, cur,
                 Full(Front(sc), Len(Front(sc))))
<1> DEFINE d == Front(sc)
           l == Len(sc) - 1
<1>1. Full(sc, Len(sc)) = Owing(sc, Len(sc), 0)
  BY OwingEmpty
<1>2. Flow(Op("close"), Full(sc, Len(sc)), Full(d, Len(d)))
  BY <1>1, CloseFlows
<1>3. /\ d \in Seq(ScopeType) /\ Len(d) = l /\ l \in Nat
      /\ \A i \in 1..l : d[i] = sc[i]
  BY Popped
<1>4. Numbered(d, n)
  <2>1. \A i \in DOMAIN d : i \in 1..l /\ i \in DOMAIN sc
    BY <1>3
  <2> QED  BY <1>3, <2>1 DEF Numbered
<1>5. Full(d, Len(d)) \in Debts(n)
  <2>1. Len(d) \in 0..Len(d)
    BY <1>3
  <2> QED  BY <1>3, <1>4, <2>1, FullTyped
<1> QED  BY <1>2, <1>5, InstrTypes, CheckedFlows

LEMMA JoinEmits ==
  ASSUME IInv, status = "gen",
         NEW e, EmitsIn(blocks, e, spent, calls, bb, scopes),
         Top.op = "if", Top.part \in {"endthen", "endelse"},
         Awaits(Top) = {Top.join}, JoinArms, spent' = spent
  PROVE  Emits'
<1> DEFINE A == Awaited(calls)
           j == Top.join
           B == A \ {j}
           bs == ArmJoined
           d == Front(scopes)
<1>1. /\ spent \in Nat /\ calls \in Seq(CallType) /\ calls # <<>>
      /\ Len(calls) \in Nat \ {0}
      /\ Top \in CallType /\ Top = calls[Len(calls)] /\ SoundFrame(Top, scopes, e)
      /\ scopes \in Seq(ScopeType) /\ Len(scopes) = Through(Top) /\ Len(scopes) \in Nat
      /\ Numbered(scopes, spent)
  BY EmitFacts
<1>2. /\ Checked(bs, e, spent, A, bb, Now(calls, scopes))
      /\ Closed(bs[bb], spent, e[bb], e)
  BY ArmChecked
<1>3. j \in A
  <2>1. Len(calls) \in 1..Len(calls) /\ j \in Awaits(calls[Len(calls)])
    BY <1>1
  <2> QED  BY <2>1 DEF Awaited
<1>4. e[j] = Full(scopes, Len(scopes))
  BY <1>1 DEF SoundFrame, Goals
<1>5. Checked(bs, e, spent, B, j, Full(scopes, Len(scopes)))
  <2> HIDE DEF A, j, bs
  <2>1. Checked(bs, e, spent, A \ {j}, j, e[j])
    BY <1>1, <1>2, <1>3, CheckedMoves
  <2> QED  BY <1>4, <2>1
<1>6. Top.base \in Nat /\ B = A \ Awaits(Top) /\ Top.init \in BOOLEAN
  BY <1>1 DEF CallType
<1> HIDE DEF bs, j, A
<1>7. CASE Top.init
  <2>1. Owned(Top) = 1
    BY <1>7 DEF Owned
  <2>2. Len(scopes) = Top.base + 1 /\ scopes # <<>> /\ Len(scopes) - 1 = Top.base
    BY <1>1, <1>6, <2>1 DEF Through
  <2>3. scopes[Len(scopes)].defers = <<>>
    BY <1>1, <2>1 DEF SoundFrame
  <2>4. /\ d \in Seq(ScopeType) /\ Len(d) = Top.base
        /\ \A i \in 1..Top.base : d[i] = scopes[i]
    BY <1>1, <2>2, Popped
  <2>5. /\ calls' = Below /\ bb' = j /\ scopes' = d
        /\ blocks' = Put(bs, j, Op("close"))
    BY <1>7 DEF JoinArms, bs, j
  <2>6. Checked(blocks', e, spent, B, j, Full(d, Len(d)))
    BY <1>1, <1>5, <2>2, <2>3, <2>5, ScopeCloses
  <2> HIDE DEF d
  <2>7. EmitsIn(blocks', e, spent, Below, j, d)
    BY <1>6, <2>4, <2>6, EmitsReturned DEF A
  <2> QED  BY <2>5, <2>7 DEF Emits
<1>8. CASE ~Top.init
  <2>1. Owned(Top) = 0
    BY <1>8 DEF Owned
  <2>2. Len(scopes) = Top.base
    BY <1>1, <1>6, <2>1 DEF Through
  <2>3. /\ calls' = Below /\ bb' = j /\ scopes' = scopes /\ blocks' = bs
    BY <1>8 DEF JoinArms, bs, j
  <2>4. \A i \in 1..Top.base : scopes[i] = scopes[i]
    OBVIOUS
  <2>5. EmitsIn(bs, e, spent, Below, j, scopes)
    BY <1>1, <1>5, <1>6, <2>2, <2>4, EmitsReturned DEF A
  <2> QED  BY <2>3, <2>5 DEF Emits
<1> QED  BY <1>7, <1>8

LEMMA EndElseEmits ==
  ASSUME IInv, NEW e, EmitsIn(blocks, e, spent, calls, bb, scopes), EndElse
  PROVE  Emits'
<1>1. status = "gen" /\ Top.part = "endelse" /\ JoinArms /\ spent' = spent
  BY DEF EndElse, At
<1>2. Top.op = "if"
  BY <1>1, TopFacts DEF CallType
<1>3. Awaits(Top) = {Top.join}
  BY <1>1, <1>2 DEF Awaits
<1> QED  BY <1>1, <1>2, <1>3, JoinEmits

LEMMA EndThenEmits ==
  ASSUME IInv, NEW e, EmitsIn(blocks, e, spent, calls, bb, scopes), EndThen
  PROVE  Emits'
<1>1. status = "gen" /\ Top.part = "endthen" /\ spent' = spent
  BY DEF EndThen, At
<1>2. Top.op = "if"
  BY <1>1, TopFacts DEF CallType
<1>3. Awaits(Top) = {Top.join, Top.else}
  BY <1>1, <1>2 DEF Awaits
<1>4. CASE Top.else = Top.join
  <2>1. Awaits(Top) = {Top.join} /\ JoinArms
    BY <1>3, <1>4 DEF EndThen
  <2> QED  BY <1>1, <1>2, <2>1, JoinEmits
<1>5. CASE Top.else # Top.join
  <2> DEFINE A == Awaited(calls)
             b == Top.else
             B == {b}
             bs == ArmJoined
             p == [Top EXCEPT !.part = "else"]
  <2>1. /\ spent \in Nat /\ calls \in Seq(CallType) /\ calls # <<>>
        /\ Len(calls) \in Nat \ {0}
        /\ Top \in CallType /\ Top = calls[Len(calls)] /\ SoundFrame(Top, scopes, e)
        /\ scopes \in Seq(ScopeType) /\ Len(scopes) = Through(Top)
    BY <1>1, EmitFacts
  <2>2. /\ Checked(bs, e, spent, A, bb, Now(calls, scopes))
        /\ Closed(bs[bb], spent, e[bb], e)
    BY <1>1, <1>2, ArmChecked
  <2>3. b \in A
    <3>1. Len(calls) \in 1..Len(calls) /\ b \in Awaits(calls[Len(calls)])
      BY <1>3, <2>1
    <3> QED  BY <3>1 DEF Awaited
  <2>4. e[b] = Full(scopes, Len(scopes))
    BY <1>3, <2>1 DEF SoundFrame, Goals
  <2>5. Checked(bs, e, spent, A \ B, b, Full(scopes, Len(scopes)))
    <3> HIDE DEF A, b, bs
    <3>1. Checked(bs, e, spent, A \ {b}, b, e[b])
      BY <2>1, <2>2, <2>3, CheckedMoves
    <3> QED  BY <2>4, <3>1
  <2>6. "else" \in PartsOf[Top.op]
    BY <1>2 DEF PartsOf
  <2>7. /\ p \in CallType /\ p.op = Top.op /\ p.part = "else" /\ p.base = Top.base
        /\ Owned(p) = Owned(Top) /\ p.join = Top.join /\ p.else = Top.else
    <3> DEFINE x == "else"
    <3>1. /\ p = [Top EXCEPT !.part = x] /\ Top.op \in {"fn", "block", "if", "for"}
          /\ x \in PartsOf[Top.op]
      BY <1>2, <2>6
    <3>2. p.join = Top.join /\ p.else = Top.else /\ p.part = "else"
      BY <1>2, <2>1 DEF CallType
    <3> HIDE DEF p, x
    <3>3. p \in CallType /\ p.op = Top.op /\ p.base = Top.base /\ Owned(p) = Owned(Top)
      BY <2>1, <3>1, PartFields
    <3> QED  BY <3>2, <3>3
  <2>8. Awaits(p) = {Top.join} /\ Awaits(p) = Awaits(Top) \ B /\ B \subseteq Awaits(Top)
    <3>1. Awaits(p) = {Top.join}
      BY <1>2, <2>7 DEF Awaits
    <3> QED  BY <1>3, <1>5, <3>1
  <2>9. SoundFrame(p, scopes, e)
    <3>1. Awaits(p) \subseteq Awaits(Top)
      BY <2>8
    <3> QED  BY <1>2, <2>1, <2>6, <3>1, PartFrame
  <2>10. /\ calls' = [calls EXCEPT ![Len(calls)] = p] /\ bb' = b /\ blocks' = bs
         /\ scopes' = scopes
    BY <1>5, <2>1, ResumeIsReplace DEF EndThen
  <2> HIDE DEF p, bs, b, B, A
  <2>11. Owing(scopes, Cut(p, Len(scopes)), Rest(p)) = Full(scopes, Len(scopes))
    <3>1. Calm(p)
      BY <1>2, <2>7 DEF Calm
    <3> QED  BY <2>1, <3>1, CalmOwes
  <2>12. EmitsIn(bs, e, spent, calls', b, scopes)
    BY <1>1, <1>2, <2>5, <2>7, <2>8, <2>9, <2>10, <2>11, EmitsResumed DEF A
  <2> QED  BY <1>1, <2>10, <2>12 DEF Emits
<1> QED  BY <1>4, <1>5

LEMMA EndBodyEmits ==
  ASSUME IInv, NEW e, EmitsIn(blocks, e, spent, calls, bb, scopes), EndBody
  PROVE  Emits'
<1> DEFINE A == Awaited(calls)
           s == Full(scopes, Len(scopes))
           q == Top.post
           b == Top.else
           B == {q, b}
           x == IF Top.hasElse THEN "forelse" ELSE "exit"
           p == [Top EXCEPT !.part = x]
           bs == Put(blocks, bb, Br(q))
           cs == Put(bs, q, Br(Top.loop))
<1>1. status = "gen" /\ Top.part = "post" /\ spent' = spent
  BY DEF EndBody, At
<1>2. /\ spent \in Nat /\ calls \in Seq(CallType) /\ calls # <<>>
      /\ Len(calls) \in Nat \ {0}
      /\ Top \in CallType /\ Top = calls[Len(calls)] /\ SoundFrame(Top, scopes, e)
      /\ scopes \in Seq(ScopeType) /\ Len(scopes) = Through(Top) /\ Len(scopes) \in Nat
      /\ Numbered(scopes, spent)
      /\ Checked(blocks, e, spent, A, bb, Now(calls, scopes))
  BY <1>1, EmitFacts
<1>3. Top.op = "for" /\ Calm(Top)
  BY <1>1, <1>2 DEF CallType, Calm
<1>4. /\ Awaits(Top) = {q, b, Top.exit}
      /\ q # b /\ Top.exit # q /\ Top.exit # b
      /\ q \in DOMAIN e /\ e[q] = s /\ e[b] = s
      /\ Top.loop \in DOMAIN e /\ e[Top.loop] = s
      /\ q \in Nat /\ Top.loop \in Nat
  <2>1. Awaits(Top) = {q, b, Top.exit}
    BY <1>1, <1>3 DEF Awaits
  <2>2. q \in Goals(Top) /\ b \in Goals(Top) /\ Top.loop \in Goals(Top)
    BY <1>3, <2>1 DEF Goals
  <2>3. /\ q # b /\ Top.exit # q /\ Top.exit # b
        /\ q \in DOMAIN e /\ e[q] = s /\ e[b] = s
        /\ Top.loop \in DOMAIN e /\ e[Top.loop] = s
    BY <1>2, <1>3, <2>2 DEF SoundFrame
  <2>4. q \in Nat /\ Top.loop \in Nat
    BY <1>2, <1>3 DEF CallType, BlockIds
  <2> QED  BY <2>1, <2>3, <2>4
<1>5. q \in A /\ b \in A
  <2>1. Len(calls) \in 1..Len(calls) /\ q \in Awaits(calls[Len(calls)])
        /\ b \in Awaits(calls[Len(calls)])
    BY <1>2, <1>4
  <2> QED  BY <2>1 DEF Awaited
<1>6. Now(calls, scopes) = s
  BY <1>2, <1>3, NowCalm
<1>7. s \in Debts(spent)
  <2>1. Len(scopes) \in 0..Len(scopes)
    BY <1>2
  <2> QED  BY <1>2, <2>1, FullTyped
<1>8. x \in PartsOf[Top.op] /\ x \notin {"loop", "post", "pop"}
  BY <1>3 DEF PartsOf
<1>9. /\ calls' = [calls EXCEPT ![Len(calls)] = p] /\ bb' = b /\ blocks' = cs
      /\ scopes' = scopes
  BY <1>2, ResumeIsReplace DEF EndBody, With
<1>10. /\ p \in CallType /\ p.op = Top.op /\ p.part = x /\ p.base = Top.base
       /\ Owned(p) = Owned(Top) /\ p.exit = Top.exit
  <2>1. p.exit = Top.exit /\ p.part = x
    BY <1>2, <1>3 DEF CallType
  <2>2. p = [Top EXCEPT !.part = x] /\ Top.op \in {"fn", "block", "if", "for"}
    BY <1>3
  <2> HIDE DEF p, x
  <2>3. p \in CallType /\ p.op = Top.op /\ p.base = Top.base /\ Owned(p) = Owned(Top)
    BY <1>2, <1>8, <2>2, PartFields
  <2> QED  BY <2>1, <2>3
<1>11. Awaits(p) = {Top.exit} /\ Calm(p)
  <2> HIDE DEF p, x
  <2> QED  BY <1>3, <1>8, <1>10 DEF Awaits, Calm
<1>12. SoundFrame(p, scopes, e)
  <2>1. Awaits(p) \subseteq Awaits(Top)
    BY <1>4, <1>11
  <2> HIDE DEF x
  <2> QED  BY <1>2, <1>3, <1>8, <2>1, PartFrame
<1> HIDE DEF A, s, q, b, x, p, bs, cs
<1>13. Checked(bs, e, spent, A, bb, s) /\ Closed(bs[bb], spent, e[bb], e)
  <2>1. Br(q) \in Instr /\ Ends(Br(q), s, e)
    BY <1>4, <1>7, BrEnds, InstrTypes
  <2> QED  BY <1>2, <1>6, <2>1, CheckedEnds DEF bs
<1>14. Checked(cs, e, spent, A \ {q}, bb, s) /\ Closed(cs[bb], spent, e[bb], e)
  <2>1. Br(Top.loop) \in Instr /\ Ends(Br(Top.loop), e[q], e)
    BY <1>4, <1>7, BrEnds, InstrTypes
  <2>2. Checked(cs, e, spent, A \ {q}, bb, s) /\ cs[bb] = bs[bb]
    BY <1>2, <1>5, <1>13, <2>1, CheckedFilled DEF cs
  <2> QED  BY <1>13, <2>2
<1>15. Checked(cs, e, spent, A \ B, b, s)
  <2>1. b \in A \ {q}
    BY <1>4, <1>5
  <2>2. Checked(cs, e, spent, (A \ {q}) \ {b}, b, e[b])
    BY <1>2, <1>14, <2>1, CheckedMoves
  <2>3. (A \ {q}) \ {b} = A \ B
    OBVIOUS
  <2> QED  BY <1>4, <2>2, <2>3
<1>16. B \subseteq Awaits(Top) /\ Awaits(p) = Awaits(Top) \ B
  BY <1>4, <1>11
<1>17. Owing(scopes, Cut(p, Len(scopes)), Rest(p)) = s
  BY <1>2, <1>11, CalmOwes DEF s
<1> HIDE DEF B
<1>18. EmitsIn(cs, e, spent, calls', b, scopes)
  BY <1>1, <1>3, <1>9, <1>10, <1>12, <1>15, <1>16, <1>17, EmitsResumed DEF A
<1> QED  BY <1>1, <1>9, <1>18 DEF Emits

LEMMA EndForEmits ==
  ASSUME IInv, NEW e, EmitsIn(blocks, e, spent, calls, bb, scopes), EndFor
  PROVE  Emits'
<1> DEFINE A == Awaited(calls)
           s == Full(scopes, Len(scopes))
           b == Top.exit
           bs == Put(blocks, bb, Br(b))
           d == Front(scopes)
<1>1. status = "gen" /\ Top.part = "exit" /\ spent' = spent
  BY DEF EndFor, At
<1>2. /\ spent \in Nat /\ calls \in Seq(CallType) /\ calls # <<>>
      /\ Len(calls) \in Nat \ {0}
      /\ Top \in CallType /\ Top = calls[Len(calls)] /\ SoundFrame(Top, scopes, e)
      /\ scopes \in Seq(ScopeType) /\ Len(scopes) = Through(Top) /\ Len(scopes) \in Nat
      /\ Numbered(scopes, spent)
      /\ Checked(blocks, e, spent, A, bb, Now(calls, scopes))
  BY <1>1, EmitFacts
<1>3. Top.op = "for" /\ Calm(Top) /\ Owned(Top) = 1 /\ Top.base \in Nat
  BY <1>1, <1>2, ThroughTyped DEF CallType, Calm, Owned
<1>4. /\ Awaits(Top) = {b} /\ b \in DOMAIN e /\ e[b] = s /\ b \in Nat
      /\ scopes[Len(scopes)].defers = <<>>
  <2>1. Awaits(Top) = {b}
    BY <1>1, <1>3 DEF Awaits
  <2>2. b \in Goals(Top)
    BY <2>1 DEF Goals
  <2>3. b \in DOMAIN e /\ e[b] = s /\ scopes[Len(scopes)].defers = <<>>
    BY <1>2, <1>3, <2>2 DEF SoundFrame
  <2>4. b \in Nat
    BY <1>2, <1>3 DEF CallType, BlockIds
  <2> QED  BY <2>1, <2>3, <2>4
<1>5. b \in A
  <2>1. Len(calls) \in 1..Len(calls) /\ b \in Awaits(calls[Len(calls)])
    BY <1>2, <1>4
  <2> QED  BY <2>1 DEF Awaited
<1>6. Now(calls, scopes) = s
  BY <1>2, <1>3, NowCalm
<1>7. s \in Debts(spent)
  <2>1. Len(scopes) \in 0..Len(scopes)
    BY <1>2
  <2> QED  BY <1>2, <2>1, FullTyped
<1>8. Len(scopes) = Top.base + 1 /\ scopes # <<>> /\ Len(scopes) - 1 = Top.base
  BY <1>2, <1>3 DEF Through
<1>9. /\ d \in Seq(ScopeType) /\ Len(d) = Top.base
      /\ \A i \in 1..Top.base : d[i] = scopes[i]
  BY <1>2, <1>8, Popped
<1>10. /\ calls' = Below /\ bb' = b /\ scopes' = d
       /\ blocks' = Put(bs, b, Op("close"))
  BY DEF EndFor, With
<1> HIDE DEF A, s, b, bs, d
<1>11. Checked(bs, e, spent, A, bb, s) /\ Closed(bs[bb], spent, e[bb], e)
  <2>1. Br(b) \in Instr /\ Ends(Br(b), s, e)
    BY <1>4, <1>7, BrEnds, InstrTypes
  <2> QED  BY <1>2, <1>6, <2>1, CheckedEnds DEF bs
<1>12. Checked(bs, e, spent, A \ {b}, b, s)
  BY <1>2, <1>4, <1>5, <1>11, CheckedMoves
<1>13. Checked(blocks', e, spent, A \ {b}, b, Full(d, Len(d)))
  BY <1>2, <1>4, <1>8, <1>10, <1>12, ScopeCloses DEF s, d
<1>14. EmitsIn(blocks', e, spent, Below, b, d)
  <2>1. A \ {b} = A \ Awaits(Top)
    BY <1>4
  <2> QED  BY <1>1, <1>3, <1>9, <1>13, <2>1, EmitsReturned DEF A
<1> QED  BY <1>1, <1>10, <1>14 DEF Emits

\* New blocks do not mind an instruction in an old one.
LEMMA PutGrown ==
  ASSUME NEW bs \in Seq(Seq(Instr)), NEW b \in DOMAIN bs, NEW i \in Instr,
         NEW k \in Nat
  PROVE  Grown(Put(bs, b, i), k) = Put(Grown(bs, k), b, i)
<1> DEFINE I == Seq(Instr)
           l == Len(bs)
           y == [j \in 1..k |-> <<>>]
<1>0. PICK cs, gs : cs = Put(bs, b, i) /\ gs = Grown(bs, k)
  OBVIOUS
<1>a. PICK hs, ks : hs = Put(gs, b, i) /\ ks = Grown(cs, k)
  OBVIOUS
<1>1. bs \in Seq(I) /\ l \in Nat /\ b \in 1..l /\ DOMAIN bs = 1..l
  OBVIOUS
<1>2. /\ cs \in Seq(Seq(Instr)) /\ Len(cs) = l /\ cs[b] = Append(bs[b], i)
      /\ \A c \in DOMAIN bs : c # b => cs[c] = bs[c]
  BY <1>0, PutFacts
<1>3. y \in Seq(I) /\ Len(y) = k
  OBVIOUS
<1>4. gs = bs \o y /\ ks = cs \o y
  BY <1>0, <1>a DEF Grown
<1>b. cs \in Seq(I)
  BY <1>2
<1> HIDE DEF I, l, y
<1>5. /\ Len(gs) = l + k /\ gs \in Seq(I)
      /\ \A c \in 1..(l + k) : gs[c] = IF c <= l THEN bs[c] ELSE y[c - l]
  BY <1>1, <1>3, <1>4, ConcatProperties DEF l
<1>6. /\ Len(ks) = l + k /\ ks \in Seq(I)
      /\ \A c \in 1..(l + k) : ks[c] = IF c <= l THEN cs[c] ELSE y[c - l]
  BY <1>1, <1>2, <1>b, <1>3, <1>4, ConcatProperties
<1>7. b \in DOMAIN gs /\ DOMAIN gs = 1..(l + k)
  BY <1>1, <1>5
<1>8. /\ hs \in Seq(I) /\ Len(hs) = l + k /\ hs[b] = Append(gs[b], i)
      /\ \A c \in 1..(l + k) : c # b => hs[c] = gs[c]
  <2>1. gs \in Seq(Seq(Instr))
    BY <1>5 DEF I
  <2>2. /\ hs \in Seq(Seq(Instr)) /\ Len(hs) = Len(gs) /\ hs[b] = Append(gs[b], i)
        /\ \A c \in DOMAIN gs : c # b => hs[c] = gs[c]
    BY <1>a, <1>7, <2>1, PutFacts
  <2> QED  BY <1>5, <1>7, <2>2 DEF I
<1>9. ASSUME NEW c \in 1..(l + k) PROVE ks[c] = hs[c]
  <2>1. CASE c = b
    <3>1. c <= l /\ ks[c] = cs[b] /\ gs[b] = bs[b]
      BY <1>1, <1>5, <1>6, <1>9, <2>1
    <3> QED  BY <1>2, <1>8, <2>1, <3>1
  <2>2. CASE c # b
    <3>1. hs[c] = gs[c]
      BY <1>8, <2>2
    <3>2. CASE c <= l
      <4>1. c \in 1..l /\ ks[c] = cs[c] /\ gs[c] = bs[c]
        BY <1>1, <1>5, <1>6, <3>2
      <4> QED  BY <1>1, <1>2, <2>2, <3>1, <4>1
    <3>3. CASE ~(c <= l)
      BY <1>5, <1>6, <3>1, <3>3
    <3> QED  BY <3>2, <3>3
  <2> QED  BY <2>1, <2>2
<1>10. ks = hs
  <2>1. ks = [c \in 1..(l + k) |-> ks[c]] /\ hs = [c \in 1..(l + k) |-> hs[c]]
    BY <1>6, <1>8
  <2> QED  BY <1>9, <2>1
<1> QED  BY <1>0, <1>a, <1>10

\* k blocks are made, all to be entered with t, and the current one ends.
LEMMA BlocksMade ==
  ASSUME NEW bs, NEW e, NEW n \in Nat, NEW A, NEW cur, NEW t \in Debts(n),
         Checked(bs, e, n, A, cur, t),
         NEW k \in Nat, NEW f, Prolongs(f, e, n, k, t),
         NEW i \in Instr, Ends(i, t, f),
         NEW B, B = A \union (Len(bs) + 1)..(Len(bs) + k),
         NEW gs, gs = Grown(Put(bs, cur, i), k)
  PROVE  Checked(gs, f, n, B, cur, t) /\ Closed(gs[cur], n, f[cur], f)
<1>0. PICK hs : hs = Grown(bs, k)
  OBVIOUS
<1>1. Checked(hs, f, n, B, cur, t)
  BY <1>0, CheckedGrown
<1>2. Checked(Put(hs, cur, i), f, n, B, cur, t) /\ Closed(Put(hs, cur, i)[cur], n, f[cur], f)
  BY <1>1, CheckedEnds
<1>3. bs \in Seq(Seq(Instr)) /\ cur \in DOMAIN bs
  BY DEF Checked
<1>4. gs = Put(hs, cur, i)
  BY <1>0, <1>3, PutGrown
<1> QED  BY <1>2, <1>4

LEMMA ForEmits ==
  ASSUME IInv, NEW e, EmitsIn(blocks, e, spent, calls, bb, scopes),
         NEW cond \in BOOLEAN, NEW hasElse \in BOOLEAN, For(cond, hasElse)
  PROVE  Emits'
<1> DEFINE A == Awaited(calls)
           form == IF cond THEN "for" ELSE "for ever"
<1>0. status = "gen" /\ Top.part = "stmts" /\ form \in Forms /\ Meet(form)
  BY DEF For, Stmt, At, Forms
<1> HIDE DEF form
<1>1. /\ calls \in Seq(CallType) /\ calls # <<>> /\ Top \in CallType
      /\ Top = calls[Len(calls)]
      /\ scopes \in Seq(ScopeType) /\ Len(scopes) \in Nat
      /\ spent \in Nat /\ Extends(e, e) /\ SoundFrame(Top, scopes, e)
      /\ Numbered(scopes, spent)
      /\ Checked(blocks, e, spent, A, bb, Now(calls, scopes))
      /\ blocks \in Seq(Seq(Instr)) /\ bb \in DOMAIN blocks
  BY <1>0, EmitFacts
<1>2. PICK n, l : n = spent' /\ l = Len(blocks)
  OBVIOUS
<1>3. n \in Nat /\ spent <= n /\ l \in Nat
  BY <1>0, <1>1, <1>2, SpentGrows
<1>4. Top.op = "block" /\ Calm(Top)
  BY <1>0, <1>1 DEF CallType, Calm
<1> DEFINE c == [op |-> "for", part |-> "loop", base |-> Len(scopes),
                 loop |-> l + 1, post |-> l + 3, else |-> l + 4, exit |-> l + 5,
                 hasElse |-> hasElse]
           v == [post |-> l + 3, exit |-> l + 5]
           s == Scope(v)
           test == IF cond THEN CondBr(l + 2, l + 4) ELSE Br(l + 2)
           bs == Put(blocks, bb, Op("open"))
           gs == Grown(Put(bs, bb, Br(l + 1)), 5)
           hs == Put(gs, l + 1, test)
<1>5. /\ scopes' = Append(scopes, s) /\ calls' = Append(calls, c)
      /\ blocks' = hs /\ bb' = l + 2
  BY <1>2 DEF For, Push, With
<1>6. /\ c \in CallType /\ c.base = Len(scopes) /\ c.op = "for" /\ Owned(c) = 1
      /\ c.loop = l + 1 /\ c.post = l + 3 /\ c.else = l + 4 /\ c.exit = l + 5
      /\ Calm(c) /\ Awaits(c) = {l + 3, l + 4, l + 5}
      /\ Goals(c) = {l + 1, l + 3, l + 4, l + 5}
  <2>0. /\ c.base = Len(scopes) /\ c.op = "for"
        /\ c.loop = l + 1 /\ c.post = l + 3 /\ c.else = l + 4 /\ c.exit = l + 5
        /\ c.part = "loop"
    OBVIOUS
  <2>a. l + 1 \in BlockIds /\ l + 3 \in BlockIds /\ l + 4 \in BlockIds /\ l + 5 \in BlockIds
    BY <1>3 DEF BlockIds
  <2>b. c \in CallType
    BY <1>1, <2>a DEF CallType
  <2>c. Owned(c) = 1
    BY <2>0 DEF Owned
  <2>1. /\ c \in CallType /\ c.base = Len(scopes) /\ c.op = "for" /\ Owned(c) = 1
        /\ c.loop = l + 1 /\ c.post = l + 3 /\ c.else = l + 4 /\ c.exit = l + 5
        /\ c.part = "loop"
    BY <2>0, <2>b, <2>c
  <2> HIDE DEF c
  <2>2. Awaits(c) = {l + 3, l + 4, l + 5}
    BY <2>1 DEF Awaits
  <2>3. Goals(c) = {l + 1, l + 3, l + 4, l + 5}
    BY <2>1, <2>2 DEF Goals
  <2> QED  BY <2>1, <2>2, <2>3 DEF Calm
<1>7. s \in ScopeType /\ s.defers = <<>> /\ s.loop = v /\ v.post = l + 3 /\ v.exit = l + 5
  BY <1>3, ScopeTypes DEF Scope
<1>8. PICK sd : sd = Append(scopes, s) /\ sd = scopes'
  BY <1>5
<1>9. /\ Br(l + 1) \in Instr /\ test \in Instr /\ Op("open") \in Instr
      /\ \A r, x, f : l + 2 \in DOMAIN f /\ l + 4 \in DOMAIN f
                        /\ f[l + 2] = x /\ f[l + 4] = x /\ x \in Debts(r)
                      => Ends(test, x, f)
  <2>1. Br(l + 1) \in Instr /\ test \in Instr /\ Op("open") \in Instr
    BY <1>3, InstrTypes
  <2>2. ASSUME NEW r, NEW x, NEW f, l + 2 \in DOMAIN f, l + 4 \in DOMAIN f,
               f[l + 2] = x, f[l + 4] = x, x \in Debts(r)
        PROVE  Ends(test, x, f)
    <3>1. CASE cond
      BY <2>2, <3>1, CondEnds
    <3>2. CASE ~cond
      BY <2>2, <3>2, BrEnds
    <3> QED  BY <3>1, <3>2
  <2> QED  BY <2>1, <2>2
<1> HIDE DEF c, v, s, test, bs, gs, hs
<1>10. /\ sd \in Seq(ScopeType) /\ Len(sd) = Len(scopes) + 1 /\ sd[Len(sd)] = s
       /\ \A i \in 1..Len(scopes) : sd[i] = scopes[i]
       /\ Numbered(sd, n)
  <2>1. scopes \in Seq(ScopeType) /\ s \in ScopeType /\ s.defers = <<>> /\ n \in Nat
    BY <1>1, <1>3, <1>7
  <2>2. Numbered(scopes, n)
    BY <1>1, <1>3, NumberedGrows
  <2>3. sd = Append(scopes, s)
    BY <1>8
  <2>4. Numbered(sd, n)
    BY <2>1, <2>2, <2>3, ScopeAdded
  <2> QED  BY <2>1, <2>3, <2>4, Pushed
<1> DEFINE t == Full(sd, Len(sd))
<1>11. t \in Debts(n)
  <2>1. Len(sd) \in 0..Len(sd)
    BY <1>1, <1>10
  <2> QED  BY <1>3, <1>10, <2>1, FullTyped
<1>12. Checked(bs, e, n, A, bb, t) /\ Len(bs) = l
  <2>1. Now(calls, scopes) = Full(scopes, Len(scopes))
    BY <1>1, <1>4, NowCalm
  <2>2. Checked(blocks, e, n, A, bb, Full(scopes, Len(scopes)))
    BY <1>1, <1>3, <2>1, CheckedGrows
  <2>3. Flow(Op("open"), Full(scopes, Len(scopes)), t)
    BY <1>1, <1>7, <1>8, <1>10, OpenFlows
  <2>4. Len(bs) = l
    BY <1>1, <1>2, <1>9, EmittedTo DEF bs
  <2> QED  BY <1>3, <1>9, <1>11, <2>2, <2>3, <2>4, CheckedFlows DEF bs
<1> HIDE DEF t
<1>13. e \in Seq(Debts(n)) /\ Len(e) = l
  BY <1>12 DEF Checked
<1>a. PICK k, f : k = 5 /\ Prolongs(f, e, n, k, t)
  <2> DEFINE k == 5
  <2>1. k \in Nat
    OBVIOUS
  <2> HIDE DEF k
  <2>2. \E f : Prolongs(f, e, n, k, t)
    BY <1>3, <1>11, <1>13, <2>1, Prolonged
  <2> QED  BY <2>2 DEF k
<1>14. /\ Extends(f, e) /\ DOMAIN f = 1..(l + 5)
       /\ \A b \in (l + 1)..(l + 5) : f[b] = t
  BY <1>13, <1>a DEF Prolongs, Extends
<1>15. /\ l + 1 \in DOMAIN f /\ l + 2 \in DOMAIN f /\ l + 3 \in DOMAIN f
       /\ l + 4 \in DOMAIN f /\ l + 5 \in DOMAIN f
       /\ f[l + 1] = t /\ f[l + 2] = t /\ f[l + 3] = t /\ f[l + 4] = t /\ f[l + 5] = t
  BY <1>3, <1>14
<1> DEFINE B == A \union (l + 1)..(l + 5)
<1>16. Checked(gs, f, n, B, bb, t) /\ Closed(gs[bb], n, f[bb], f)
  <2>1. Ends(Br(l + 1), t, f)
    BY <1>11, <1>15, BrEnds
  <2>2. k \in Nat /\ B = A \union (Len(bs) + 1)..(Len(bs) + k)
        /\ gs = Grown(Put(bs, bb, Br(l + 1)), k)
    BY <1>12, <1>a DEF gs
  <2> HIDE DEF A, B
  <2> QED  BY <1>3, <1>9, <1>11, <1>12, <1>a, <2>1, <2>2, BlocksMade
<1>17. A \subseteq 2..l
  BY <1>12 DEF Checked
<1>18. l + 1 \in B /\ l + 2 \in B \ {l + 1}
       /\ (B \ {l + 1}) \ {l + 2} = A \union Awaits(c)
       /\ Awaits(c) \cap A = {}
  BY <1>3, <1>6, <1>17
<1> HIDE DEF A, B
<1>19. Checked(hs, f, n, B \ {l + 1}, bb, t) /\ Closed(hs[bb], n, f[bb], f)
  <2>1. Ends(test, f[l + 1], f)
    BY <1>9, <1>11, <1>15
  <2>2. PICK b : b = l + 1
    OBVIOUS
  <2>3. b \in B /\ Ends(test, f[b], f) /\ hs = Put(gs, b, test)
    BY <1>18, <2>1, <2>2 DEF hs
  <2>4. Checked(hs, f, n, B \ {b}, bb, t) /\ hs[bb] = gs[bb]
    BY <1>3, <1>9, <1>16, <2>3, CheckedFilled
  <2> QED  BY <1>16, <2>2, <2>4
<1>20. Checked(hs, f, n, A \union Awaits(c), l + 2, t)
  <2>1. Checked(hs, f, n, (B \ {l + 1}) \ {l + 2}, l + 2, f[l + 2])
    BY <1>3, <1>18, <1>19, CheckedMoves
  <2> QED  BY <1>15, <1>18, <2>1
<1>21. SoundFrame(c, sd, f)
  <2>1. Through(c) = Len(sd)
    BY <1>6, <1>10 DEF Through
  <2>2. sd[Through(c)].defers = <<>>
    BY <1>7, <1>10, <2>1
  <2>3. \A b \in Goals(c) : b \in DOMAIN f /\ f[b] = Full(sd, Through(c))
    BY <1>6, <1>15, <2>1 DEF t
  <2>4. c.post # c.else /\ c.exit # c.post /\ c.exit # c.else
    BY <1>3, <1>6
  <2> QED  BY <1>6, <2>2, <2>3, <2>4 DEF SoundFrame
<1>22. Over(Top, c, Len(sd))
  BY <1>4, <1>6 DEF Over
<1>23. Owing(sd, Cut(c, Len(sd)), Rest(c)) = t
  BY <1>6, <1>10, CalmOwes DEF t
<1>24. ASSUME NEW i \in 1..Len(sd), i > Len(scopes)
       PROVE  /\ sd[i].loop.post \in DOMAIN f /\ f[sd[i].loop.post] = Full(sd, i)
              /\ sd[i].loop.exit \in DOMAIN f /\ f[sd[i].loop.exit] = Full(sd, i)
  <2>1. i = Len(sd)
    BY <1>1, <1>10, <1>24
  <2> QED  BY <1>7, <1>10, <1>15, <2>1 DEF t
<1>25. calls' = Append([calls EXCEPT ![Len(calls)] = Top], c)
  BY <1>1, <1>5
<1>26. Top.op # "emit" /\ Len(scopes) <= Len(sd)
  BY <1>1, <1>4, <1>10
<1>27. EmitsIn(hs, f, n, calls', l + 2, sd)
  BY <1>0, <1>1, <1>3, <1>6, <1>10, <1>14, <1>18, <1>20, <1>21, <1>22, <1>23, <1>24,
     <1>25, <1>26, EmitsCalled DEF A
<1> QED  BY <1>2, <1>5, <1>8, <1>27 DEF Emits

\* The scope of the let, if the statement has one.
LEMMA IfOpens ==
  ASSUME IInv, NEW e, EmitsIn(blocks, e, spent, calls, bb, scopes),
         NEW init \in BOOLEAN, NEW hasElse \in BOOLEAN, If(init, hasElse)
  PROVE  LET bs == IF init THEN With(bb, Op("open")) ELSE blocks
         IN  /\ spent' \in Nat /\ spent <= spent'
             /\ scopes' \in Seq(ScopeType)
             /\ Len(scopes') = Len(scopes) + (IF init THEN 1 ELSE 0)
             /\ \A i \in 1..Len(scopes) : scopes'[i] = scopes[i]
             /\ init => /\ scopes'[Len(scopes')].defers = <<>>
                        /\ scopes'[Len(scopes')].loop = NoLoop
             /\ Numbered(scopes', spent')
             /\ Full(scopes', Len(scopes')) \in Debts(spent')
             /\ Len(bs) = Len(blocks)
             /\ Checked(bs, e, spent', Awaited(calls), bb, Full(scopes', Len(scopes')))
<1> DEFINE A == Awaited(calls)
           s == Scope(NoLoop)
           form == IF init THEN "if let" ELSE "if"
           bs == IF init THEN With(bb, Op("open")) ELSE blocks
<1>0. status = "gen" /\ Top.part \in {"stmts", "else"} /\ form \in Forms /\ Meet(form)
  BY DEF If, Forms
<1> HIDE DEF form
<1>1. /\ Top \in CallType /\ Top = calls[Len(calls)]
      /\ scopes \in Seq(ScopeType) /\ Len(scopes) \in Nat
      /\ spent \in Nat /\ Numbered(scopes, spent)
      /\ Checked(blocks, e, spent, A, bb, Now(calls, scopes))
      /\ blocks \in Seq(Seq(Instr)) /\ bb \in DOMAIN blocks
  BY <1>0, EmitFacts
<1>2. PICK n, sd : n = spent' /\ sd = scopes'
  OBVIOUS
<1>3. n \in Nat /\ spent <= n
  BY <1>0, <1>1, <1>2, SpentGrows
<1>4. Calm(Top)
  BY <1>0, <1>1 DEF CallType, Calm
<1>5. s \in ScopeType /\ s.defers = <<>> /\ s.loop = NoLoop
  BY ScopeTypes DEF Scope
<1>6. Checked(blocks, e, n, A, bb, Full(scopes, Len(scopes)))
  <2>1. Now(calls, scopes) = Full(scopes, Len(scopes))
    BY <1>1, <1>4, NowCalm
  <2> QED  BY <1>1, <1>3, <2>1, CheckedGrows
<1>7. Op("open") \in Instr
  BY InstrTypes
<1> HIDE DEF s, A
<1>8. /\ sd \in Seq(ScopeType)
      /\ Len(sd) = Len(scopes) + (IF init THEN 1 ELSE 0)
      /\ \A i \in 1..Len(scopes) : sd[i] = scopes[i]
      /\ init => sd = Append(scopes, s) /\ sd[Len(sd)] = s
      /\ Numbered(sd, n)
  <2>1. CASE init
    <3>1. sd = Append(scopes, s)
      BY <1>2, <2>1 DEF If, Push, s
    <3>a. PICK c : c = s
      OBVIOUS
    <3>b. /\ c \in ScopeType /\ c.defers = <<>> /\ sd = Append(scopes, c)
          /\ scopes \in Seq(ScopeType) /\ n \in Nat
      BY <1>1, <1>3, <1>5, <3>1, <3>a
    <3>c. Numbered(scopes, n)
      BY <1>1, <1>3, NumberedGrows
    <3>2. /\ sd \in Seq(ScopeType) /\ Len(sd) = Len(scopes) + 1 /\ sd[Len(sd)] = c
          /\ \A i \in 1..Len(scopes) : sd[i] = scopes[i]
          /\ Numbered(sd, n)
      <4>1. Numbered(sd, n)
        BY <3>b, <3>c, ScopeAdded
      <4> QED  BY <3>b, <4>1, Pushed
    <3> QED  BY <2>1, <3>1, <3>2, <3>a
  <2>2. CASE ~init
    <3>1. sd = scopes
      BY <1>2, <2>2 DEF If
    <3>2. Numbered(scopes, n)
      BY <1>1, <1>3, NumberedGrows
    <3> QED  BY <1>1, <2>2, <3>1, <3>2
  <2> QED  BY <2>1, <2>2
<1>9. Full(sd, Len(sd)) \in Debts(n)
  <2>1. Len(sd) \in 0..Len(sd)
    BY <1>1, <1>8
  <2> QED  BY <1>3, <1>8, <2>1, FullTyped
<1>10. Checked(bs, e, n, A, bb, Full(sd, Len(sd))) /\ Len(bs) = Len(blocks)
  <2>1. CASE init
    <3>1. Flow(Op("open"), Full(scopes, Len(scopes)), Full(sd, Len(sd)))
      BY <1>1, <1>5, <1>8, <2>1, OpenFlows
    <3>2. bs = Put(blocks, bb, Op("open"))
      BY <2>1 DEF With
    <3> HIDE DEF bs
    <3>3. Len(bs) = Len(blocks)
      BY <1>1, <1>7, <3>2, EmittedTo
    <3> QED  BY <1>3, <1>6, <1>7, <1>9, <3>1, <3>2, <3>3, CheckedFlows
  <2>2. CASE ~init
    <3>1. sd = scopes /\ bs = blocks
      BY <1>2, <2>2 DEF If
    <3> QED  BY <1>6, <3>1
  <2> QED  BY <2>1, <2>2
<1> QED  BY <1>2, <1>3, <1>5, <1>8, <1>9, <1>10 DEF A

LEMMA IfEmits ==
  ASSUME IInv, NEW e, EmitsIn(blocks, e, spent, calls, bb, scopes),
         NEW init \in BOOLEAN, NEW hasElse \in BOOLEAN, If(init, hasElse)
  PROVE  Emits'
<1> DEFINE A == Awaited(calls)
<1>0. status = "gen" /\ Top.part \in {"stmts", "else"}
  BY DEF If
<1>1. /\ calls \in Seq(CallType) /\ calls # <<>> /\ Top \in CallType
      /\ Top = calls[Len(calls)]
      /\ Len(scopes) \in Nat /\ Len(scopes) = Through(Top)
      /\ Extends(e, e) /\ SoundFrame(Top, scopes, e)
      /\ blocks \in Seq(Seq(Instr)) /\ bb \in DOMAIN blocks
  BY <1>0, EmitFacts
<1>2. PICK n, l, sd, bs : /\ n = spent' /\ l = Len(blocks) /\ sd = scopes'
                          /\ bs = IF init THEN With(bb, Op("open")) ELSE blocks
  OBVIOUS
<1>3. /\ n \in Nat /\ spent <= n /\ sd \in Seq(ScopeType)
      /\ Len(sd) = Len(scopes) + (IF init THEN 1 ELSE 0)
      /\ \A i \in 1..Len(scopes) : sd[i] = scopes[i]
      /\ init => sd[Len(sd)].defers = <<>> /\ sd[Len(sd)].loop = NoLoop
      /\ Numbered(sd, n)
      /\ Full(sd, Len(sd)) \in Debts(n)
      /\ Len(bs) = l /\ Checked(bs, e, n, A, bb, Full(sd, Len(sd)))
  BY <1>2, IfOpens
<1>4. l \in Nat /\ Top.op \in {"block", "if"} /\ (Top.part = "else" => Top.op = "if")
  BY <1>0, <1>1, <1>2 DEF CallType
<1> DEFINE k == IF hasElse THEN 3 ELSE 2
           c == [op |-> "if", part |-> "then", base |-> Len(scopes),
                 init |-> init, join |-> l + 2, else |-> l + k]
           p == IF Top.part = "else" THEN [Top EXCEPT !.part = "endelse"] ELSE Top
           t == Full(sd, Len(sd))
           gs == Grown(Put(bs, bb, CondBr(l + 1, l + k)), k)
           B == A \union (l + 1)..(l + k)
<1>5. /\ calls' = Append([calls EXCEPT ![Len(calls)] = p], c)
      /\ blocks' = gs /\ bb' = l + 1
  <2>1. l + k = IF hasElse THEN l + 3 ELSE l + 2
    OBVIOUS
  <2>2. (l + k) - l = k
    BY <1>4
  <2> DEFINE r == l + k
  <2>3. calls' = Append(IF Top.part = "else" THEN Resume("endelse") ELSE calls, c)
    BY <1>2, <2>1 DEF If
  <2>4. IF Top.part = "else" THEN Resume("endelse") = [calls EXCEPT ![Len(calls)] = p]
        ELSE calls = [calls EXCEPT ![Len(calls)] = p]
    <3>1. CASE Top.part = "else"
      BY <1>1, <3>1, ResumeIsReplace
    <3>2. CASE Top.part # "else"
      BY <1>1, <3>2
    <3> QED  BY <3>1, <3>2
  <2>5. blocks' = gs /\ bb' = l + 1
    <3>1. r = IF hasElse THEN Len(blocks) + 3 ELSE Len(blocks) + 2
      BY <1>2, <2>1
    <3>2. r - Len(blocks) = k
      BY <1>2, <2>2
    <3> HIDE DEF k, r
    <3>3. blocks' = Grown(Put(bs, bb, CondBr(l + 1, r)), r - Len(blocks)) /\ bb' = l + 1
      BY <1>2, <3>1 DEF If
    <3> QED  BY <3>2, <3>3 DEF r
  <2> QED  BY <2>3, <2>4, <2>5
<1>6. k \in Nat /\ k \in {2, 3} /\ l + 1 \in Nat /\ l + k \in Nat
  BY <1>4
<1> HIDE DEF k
<1>7. /\ c \in CallType /\ c.base = Len(scopes) /\ c.op = "if"
      /\ Owned(c) = (IF init THEN 1 ELSE 0)
      /\ Calm(c) /\ Awaits(c) = {l + 2, l + k} /\ Goals(c) = {l + 2, l + k}
  <2>1. /\ c.base = Len(scopes) /\ c.op = "if" /\ c.part = "then" /\ c.init = init
        /\ c.join = l + 2 /\ c.else = l + k
    OBVIOUS
  <2>2. l + 2 \in BlockIds /\ l + k \in BlockIds
    BY <1>4, <1>6 DEF BlockIds
  <2>3. c \in CallType
    BY <1>1, <2>2 DEF CallType
  <2> HIDE DEF c
  <2>4. Owned(c) = (IF init THEN 1 ELSE 0) /\ Awaits(c) = {l + 2, l + k} /\ Calm(c)
    BY <2>1 DEF Owned, Awaits, Calm
  <2>5. Goals(c) = {l + 2, l + k}
    BY <2>1, <2>4 DEF Goals
  <2> QED  BY <2>1, <2>3, <2>4, <2>5
<1>8. /\ p \in CallType /\ p.op = Top.op /\ p.base = Top.base /\ Owned(p) = Owned(Top)
      /\ Awaits(p) = Awaits(Top) /\ SoundFrame(p, scopes, e) /\ Calm(p)
  <2>1. CASE Top.part = "else"
    <3> DEFINE x == "endelse"
    <3>0. Top.op = "if"
      BY <1>4, <2>1
    <3>1. /\ p = [Top EXCEPT !.part = x] /\ Top.op \in {"fn", "block", "if", "for"}
          /\ x \in PartsOf[Top.op]
      BY <2>1, <3>0 DEF PartsOf
    <3>2. /\ p.join = Top.join /\ p.else = Top.else /\ p.part = "endelse"
          /\ p.op = Top.op
      BY <1>1, <2>1, <3>0 DEF CallType
    <3> HIDE DEF p, x
    <3>3. p \in CallType /\ p.base = Top.base /\ Owned(p) = Owned(Top)
      <4>1. Top \in CallType
        BY <1>1
      <4> QED  BY <3>1, <4>1, PartFields
    <3>4. Awaits(p) = Awaits(Top) /\ Calm(p)
      BY <2>1, <3>0, <3>2 DEF Awaits, Calm
    <3>5. Awaits(p) \subseteq Awaits(Top)
      BY <3>4
    <3>6. SoundFrame(p, scopes, e)
      BY <1>1, <3>1, <3>5, PartFrame
    <3> QED  BY <3>2, <3>3, <3>4, <3>6
  <2>2. CASE Top.part # "else"
    <3>1. p = Top /\ Top.part = "stmts"
      BY <1>0, <2>2
    <3>2. Calm(Top)
      BY <1>4, <3>1 DEF Calm
    <3> HIDE DEF p
    <3> QED  BY <1>1, <3>1, <3>2
  <2> QED  BY <2>1, <2>2
<1>9. CondBr(l + 1, l + k) \in Instr
  BY <1>6, InstrTypes
<1> HIDE DEF c, p, t, gs
<1>10. t \in Debts(n) /\ Checked(bs, e, n, A, bb, t) /\ Len(bs) = l
  BY <1>3 DEF t
<1>11. e \in Seq(Debts(n)) /\ Len(e) = l
  BY <1>10 DEF Checked
<1>12. PICK f : Prolongs(f, e, n, k, t)
  BY <1>3, <1>6, <1>10, <1>11, Prolonged
<1>13. /\ Extends(f, e) /\ DOMAIN f = 1..(l + k)
       /\ \A b \in (l + 1)..(l + k) : f[b] = t
  BY <1>11, <1>12 DEF Prolongs, Extends
<1>14. /\ l + 1 \in DOMAIN f /\ l + 2 \in DOMAIN f /\ l + k \in DOMAIN f
       /\ f[l + 1] = t /\ f[l + 2] = t /\ f[l + k] = t
  BY <1>4, <1>6, <1>13
<1>15. Checked(gs, f, n, B, bb, t) /\ Closed(gs[bb], n, f[bb], f)
  <2>1. Ends(CondBr(l + 1, l + k), t, f)
    BY <1>14, CondEnds
  <2>2. B = A \union (Len(bs) + 1)..(Len(bs) + k)
        /\ gs = Grown(Put(bs, bb, CondBr(l + 1, l + k)), k)
    BY <1>10 DEF gs
  <2> HIDE DEF A, B
  <2>3. PICK i, j : i = CondBr(l + 1, l + k) /\ j = k
    OBVIOUS
  <2>4. /\ j \in Nat /\ Prolongs(f, e, n, j, t) /\ i \in Instr /\ Ends(i, t, f)
        /\ B = A \union (Len(bs) + 1)..(Len(bs) + j)
        /\ gs = Grown(Put(bs, bb, i), j)
    BY <1>6, <1>9, <1>12, <2>1, <2>2, <2>3
  <2>5. PICK x, C, D : x = bb /\ C = A /\ D = B
    OBVIOUS
  <2>6. n \in Nat /\ t \in Debts(n) /\ Checked(bs, e, n, C, x, t)
    BY <1>3, <1>10, <2>5
  <2>7. /\ D = C \union (Len(bs) + 1)..(Len(bs) + j)
        /\ gs = Grown(Put(bs, x, i), j)
    BY <2>4, <2>5
  <2>8. Checked(gs, f, n, D, x, t) /\ Closed(gs[x], n, f[x], f)
    <3>1. j \in Nat /\ Prolongs(f, e, n, j, t) /\ i \in Instr /\ Ends(i, t, f)
      BY <2>4
    <3> QED  BY <2>6, <2>7, <3>1, BlocksMade
  <2> QED  BY <2>5, <2>8
<1>16. A \subseteq 2..l
  BY <1>10 DEF Checked
<1>17. l + 1 \in B /\ B \ {l + 1} = A \union Awaits(c) /\ Awaits(c) \cap A = {}
  BY <1>4, <1>6, <1>7, <1>16
<1> HIDE DEF A, B
<1>18. Checked(gs, f, n, A \union Awaits(c), l + 1, t)
  <2>1. Checked(gs, f, n, B \ {l + 1}, l + 1, f[l + 1])
    BY <1>3, <1>15, <1>17, CheckedMoves
  <2> QED  BY <1>14, <1>17, <2>1
<1>19. SoundFrame(c, sd, f)
  <2>1. Through(c) = Len(sd)
    BY <1>3, <1>7 DEF Through
  <2>2. Owned(c) = 1 => sd[Through(c)].defers = <<>>
    BY <1>3, <1>7, <2>1
  <2>3. \A b \in Goals(c) : b \in DOMAIN f /\ f[b] = Full(sd, Through(c))
    BY <1>7, <1>14, <2>1 DEF t
  <2> QED  BY <1>7, <2>2, <2>3 DEF SoundFrame
<1>20. Over(p, c, Len(sd))
  BY <1>7, <1>8 DEF Over
<1>21. Owing(sd, Cut(c, Len(sd)), Rest(c)) = t
  BY <1>3, <1>7, CalmOwes DEF t
<1>22. \A i \in 1..Len(sd) : ~(i > Len(scopes) /\ sd[i].loop # NoLoop)
  <2> SUFFICES ASSUME NEW i \in 1..Len(sd), i > Len(scopes) PROVE sd[i].loop = NoLoop
    OBVIOUS
  <2>1. init /\ i = Len(sd)
    BY <1>1, <1>3
  <2> QED  BY <1>3, <2>1
<1>23. Top.op # "emit" /\ Len(scopes) <= Len(sd)
  BY <1>1, <1>3, <1>4
<1>24. EmitsIn(gs, f, n, calls', l + 1, sd)
  BY <1>0, <1>1, <1>3, <1>5, <1>7, <1>8, <1>13, <1>17, <1>18, <1>19, <1>20, <1>21,
     <1>22, <1>23, EmitsCalled DEF A
<1> QED  BY <1>2, <1>5, <1>24 DEF Emits

-----------------------------------------------------------------------------
(* The function is done                                                    *)

\* Every block, entered with e, comes to a terminator.
Sealed(bs, e, n) ==
  /\ bs \in Seq(Seq(Instr))
  /\ e \in Seq(Debts(n)) /\ Len(e) = Len(bs)
  /\ Entry \in DOMAIN bs /\ e[Entry] = <<>>
  /\ \A b \in DOMAIN bs : Closed(bs[b], n, e[b], e)

LEMMA EndFnFacts ==
  ASSUME IInv, NEW e, EmitsIn(blocks, e, spent, calls, bb, scopes), EndFn
  PROVE  /\ Checked(blocks, e, spent, {}, bb, Full(scopes, Len(scopes)))
         /\ scopes \in Seq(ScopeType) /\ Len(scopes) = 1 /\ scopes[1].defers = <<>>
         /\ Numbered(scopes, spent) /\ spent \in Nat
<1>1. status = "gen" /\ Top.part = "return"
  BY DEF EndFn, At
<1>2. /\ Top \in CallType /\ calls \in Seq(CallType) /\ Len(calls) \in Nat \ {0}
      /\ Top = calls[Len(calls)] /\ scopes \in Seq(ScopeType)
      /\ Len(scopes) = Through(Top) /\ SoundFrame(Top, scopes, e)
      /\ Numbered(scopes, spent) /\ spent \in Nat
      /\ Checked(blocks, e, spent, Awaited(calls), bb, Now(calls, scopes))
  BY <1>1, EmitFacts
<1>3. Top.op = "fn"
  BY <1>1, <1>2 DEF CallType
<1>4. Len(calls) = 1 /\ Top.base = 0
  BY <1>1, <1>3, TopFacts DEF SoundCall, Accounts, Top
<1>5. Owned(Top) = 1 /\ Through(Top) = 1
  BY <1>3, <1>4 DEF Owned, Through
<1>6. scopes[1].defers = <<>>
  BY <1>2, <1>3, <1>5 DEF SoundFrame
<1>7. Awaited(calls) = {}
  <2>1. Awaits(calls[1]) = {}
    BY <1>2, <1>3, <1>4 DEF Awaits
  <2>2. \A i \in 1..Len(calls) : i = 1
    BY <1>4
  <2> QED  BY <2>1, <2>2 DEF Awaited
<1>8. Calm(Top)
  BY <1>1, <1>3 DEF Calm
<1>9. Now(calls, scopes) = Full(scopes, Len(scopes))
  BY <1>2, <1>8, NowCalm
<1> QED  BY <1>2, <1>5, <1>6, <1>7, <1>9

LEMMA EndFnSeals ==
  ASSUME IInv, NEW e, EmitsIn(blocks, e, spent, calls, bb, scopes), EndFn
  PROVE  Sealed(blocks', e, spent')
<1> DEFINE s == Full(scopes, Len(scopes))
<1>1. /\ Checked(blocks, e, spent, {}, bb, s)
      /\ scopes \in Seq(ScopeType) /\ Len(scopes) = 1 /\ scopes[1].defers = <<>>
      /\ Numbered(scopes, spent)
  BY EndFnFacts
<1>2. PICK n : n = spent /\ n \in Nat
  BY EndFnFacts
<1>3. /\ blocks \in Seq(Seq(Instr)) /\ Len(blocks) \in Nat /\ Len(blocks) >= 2
      /\ e \in Seq(Debts(n)) /\ Len(e) = Len(blocks)
      /\ e[1] = <<>> /\ e[2] = <<>> /\ Live(blocks[1], n, <<>>, <<>>)
      /\ bb \in 2..Len(blocks)
      /\ Closed(blocks[bb], n, e[bb], e) \/ Live(blocks[bb], n, e[bb], s)
      /\ \A b \in 2..Len(blocks) : b # bb => Closed(blocks[b], n, e[b], e)
  BY <1>1, <1>2 DEF Checked
<1>4. /\ 1 \in DOMAIN blocks /\ bb \in DOMAIN blocks /\ bb # 1
      /\ DOMAIN blocks = 1..Len(blocks) /\ Len(e) = Len(blocks)
  BY <1>3
<1>5. 1 \in DOMAIN e /\ 2 \in DOMAIN e /\ Extends(e, e)
  BY <1>3, ExtendsItself DEF Extends
<1>6. <<>> \in Debts(n)
  BY DEF Debts
<1> HIDE DEF s
<1>7. HasTerminator(bb) => Closed(blocks[bb], n, e[bb], e)
  BY <1>1, <1>2, TerminatorCloses
<1>8. Flow(Op("close"), s, <<>>)
  <2>a. Len(scopes) = 1
    BY <1>1
  <2>b. Len(<<>>) = 0
    OBVIOUS
  <2>0. scopes # <<>> /\ Len(scopes) = 1
    BY <2>a, <2>b
  <2>1. scopes # <<>> /\ scopes[Len(scopes)].defers = <<>>
    BY <1>1, <2>0
  <2>2. Owing(scopes, Len(scopes), 0) = s
    BY <1>1, <2>1, OwingEmpty DEF s
  <2>3. Len(Front(scopes)) = 0
    BY <1>1, <2>1, Popped
  <2>4. Full(Front(scopes), Len(Front(scopes))) = <<>>
    BY <2>3 DEF Full
  <2> QED  BY <1>1, <1>2, <2>1, <2>2, <2>4, CloseFlows
<1> DEFINE cs == Put(blocks, 1, Br(2))
           ds == Put(cs, bb, Op("close"))
           gs == Put(ds, bb, Op("ret"))
<1>9. Br(2) \in Instr /\ Op("close") \in Instr /\ Op("ret") \in Instr
  BY InstrTypes
<1>10. blocks' = (IF HasTerminator(bb) THEN ds ELSE gs) /\ spent' = n
  BY <1>2 DEF EndFn, With, Entry
<1>11. /\ cs \in Seq(Seq(Instr)) /\ Len(cs) = Len(blocks)
       /\ cs[1] = Append(blocks[1], Br(2)) /\ blocks[1] \in Seq(Instr)
       /\ \A c \in DOMAIN blocks : c # 1 => cs[c] = blocks[c]
  BY <1>3, <1>4, <1>9, PutFacts
<1> HIDE DEF cs
<1>12. DOMAIN cs = DOMAIN blocks
  BY <1>4, <1>11
<1>13. /\ ds \in Seq(Seq(Instr)) /\ Len(ds) = Len(cs)
       /\ ds[bb] = Append(cs[bb], Op("close")) /\ cs[bb] \in Seq(Instr)
       /\ \A c \in DOMAIN cs : c # bb => ds[c] = cs[c]
  <2>1. bb \in DOMAIN cs
    BY <1>4, <1>12
  <2> QED  BY <1>9, <1>11, <2>1, PutFacts
<1> HIDE DEF ds
<1>14. DOMAIN ds = DOMAIN blocks
  BY <1>4, <1>11, <1>13
<1>15. /\ gs \in Seq(Seq(Instr)) /\ Len(gs) = Len(ds)
       /\ gs[bb] = Append(ds[bb], Op("ret")) /\ ds[bb] \in Seq(Instr)
       /\ \A c \in DOMAIN ds : c # bb => gs[c] = ds[c]
  <2>1. bb \in DOMAIN ds
    BY <1>4, <1>14
  <2> QED  BY <1>9, <1>13, <2>1, PutFacts
<1> HIDE DEF gs
<1>16. \A c \in DOMAIN blocks : c # bb => blocks'[c] = cs[c]
  BY <1>10, <1>12, <1>13, <1>14, <1>15
<1>17. Closed(cs[1], n, e[1], e)
  <2>1. Ends(Br(2), <<>>, e)
    BY <1>3, <1>5, <1>6, BrEnds
  <2> QED  BY <1>2, <1>3, <1>9, <1>11, <2>1, LiveEnds
<1>18. Closed(blocks'[bb], n, e[bb], e)
  <2>1. /\ cs[bb] = blocks[bb] /\ ds[bb] = Append(blocks[bb], Op("close"))
        /\ blocks[bb] \in Seq(Instr)
    BY <1>4, <1>11, <1>13
  <2>2. CASE Closed(blocks[bb], n, e[bb], e)
    <3>1. Closed(ds[bb], n, e[bb], e)
      BY <1>2, <1>9, <2>1, <2>2, ClosedStays
    <3>2. Closed(gs[bb], n, e[bb], e)
      BY <1>2, <1>9, <1>15, <3>1, ClosedStays
    <3> QED  BY <1>10, <3>1, <3>2
  <2>3. CASE ~Closed(blocks[bb], n, e[bb], e)
    <3>1. Live(blocks[bb], n, e[bb], s) /\ blocks' = gs
      BY <1>3, <1>7, <1>10, <2>3
    <3>2. Live(ds[bb], n, e[bb], <<>>)
      BY <1>2, <1>6, <1>8, <1>9, <2>1, <3>1, LiveFlows
    <3>3. Ends(Op("ret"), <<>>, e)
      BY DEF Ends, Op
    <3>4. Closed(gs[bb], n, e[bb], e)
      BY <1>2, <1>9, <1>15, <3>2, <3>3, LiveEnds
    <3> QED  BY <3>1, <3>4
  <2> QED  BY <2>2, <2>3
<1>19. ASSUME NEW b \in DOMAIN blocks PROVE Closed(blocks'[b], n, e[b], e)
  <2>1. CASE b = bb
    BY <1>18, <2>1
  <2>2. CASE b # bb /\ b = 1
    BY <1>16, <1>17, <2>2
  <2>3. CASE b # bb /\ b # 1
    <3>1. b \in 2..Len(blocks) /\ blocks'[b] = blocks[b]
      BY <1>3, <1>4, <1>11, <1>16, <2>3
    <3> QED  BY <1>3, <2>3, <3>1
  <2> QED  BY <2>1, <2>2, <2>3
<1>20. blocks' \in Seq(Seq(Instr)) /\ Len(blocks') = Len(blocks)
  BY <1>10, <1>11, <1>13, <1>15
<1>21. DOMAIN blocks' = DOMAIN blocks
  BY <1>4, <1>20
<1> QED  BY <1>3, <1>4, <1>10, <1>19, <1>20, <1>21 DEF Sealed, Entry

LEMMA InitEmits == Init => Emits
<1> SUFFICES ASSUME Init PROVE Emits
  OBVIOUS
<1> DEFINE s == Scope(NoLoop)
           x == <<>>
           e == <<x, x>>
           none == <<>>
           i == Op("open")
           t == Full(scopes, Len(scopes))
<1>1. /\ scopes = <<s>> /\ calls = <<FnCall>> /\ blocks = <<none, <<i>> >>
      /\ bb = 2 /\ spent = 0
  BY DEF Init
<1>2. s \in ScopeType /\ s.defers = <<>> /\ s.loop = NoLoop /\ i \in Instr
  BY ScopeTypes, InstrTypes DEF Scope
<1>3. x \in Debts(0) /\ none \in Seq(Instr)
  BY DEF Debts
<1>4. /\ FnCall.op = "fn" /\ FnCall.part = "body" /\ FnCall.base = 0
      /\ Owned(FnCall) = 1 /\ Awaits(FnCall) = {} /\ Calm(FnCall)
  BY DEF FnCall, Owned, Awaits, Calm
<1>5. Goals(FnCall) = {} /\ Through(FnCall) = 1
  BY <1>4 DEF Goals, Through
<1>6. /\ Len(scopes) = 1 /\ scopes[1] = s /\ scopes \in Seq(ScopeType)
      /\ Len(calls) = 1 /\ calls[1] = FnCall
  BY <1>1, <1>2
<1> HIDE DEF s
<1>7. Numbered(scopes, 0)
  BY <1>2, <1>6 DEF Numbered
<1>8. Loops(scopes, e)
  BY <1>2, <1>6 DEF Loops
<1>9. Frames(calls, scopes, e)
  <2>1. SoundFrame(FnCall, scopes, e)
    BY <1>2, <1>4, <1>5, <1>6 DEF SoundFrame
  <2>2. \A k \in 1..Len(calls) : k = 1
    BY <1>6
  <2>3. \A k, j \in 1..Len(calls) : ~(k < j)
    BY <1>6
  <2>4. \A k \in 1..Len(calls) : ~(k < Len(calls))
    BY <1>6
  <2> QED  BY <1>6, <2>1, <2>2, <2>3, <2>4 DEF Frames
<1>10. Awaited(calls) = {}
  <2>1. \A k \in 1..Len(calls) : Awaits(calls[k]) = {}
    BY <1>4, <1>6
  <2> QED  BY <2>1 DEF Awaited
<1>11. Now(calls, scopes) = t
  BY <1>4, <1>6, NowCalm
<1>12. t \in Debts(0)
  <2>1. 0 \in Nat /\ Len(scopes) \in 0..Len(scopes)
    BY <1>6
  <2> QED  BY <1>6, <1>7, <2>1, FullTyped
<1>13. Flow(i, x, t)
  <2> DEFINE sc == <<>>
  <2>1. sc \in Seq(ScopeType) /\ Len(sc) = 0 /\ scopes = Append(sc, s) /\ Len(scopes) = Len(sc) + 1
    BY <1>1, <1>6
  <2>2. Full(sc, 0) = x
    BY DEF Full
  <2> HIDE DEF sc, x
  <2> QED  BY <1>2, <2>1, <2>2, OpenFlows
<1> HIDE DEF t
<1>14. Live(none, 0, x, x)
  BY <1>3, LiveEmpty
<1>15. Live(<<i>>, 0, x, t)
  <2>1. <<i>> = Append(none, i)
    OBVIOUS
  <2> HIDE DEF i, none, x
  <2> QED  BY <1>2, <1>3, <1>12, <1>13, <1>14, <2>1, LiveFlows
<1>16. blocks \in Seq(Seq(Instr)) /\ Len(blocks) = 2 /\ blocks[1] = none /\ blocks[2] = <<i>>
  BY <1>1, <1>2
<1>17. e \in Seq(Debts(0)) /\ Len(e) = 2 /\ e[1] = x /\ e[2] = x
  BY <1>3
<1>18. Checked(blocks, e, 0, {}, 2, t)
  <2> HIDE DEF e, i
  <2>1. \A b \in 2..Len(blocks) : b = 2
    BY <1>16
  <2>2. 2 \in 2..Len(blocks) /\ Len(blocks) >= 2
    BY <1>16
  <2> QED  BY <1>14, <1>15, <1>16, <1>17, <2>1, <2>2 DEF Checked
<1>19. EmitsIn(blocks, e, spent, calls, bb, scopes)
  <2> HIDE DEF e
  <2> QED  BY <1>1, <1>7, <1>8, <1>9, <1>10, <1>11, <1>18 DEF EmitsIn
<1> QED  BY <1>19 DEF Emits

\* While a function is generated its code is checked as far as it goes; once
\* it is done every block is.
CodeInv ==
  /\ status = "gen" => Emits
  /\ status = "done" => \E e : Sealed(blocks, e, spent)

LEMMA NextIsGen == IInv /\ Next => status = "gen"
BY DEF Next, At, Stmt, EnterBlock, LeaveBlock, PopBlock, EmitDefer, DefersEmitted,
       Defer, Let, Return, ReturnScope, ReturnValue, Break, Continue, If, EndThen,
       EndElse, For, EndBody, EndFor, EndFn, StmtFails

LEMMA NextEmits ==
  ASSUME IInv, CodeInv, Next
  PROVE  CodeInv'
<1>1. status = "gen"
  BY NextIsGen
<1>2. PICK e : EmitsIn(blocks, e, spent, calls, bb, scopes)
  BY <1>1 DEF CodeInv, Emits
<1>3. ASSUME Emits', status' # "done" PROVE CodeInv'
  BY <1>3 DEF CodeInv
<1>4. CASE EnterBlock
  BY <1>1, <1>2, <1>3, <1>4, EnterBlockEmits DEF EnterBlock
<1>5. CASE LeaveBlock
  BY <1>1, <1>2, <1>3, <1>5, LeaveBlockEmits DEF LeaveBlock
<1>6. CASE PopBlock
  BY <1>1, <1>2, <1>3, <1>6, PopBlockEmits DEF PopBlock
<1>7. CASE EmitDefer
  <2>1. status' \in {"gen", "crashed"}
    BY <1>1, <1>7 DEF EmitDefer
  <2>2. CASE status' = "gen"
    BY <1>2, <1>3, <1>7, <2>2, EmitDeferEmits
  <2>3. CASE status' = "crashed"
    BY <2>3 DEF CodeInv
  <2> QED  BY <2>1, <2>2, <2>3
<1>8. CASE DefersEmitted
  BY <1>1, <1>2, <1>3, <1>8, DefersEmittedEmits DEF DefersEmitted
<1>9. ASSUME NEW block \in BOOLEAN, Defer(block) PROVE CodeInv'
  BY <1>1, <1>2, <1>3, <1>9, DeferEmits DEF Defer
<1>10. CASE Let
  BY <1>1, <1>2, <1>3, <1>10, LetEmits DEF Let
<1>11. CASE Return
  BY <1>1, <1>2, <1>3, <1>11, ReturnEmits DEF Return
<1>12. CASE ReturnScope
  BY <1>1, <1>2, <1>3, <1>12, ReturnScopeEmits DEF ReturnScope
<1>13. CASE ReturnValue
  BY <1>1, <1>2, <1>3, <1>13, ReturnValueEmits DEF ReturnValue
<1>14. ASSUME NEW form \in Forms, Stmt(form), NEW field \in {"post", "exit"},
              JumpTo(field)
       PROVE  CodeInv'
  <2>1. status' \in {"gen", "failed"}
    BY <1>1, <1>14 DEF JumpTo
  <2>2. CASE status' = "gen"
    BY <1>2, <1>3, <1>14, <2>2, JumpEmits
  <2>3. CASE status' = "failed"
    BY <2>3 DEF CodeInv
  <2> QED  BY <2>1, <2>2, <2>3
<1>15. CASE Break
  <2>1. "break" \in Forms
    BY DEF Forms
  <2> QED  BY <1>14, <1>15, <2>1 DEF Break
<1>16. CASE Continue
  <2>1. "continue" \in Forms
    BY DEF Forms
  <2> QED  BY <1>14, <1>16, <2>1 DEF Continue
<1>17. ASSUME NEW init \in BOOLEAN, NEW hasElse \in BOOLEAN, If(init, hasElse)
       PROVE  CodeInv'
  BY <1>1, <1>2, <1>3, <1>17, IfEmits DEF If
<1>18. CASE EndThen
  BY <1>1, <1>2, <1>3, <1>18, EndThenEmits DEF EndThen
<1>19. CASE EndElse
  BY <1>1, <1>2, <1>3, <1>19, EndElseEmits DEF EndElse
<1>20. ASSUME NEW cond \in BOOLEAN, NEW hasElse \in BOOLEAN, For(cond, hasElse)
       PROVE  CodeInv'
  BY <1>1, <1>2, <1>3, <1>20, ForEmits DEF For
<1>21. CASE EndBody
  BY <1>1, <1>2, <1>3, <1>21, EndBodyEmits DEF EndBody
<1>22. CASE EndFor
  BY <1>1, <1>2, <1>3, <1>22, EndForEmits DEF EndFor
<1>23. CASE EndFn
  <2>1. Sealed(blocks', e, spent') /\ status' = "done"
    BY <1>2, <1>23, EndFnSeals DEF EndFn
  <2> QED  BY <2>1 DEF CodeInv
<1>24. CASE StmtFails
  <2>1. status' = "failed"
    BY <1>24 DEF StmtFails
  <2> QED  BY <2>1 DEF CodeInv
<1> QED  BY <1>4, <1>5, <1>6, <1>7, <1>8, <1>9, <1>10, <1>11, <1>12, <1>13, <1>15,
            <1>16, <1>17, <1>18, <1>19, <1>20, <1>21, <1>22, <1>23, <1>24 DEF Next

-----------------------------------------------------------------------------
(* The run                                                                 *)

\* Control is in a block it entered as was checked.
Follows(e) ==
  /\ at \in DOMAIN blocks
  /\ \E w : /\ Walk(blocks[at], spent, w) /\ Len(w) <= Len(blocks[at])
            /\ Ends(blocks[at][Len(w)], w[Len(w)], e)
            /\ ip \in 1..Len(w) /\ pend = w[ip]

ExecInv ==
  /\ running \in {"generating", "running", "returned"}
  /\ running = "generating" => at = 0 /\ ip = 1 /\ pend = <<>>
  /\ running # "generating" =>
       status = "done" /\ \E e : Sealed(blocks, e, spent) /\ Follows(e)

AllInv == IInv /\ CodeInv /\ ExecInv

\* The instruction that control is at does what was checked.
LEMMA HereFlows ==
  ASSUME NEW e, running = "running", NEW w,
         Walk(blocks[at], spent, w), Len(w) <= Len(blocks[at]),
         Ends(blocks[at][Len(w)], w[Len(w)], e), ip \in 1..Len(w)
  PROVE  /\ ip <= Len(blocks[at])
         /\ IF Here.op \in {"br", "condbr", "ret"} THEN ip = Len(w)
            ELSE ip + 1 \in 1..Len(w) /\ Flow(Here, w[ip], w[ip + 1])
<1> DEFINE l == Len(w)
<1>1. l \in Nat /\ ip \in Nat /\ ip <= l /\ l <= Len(blocks[at])
  BY DEF Walk
<1>2. CASE ip = l
  <2>1. Here.op \in {"br", "condbr", "ret"}
    BY <1>2 DEF Ends, Here
  <2> QED  BY <1>1, <1>2, <2>1
<1>3. CASE ip # l
  <2>1. ip \in 1..(l - 1) /\ ip + 1 \in 1..l
    BY <1>1, <1>3
  <2>2. Flow(Here, w[ip], w[ip + 1])
    BY <2>1 DEF Walk, Here
  <2>3. Here.op \notin {"br", "condbr", "ret"}
    BY <2>2 DEF Flow
  <2> QED  BY <1>1, <2>1, <2>2, <2>3
<1> QED  BY <1>2, <1>3

\* The innermost scope with a pending defer.
LEMMA NewestIs ==
  ASSUME NEW k \in DOMAIN pend, NEW n, pend \in Debts(n), pend[k] # <<>>,
         \A j \in DOMAIN pend : j > k => pend[j] = <<>>
  PROVE  Newest = k /\ Newest # 0
<1> DEFINE owed == {j \in DOMAIN pend : pend[j] # <<>>}
<1>1. DOMAIN pend \subseteq Nat \ {0}
  <2> DEFINE S == Seq(1..n)
  <2>1. pend \in Seq(S)
    BY DEF Debts
  <2> HIDE DEF S
  <2> QED  BY <2>1
<1>2. k \in owed /\ \A j \in owed : j <= k
  BY <1>1
<1>3. \A i \in owed : (\A j \in owed : j <= i) => i = k
  <2> TAKE i \in owed
  <2>1. i \in Nat /\ k \in Nat
    BY <1>1
  <2> HIDE DEF owed
  <2> HAVE \A j \in owed : j <= i
  <2>2. k <= i /\ i <= k
    BY <1>2
  <2> QED  BY <2>1, <2>2
<1>4. Newest = CHOOSE i \in owed : \A j \in owed : j <= i
  BY <1>2 DEF Newest
<1> HIDE DEF owed
<1>5. (CHOOSE i \in owed : \A j \in owed : j <= i) = k
  BY <1>2, <1>3
<1> QED  BY <1>1, <1>4, <1>5

LEMMA NewestNone ==
  ASSUME \A k \in DOMAIN pend : pend[k] = <<>>
  PROVE  Newest = 0
BY DEF Newest

\* A plain instruction goes on to the next.
LEMMA Advances ==
  ASSUME NEW e, running = "running", NEW w, at \in DOMAIN blocks,
         Walk(blocks[at], spent, w), Len(w) <= Len(blocks[at]),
         Ends(blocks[at][Len(w)], w[Len(w)], e), ip \in 1..Len(w),
         Here.op \notin {"br", "condbr", "ret"},
         Advance, pend' = w[ip + 1], UNCHANGED vars
  PROVE  Follows(e)'
<1>1. ip + 1 \in 1..Len(w)
  BY HereFlows
<1>2. ip' = ip + 1 /\ at' = at /\ blocks' = blocks /\ spent' = spent
  BY DEF Advance, vars
<1>3. /\ at' \in DOMAIN blocks'
      /\ Walk(blocks'[at'], spent', w) /\ Len(w) <= Len(blocks'[at'])
      /\ Ends(blocks'[at'][Len(w)], w[Len(w)], e)
      /\ ip' \in 1..Len(w) /\ pend' = w[ip']
  BY <1>1, <1>2
<1> QED  BY <1>3 DEF Follows

\* A branch comes to a block that was checked.
LEMMA Enters ==
  ASSUME NEW e, Sealed(blocks, e, spent), NEW b \in DOMAIN e,
         GoTo(b), pend' = e[b], UNCHANGED vars
  PROVE  Follows(e)'
<1>1. b \in DOMAIN blocks
  <2> DEFINE S == Debts(spent)
  <2>1. e \in Seq(S) /\ Len(e) = Len(blocks) /\ blocks \in Seq(Seq(Instr))
    BY DEF Sealed
  <2> HIDE DEF S
  <2> QED  BY <2>1
<1>2. PICK w : /\ Walk(blocks[b], spent, w) /\ Len(w) <= Len(blocks[b])
               /\ w[1] = e[b] /\ Ends(blocks[b][Len(w)], w[Len(w)], e)
  BY <1>1 DEF Sealed, Closed
<1>3. 1 \in 1..Len(w)
  <2> DEFINE S == Debts(spent)
  <2>1. w \in Seq(S) /\ w # <<>>
    BY <1>2 DEF Walk
  <2> HIDE DEF S
  <2> QED  BY <2>1
<1>4. ip' = 1 /\ at' = b /\ blocks' = blocks /\ spent' = spent
  BY DEF GoTo, vars
<1>5. /\ at' \in DOMAIN blocks'
      /\ Walk(blocks'[at'], spent', w) /\ Len(w) <= Len(blocks'[at'])
      /\ Ends(blocks'[at'][Len(w)], w[Len(w)], e)
      /\ ip' \in 1..Len(w) /\ pend' = w[ip']
  BY <1>1, <1>2, <1>3, <1>4
<1> QED  BY <1>5 DEF Follows

\* What is owed is typed.
LEMMA WalkTyped ==
  ASSUME NEW n, NEW code, NEW w, Walk(code, n, w), NEW i \in 1..Len(w)
  PROVE  w[i] \in Debts(n)
<1> DEFINE S == Debts(n)
<1>1. w \in Seq(S)
  BY DEF Walk
<1> HIDE DEF S
<1>2. w[i] \in S
  BY <1>1
<1> QED  BY <1>2 DEF S

LEMMA StartFollows ==
  ASSUME IInv, CodeInv, ExecInv, Start, UNCHANGED vars
  PROVE  ExecInv'
<1>1. PICK e : Sealed(blocks, e, spent)
  BY DEF Start, CodeInv
<1>2. /\ running' = "running" /\ GoTo(Entry) /\ pend' = <<>>
      /\ status' = "done" /\ blocks' = blocks /\ spent' = spent
  BY DEF Start, ExecInv, vars
<1>3. Entry \in DOMAIN e /\ e[Entry] = <<>>
  <2> DEFINE S == Debts(spent)
  <2>1. e \in Seq(S) /\ Len(e) = Len(blocks) /\ blocks \in Seq(Seq(Instr))
        /\ Entry \in DOMAIN blocks /\ e[Entry] = <<>>
    BY <1>1 DEF Sealed
  <2> HIDE DEF S
  <2> QED  BY <2>1
<1>4. Follows(e)'
  BY <1>1, <1>2, <1>3, Enters
<1>5. Sealed(blocks', e, spent')
  BY <1>1, <1>2
<1> QED  BY <1>2, <1>4, <1>5 DEF ExecInv

\* What one step of the run does to pend, as the walk says.
LEMMA StepFollows ==
  ASSUME running = "running", NEW e, Sealed(blocks, e, spent), Follows(e),
         ExecNext, UNCHANGED vars
  PROVE  Follows(e)' /\ running' \in {"running", "returned"}
<1>1. PICK w : /\ Walk(blocks[at], spent, w) /\ Len(w) <= Len(blocks[at])
               /\ Ends(blocks[at][Len(w)], w[Len(w)], e)
               /\ ip \in 1..Len(w) /\ pend = w[ip]
  BY DEF Follows
<1>2. at \in DOMAIN blocks
  BY DEF Follows
<1>3. /\ ip <= Len(blocks[at])
      /\ IF Here.op \in {"br", "condbr", "ret"} THEN ip = Len(w)
         ELSE ip + 1 \in 1..Len(w) /\ Flow(Here, w[ip], w[ip + 1])
  BY <1>1, HereFlows
<1>4. pend \in Debts(spent)
  BY <1>1, WalkTyped
<1>5. ASSUME Here.op \notin {"br", "condbr", "ret"}, Advance, pend' = w[ip + 1],
             running' = running
      PROVE  Follows(e)' /\ running' \in {"running", "returned"}
  BY <1>1, <1>2, <1>5, Advances
<1>6. ASSUME NEW b \in DOMAIN e, GoTo(b), pend' = e[b], running' = running
      PROVE  Follows(e)' /\ running' \in {"running", "returned"}
  BY <1>6, Enters
<1>7. CASE Start
  BY <1>7 DEF Start
<1>8. CASE Plain
  <2>1. Here.op \in {"alloca", "store"} /\ Advance /\ pend' = pend /\ running' = running
    BY <1>8 DEF Plain, Reached
  <2>2. w[ip + 1] = w[ip]
    BY <1>3, <2>1 DEF Flow
  <2> QED  BY <1>1, <1>5, <2>1, <2>2
<1>9. CASE Open
  <2>1. Here.op = "open" /\ Advance /\ pend' = Append(pend, <<>>) /\ running' = running
    BY <1>9 DEF Open, Reached
  <2>2. w[ip + 1] = Append(w[ip], <<>>)
    BY <1>3, <2>1 DEF Flow
  <2> QED  BY <1>1, <1>5, <2>1, <2>2
<1>10. CASE Close
  <2>1. Here.op = "close" /\ Advance /\ pend' = Front(pend) /\ running' = running
    BY <1>10 DEF Close, Reached
  <2>2. w[ip + 1] = Front(w[ip])
    BY <1>3, <2>1 DEF Flow
  <2> QED  BY <1>1, <1>5, <2>1, <2>2
<1>11. CASE Register
  <2>1. /\ Here.op = "reg" /\ Advance /\ running' = running
        /\ pend' = [pend EXCEPT ![Len(pend)] = Append(@, Here.d)]
    BY <1>11 DEF Register, Reached
  <2>2. w[ip + 1] = [w[ip] EXCEPT ![Len(w[ip])] = Append(@, Here.d)]
    BY <1>3, <2>1 DEF Flow
  <2> QED  BY <1>1, <1>5, <2>1, <2>2
<1>12. CASE RunDeferred
  <2>1. /\ Here.op = "run" /\ Advance /\ running' = running
        /\ pend' = IF Newest = 0 THEN pend ELSE [pend EXCEPT ![Newest] = Front(@)]
    BY <1>12 DEF RunDeferred, Reached
  <2>2. PICK k \in DOMAIN pend :
          /\ pend[k] # <<>> /\ \A j \in DOMAIN pend : j > k => pend[j] = <<>>
          /\ w[ip + 1] = [pend EXCEPT ![k] = Front(@)]
    BY <1>1, <1>3, <2>1 DEF Flow
  <2>3. Newest = k /\ Newest # 0
    BY <1>4, <2>2, NewestIs
  <2> QED  BY <1>5, <2>1, <2>2, <2>3
<1>13. CASE Branch
  <2>1. /\ Here.op = "br" /\ GoTo(Here.to) /\ running' = running
        /\ pend' = SubSeq(pend, 1, Len(pend) - Here.leaves)
    BY <1>13 DEF Branch, Reached
  <2>2. Ends(Here, pend, e)
    BY <1>1, <1>3, <2>1 DEF Here
  <2>3. Here.to \in DOMAIN e /\ e[Here.to] = SubSeq(pend, 1, Len(pend) - Here.leaves)
    BY <2>1, <2>2 DEF Ends
  <2> QED  BY <1>6, <2>1, <2>3
<1>14. CASE CondBranch
  <2>1. PICK b \in {Here.then, Here.else} : GoTo(b)
    BY <1>14 DEF CondBranch
  <2>2. Here.op = "condbr" /\ running' = running /\ pend' = pend
    BY <1>14 DEF CondBranch, Reached
  <2>3. Ends(Here, pend, e)
    BY <1>1, <1>3, <2>2 DEF Here
  <2>4. b \in DOMAIN e /\ e[b] = pend
    BY <2>1, <2>2, <2>3 DEF Ends
  <2> QED  BY <1>6, <2>1, <2>2, <2>4
<1>15. CASE Ret
  <2>1. at' = at /\ ip' = ip /\ pend' = pend /\ running' = "returned"
    BY <1>15 DEF Ret
  <2>2. blocks' = blocks /\ spent' = spent
    BY DEF vars
  <2>3. Follows(e)'
    BY <1>1, <1>2, <2>1, <2>2 DEF Follows
  <2> QED  BY <2>1, <2>3
<1> QED  BY <1>7, <1>8, <1>9, <1>10, <1>11, <1>12, <1>13, <1>14, <1>15 DEF ExecNext

LEMMA ExecKeeps ==
  ASSUME AllInv, ExecNext, UNCHANGED vars
  PROVE  AllInv'
<1>1. IInv' /\ CodeInv'
  <2>1. /\ scopes' = scopes /\ storage' = storage /\ calls' = calls
        /\ blocks' = blocks /\ bb' = bb /\ spent' = spent /\ status' = status
    BY DEF vars
  <2>2. IInv /\ CodeInv
    BY DEF AllInv
  <2>3. IInv'
    <3>1. UNCHANGED vars
      OBVIOUS
    <3> QED  BY <2>2, <3>1, NextKeeps
  <2>4. CodeInv'
    BY <2>1, <2>2 DEF CodeInv, Emits
  <2> QED  BY <2>3, <2>4
<1>2. ExecInv'
  <2>1. CASE running = "generating"
    <3>1. Start
      BY <2>1 DEF ExecNext, Plain, Open, Close, Register, RunDeferred, Branch,
                  CondBranch, Ret, Reached
    <3> QED  BY <3>1, StartFollows DEF AllInv
  <2>2. CASE running = "running"
    <3>1. PICK e : Sealed(blocks, e, spent) /\ Follows(e)
      BY <2>2 DEF AllInv, ExecInv
    <3>2. Follows(e)' /\ running' \in {"running", "returned"}
      BY <2>2, <3>1, StepFollows
    <3>3. status' = "done" /\ Sealed(blocks', e, spent')
      BY <2>2, <3>1 DEF AllInv, ExecInv, vars
    <3> QED  BY <3>2, <3>3 DEF ExecInv
  <2>3. CASE running = "returned"
    BY <2>3 DEF ExecNext, Start, Plain, Open, Close, Register, RunDeferred, Branch,
                CondBranch, Ret, Reached
  <2> QED  BY <2>1, <2>2, <2>3 DEF AllInv, ExecInv
<1> QED  BY <1>1, <1>2 DEF AllInv

LEMMA WalkKeeps ==
  ASSUME AllInv, Next, UNCHANGED execVars
  PROVE  AllInv'
<1>1. IInv' /\ CodeInv'
  BY NextKeeps, NextEmits DEF AllInv
<1>2. status = "gen"
  BY NextIsGen DEF AllInv
<1>3. running = "generating" /\ at = 0 /\ ip = 1 /\ pend = <<>>
  BY <1>2 DEF AllInv, ExecInv
<1>4. ExecInv'
  BY <1>3 DEF ExecInv, execVars
<1> QED  BY <1>1, <1>4 DEF AllInv

LEMMA AllInvariance == AllSpec => []AllInv
<1>1. AllInit => AllInv
  <2> SUFFICES ASSUME AllInit PROVE AllInv
    OBVIOUS
  <2>1. IInv
    BY InitKeeps DEF AllInit
  <2>2. Emits /\ status = "gen"
    BY InitEmits DEF AllInit, Init
  <2>3. ExecInv
    BY DEF AllInit, ExecInit, ExecInv
  <2> QED  BY <2>1, <2>2, <2>3 DEF AllInv, CodeInv
<1>2. AllInv /\ [AllNext]_allVars => AllInv'
  <2> SUFFICES ASSUME AllInv, [AllNext]_allVars PROVE AllInv'
    OBVIOUS
  <2>1. CASE Next /\ UNCHANGED execVars
    BY <2>1, WalkKeeps
  <2>2. CASE ExecNext /\ UNCHANGED vars
    BY <2>2, ExecKeeps
  <2>3. CASE UNCHANGED allVars
    <3>1. UNCHANGED vars /\ UNCHANGED execVars
      BY <2>3 DEF allVars
    <3>2. IInv'
      BY <3>1, NextKeeps DEF AllInv
    <3>3. /\ scopes' = scopes /\ storage' = storage /\ calls' = calls
          /\ blocks' = blocks /\ bb' = bb /\ spent' = spent /\ status' = status
          /\ at' = at /\ ip' = ip /\ pend' = pend /\ running' = running
      BY <3>1 DEF vars, execVars
    <3>4. CodeInv' /\ ExecInv'
      BY <3>3 DEF AllInv, CodeInv, Emits, ExecInv, Follows
    <3> QED  BY <3>2, <3>4 DEF AllInv
  <2> QED  BY <2>1, <2>2, <2>3 DEF AllNext
<1> QED  BY <1>1, <1>2, PTL DEF AllSpec

-----------------------------------------------------------------------------
(* What the run was promised                                               *)

\* Where control is, and what is owed there.
LEMMA RunFacts ==
  ASSUME AllInv, running # "generating"
  PROVE  /\ at \in DOMAIN blocks /\ ip \in Nat \ {0} /\ ip <= Len(blocks[at])
         /\ pend \in Debts(spent)
         /\ \/ \E e : Ends(Here, pend, e)
            \/ Here.op \notin {"br", "condbr", "ret"} /\ \E t : Flow(Here, pend, t)
<1>1. PICK e : Follows(e)
  BY DEF AllInv, ExecInv
<1>2. PICK w : /\ Walk(blocks[at], spent, w) /\ Len(w) <= Len(blocks[at])
               /\ Ends(blocks[at][Len(w)], w[Len(w)], e)
               /\ ip \in 1..Len(w) /\ pend = w[ip]
  BY <1>1 DEF Follows
<1>3. Len(w) \in Nat /\ ip \in Nat \ {0} /\ ip <= Len(w)
  BY <1>2 DEF Walk
<1>4. at \in DOMAIN blocks
  BY <1>1 DEF Follows
<1>5. pend \in Debts(spent)
  BY <1>2, WalkTyped
<1>6. ip <= Len(blocks[at])
  <2>1. blocks[at] \in Seq(Instr)
    BY <1>4 DEF AllInv, IInv, TypeOK
  <2> QED  BY <1>2, <1>3, <2>1
<1>7. CASE ip = Len(w)
  BY <1>2, <1>3, <1>4, <1>5, <1>6, <1>7 DEF Here
<1>8. CASE ip # Len(w)
  <2>1. ip \in 1..(Len(w) - 1)
    BY <1>3, <1>8
  <2>2. Flow(Here, pend, w[ip + 1])
    BY <1>2, <2>1 DEF Walk, Here
  <2>3. Here.op \notin {"br", "condbr", "ret"}
    BY <2>2 DEF Flow
  <2> QED  BY <1>3, <1>4, <1>5, <1>6, <2>2, <2>3
<1> QED  BY <1>7, <1>8

(* A run that has started is in a block of the function, at an instruction,  *)
(* and owes only defers that emit_defers was told of: what AstFn::codegen    *)
(* emits can be followed at all.                                             *)
THEOREM ExecTyped == AllSpec => []ExecTypeOK
<1>1. AllInv => ExecTypeOK
  <2> SUFFICES ASSUME AllInv PROVE ExecTypeOK
    OBVIOUS
  <2>1. running \in {"generating", "running", "returned"}
    BY DEF AllInv, ExecInv
  <2>2. CASE running = "generating"
    <3> DEFINE S == Seq(1..spent)
    <3>1. at = 0 /\ ip = 1 /\ pend = <<>>
      BY <2>2 DEF AllInv, ExecInv
    <3>2. pend \in Seq(S)
      BY <3>1
    <3> QED  BY <2>2, <3>1, <3>2 DEF ExecTypeOK
  <2>3. CASE running # "generating"
    <3>1. at \in DOMAIN blocks /\ ip \in Nat \ {0} /\ pend \in Debts(spent)
      BY <2>3, RunFacts
    <3> QED  BY <2>1, <2>3, <3>1 DEF ExecTypeOK, Debts
  <2> QED  BY <2>2, <2>3
<1> QED  BY <1>1, AllInvariance, PTL

(* emit_defers and AstReturnStmt::codegen emit a deferred statement only     *)
(* where it is owed whichever way control came, and the one registered last  *)
(* first: in the code of every function, along every path.                   *)
THEOREM DefersRunNewestFirst == AllSpec => []NewestDeferRunsFirst
<1>1. AllInv => NewestDeferRunsFirst
  <2> SUFFICES ASSUME AllInv, Reached("run")
               PROVE  Newest # 0 /\ Here.d = pend[Newest][Len(pend[Newest])]
    BY DEF NewestDeferRunsFirst
  <2>1. running # "generating" /\ Here.op = "run"
    BY DEF Reached
  <2>2. /\ pend \in Debts(spent)
        /\ \/ \E e : Ends(Here, pend, e)
           \/ \E t : Flow(Here, pend, t)
    BY <2>1, RunFacts
  <2>3. PICK k \in DOMAIN pend :
          /\ pend[k] # <<>> /\ \A j \in DOMAIN pend : j > k => pend[j] = <<>>
          /\ Here.d = pend[k][Len(pend[k])]
    BY <2>1, <2>2 DEF Flow, Ends
  <2>4. Newest = k /\ Newest # 0
    BY <2>2, <2>3, NewestIs
  <2> QED  BY <2>3, <2>4
<1> QED  BY <1>1, AllInvariance, PTL

(* The end of a block statement has run every defer of its scope and a       *)
(* return those of every scope that is open, however the function is nested  *)
(* and whichever branches were taken before.                                 *)
THEOREM EndsOweNothing == AllSpec => []NothingOwedAtEnd
<1>1. AllInv => NothingOwedAtEnd
  <2> SUFFICES ASSUME AllInv PROVE NothingOwedAtEnd
    OBVIOUS
  <2>1. ASSUME Reached("close") PROVE pend[Len(pend)] = <<>>
    <3>1. running # "generating" /\ Here.op = "close"
      BY <2>1 DEF Reached
    <3>2. \/ \E e : Ends(Here, pend, e)
          \/ \E t : Flow(Here, pend, t)
      BY <3>1, RunFacts
    <3> QED  BY <3>1, <3>2 DEF Flow, Ends
  <2>2. ASSUME Reached("ret") PROVE Newest = 0
    <3>1. running # "generating" /\ Here.op = "ret"
      BY <2>2 DEF Reached
    <3>2. \E e : Ends(Here, pend, e)
      BY <3>1, RunFacts
    <3>3. \A k \in DOMAIN pend : pend[k] = <<>>
      BY <3>1, <3>2 DEF Ends
    <3> QED  BY <3>3, NewestNone
  <2> QED  BY <2>1, <2>2 DEF NothingOwedAtEnd
<1> QED  BY <1>1, AllInvariance, PTL

(* Every block that a run can come to has a terminator: the arms of an if,   *)
(* the post and else blocks of a loop, what follows a break, and the last    *)
(* block, which AstFn::codegen gives an implicit return.                     *)
THEOREM BlocksDoNotFallThrough == AllSpec => []NoBlockFallsThrough
<1>1. AllInv => NoBlockFallsThrough
  <2> SUFFICES ASSUME AllInv, running = "running" PROVE ip <= Len(blocks[at])
    BY DEF NoBlockFallsThrough
  <2> QED  BY RunFacts
<1> QED  BY <1>1, AllInvariance, PTL

=============================================================================
