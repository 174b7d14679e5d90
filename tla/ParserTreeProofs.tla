-------------------------- MODULE ParserTreeProofs --------------------------
(***************************************************************************)
(* The brackets, the tree and the attributes of the parser, for texts of   *)
(* any length.                                                             *)
(*                                                                         *)
(* What the active calls still have to do determines what they may count   *)
(* on: which brackets are open, how many nodes wait and how tightly they   *)
(* bind at least, what the next token may be, what is in the attribute     *)
(* arrays.  A shape says as much.  Every item of todo takes one shape to   *)
(* another, and todo as a whole takes a shape the parser fits to the empty *)
(* one: that is the invariant.  It holds because what a function puts in   *)
(* the place of its call takes the same shape to the same shape as the     *)
(* call, which is shown rule by rule.                                      *)
(*                                                                         *)
(* At the end, why the parser ends: a call costs more than what it puts in *)
(* its place, and every loop consumes a token.                             *)
(***************************************************************************)
EXTENDS ParserProofs, WellFoundedInduction

Openers == {"LPAREN", "LBRACKET", "LBRACE"}
Closers == {"RPAREN", "RBRACKET", "RBRACE"}

\* Attributes before these are not given to what follows.
Takers == {"LPAREN", "KW_MODULE", "KW_IMPORT", "KW_EFFECT"}

\* What an array may hold: nothing or a list before a taker (spent), a list just parsed
\* (new), or one that a given token was behind.
Settled == Tokens \union {"spent"}
Statuses == Settled \union {"new"}

Shapes == [open : Seq(Tokens), low : Seq(Nat), next : SUBSET Tokens, held : Seq(Statuses)]
Shape(o, l, m, h) == [open |-> o, low |-> l, next |-> m, held |-> h]

Push(s, x) == Append(s, x)

\* A shape promises no less than another.
Promises(s, r) ==
  /\ s.open = r.open /\ s.held = r.held
  /\ Len(s.low) = Len(r.low)
  /\ \A i \in 1..Len(s.low) : s.low[i] >= r.low[i]
  /\ s.next \subseteq r.next

\* What is known once the next token is t.
Fresh(t) == IF t \in Takers THEN "spent" ELSE t
Seen(s, t) ==
  Shape(s.open, s.low, {t},
        IF s.held # <<>> /\ Last(s.held) = "new" THEN Push(Front(s.held), Fresh(t)) ELSE s.held)

-----------------------------------------------------------------------------
(* What the items of todo do to a shape.                                   *)

\* Functions that make a node, and how tightly it binds.
Makers == {"expr", "unary_expr", "postfix_expr", "primary_expr", "type_expr", "var_expr",
  "selector_expr", "int_expr", "flt_expr", "str_expr", "chr_expr", "bool_expr", "tuple_expr",
  "type", "ident_type", "tuple_type", "group_type", "varargs_type", "ptr_type", "atom_type",
  "bracket_type", "fn_type"}
Binds(f) ==
  CASE f \in {"expr", "type"} -> 0
    [] f = "unary_expr" -> Unary
    [] f = "postfix_expr" -> Postfix
    [] OTHER -> Primary

\* Functions that put another node in the place of the newest.
Movers == {"effect_ref", "postfix_loop", "index_expr", "call_expr"}

\* Functions that leave things as they are.
Others == {"no_trailing_comma", "args_type", "enum_init", "more_args", "effects", "ret",
  "stmt", "block_stmt", "stmts", "return_stmt", "return_value", "defer_stmt", "break_stmt",
  "continue_stmt", "if_stmt", "init", "else_if", "else_arm", "let_stmt", "using_stmt",
  "for_stmt", "for_expr", "for_post", "post_stmt", "for_else", "expr_stmt", "assignment",
  "fn", "typedef", "module", "import", "effect", "attrs"}

\* The innermost array, one that was there before the call, is dealt with or about to be.
Handed(s, statuses) ==
  s.held # <<>> /\ Front(s.held) \in Seq(Settled) /\ Last(s.held) \in statuses

\* The n newest nodes give way to one that binds so.
Instead(l, n, k) == Push(SubSeq(l, 1, Len(l) - n), k)

Adds(s, q, k) == q = Shape(s.open, Push(s.low, k), Tokens, s.held)
Stays(s, q) == q = Shape(s.open, s.low, Tokens, s.held)
Moves(s, q, n, k) == Len(s.low) >= n /\ q = Shape(s.open, Instead(s.low, n, k), Tokens, s.held)

CallDoes(f, n, s, q) ==
  \/ /\ f \in Makers \/ (f = "agg_expr" /\ n = 0)
     /\ f = "bool_expr" => s.next \subseteq {"KW_TRUE", "KW_FALSE"}
     /\ s.held \in Seq(Settled)
     /\ Adds(s, q, Binds(f))
  \/ /\ f \in Movers \/ (f = "agg_expr" /\ n = 1)
     /\ s.held \in Seq(Settled)
     /\ s.low # <<>> /\ Last(s.low) >= Postfix
     /\ Moves(s, q, 1, Postfix)
  \/ /\ f \in Others
     /\ s.held \in Seq(Settled)
     /\ Stays(s, q)
  \/ /\ f = "in_brackets"
     /\ s.held \in Seq(Settled)
     /\ s.open # <<>> /\ Last(s.open) = "LBRACKET"
     /\ q = Shape(Front(s.open), Push(s.low, Primary), Tokens, s.held)
  \/ /\ f = "name_or_elem"
     /\ s.held \in Seq(Settled)
     /\ s.low # <<>>
     /\ q = Shape(s.open, Front(s.low), Tokens, s.held)
  \/ /\ \/ f = "alternative" /\ Handed(s, {"new", "spent"})
        \/ f = "at_type" /\ Handed(s, {"AT", "spent"})
        \/ f = "union" /\ n > 0 /\ Handed(s, {"spent"})
     /\ Len(s.low) >= n
     /\ q = Shape(s.open, Instead(s.low, n, 0), Tokens, Front(s.held))
  \/ /\ f \in {"only_let", "unit"}
     /\ Handed(s, {"new", "spent"})
     /\ q = Shape(s.open, s.low, Tokens, Front(s.held))

\* A list is parsed inside its brackets; effects are in none.
ListDoes(list, s, q) ==
  /\ list \in Lists
  /\ s.held \in Seq(Settled)
  /\ list # "effects" => s.open # <<>> /\ Last(s.open) = Match[Closer(list)]
  /\ q = Shape(IF list = "effects" THEN s.open ELSE Front(s.open),
               IF list = "tuple_expr" THEN Push(s.low, Primary) ELSE s.low, Tokens, s.held)

\* The next token is no operator that binds tighter than k.
UpTo(k) == {t \in Tokens : Prec(t) <= k}

RhsDoes(n, s, q) ==
  /\ s.held \in Seq(Settled)
  /\ s.low # <<>> /\ Last(s.low) >= n
  /\ \A t \in s.next : Prec(t) <= Last(s.low)
  /\ q = Shape(s.open, Instead(s.low, 1, n), UpTo(n - 1), s.held)

TighterDoes(op, s, q) ==
  /\ op \in Tokens /\ Prec(op) >= 0
  /\ s.held \in Seq(Settled)
  /\ s.low # <<>> /\ Last(s.low) >= Unary
  /\ q = Shape(s.open, Instead(s.low, 1, Prec(op) + 1), UpTo(Prec(op)), s.held)

\* The end of the text is never asked for.
TakeDoes(t, s, q) ==
  /\ t \in Tokens \ {"END"}
  /\ t \in Closers => s.open # <<>> /\ Last(s.open) = Match[t]
  /\ q = Shape(CASE t \in Openers -> Push(s.open, t)
                 [] t \in Closers -> Front(s.open)
                 [] OTHER -> s.open, s.low, Tokens, s.held)

MakeDoes(kind, n, s, q) ==
  /\ kind \in NodeKinds \ {"binary"}
  /\ Len(s.low) >= n
  /\ kind = "postfix" => n > 0 /\ s.low[Len(s.low) - n + 1] >= Postfix
  /\ kind = "unary" => n > 0 /\ s.low[Len(s.low) - n + 1] >= Unary
  /\ Moves(s, q, n, CASE kind = "postfix" -> Postfix [] kind = "unary" -> Unary
                      [] OTHER -> Primary)

\* The next token has been looked at, and stays.
BinaryDoes(p, s, q) ==
  /\ Len(s.low) >= 2
  /\ s.low[Len(s.low) - 1] >= p /\ s.low[Len(s.low)] > p
  /\ q = Shape(s.open, Instead(s.low, 2, p), s.next, s.held)

DropDoes(s, q) == s.low # <<>> /\ q = Shape(s.open, Front(s.low), Tokens, s.held)

HoldDoes(s, q) ==
  /\ s.held \in Seq(Settled)
  /\ q = Shape(s.open, s.low, Tokens, Push(s.held, "spent"))
KeepDoes(s, q) ==
  /\ s.held # <<>> /\ s.held \in Seq(Settled)
  /\ q = Shape(s.open, s.low, Tokens, Push(Front(s.held), "new"))
GiveDoes(what, s, q) ==
  /\ what \in Tokens \union {"union"}
  /\ s.held # <<>> /\ s.held \in Seq(Settled)
  /\ Last(s.held) \in {what, "spent"}
  /\ q = Shape(s.open, s.low, Tokens, Push(Front(s.held), "spent"))
ReleaseDoes(s, q) ==
  /\ s.held # <<>> /\ s.held \in Seq(Settled)
  /\ q = Shape(s.open, s.low, Tokens, Front(s.held))

DoDoes(what, s, q) ==
  IF what = "attr_args" THEN DropDoes(s, q)
  ELSE what \in Steps /\ s.held \in Seq(Settled) /\ Stays(s, q)

Does(item, s, q) ==
  /\ s \in Shapes /\ q \in Shapes
  /\ CASE item.do = "call" -> CallDoes(item.what, item.n, s, q)
       [] item.do \in {"list", "comma"} -> ListDoes(item.what, s, q)
       [] item.do = "rhs" -> RhsDoes(item.n, s, q)
       [] item.do = "tighter" -> TighterDoes(item.what, s, q)
       [] item.do = "take" -> TakeDoes(item.what, s, q)
       [] item.do = "make" -> MakeDoes(item.what, item.n, s, q)
       [] item.do = "binary" -> BinaryDoes(item.n, s, q)
       [] item.do = "drop" -> DropDoes(s, q)
       [] item.do = "fail" -> TRUE
       [] item.do = "hold" -> HoldDoes(s, q)
       [] item.do = "keep" -> KeepDoes(s, q)
       [] item.do = "give" -> GiveDoes(item.what, s, q)
       [] item.do = "release" -> ReleaseDoes(s, q)
       [] item.do = "undefer" -> Stays(s, q)
       [] OTHER -> DoDoes(item.what, s, q)

\* One item takes s to r, or to what promises r.
Leads(item, s, r) == r \in Shapes /\ \E q \in Shapes : Does(item, s, q) /\ Promises(q, r)

\* The items of a sequence do, one after the other.
Runs(items, s, r) ==
  \E f \in [0..Len(items) -> Shapes] :
    /\ f[0] = s /\ f[Len(items)] = r
    /\ \A i \in 1..Len(items) : Leads(items[i], f[i - 1], f[i])

\* What is put in the place of a call that takes s to r.
Stands(items, s, r) == \E s1 \in Shapes : Promises(s, s1) /\ Runs(items, s1, r)

-----------------------------------------------------------------------------
(* Runs.                                                                   *)

LEMMA PromisesItself == \A s \in Shapes : Promises(s, s)
  BY DEF Shapes, Promises

LEMMA PromisesMore ==
  ASSUME NEW s \in Shapes, NEW q \in Shapes, NEW r \in Shapes, Promises(s, q), Promises(q, r)
  PROVE  Promises(s, r)
  <1>1. \A i \in 1..Len(s.low) : s.low[i] \in Nat /\ q.low[i] \in Nat /\ r.low[i] \in Nat
    BY DEF Shapes, Promises
  <1>2. QED
    BY <1>1 DEF Promises

LEMMA RunsNothing ==
  ASSUME NEW s \in Shapes
  PROVE  Runs(<<>>, s, s)
  <1> DEFINE f == [i \in 0..0 |-> s]
  <1>1. f \in [0..Len(<<>>) -> Shapes] /\ f[0] = s /\ f[Len(<<>>)] = s /\ 1..Len(<<>>) = {}
    OBVIOUS
  <1>2. QED
    BY <1>1 DEF Runs

LEMMA LeadsShapes ==
  ASSUME NEW item, NEW s, NEW r, Leads(item, s, r)
  PROVE  s \in Shapes /\ r \in Shapes
  BY DEF Leads, Does

LEMMA RunsOne ==
  ASSUME NEW a, NEW s, NEW r, Leads(a, s, r)
  PROVE  Runs(<<a>>, s, r)
  <1> DEFINE f == [i \in 0..1 |-> IF i = 0 THEN s ELSE r]
             items == <<a>>
  <1>1. Len(items) = 1 /\ items[1] = a
    OBVIOUS
  <1>2. f \in [0..1 -> Shapes] /\ f[0] = s /\ f[1] = r
    BY LeadsShapes
  <1> HIDE DEF f, items
  <1>3. \A i \in 1..1 : i = 1 /\ i - 1 = 0
    OBVIOUS
  <1>4. Runs(items, s, r)
    BY <1>1, <1>2, <1>3 DEF Runs
  <1>5. QED
    BY <1>4 DEF items

LEMMA RunsJoined ==
  ASSUME NEW a \in Seq(Items), NEW b \in Seq(Items),
         NEW s \in Shapes, NEW q \in Shapes, NEW r \in Shapes, Runs(a, s, q), Runs(b, q, r)
  PROVE  Runs(a \o b, s, r)
  <1>1. PICK f \in [0..Len(a) -> Shapes] :
          /\ f[0] = s /\ f[Len(a)] = q
          /\ \A i \in 1..Len(a) : Leads(a[i], f[i - 1], f[i])
    BY DEF Runs
  <1>2. PICK g \in [0..Len(b) -> Shapes] :
          /\ g[0] = q /\ g[Len(b)] = r
          /\ \A i \in 1..Len(b) : Leads(b[i], g[i - 1], g[i])
    BY DEF Runs
  <1> DEFINE n == Len(a)
             k == Len(b)
             h == [i \in 0..n + k |-> IF i <= n THEN f[i] ELSE g[i - n]]
             c == a \o b
  <1>3. n \in Nat /\ k \in Nat /\ Len(c) = n + k
    OBVIOUS
  <1>4. /\ \A i \in 1..n : c[i] = a[i]
        /\ \A i \in n + 1..n + k : c[i] = b[i - n]
    OBVIOUS
  <1> HIDE DEF n, k, c
  <1>5. h \in [0..n + k -> Shapes]
    <2>0. f \in [0..n -> Shapes] /\ g \in [0..k -> Shapes]
      BY <1>1, <1>2 DEF n, k
    <2>1. ASSUME NEW i \in 0..n + k PROVE (IF i <= n THEN f[i] ELSE g[i - n]) \in Shapes
      <3>1. CASE i <= n
        <4>1. i \in 0..n
          BY <1>3, <3>1
        <4>2. QED
          BY <2>0, <3>1, <4>1
      <3>2. CASE ~(i <= n)
        <4>1. i - n \in 0..k
          BY <1>3, <3>2
        <4>2. QED
          BY <2>0, <3>2, <4>1
      <3>3. QED
        BY <3>1, <3>2
    <2>2. QED
      BY <2>1
  <1>6. h[0] = s
    BY <1>1, <1>3
  <1>7. h[n + k] = r
    <2>1. CASE k = 0
      <3>1. n + k = n /\ n \in 0..n + k
        BY <2>1, <1>3
      <3>2. h[n] = f[n]
        BY <3>1, <1>3
      <3>3. f[n] = q /\ g[k] = r
        BY <1>1, <1>2 DEF n, k
      <3>4. g[0] = q
        BY <1>2
      <3>5. QED
        BY <2>1, <3>1, <3>2, <3>3, <3>4
    <2>2. CASE k # 0
      <3>1. n + k \in 0..n + k /\ ~(n + k <= n) /\ (n + k) - n = k
        BY <2>2, <1>3
      <3>2. QED
        BY <3>1, <1>2 DEF k
    <2>3. QED
      BY <2>1, <2>2
  <1>8. ASSUME NEW i \in 1..n + k PROVE Leads(c[i], h[i - 1], h[i])
    <2>1. CASE i <= n
      <3>1. i \in 1..n /\ i \in 0..n + k /\ i - 1 \in 0..n + k /\ i - 1 <= n
        BY <2>1, <1>3
      <3>2. h[i] = f[i] /\ h[i - 1] = f[i - 1] /\ c[i] = a[i]
        BY <2>1, <3>1, <1>4
      <3>3. Leads(a[i], f[i - 1], f[i])
        BY <1>1, <3>1 DEF n
      <3>4. QED
        BY <3>2, <3>3
    <2>2. CASE ~(i <= n)
      <3>1. /\ i \in n + 1..n + k /\ i \in 0..n + k /\ i - 1 \in 0..n + k
            /\ i - n \in 1..k /\ (i - n) - 1 = (i - 1) - n
        BY <2>2, <1>3
      <3>2. h[i] = g[i - n] /\ c[i] = b[i - n]
        BY <2>2, <3>1, <1>4
      <3>3. h[i - 1] = g[(i - n) - 1]
        <4>1. CASE i - 1 <= n
          <5>1. i - 1 = n /\ (i - n) - 1 = 0
            BY <2>2, <4>1, <1>3
          <5>2. h[i - 1] = f[n]
            BY <4>1, <5>1, <3>1
          <5>3. QED
            BY <5>1, <5>2, <1>1, <1>2 DEF n
        <4>2. CASE ~(i - 1 <= n)
          BY <4>2, <3>1
        <4>3. QED
          BY <4>1, <4>2
      <3>4. Leads(b[i - n], g[(i - n) - 1], g[i - n])
        BY <1>2, <3>1 DEF k
      <3>5. QED
        BY <3>2, <3>3, <3>4
    <2>3. QED
      BY <2>1, <2>2
  <1> HIDE DEF h
  <1>9. Runs(c, s, r)
    BY <1>3, <1>5, <1>6, <1>7, <1>8 DEF Runs
  <1>10. QED
    BY <1>9 DEF c

LEMMA RunsApart ==
  ASSUME NEW items \in Seq(Items), items # <<>>, NEW s \in Shapes, NEW r \in Shapes,
         Runs(items, s, r)
  PROVE  \E q \in Shapes : Leads(Head(items), s, q) /\ Runs(Tail(items), q, r)
  <1>1. PICK f \in [0..Len(items) -> Shapes] :
          /\ f[0] = s /\ f[Len(items)] = r
          /\ \A i \in 1..Len(items) : Leads(items[i], f[i - 1], f[i])
    BY DEF Runs
  <1> DEFINE n == Len(items)
             rest == Tail(items)
             g == [i \in 0..n - 1 |-> f[i + 1]]
  <1>2. /\ n \in Nat /\ n >= 1 /\ Len(rest) = n - 1 /\ Head(items) = items[1]
        /\ \A i \in 1..n - 1 : rest[i] = items[i + 1]
    OBVIOUS
  <1>3. f \in [0..n -> Shapes] /\ f[n] = r /\ \A i \in 1..n : Leads(items[i], f[i - 1], f[i])
    BY <1>1
  <1> HIDE DEF n, rest
  <1>4. g \in [0..n - 1 -> Shapes] /\ g[0] = f[1] /\ g[n - 1] = f[n]
    BY <1>2, <1>3
  <1>5. Leads(Head(items), s, f[1]) /\ f[1] \in Shapes
    <2>1. 1 \in 1..n /\ 1 - 1 = 0 /\ 1 \in 0..n
      BY <1>2
    <2>2. QED
      BY <2>1, <1>1, <1>2, <1>3
  <1>6. ASSUME NEW i \in 1..n - 1 PROVE Leads(rest[i], g[i - 1], g[i])
    <2>1. /\ i + 1 \in 1..n /\ (i + 1) - 1 = i /\ i \in 0..n - 1 /\ i - 1 \in 0..n - 1
          /\ (i - 1) + 1 = i
      BY <1>2
    <2>2. g[i] = f[i + 1] /\ g[i - 1] = f[i]
      BY <2>1
    <2>3. QED
      BY <2>1, <2>2, <1>2, <1>3
  <1> HIDE DEF g
  <1>7. Runs(rest, f[1], r)
    BY <1>2, <1>3, <1>4, <1>6 DEF Runs
  <1>8. QED
    BY <1>5, <1>7 DEF rest

LEMMA RunsEnd ==
  ASSUME NEW s, NEW r, Runs(<<>>, s, r)
  PROVE  s = r
  <1>1. Len(<<>>) = 0
    OBVIOUS
  <1>2. QED
    BY <1>1 DEF Runs

LEMMA RunsTwo ==
  ASSUME NEW a, NEW b,
         NEW s0, NEW s1, NEW s2,
         Leads(a, s0, s1), Leads(b, s1, s2)
  PROVE  Runs(<<a, b>>, s0, s2)
  <1> DEFINE items == <<a, b>>
             shape == [i \in 0..2 |-> CASE i = 0 -> s0 [] i = 1 -> s1 [] OTHER -> s2]
  <1>1. s0 \in Shapes /\ s1 \in Shapes /\ s2 \in Shapes
    BY LeadsShapes
  <1>2. Len(items) = 2 /\ items[1] = a /\ items[2] = b
    OBVIOUS
  <1>3. shape \in [0..2 -> Shapes] /\ shape[0] = s0 /\ shape[1] = s1 /\ shape[2] = s2
    BY <1>1
  <1> HIDE DEF shape, items
  <1>4. \A i \in 1..2 : (i = 1 /\ i - 1 = 0) \/ (i = 2 /\ i - 1 = 1)
    OBVIOUS
  <1>5. Runs(items, s0, s2)
    BY <1>2, <1>3, <1>4 DEF Runs
  <1>6. QED
    BY <1>5 DEF items

LEMMA RunsThree ==
  ASSUME NEW a, NEW b, NEW c,
         NEW s0, NEW s1, NEW s2, NEW s3,
         Leads(a, s0, s1), Leads(b, s1, s2), Leads(c, s2, s3)
  PROVE  Runs(<<a, b, c>>, s0, s3)
  <1> DEFINE items == <<a, b, c>>
             shape == [i \in 0..3 |-> CASE i = 0 -> s0 [] i = 1 -> s1 [] i = 2 -> s2
                                           [] OTHER -> s3]
  <1>1. s0 \in Shapes /\ s1 \in Shapes /\ s2 \in Shapes /\ s3 \in Shapes
    BY LeadsShapes
  <1>2. Len(items) = 3 /\ items[1] = a /\ items[2] = b /\ items[3] = c
    OBVIOUS
  <1>3. shape \in [0..3 -> Shapes] /\ shape[0] = s0 /\ shape[1] = s1 /\ shape[2] = s2
        /\ shape[3] = s3
    BY <1>1
  <1> HIDE DEF shape, items
  <1>4. \A i \in 1..3 : (i = 1 /\ i - 1 = 0) \/ (i = 2 /\ i - 1 = 1) \/ (i = 3 /\ i - 1 = 2)
    OBVIOUS
  <1>5. Runs(items, s0, s3)
    BY <1>2, <1>3, <1>4 DEF Runs
  <1>6. QED
    BY <1>5 DEF items

LEMMA RunsFour ==
  ASSUME NEW a, NEW b, NEW c, NEW d,
         NEW s0, NEW s1, NEW s2, NEW s3, NEW s4,
         Leads(a, s0, s1), Leads(b, s1, s2), Leads(c, s2, s3), Leads(d, s3, s4)
  PROVE  Runs(<<a, b, c, d>>, s0, s4)
  <1> DEFINE items == <<a, b, c, d>>
             shape == [i \in 0..4 |-> CASE i = 0 -> s0 [] i = 1 -> s1 [] i = 2 -> s2
                                           [] i = 3 -> s3 [] OTHER -> s4]
  <1>1. s0 \in Shapes /\ s1 \in Shapes /\ s2 \in Shapes /\ s3 \in Shapes /\ s4 \in Shapes
    BY LeadsShapes
  <1>2. Len(items) = 4 /\ items[1] = a /\ items[2] = b /\ items[3] = c /\ items[4] = d
    OBVIOUS
  <1>3. shape \in [0..4 -> Shapes] /\ shape[0] = s0 /\ shape[1] = s1 /\ shape[2] = s2
        /\ shape[3] = s3 /\ shape[4] = s4
    BY <1>1
  <1> HIDE DEF shape, items
  <1>4. \A i \in 1..4 : (i = 1 /\ i - 1 = 0) \/ (i = 2 /\ i - 1 = 1) \/ (i = 3 /\ i - 1 = 2)
                        \/ (i = 4 /\ i - 1 = 3)
    OBVIOUS
  <1>5. Runs(items, s0, s4)
    BY <1>2, <1>3, <1>4 DEF Runs
  <1>6. QED
    BY <1>5 DEF items

LEMMA RunsFive ==
  ASSUME NEW a, NEW b, NEW c, NEW d, NEW e,
         NEW s0, NEW s1, NEW s2, NEW s3, NEW s4, NEW s5,
         Leads(a, s0, s1), Leads(b, s1, s2), Leads(c, s2, s3), Leads(d, s3, s4)
         , Leads(e, s4, s5)
  PROVE  Runs(<<a, b, c, d, e>>, s0, s5)
  <1> DEFINE items == <<a, b, c, d, e>>
             shape == [i \in 0..5 |-> CASE i = 0 -> s0 [] i = 1 -> s1 [] i = 2 -> s2
                                           [] i = 3 -> s3 [] i = 4 -> s4 [] OTHER -> s5]
  <1>1. {s0, s1, s2, s3, s4, s5} \subseteq Shapes
    BY LeadsShapes
  <1>2. Len(items) = 5 /\ items[1] = a /\ items[2] = b /\ items[3] = c /\ items[4] = d
        /\ items[5] = e
    OBVIOUS
  <1>3. shape \in [0..5 -> Shapes] /\ shape[0] = s0 /\ shape[1] = s1 /\ shape[2] = s2
        /\ shape[3] = s3 /\ shape[4] = s4 /\ shape[5] = s5
    BY <1>1
  <1> HIDE DEF shape, items
  <1>4. \A i \in 1..5 : (i = 1 /\ i - 1 = 0) \/ (i = 2 /\ i - 1 = 1) \/ (i = 3 /\ i - 1 = 2)
                        \/ (i = 4 /\ i - 1 = 3) \/ (i = 5 /\ i - 1 = 4)
    OBVIOUS
  <1>5. Runs(items, s0, s5)
    BY <1>2, <1>3, <1>4 DEF Runs
  <1>6. QED
    BY <1>5 DEF items

LEMMA RunsSix ==
  ASSUME NEW a, NEW b, NEW c, NEW d, NEW e, NEW f,
         NEW s0, NEW s1, NEW s2, NEW s3, NEW s4, NEW s5, NEW s6,
         Leads(a, s0, s1), Leads(b, s1, s2), Leads(c, s2, s3), Leads(d, s3, s4)
         , Leads(e, s4, s5), Leads(f, s5, s6)
  PROVE  Runs(<<a, b, c, d, e, f>>, s0, s6)
  <1> DEFINE items == <<a, b, c, d, e, f>>
             shape == [i \in 0..6 |-> CASE i = 0 -> s0 [] i = 1 -> s1 [] i = 2 -> s2
                                           [] i = 3 -> s3 [] i = 4 -> s4 [] i = 5 -> s5
                                           [] OTHER -> s6]
  <1>1. {s0, s1, s2, s3, s4, s5, s6} \subseteq Shapes
    BY LeadsShapes
  <1>2. Len(items) = 6 /\ items[1] = a /\ items[2] = b /\ items[3] = c /\ items[4] = d
        /\ items[5] = e /\ items[6] = f
    OBVIOUS
  <1>3. shape \in [0..6 -> Shapes] /\ shape[0] = s0 /\ shape[1] = s1 /\ shape[2] = s2
        /\ shape[3] = s3 /\ shape[4] = s4 /\ shape[5] = s5 /\ shape[6] = s6
    BY <1>1
  <1> HIDE DEF shape, items
  <1>4. \A i \in 1..6 : (i = 1 /\ i - 1 = 0) \/ (i = 2 /\ i - 1 = 1) \/ (i = 3 /\ i - 1 = 2)
                        \/ (i = 4 /\ i - 1 = 3) \/ (i = 5 /\ i - 1 = 4) \/ (i = 6 /\ i - 1 = 5)
    OBVIOUS
  <1>5. Runs(items, s0, s6)
    BY <1>2, <1>3, <1>4 DEF Runs
  <1>6. QED
    BY <1>5 DEF items

LEMMA RunsSeven ==
  ASSUME NEW a, NEW b, NEW c, NEW d, NEW e, NEW f, NEW g,
         NEW s0, NEW s1, NEW s2, NEW s3, NEW s4, NEW s5, NEW s6, NEW s7,
         Leads(a, s0, s1), Leads(b, s1, s2), Leads(c, s2, s3), Leads(d, s3, s4)
         , Leads(e, s4, s5), Leads(f, s5, s6), Leads(g, s6, s7)
  PROVE  Runs(<<a, b, c, d, e, f, g>>, s0, s7)
  <1> DEFINE items == <<a, b, c, d, e, f, g>>
             shape == [i \in 0..7 |-> CASE i = 0 -> s0 [] i = 1 -> s1 [] i = 2 -> s2
                                           [] i = 3 -> s3 [] i = 4 -> s4 [] i = 5 -> s5
                                           [] i = 6 -> s6 [] OTHER -> s7]
  <1>1. {s0, s1, s2, s3, s4, s5, s6, s7} \subseteq Shapes
    BY LeadsShapes
  <1>2. Len(items) = 7 /\ items[1] = a /\ items[2] = b /\ items[3] = c /\ items[4] = d
        /\ items[5] = e /\ items[6] = f /\ items[7] = g
    OBVIOUS
  <1>3. shape \in [0..7 -> Shapes] /\ shape[0] = s0 /\ shape[1] = s1 /\ shape[2] = s2
        /\ shape[3] = s3 /\ shape[4] = s4 /\ shape[5] = s5 /\ shape[6] = s6 /\ shape[7] = s7
    BY <1>1
  <1> HIDE DEF shape, items
  <1>4. \A i \in 1..7 : (i = 1 /\ i - 1 = 0) \/ (i = 2 /\ i - 1 = 1) \/ (i = 3 /\ i - 1 = 2)
                        \/ (i = 4 /\ i - 1 = 3) \/ (i = 5 /\ i - 1 = 4) \/ (i = 6 /\ i - 1 = 5)
                        \/ (i = 7 /\ i - 1 = 6)
    OBVIOUS
  <1>5. Runs(items, s0, s7)
    BY <1>2, <1>3, <1>4 DEF Runs
  <1>6. QED
    BY <1>5 DEF items

LEMMA LeadsLess ==
  ASSUME NEW item, NEW s, NEW q \in Shapes, NEW r \in Shapes, Leads(item, s, q), Promises(q, r)
  PROVE  Leads(item, s, r)
  BY PromisesMore DEF Leads

LEMMA RunsLess ==
  ASSUME NEW items \in Seq(Items), items # <<>>, NEW s \in Shapes, NEW q \in Shapes,
         NEW r \in Shapes, Runs(items, s, q), Promises(q, r)
  PROVE  Runs(items, s, r)
  <1>1. PICK f \in [0..Len(items) -> Shapes] :
          /\ f[0] = s /\ f[Len(items)] = q
          /\ \A i \in 1..Len(items) : Leads(items[i], f[i - 1], f[i])
    BY DEF Runs
  <1> DEFINE n == Len(items)
             g == [i \in 0..n |-> IF i = n THEN r ELSE f[i]]
  <1>2. n \in Nat /\ n >= 1
    OBVIOUS
  <1>3. f \in [0..n -> Shapes] /\ f[n] = q /\ \A i \in 1..n : Leads(items[i], f[i - 1], f[i])
    BY <1>1
  <1> HIDE DEF n
  <1>4. g \in [0..n -> Shapes] /\ g[0] = s /\ g[n] = r
    BY <1>1, <1>2, <1>3
  <1>5. ASSUME NEW i \in 1..n PROVE Leads(items[i], g[i - 1], g[i])
    <2>1. i - 1 \in 0..n /\ i - 1 # n /\ i \in 0..n
      BY <1>2
    <2>2. g[i - 1] = f[i - 1] /\ Leads(items[i], f[i - 1], f[i])
      BY <2>1, <1>3
    <2>3. CASE i = n
      BY <2>1, <2>2, <2>3, <1>3, LeadsLess
    <2>4. CASE i # n
      BY <2>1, <2>2, <2>4
    <2>5. QED
      BY <2>3, <2>4
  <1> HIDE DEF g
  <1>6. QED
    BY <1>4, <1>5 DEF Runs, n

LEMMA StandsLess ==
  ASSUME NEW items \in Seq(Items), NEW s \in Shapes, NEW q \in Shapes, NEW r \in Shapes,
         Stands(items, s, q), Promises(q, r)
  PROVE  Stands(items, s, r)
  <1>1. PICK s1 \in Shapes : Promises(s, s1) /\ Runs(items, s1, q)
    BY DEF Stands
  <1>2. CASE items = <<>>
    <2>1. s1 = q
      BY <1>1, <1>2, RunsEnd
    <2>2. Promises(s, r)
      BY <1>1, <2>1, PromisesMore
    <2>3. QED
      BY <1>2, <2>2, RunsNothing DEF Stands
  <1>3. CASE items # <<>>
    BY <1>1, <1>3, RunsLess DEF Stands
  <1>4. QED
    BY <1>2, <1>3

LEMMA StandsIfRuns ==
  ASSUME NEW items, NEW s \in Shapes, NEW r \in Shapes, Runs(items, s, r)
  PROVE  Stands(items, s, r)
  BY PromisesItself DEF Stands

LEMMA StandsNothing ==
  ASSUME NEW s \in Shapes, NEW r \in Shapes, Promises(s, r)
  PROVE  Stands(<<>>, s, r)
  BY RunsNothing DEF Stands

-----------------------------------------------------------------------------
(* What each item does to what is pushed.                                  *)

\* A shape when nothing is known about the next token.
Now(o, l, h) == Shape(o, l, Tokens, h)

\* Tokens that are no brackets.
Words == Tokens \ (Openers \union Closers \union {"END"})

LEMMA StatusSorts ==
  /\ Seq(Settled) \subseteq Seq(Statuses)
  /\ Tokens \subseteq Settled /\ Settled \subseteq Statuses
  /\ "spent" \in Settled /\ "new" \in Statuses
  BY DEF Settled, Statuses

LEMMA BracketTokens ==
  /\ Openers \subseteq Tokens /\ Closers \subseteq Tokens
  /\ Openers \intersect Closers = {}
  /\ Match["RPAREN"] = "LPAREN" /\ Match["RBRACKET"] = "LBRACKET" /\ Match["RBRACE"] = "LBRACE"
  BY DEF Openers, Closers, Tokens, Match

LEMMA Appended ==
  ASSUME NEW S, NEW s \in Seq(S), NEW x \in S
  PROVE  /\ Append(s, x) \in Seq(S) /\ Append(s, x) # <<>>
         /\ Len(Append(s, x)) = Len(s) + 1
         /\ Append(s, x)[Len(s) + 1] = x
         /\ \A i \in 1..Len(s) : Append(s, x)[i] = s[i]
         /\ SubSeq(Append(s, x), 1, Len(s)) = s
  <1>1. /\ Append(s, x) \in Seq(S) /\ Append(s, x) # <<>>
        /\ Len(Append(s, x)) = Len(s) + 1
        /\ Append(s, x)[Len(s) + 1] = x
        /\ \A i \in 1..Len(s) : Append(s, x)[i] = s[i]
    OBVIOUS
  <1> DEFINE a == Append(s, x)
             b == SubSeq(a, 1, Len(s))
  <1>2. b \in Seq(S) /\ Len(b) = Len(s) /\ \A i \in 1..Len(s) : b[i] = a[i]
    OBVIOUS
  <1>3. b = s
    <2>1. \A i \in 1..Len(s) : b[i] = s[i]
      BY <1>1, <1>2
    <2> HIDE DEF b
    <2>2. QED
      BY <1>2, <2>1
  <1>4. QED
    BY <1>1, <1>3

LEMMA Pushed ==
  ASSUME NEW S, NEW s \in Seq(S), NEW x \in S
  PROVE  /\ Push(s, x) \in Seq(S) /\ Push(s, x) # <<>>
         /\ Len(Push(s, x)) = Len(s) + 1
         /\ Last(Push(s, x)) = x /\ Front(Push(s, x)) = s
  <1>1. Len(s) \in Nat
    OBVIOUS
  <1>2. Len(s) + 1 - 1 = Len(s)
    BY <1>1
  <1>3. QED
    BY <1>2, Appended DEF Push, Last, Front

LEMMA Replaced ==
  ASSUME NEW l \in Seq(Nat), NEW a \in Nat, NEW b \in Nat, NEW k \in Nat, NEW n \in Nat
  PROVE  /\ Instead(l, 0, k) = Push(l, k)
         /\ Instead(Push(l, a), 1, k) = Push(l, k)
         /\ Instead(Push(Push(l, a), b), 2, k) = Push(l, k)
         /\ n <= Len(l) => Instead(Push(l, a), n + 1, k) = Instead(l, n, k)
         /\ n <= Len(l) => Instead(l, n, k) \in Seq(Nat)
  <1>1. Len(l) \in Nat /\ SubSeq(l, 1, Len(l)) = l
    OBVIOUS
  <1> DEFINE p == Push(l, a)
             q == Push(p, b)
  <1>2. p \in Seq(Nat) /\ Len(p) = Len(l) + 1 /\ SubSeq(p, 1, Len(l)) = l
    BY Appended DEF Push
  <1>3. q \in Seq(Nat) /\ Len(q) = Len(l) + 2 /\ SubSeq(q, 1, Len(p)) = p
    <2> HIDE DEF p
    <2>1. Len(q) = Len(p) + 1 /\ q \in Seq(Nat) /\ SubSeq(q, 1, Len(p)) = p
      BY <1>2, Appended DEF Push
    <2>2. QED
      BY <2>1, <1>1, <1>2
  <1>4. ASSUME NEW i \in 0..Len(l) PROVE SubSeq(p, 1, i) = SubSeq(l, 1, i)
    <2>1. \A j \in 1..i : p[j] = l[j]
      BY Appended DEF Push
    <2> HIDE DEF p
    <2>2. /\ Len(SubSeq(p, 1, i)) = i /\ Len(SubSeq(l, 1, i)) = i
          /\ SubSeq(p, 1, i) \in Seq(Nat) /\ SubSeq(l, 1, i) \in Seq(Nat)
          /\ \A j \in 1..i : SubSeq(p, 1, i)[j] = p[j] /\ SubSeq(l, 1, i)[j] = l[j]
      BY <1>2
    <2>3. QED
      BY <2>1, <2>2
  <1>5. SubSeq(q, 1, Len(l)) = l
    <2>1. \A j \in 1..Len(p) : q[j] = p[j]
      <3> HIDE DEF p
      <3>1. QED
        BY <1>2, Appended DEF Push
    <2>2. \A j \in 1..Len(l) : p[j] = l[j]
      BY Appended DEF Push
    <2> HIDE DEF p, q
    <2>3. /\ Len(SubSeq(q, 1, Len(l))) = Len(l) /\ SubSeq(q, 1, Len(l)) \in Seq(Nat)
          /\ \A j \in 1..Len(l) : SubSeq(q, 1, Len(l))[j] = q[j]
      BY <1>1, <1>3
    <2>4. QED
      BY <1>1, <1>2, <2>1, <2>2, <2>3
  <1> HIDE DEF p, q
  <1>6. Instead(l, 0, k) = Push(l, k)
    <2>1. Len(l) - 0 = Len(l)
      BY <1>1
    <2>2. QED
      BY <2>1, <1>1 DEF Instead
  <1>7. Instead(p, 1, k) = Push(l, k)
    <2>1. Len(p) - 1 = Len(l)
      BY <1>1, <1>2
    <2>2. QED
      BY <2>1, <1>2 DEF Instead
  <1>8. Instead(q, 2, k) = Push(l, k)
    <2>1. Len(q) - 2 = Len(l)
      BY <1>1, <1>3
    <2>2. QED
      BY <2>1, <1>5 DEF Instead
  <1>9. n <= Len(l) => Instead(p, n + 1, k) = Instead(l, n, k)
    <2> SUFFICES ASSUME n <= Len(l) PROVE Instead(p, n + 1, k) = Instead(l, n, k)
      OBVIOUS
    <2>1. Len(p) - (n + 1) = Len(l) - n /\ Len(l) - n \in 0..Len(l)
      BY <1>1, <1>2
    <2>2. SubSeq(p, 1, Len(l) - n) = SubSeq(l, 1, Len(l) - n)
      BY <2>1, <1>4
    <2>3. QED
      BY <2>1, <2>2 DEF Instead
  <1>10. n <= Len(l) => Instead(l, n, k) \in Seq(Nat)
    <2> SUFFICES ASSUME n <= Len(l) PROVE Instead(l, n, k) \in Seq(Nat)
      OBVIOUS
    <2>1. SubSeq(l, 1, Len(l) - n) \in Seq(Nat)
      BY <1>1
    <2>2. QED
      BY <2>1, Appended DEF Instead, Push
  <1>11. QED
    BY <1>6, <1>7, <1>8, <1>9, <1>10 DEF p, q

LEMMA ShapeIs ==
  ASSUME NEW o, NEW l, NEW m, NEW h
  PROVE  /\ Shape(o, l, m, h).open = o /\ Shape(o, l, m, h).low = l
         /\ Shape(o, l, m, h).next = m /\ Shape(o, l, m, h).held = h
  BY DEF Shape

LEMMA ShapeSorts ==
  ASSUME NEW o \in Seq(Tokens), NEW l \in Seq(Nat), NEW h \in Seq(Statuses)
  PROVE  /\ \A m \in SUBSET Tokens : Shape(o, l, m, h) \in Shapes
         /\ Now(o, l, h) \in Shapes
  BY DEF Shape, Shapes, Now

LEMMA DoesLeads ==
  ASSUME NEW item, NEW s, NEW r \in Shapes, Does(item, s, r)
  PROVE  Leads(item, s, r)
  BY PromisesItself DEF Leads

LEMMA TakeDone ==
  ASSUME NEW o \in Seq(Tokens), NEW l \in Seq(Nat), NEW h \in Seq(Statuses)
  PROVE  /\ \A t \in Openers : Leads(Take(t), Now(o, l, h), Now(Push(o, t), l, h))
         /\ \A t \in Closers : Leads(Take(t), Now(Push(o, Match[t]), l, h), Now(o, l, h))
         /\ \A t \in Words : Leads(Take(t), Now(o, l, h), Now(o, l, h))
  <1>1. ASSUME NEW t \in Openers PROVE Leads(Take(t), Now(o, l, h), Now(Push(o, t), l, h))
    <2>1. t \in Tokens /\ t \notin Closers /\ t # "END"
      BY <1>1, BracketTokens DEF Openers
    <2>2. Push(o, t) \in Seq(Tokens)
      BY <2>1, Pushed
    <2>3. TakeDoes(t, Now(o, l, h), Now(Push(o, t), l, h))
      BY <1>1, <2>1, ShapeIs DEF TakeDoes, Now
    <2>4. Now(o, l, h) \in Shapes /\ Now(Push(o, t), l, h) \in Shapes
      BY <2>2, ShapeSorts
    <2>5. Does(Take(t), Now(o, l, h), Now(Push(o, t), l, h))
      BY <2>3, <2>4 DEF Does, Take, Item
    <2>6. QED
      BY <2>4, <2>5, DoesLeads
  <1>2. ASSUME NEW t \in Closers
        PROVE  Leads(Take(t), Now(Push(o, Match[t]), l, h), Now(o, l, h))
    <2>1. t \in Tokens /\ t \notin Openers /\ Match[t] \in Tokens /\ t # "END"
      BY <1>2, BracketTokens DEF Closers, Openers
    <2>2. /\ Push(o, Match[t]) \in Seq(Tokens) /\ Push(o, Match[t]) # <<>>
          /\ Last(Push(o, Match[t])) = Match[t] /\ Front(Push(o, Match[t])) = o
      BY <2>1, Pushed
    <2>3. TakeDoes(t, Now(Push(o, Match[t]), l, h), Now(o, l, h))
      BY <1>2, <2>1, <2>2, ShapeIs DEF TakeDoes, Now
    <2>4. Now(o, l, h) \in Shapes /\ Now(Push(o, Match[t]), l, h) \in Shapes
      BY <2>2, ShapeSorts
    <2>5. Does(Take(t), Now(Push(o, Match[t]), l, h), Now(o, l, h))
      BY <2>3, <2>4 DEF Does, Take, Item
    <2>6. QED
      BY <2>4, <2>5, DoesLeads
  <1>3. ASSUME NEW t \in Words PROVE Leads(Take(t), Now(o, l, h), Now(o, l, h))
    <2>1. t \in Tokens /\ t \notin Openers /\ t \notin Closers /\ t # "END"
      BY <1>3 DEF Words
    <2>2. TakeDoes(t, Now(o, l, h), Now(o, l, h))
      BY <2>1, ShapeIs DEF TakeDoes, Now
    <2>3. Now(o, l, h) \in Shapes
      BY ShapeSorts
    <2>4. Does(Take(t), Now(o, l, h), Now(o, l, h))
      BY <2>2, <2>3 DEF Does, Take, Item
    <2>5. QED
      BY <2>3, <2>4, DoesLeads
  <1>4. QED
    BY <1>1, <1>2, <1>3

LEMMA CallDone ==
  ASSUME NEW o \in Seq(Tokens), NEW l \in Seq(Nat), NEW h \in Seq(Statuses),
         NEW o2 \in Seq(Tokens), NEW l2 \in Seq(Nat), NEW h2 \in Seq(Statuses),
         NEW f, NEW n, CallDoes(f, n, Now(o, l, h), Now(o2, l2, h2))
  PROVE  Leads(Go(f, n), Now(o, l, h), Now(o2, l2, h2))
  <1>1. Now(o, l, h) \in Shapes /\ Now(o2, l2, h2) \in Shapes
    BY ShapeSorts
  <1>2. Does(Go(f, n), Now(o, l, h), Now(o2, l2, h2))
    BY <1>1 DEF Does, Go, Item
  <1>3. QED
    BY <1>1, <1>2, DoesLeads

LEMMA MakersBind ==
  \A f \in Makers :
    /\ Binds(f) \in Nat
    /\ f = "unary_expr" => Binds(f) = Unary
    /\ f = "postfix_expr" => Binds(f) = Postfix
    /\ f \notin {"expr", "type", "unary_expr", "postfix_expr"} => Binds(f) = Primary
  BY DEF Makers, Binds, Unary, Postfix, Primary

LEMMA Looser ==
  ASSUME NEW o \in Seq(Tokens), NEW l \in Seq(Nat), NEW h \in Seq(Statuses),
         NEW k \in Nat, NEW j \in Nat, j <= k
  PROVE  Promises(Now(o, Push(l, k), h), Now(o, Push(l, j), h))
  <1>1. /\ Len(Push(l, k)) = Len(l) + 1 /\ Len(Push(l, j)) = Len(l) + 1
        /\ Push(l, k)[Len(l) + 1] = k /\ Push(l, j)[Len(l) + 1] = j
        /\ \A i \in 1..Len(l) : Push(l, k)[i] = l[i] /\ Push(l, j)[i] = l[i]
    BY Appended DEF Push
  <1>2. Len(l) \in Nat /\ \A i \in 1..Len(l) : l[i] \in Nat
    OBVIOUS
  <1>3. \A i \in 1..Len(l) + 1 : i \in 1..Len(l) \/ i = Len(l) + 1
    BY <1>2
  <1>4. \A i \in 1..Len(l) + 1 : Push(l, k)[i] >= Push(l, j)[i]
    BY <1>1, <1>2, <1>3, SMTT(30)
  <1>5. QED
    BY <1>1, <1>4, ShapeIs DEF Promises, Now

LEMMA MakerDone ==
  ASSUME NEW o \in Seq(Tokens), NEW l \in Seq(Nat), NEW h \in Seq(Settled),
         NEW f \in Makers, f # "bool_expr", NEW k \in Nat, k <= Binds(f)
  PROVE  Leads(Call(f), Now(o, l, h), Now(o, Push(l, k), h))
  <1>1. Binds(f) \in Nat /\ h \in Seq(Statuses)
    BY MakersBind, StatusSorts
  <1>2. Push(l, Binds(f)) \in Seq(Nat) /\ Push(l, k) \in Seq(Nat)
    BY <1>1, Pushed
  <1>3. CallDoes(f, 0, Now(o, l, h), Now(o, Push(l, Binds(f)), h))
    BY ShapeIs DEF CallDoes, Adds, Now
  <1>4. Leads(Go(f, 0), Now(o, l, h), Now(o, Push(l, Binds(f)), h))
    BY <1>1, <1>2, <1>3, CallDone
  <1>5. /\ Promises(Now(o, Push(l, Binds(f)), h), Now(o, Push(l, k), h))
        /\ Now(o, Push(l, Binds(f)), h) \in Shapes /\ Now(o, Push(l, k), h) \in Shapes
    BY <1>1, <1>2, Looser, ShapeSorts
  <1>6. Leads(Go(f, 0), Now(o, l, h), Now(o, Push(l, k), h))
    BY <1>4, <1>5, LeadsLess
  <1>7. QED
    BY <1>6 DEF Go, Call

LEMMA OtherDone ==
  ASSUME NEW o \in Seq(Tokens), NEW l \in Seq(Nat), NEW h \in Seq(Settled)
  PROVE  /\ \A f \in Others : Leads(Call(f), Now(o, l, h), Now(o, l, h))
         /\ \A f \in Movers :
              Leads(Call(f), Now(o, Push(l, Postfix), h), Now(o, Push(l, Postfix), h))
         /\ Leads(Call("in_brackets"), Now(Push(o, "LBRACKET"), l, h),
                  Now(o, Push(l, Primary), h))
         /\ Leads(Go("agg_expr", 0), Now(o, l, h), Now(o, Push(l, Primary), h))
         /\ Leads(Go("agg_expr", 1), Now(o, Push(l, Postfix), h), Now(o, Push(l, Postfix), h))
         /\ \A a \in Nat : Leads(Call("name_or_elem"), Now(o, Push(l, a), h), Now(o, l, h))
  <1>1. /\ h \in Seq(Statuses) /\ Postfix \in Nat /\ Primary \in Nat /\ Postfix >= Postfix
        /\ "LBRACKET" \in Tokens
    BY StatusSorts, BracketTokens DEF Postfix, Primary, Openers
  <1>2. \A a \in Nat : /\ Push(l, a) \in Seq(Nat) /\ Push(l, a) # <<>>
                       /\ Last(Push(l, a)) = a /\ Front(Push(l, a)) = l
                       /\ Len(Push(l, a)) >= 1
    <2>1. \A a \in Nat : Len(Push(l, a)) = Len(l) + 1 /\ Len(l) \in Nat
      BY Pushed
    <2>2. QED
      BY <2>1, Pushed
  <1>3. /\ Push(o, "LBRACKET") \in Seq(Tokens) /\ Push(o, "LBRACKET") # <<>>
        /\ Last(Push(o, "LBRACKET")) = "LBRACKET" /\ Front(Push(o, "LBRACKET")) = o
    BY <1>1, Pushed
  <1>4. ASSUME NEW f \in Others PROVE Leads(Call(f), Now(o, l, h), Now(o, l, h))
    <2>1. CallDoes(f, 0, Now(o, l, h), Now(o, l, h))
      BY ShapeIs DEF CallDoes, Stays, Now
    <2>2. QED
      BY <1>1, <2>1, CallDone DEF Go, Call
  <1>5. ASSUME NEW f, NEW n, f \in Movers \/ (f = "agg_expr" /\ n = 1)
        PROVE  Leads(Go(f, n), Now(o, Push(l, Postfix), h), Now(o, Push(l, Postfix), h))
    <2> DEFINE p == Push(l, Postfix)
    <2>1. /\ Instead(p, 1, Postfix) = p
          /\ p # <<>> /\ Last(p) = Postfix /\ Len(p) >= 1
      BY <1>1, <1>2, Replaced
    <2> HIDE DEF p
    <2>2. CallDoes(f, n, Now(o, p, h), Now(o, p, h))
      BY <1>1, <1>5, <2>1, ShapeIs DEF CallDoes, Moves, Now
    <2> USE DEF p
    <2>3. QED
      BY <1>1, <1>2, <2>2, CallDone
  <1>6. \A f \in Movers :
          Leads(Call(f), Now(o, Push(l, Postfix), h), Now(o, Push(l, Postfix), h))
    BY <1>5 DEF Go, Call
  <1>7. Leads(Call("in_brackets"), Now(Push(o, "LBRACKET"), l, h), Now(o, Push(l, Primary), h))
    <2>1. CallDoes("in_brackets", 0, Now(Push(o, "LBRACKET"), l, h), Now(o, Push(l, Primary), h))
      BY <1>3, ShapeIs DEF CallDoes, Now
    <2>2. QED
      BY <1>1, <1>2, <1>3, <2>1, CallDone DEF Go, Call
  <1>8. Leads(Go("agg_expr", 0), Now(o, l, h), Now(o, Push(l, Primary), h))
    <2>1. Binds("agg_expr") = Primary
      BY DEF Binds
    <2>2. CallDoes("agg_expr", 0, Now(o, l, h), Now(o, Push(l, Primary), h))
      BY <2>1, ShapeIs DEF CallDoes, Adds, Now
    <2>3. QED
      BY <1>1, <1>2, <2>2, CallDone
  <1>9. ASSUME NEW a \in Nat
        PROVE  Leads(Call("name_or_elem"), Now(o, Push(l, a), h), Now(o, l, h))
    <2> DEFINE p == Push(l, a)
    <2>0. p # <<>> /\ Front(p) = l
      BY <1>2
    <2> HIDE DEF p
    <2>1. CallDoes("name_or_elem", 0, Now(o, p, h), Now(o, l, h))
      BY <2>0, ShapeIs DEF CallDoes, Now
    <2> USE DEF p
    <2>2. QED
      BY <1>1, <1>2, <2>1, CallDone DEF Go, Call
  <1>10. QED
    BY <1>4, <1>5, <1>6, <1>7, <1>8, <1>9

(* The calls that deal with the innermost array of attributes.             *)
LEMMA HandedDone ==
  ASSUME NEW o \in Seq(Tokens), NEW l \in Seq(Nat), NEW h \in Seq(Settled)
  PROVE  /\ \A x \in {"new", "spent"} :
              /\ \A f \in {"only_let", "unit"} :
                   Leads(Call(f), Now(o, l, Push(h, x)), Now(o, l, h))
              /\ \A n \in Nat : n <= Len(l) =>
                   Leads(Go("alternative", n), Now(o, l, Push(h, x)), Now(o, Instead(l, n, 0), h))
         /\ \A x \in {"AT", "spent"} : \A n \in Nat : n <= Len(l) =>
              Leads(Go("at_type", n), Now(o, l, Push(h, x)), Now(o, Instead(l, n, 0), h))
         /\ \A n \in Nat : n <= Len(l) /\ n > 0 =>
              Leads(Go("union", n), Now(o, l, Push(h, "spent")), Now(o, Instead(l, n, 0), h))
  <1>1. h \in Seq(Statuses) /\ \A n \in Nat : n <= Len(l) => Instead(l, n, 0) \in Seq(Nat)
    BY StatusSorts, Replaced
  <1>2. {"new", "spent", "AT"} \subseteq Statuses
    BY StatusSorts DEF Tokens
  <1>3. ASSUME NEW x \in {"new", "spent", "AT"}
        PROVE  /\ Push(h, x) \in Seq(Statuses) /\ Push(h, x) # <<>>
               /\ Last(Push(h, x)) = x /\ Front(Push(h, x)) = h
    <2>1. x \in Statuses
      BY <1>2
    <2>2. QED
      BY <1>1, <2>1, Pushed
  <1>4. ASSUME NEW x \in {"new", "spent"}, NEW f \in {"only_let", "unit"}
        PROVE  Leads(Call(f), Now(o, l, Push(h, x)), Now(o, l, h))
    <2> DEFINE p == Push(h, x)
    <2>1. p \in Seq(Statuses) /\ p # <<>> /\ Last(p) = x /\ Front(p) = h
      BY <1>3
    <2> HIDE DEF p
    <2>2. CallDoes(f, 0, Now(o, l, p), Now(o, l, h))
      BY <2>1, ShapeIs DEF CallDoes, Handed, Now
    <2>3. Leads(Go(f, 0), Now(o, l, p), Now(o, l, h))
      BY <1>1, <2>1, <2>2, CallDone
    <2>4. QED
      BY <2>3 DEF Go, Call, p
  <1>5. ASSUME NEW f, NEW x \in {"new", "spent", "AT"}, NEW n \in Nat, n <= Len(l),
               \/ f = "alternative" /\ x # "AT"
               \/ f = "at_type" /\ x # "new"
               \/ f = "union" /\ x = "spent" /\ n > 0
        PROVE  Leads(Go(f, n), Now(o, l, Push(h, x)), Now(o, Instead(l, n, 0), h))
    <2> DEFINE p == Push(h, x)
               i == Instead(l, n, 0)
    <2>1. p \in Seq(Statuses) /\ p # <<>> /\ Last(p) = x /\ Front(p) = h
      BY <1>3
    <2>2. i \in Seq(Nat) /\ Len(l) >= n /\ i = Instead(l, n, 0)
      BY <1>1, <1>5
    <2> HIDE DEF p, i
    <2>3. Handed(Now(o, l, p), {x})
      BY <2>1, ShapeIs DEF Handed, Now
    <2>4. CallDoes(f, n, Now(o, l, p), Now(o, i, h))
      BY <1>5, <2>1, <2>2, <2>3, ShapeIs DEF CallDoes, Handed, Now
    <2>5. Leads(Go(f, n), Now(o, l, p), Now(o, i, h))
      BY <1>1, <2>1, <2>2, <2>4, CallDone
    <2>6. QED
      BY <2>5 DEF p, i
  <1>6. QED
    BY <1>4, <1>5

LEMMA ListDone ==
  ASSUME NEW o \in Seq(Tokens), NEW l \in Seq(Nat), NEW h \in Seq(Settled), NEW n,
         NEW list \in Lists, NEW do \in {"list", "comma"}
  PROVE  LET in == IF list = "effects" THEN o ELSE Push(o, Match[Closer(list)])
             with == IF list = "tuple_expr" THEN Push(l, Primary) ELSE l
         IN  Leads(Item(do, list, n), Now(in, l, h), Now(o, with, h))
  <1> DEFINE in == IF list = "effects" THEN o ELSE Push(o, Match[Closer(list)])
             with == IF list = "tuple_expr" THEN Push(l, Primary) ELSE l
  <1>1. h \in Seq(Statuses) /\ Primary \in Nat
    BY StatusSorts DEF Primary
  <1>2. list # "effects" => Closer(list) \in Closers
    BY DEF Closer, Closers, Lists
  <1>3. list # "effects" => Match[Closer(list)] \in Tokens
    BY <1>2, BracketTokens DEF Closers, Openers
  <1>4. /\ in \in Seq(Tokens)
        /\ list # "effects" => in # <<>> /\ Last(in) = Match[Closer(list)] /\ Front(in) = o
        /\ list = "effects" => in = o
    BY <1>3, Pushed
  <1>5. with \in Seq(Nat)
    BY <1>1, Pushed
  <1>6. ListDoes(list, Now(in, l, h), Now(o, with, h))
    <2> HIDE DEF in
    <2>1. QED
      BY <1>4, ShapeIs DEF ListDoes, Now
  <1>7. Now(in, l, h) \in Shapes /\ Now(o, with, h) \in Shapes
    BY <1>1, <1>4, <1>5, ShapeSorts
  <1> HIDE DEF in, with
  <1>8. Does(Item(do, list, n), Now(in, l, h), Now(o, with, h))
    BY <1>6, <1>7 DEF Does, Item
  <1>9. Leads(Item(do, list, n), Now(in, l, h), Now(o, with, h))
    BY <1>7, <1>8, DoesLeads
  <1>10. QED
    BY <1>9 DEF in, with

LEMMA MakeDone ==
  ASSUME NEW o \in Seq(Tokens), NEW l \in Seq(Nat), NEW h \in Seq(Statuses),
         NEW kind \in NodeKinds \ {"binary"}, NEW n \in Nat, n <= Len(l),
         kind = "postfix" => n > 0 /\ l[Len(l) - n + 1] >= Postfix,
         kind = "unary" => n > 0 /\ l[Len(l) - n + 1] >= Unary
  PROVE  /\ kind = "postfix" =>
              Leads(Make(kind, n), Now(o, l, h), Now(o, Instead(l, n, Postfix), h))
         /\ kind = "unary" =>
              Leads(Make(kind, n), Now(o, l, h), Now(o, Instead(l, n, Unary), h))
         /\ kind \notin {"postfix", "unary"} =>
              Leads(Make(kind, n), Now(o, l, h), Now(o, Instead(l, n, Primary), h))
  <1> DEFINE k == CASE kind = "postfix" -> Postfix [] kind = "unary" -> Unary [] OTHER -> Primary
             i == Instead(l, n, k)
  <1>1. k \in Nat
    BY DEF Primary, Unary, Postfix
  <1>2. Len(l) >= n /\ i \in Seq(Nat)
    BY <1>1, Replaced
  <1>3. MakeDoes(kind, n, Now(o, l, h), Now(o, i, h))
    BY <1>2, ShapeIs DEF MakeDoes, Moves, Now
  <1> HIDE DEF i
  <1>4. Now(o, l, h) \in Shapes /\ Now(o, i, h) \in Shapes
    BY <1>2, ShapeSorts
  <1>5. Does(Make(kind, n), Now(o, l, h), Now(o, i, h))
    BY <1>3, <1>4 DEF Does, Make, Item
  <1>6. Leads(Make(kind, n), Now(o, l, h), Now(o, i, h))
    BY <1>4, <1>5, DoesLeads
  <1>7. /\ kind = "postfix" => k = Postfix
        /\ kind = "unary" => k = Unary
        /\ kind \notin {"postfix", "unary"} => k = Primary
    OBVIOUS
  <1> HIDE DEF k
  <1>8. QED
    BY <1>6, <1>7 DEF i

(* The nodes that the rules make.                                          *)
LEMMA MadeDone ==
  ASSUME NEW o \in Seq(Tokens), NEW l \in Seq(Nat), NEW h \in Seq(Statuses),
         NEW a \in Nat, NEW b \in Nat
  PROVE  /\ \A kind \in NodeKinds \ {"binary", "postfix", "unary"} :
              /\ Leads(Make(kind, 0), Now(o, l, h), Now(o, Push(l, Primary), h))
              /\ Leads(Make(kind, 1), Now(o, Push(l, a), h), Now(o, Push(l, Primary), h))
              /\ Leads(Make(kind, 2), Now(o, Push(Push(l, a), b), h), Now(o, Push(l, Primary), h))
         /\ Leads(Make("postfix", 1), Now(o, Push(l, Postfix), h), Now(o, Push(l, Postfix), h))
         /\ Leads(Make("postfix", 2), Now(o, Push(Push(l, Postfix), b), h),
                  Now(o, Push(l, Postfix), h))
         /\ Leads(Make("unary", 1), Now(o, Push(l, Unary), h), Now(o, Push(l, Unary), h))
  <1>1. Primary \in Nat /\ Postfix \in Nat /\ Unary \in Nat /\ Postfix >= Postfix /\ Unary >= Unary
    BY DEF Primary, Unary, Postfix
  <1>2. "postfix" \in NodeKinds /\ "unary" \in NodeKinds
    BY DEF NodeKinds
  <1>3. Len(l) \in Nat
    OBVIOUS
  <1>4. ASSUME NEW x \in Nat
        PROVE  /\ Push(l, x) \in Seq(Nat) /\ 1 <= Len(Push(l, x))
               /\ Push(l, x)[Len(Push(l, x)) - 1 + 1] = x
    <2>1. Push(l, x) \in Seq(Nat) /\ Len(Push(l, x)) = Len(l) + 1 /\ Push(l, x)[Len(l) + 1] = x
      BY Appended DEF Push
    <2>2. Len(Push(l, x)) - 1 + 1 = Len(l) + 1 /\ 1 <= Len(Push(l, x))
      BY <1>3, <2>1
    <2>3. QED
      BY <2>1, <2>2
  <1>5. ASSUME NEW x \in Nat
        PROVE  /\ Push(Push(l, x), b) \in Seq(Nat) /\ 2 <= Len(Push(Push(l, x), b))
               /\ Push(Push(l, x), b)[Len(Push(Push(l, x), b)) - 2 + 1] = x
    <2> DEFINE p == Push(l, x)
    <2>1. p \in Seq(Nat) /\ Len(p) = Len(l) + 1 /\ p[Len(l) + 1] = x
      BY Appended DEF Push
    <2> HIDE DEF p
    <2>2. /\ Push(p, b) \in Seq(Nat) /\ Len(Push(p, b)) = Len(p) + 1
          /\ \A i \in 1..Len(p) : Push(p, b)[i] = p[i]
      BY <2>1, Appended DEF Push
    <2>3. /\ Len(Push(p, b)) - 2 + 1 = Len(l) + 1 /\ 2 <= Len(Push(p, b))
          /\ Len(l) + 1 \in 1..Len(p)
      BY <1>3, <2>1, <2>2
    <2>4. QED
      BY <2>1, <2>2, <2>3 DEF p
  <1>6. ASSUME NEW kind \in NodeKinds \ {"binary", "postfix", "unary"}
        PROVE  /\ Leads(Make(kind, 0), Now(o, l, h), Now(o, Push(l, Primary), h))
               /\ Leads(Make(kind, 1), Now(o, Push(l, a), h), Now(o, Push(l, Primary), h))
               /\ Leads(Make(kind, 2), Now(o, Push(Push(l, a), b), h), Now(o, Push(l, Primary), h))
    <2>1. /\ Instead(l, 0, Primary) = Push(l, Primary)
          /\ Instead(Push(l, a), 1, Primary) = Push(l, Primary)
          /\ Instead(Push(Push(l, a), b), 2, Primary) = Push(l, Primary)
      BY <1>1, Replaced
    <2>2. /\ kind \in NodeKinds \ {"binary"} /\ kind # "postfix" /\ kind # "unary"
      OBVIOUS
    <2>3. Leads(Make(kind, 0), Now(o, l, h), Now(o, Instead(l, 0, Primary), h))
      BY <2>2, <1>3, MakeDone
    <2>4. Leads(Make(kind, 1), Now(o, Push(l, a), h), Now(o, Instead(Push(l, a), 1, Primary), h))
      BY <2>2, <1>4, MakeDone
    <2>5. Leads(Make(kind, 2), Now(o, Push(Push(l, a), b), h),
                Now(o, Instead(Push(Push(l, a), b), 2, Primary), h))
      BY <2>2, <1>5, MakeDone
    <2>6. QED
      BY <2>1, <2>3, <2>4, <2>5
  <1>7. Leads(Make("postfix", 1), Now(o, Push(l, Postfix), h), Now(o, Push(l, Postfix), h))
    <2> DEFINE p == Push(l, Postfix)
    <2>1. p \in Seq(Nat)
      BY <1>1, <1>4
    <2>2. 1 <= Len(p)
      BY <1>1, <1>4
    <2>3. p[Len(p) - 1 + 1] >= Postfix
      BY <1>1, <1>4
    <2>4. Instead(p, 1, Postfix) = Push(l, Postfix)
      BY <1>1, Replaced
    <2> HIDE DEF p
    <2>5. "postfix" \in NodeKinds \ {"binary"} /\ 1 \in Nat /\ 1 > 0
      BY <1>2
    <2>6. Leads(Make("postfix", 1), Now(o, p, h), Now(o, Instead(p, 1, Postfix), h))
      BY <2>1, <2>2, <2>3, <2>5, MakeDone
    <2>7. QED
      BY <2>4, <2>6 DEF p
  <1>8. Leads(Make("postfix", 2), Now(o, Push(Push(l, Postfix), b), h), Now(o, Push(l, Postfix), h))
    <2> DEFINE p == Push(Push(l, Postfix), b)
    <2>1. p \in Seq(Nat)
      BY <1>1, <1>5
    <2>2. 2 <= Len(p)
      BY <1>1, <1>5
    <2>3. p[Len(p) - 2 + 1] >= Postfix
      BY <1>1, <1>5
    <2>4. Instead(p, 2, Postfix) = Push(l, Postfix)
      BY <1>1, Replaced
    <2> HIDE DEF p
    <2>5. "postfix" \in NodeKinds \ {"binary"} /\ 2 \in Nat /\ 2 > 0
      BY <1>2
    <2>6. Leads(Make("postfix", 2), Now(o, p, h), Now(o, Instead(p, 2, Postfix), h))
      BY <2>1, <2>2, <2>3, <2>5, MakeDone
    <2>7. QED
      BY <2>4, <2>6 DEF p
  <1>9. Leads(Make("unary", 1), Now(o, Push(l, Unary), h), Now(o, Push(l, Unary), h))
    <2> DEFINE p == Push(l, Unary)
    <2>1. p \in Seq(Nat)
      BY <1>1, <1>4
    <2>2. 1 <= Len(p)
      BY <1>1, <1>4
    <2>3. p[Len(p) - 1 + 1] >= Unary
      BY <1>1, <1>4
    <2>4. Instead(p, 1, Unary) = Push(l, Unary)
      BY <1>1, Replaced
    <2> HIDE DEF p
    <2>5. "unary" \in NodeKinds \ {"binary"} /\ 1 \in Nat /\ 1 > 0
      BY <1>2
    <2>6. Leads(Make("unary", 1), Now(o, p, h), Now(o, Instead(p, 1, Unary), h))
      BY <2>1, <2>2, <2>3, <2>5, MakeDone
    <2>7. QED
      BY <2>4, <2>6 DEF p
  <1>10. QED
    BY <1>6, <1>7, <1>8, <1>9

LEMMA DropDone ==
  ASSUME NEW o \in Seq(Tokens), NEW l \in Seq(Nat), NEW h \in Seq(Statuses), NEW a \in Nat
  PROVE  /\ Leads(Drop, Now(o, Push(l, a), h), Now(o, l, h))
         /\ Leads(Do("attr_args"), Now(o, Push(l, a), h), Now(o, l, h))
  <1> DEFINE p == Push(l, a)
  <1>1. p \in Seq(Nat) /\ p # <<>> /\ Front(p) = l
    BY Pushed
  <1> HIDE DEF p
  <1>2. DropDoes(Now(o, p, h), Now(o, l, h))
    BY <1>1, ShapeIs DEF DropDoes, Now
  <1>3. Now(o, p, h) \in Shapes /\ Now(o, l, h) \in Shapes
    BY <1>1, ShapeSorts
  <1>4. /\ Does(Drop, Now(o, p, h), Now(o, l, h))
        /\ Does(Do("attr_args"), Now(o, p, h), Now(o, l, h))
    BY <1>2, <1>3 DEF Does, Drop, Do, DoDoes, Item
  <1>5. QED
    BY <1>3, <1>4, DoesLeads DEF p

LEMMA FailDone ==
  ASSUME NEW s \in Shapes, NEW r \in Shapes
  PROVE  Leads(Fail, s, r)
  <1>1. Does(Fail, s, r)
    BY DEF Does, Fail, Item
  <1>2. QED
    BY <1>1, DoesLeads

LEMMA DoDone ==
  ASSUME NEW o \in Seq(Tokens), NEW l \in Seq(Nat), NEW h \in Seq(Settled),
         NEW what \in Steps, what # "attr_args"
  PROVE  Leads(Do(what), Now(o, l, h), Now(o, l, h))
  <1>1. Now(o, l, h) \in Shapes
    BY ShapeSorts, StatusSorts
  <1>2. DoDoes(what, Now(o, l, h), Now(o, l, h))
    BY ShapeIs DEF DoDoes, Stays, Now
  <1>3. Does(Do(what), Now(o, l, h), Now(o, l, h))
    BY <1>1, <1>2 DEF Does, Do, Item
  <1>4. QED
    BY <1>1, <1>3, DoesLeads

LEMMA AttrsDone ==
  ASSUME NEW o \in Seq(Tokens), NEW l \in Seq(Nat), NEW h \in Seq(Settled)
  PROVE  /\ Leads(Hold, Now(o, l, h), Now(o, l, Push(h, "spent")))
         /\ \A x \in Settled :
              /\ Leads(Keep, Now(o, l, Push(h, x)), Now(o, l, Push(h, "new")))
              /\ Leads(Release, Now(o, l, Push(h, x)), Now(o, l, h))
              /\ \A w \in Tokens \union {"union"} : x \in {w, "spent"} =>
                   Leads(Give(w), Now(o, l, Push(h, x)), Now(o, l, Push(h, "spent")))
  <1>1. h \in Seq(Statuses) /\ "new" \in Statuses /\ "spent" \in Settled
    BY StatusSorts
  <1>2. \A x \in Settled : /\ Push(h, x) \in Seq(Settled) /\ Push(h, x) # <<>>
                           /\ Last(Push(h, x)) = x /\ Front(Push(h, x)) = h
                           /\ Push(h, x) \in Seq(Statuses)
    BY Pushed, StatusSorts
  <1>3. Push(h, "new") \in Seq(Statuses)
    BY <1>1, Pushed
  <1>4. Leads(Hold, Now(o, l, h), Now(o, l, Push(h, "spent")))
    <2>1. HoldDoes(Now(o, l, h), Now(o, l, Push(h, "spent")))
      BY ShapeIs DEF HoldDoes, Now
    <2>2. Now(o, l, h) \in Shapes /\ Now(o, l, Push(h, "spent")) \in Shapes
      BY <1>1, <1>2, ShapeSorts
    <2>3. Does(Hold, Now(o, l, h), Now(o, l, Push(h, "spent")))
      BY <2>1, <2>2 DEF Does, Hold, Item
    <2>4. QED
      BY <2>2, <2>3, DoesLeads
  <1>5. ASSUME NEW x \in Settled
        PROVE  /\ Leads(Keep, Now(o, l, Push(h, x)), Now(o, l, Push(h, "new")))
               /\ Leads(Release, Now(o, l, Push(h, x)), Now(o, l, h))
    <2> DEFINE p == Push(h, x)
    <2>1. p \in Seq(Settled) /\ p \in Seq(Statuses) /\ p # <<>> /\ Last(p) = x /\ Front(p) = h
      BY <1>2
    <2> HIDE DEF p
    <2>2. /\ KeepDoes(Now(o, l, p), Now(o, l, Push(h, "new")))
          /\ ReleaseDoes(Now(o, l, p), Now(o, l, h))
      BY <2>1, ShapeIs DEF KeepDoes, ReleaseDoes, Now
    <2>3. /\ Now(o, l, p) \in Shapes /\ Now(o, l, Push(h, "new")) \in Shapes
          /\ Now(o, l, h) \in Shapes
      BY <1>1, <1>3, <2>1, ShapeSorts
    <2>4. /\ Does(Keep, Now(o, l, p), Now(o, l, Push(h, "new")))
          /\ Does(Release, Now(o, l, p), Now(o, l, h))
      BY <2>2, <2>3 DEF Does, Keep, Release, Item
    <2>5. QED
      BY <2>3, <2>4, DoesLeads DEF p
  <1>6. ASSUME NEW x \in Settled, NEW w \in Tokens \union {"union"}, x \in {w, "spent"}
        PROVE  Leads(Give(w), Now(o, l, Push(h, x)), Now(o, l, Push(h, "spent")))
    <2> DEFINE p == Push(h, x)
    <2>1. p \in Seq(Settled) /\ p \in Seq(Statuses) /\ p # <<>> /\ Last(p) = x /\ Front(p) = h
      BY <1>2
    <2> HIDE DEF p
    <2>2. GiveDoes(w, Now(o, l, p), Now(o, l, Push(h, "spent")))
      BY <1>6, <2>1, ShapeIs DEF GiveDoes, Now
    <2>3. Now(o, l, p) \in Shapes /\ Now(o, l, Push(h, "spent")) \in Shapes
      BY <1>1, <1>2, <2>1, ShapeSorts
    <2>4. Does(Give(w), Now(o, l, p), Now(o, l, Push(h, "spent")))
      BY <2>2, <2>3 DEF Does, Give, Item
    <2>5. QED
      BY <2>3, <2>4, DoesLeads DEF p
  <1>7. QED
    BY <1>4, <1>5, <1>6

(* Names that the rules use, and what can be pushed.                       *)
LEMMA Sorts ==
  /\ \A s \in Seq(Tokens) : \A x \in Openers : Push(s, x) \in Seq(Tokens)
  /\ \A s \in Seq(Nat) : \A x \in Nat : Push(s, x) \in Seq(Nat)
  /\ \A s \in Seq(Settled) : \A x \in Settled : Push(s, x) \in Seq(Settled)
  /\ \A s \in Seq(Settled) : s \in Seq(Statuses) /\ Push(s, "new") \in Seq(Statuses)
  /\ "spent" \in Settled /\ \A t \in Tokens : t \in Settled
  /\ Primary \in Nat /\ Postfix \in Nat /\ Unary \in Nat /\ 0 \in Nat
  /\ "LPAREN" \in Openers /\ "LBRACKET" \in Openers /\ "LBRACE" \in Openers
  /\ "RPAREN" \in Closers /\ "RBRACKET" \in Closers /\ "RBRACE" \in Closers
  /\ Match["RPAREN"] = "LPAREN" /\ Match["RBRACKET"] = "LBRACKET" /\ Match["RBRACE"] = "LBRACE"
  <1>1. \A x \in Openers : x \in Tokens
    BY BracketTokens
  <1>2. \A s \in Seq(Settled) : s \in Seq(Statuses)
    BY StatusSorts
  <1>3. /\ \A s \in Seq(Tokens) : \A x \in Openers : Push(s, x) \in Seq(Tokens)
        /\ \A s \in Seq(Nat) : \A x \in Nat : Push(s, x) \in Seq(Nat)
        /\ \A s \in Seq(Settled) : \A x \in Settled : Push(s, x) \in Seq(Settled)
        /\ \A s \in Seq(Settled) : Push(s, "new") \in Seq(Statuses)
    BY <1>1, <1>2, StatusSorts, Pushed
  <1>4. Primary \in Nat /\ Postfix \in Nat /\ Unary \in Nat
    BY DEF Primary, Postfix, Unary
  <1>5. /\ "LPAREN" \in Openers /\ "LBRACKET" \in Openers /\ "LBRACE" \in Openers
        /\ "RPAREN" \in Closers /\ "RBRACKET" \in Closers /\ "RBRACE" \in Closers
    BY DEF Openers, Closers
  <1>6. QED
    BY <1>2, <1>3, <1>4, <1>5, StatusSorts, BracketTokens

LEMMA WordNames ==
  /\ "IDENT" \in Words /\ "AT" \in Words /\ "COMMA" \in Words /\ "COLON" \in Words
  /\ "SEMI" \in Words /\ "GT" \in Words /\ "LT" \in Words /\ "ARROW" \in Words
  /\ "EQ" \in Words /\ "DOT" \in Words /\ "QUESTION" \in Words /\ "NOT" \in Words
  /\ "ELLIPSIS" \in Words /\ "STAR" \in Words /\ "BOR" \in Words /\ "MINUS" \in Words
  /\ "PLUS" \in Words /\ "BAND" \in Words /\ "PLUSEQ" \in Words /\ "MINUSEQ" \in Words
  /\ "STAREQ" \in Words /\ "FSLASHEQ" \in Words /\ "KW_FN" \in Words /\ "KW_IF" \in Words
  /\ "KW_LET" \in Words /\ "KW_NEW" \in Words /\ "KW_FOR" \in Words /\ "KW_ELSE" \in Words
  /\ "KW_TYPE" \in Words /\ "KW_DEFER" \in Words /\ "KW_BREAK" \in Words
  /\ "KW_USING" \in Words /\ "KW_RETURN" \in Words /\ "KW_EFFECT" \in Words
  /\ "KW_MODULE" \in Words /\ "KW_IMPORT" \in Words /\ "KW_CONTINUE" \in Words
  /\ "KW_TRUE" \in Words /\ "KW_FALSE" \in Words /\ "LIT_INT" \in Words /\ "LIT_FLT" \in Words
  /\ "LIT_STR" \in Words /\ "LIT_CHR" \in Words
  BY DEF Words, Tokens, Openers, Closers

LEMMA MakerNames ==
  /\ "expr" \in Makers /\ "unary_expr" \in Makers /\ "postfix_expr" \in Makers
  /\ "primary_expr" \in Makers /\ "type_expr" \in Makers /\ "var_expr" \in Makers
  /\ "selector_expr" \in Makers /\ "int_expr" \in Makers /\ "flt_expr" \in Makers
  /\ "str_expr" \in Makers /\ "chr_expr" \in Makers /\ "tuple_expr" \in Makers
  /\ "type" \in Makers /\ "ident_type" \in Makers /\ "tuple_type" \in Makers
  /\ "group_type" \in Makers /\ "varargs_type" \in Makers /\ "ptr_type" \in Makers
  /\ "atom_type" \in Makers /\ "bracket_type" \in Makers /\ "fn_type" \in Makers
  BY DEF Makers

LEMMA OtherNames ==
  /\ "no_trailing_comma" \in Others /\ "args_type" \in Others /\ "enum_init" \in Others
  /\ "more_args" \in Others /\ "effects" \in Others /\ "ret" \in Others /\ "stmt" \in Others
  /\ "block_stmt" \in Others /\ "stmts" \in Others /\ "return_stmt" \in Others
  /\ "return_value" \in Others /\ "defer_stmt" \in Others /\ "break_stmt" \in Others
  /\ "continue_stmt" \in Others /\ "if_stmt" \in Others /\ "init" \in Others
  /\ "else_if" \in Others /\ "else_arm" \in Others /\ "let_stmt" \in Others
  /\ "using_stmt" \in Others /\ "for_stmt" \in Others /\ "for_expr" \in Others
  /\ "for_post" \in Others /\ "post_stmt" \in Others /\ "for_else" \in Others
  /\ "expr_stmt" \in Others /\ "assignment" \in Others /\ "fn" \in Others
  /\ "typedef" \in Others /\ "module" \in Others /\ "import" \in Others /\ "effect" \in Others
  /\ "attrs" \in Others
  /\ "effect_ref" \in Movers /\ "postfix_loop" \in Movers /\ "index_expr" \in Movers
  /\ "call_expr" \in Movers
  BY DEF Others, Movers

LEMMA KindNames ==
  /\ "expr" \in NodeKinds \ {"binary", "postfix", "unary"}
  /\ "typeexpr" \in NodeKinds \ {"binary", "postfix", "unary"}
  /\ "tuple" \in NodeKinds \ {"binary", "postfix", "unary"}
  /\ "tuple1" \in NodeKinds \ {"binary", "postfix", "unary"}
  /\ "type" \in NodeKinds \ {"binary", "postfix", "unary"}
  /\ "ident" \in NodeKinds \ {"binary", "postfix", "unary"}
  /\ "attr_name" \in Steps /\ "strtoull" \in Steps /\ "strtod" \in Steps
  /\ "assign_module" \in Steps /\ "add_import" \in Steps /\ "defer" \in Steps
  /\ "agg_expr" \in Lists /\ "tuple_type" \in Lists /\ "tuple_expr" \in Lists
  /\ "args_type" \in Lists /\ "attrs" \in Lists /\ "enums" \in Lists /\ "effects" \in Lists
  /\ \A f \in Tokens : f # "spent" /\ f # "new"
  BY DEF NodeKinds, Steps, Lists, Tokens

LEMMA MakersDone ==
  ASSUME NEW o \in Seq(Tokens), NEW l \in Seq(Nat), NEW h \in Seq(Settled)
  PROVE  /\ \A f \in Makers : f # "bool_expr" =>
              Leads(Call(f), Now(o, l, h), Now(o, Push(l, 0), h))
         /\ \A f \in Makers : f \notin {"bool_expr", "expr", "type", "unary_expr"} =>
              /\ Leads(Call(f), Now(o, l, h), Now(o, Push(l, Unary), h))
              /\ Leads(Call(f), Now(o, l, h), Now(o, Push(l, Postfix), h))
              /\ f # "postfix_expr" => Leads(Call(f), Now(o, l, h), Now(o, Push(l, Primary), h))
         /\ Leads(Call("unary_expr"), Now(o, l, h), Now(o, Push(l, Unary), h))
  <1>1. \A f \in Makers : 0 \in Nat /\ 0 <= Binds(f)
    BY MakersBind
  <1>2. \A f \in Makers : f # "bool_expr" => Leads(Call(f), Now(o, l, h), Now(o, Push(l, 0), h))
    BY <1>1, MakerDone
  <1>3. /\ Unary \in Nat /\ Postfix \in Nat /\ Primary \in Nat
        /\ Unary <= Postfix /\ Postfix <= Primary /\ Unary <= Primary
        /\ Unary <= Unary /\ Postfix <= Postfix /\ Primary <= Primary
    BY DEF Unary, Postfix, Primary
  <1>4. ASSUME NEW f \in Makers, f \notin {"bool_expr", "expr", "type", "unary_expr"}
        PROVE  /\ Leads(Call(f), Now(o, l, h), Now(o, Push(l, Unary), h))
               /\ Leads(Call(f), Now(o, l, h), Now(o, Push(l, Postfix), h))
               /\ f # "postfix_expr" => Leads(Call(f), Now(o, l, h), Now(o, Push(l, Primary), h))
    <2>1. /\ Unary <= Binds(f) /\ Postfix <= Binds(f)
          /\ f # "postfix_expr" => Primary <= Binds(f)
      BY <1>3, <1>4, MakersBind
    <2>2. QED
      BY <1>3, <1>4, <2>1, MakerDone
  <1>5. Leads(Call("unary_expr"), Now(o, l, h), Now(o, Push(l, Unary), h))
    BY <1>3, MakersBind, MakerNames, MakerDone
  <1>6. QED
    BY <1>2, <1>4, <1>5

LEMMA ListsDone ==
  ASSUME NEW o \in Seq(Tokens), NEW l \in Seq(Nat), NEW h \in Seq(Settled)
  PROVE  /\ Leads(List("agg_expr"), Now(Push(o, "LBRACE"), l, h), Now(o, l, h))
         /\ Leads(List("tuple_type"), Now(Push(o, "LBRACE"), l, h), Now(o, l, h))
         /\ Leads(List("args_type"), Now(Push(o, "LPAREN"), l, h), Now(o, l, h))
         /\ Leads(List("attrs"), Now(Push(o, "LPAREN"), l, h), Now(o, l, h))
         /\ Leads(List("enums"), Now(Push(o, "LBRACKET"), l, h), Now(o, l, h))
         /\ Leads(List("effects"), Now(o, l, h), Now(o, l, h))
         /\ Leads(List("tuple_expr"), Now(Push(o, "LPAREN"), l, h), Now(o, Push(l, Primary), h))
  <1>1. /\ Closer("agg_expr") = "RBRACE" /\ Closer("tuple_type") = "RBRACE"
        /\ Closer("args_type") = "RPAREN" /\ Closer("attrs") = "RPAREN"
        /\ Closer("tuple_expr") = "RPAREN" /\ Closer("enums") = "RBRACKET"
    BY DEF Closer
  <1>2. ASSUME NEW list \in Lists
        PROVE  LET in == IF list = "effects" THEN o ELSE Push(o, Match[Closer(list)])
                   with == IF list = "tuple_expr" THEN Push(l, Primary) ELSE l
               IN  Leads(List(list), Now(in, l, h), Now(o, with, h))
    BY ListDone DEF List
  <1>3. QED
    BY <1>1, <1>2, KindNames, BracketTokens

\* The tight end of an aggregate behind its type.
LEMMA MadeLess ==
  ASSUME NEW o \in Seq(Tokens), NEW l \in Seq(Nat), NEW h \in Seq(Statuses), NEW a \in Nat
  PROVE  Leads(Make("expr", 1), Now(o, Push(l, a), h), Now(o, Push(l, Postfix), h))
  <1>1. Leads(Make("expr", 1), Now(o, Push(l, a), h), Now(o, Push(l, Primary), h))
    BY MadeDone, KindNames
  <1>2. Primary \in Nat /\ Postfix \in Nat /\ Postfix <= Primary
    BY DEF Primary, Postfix
  <1>3. Promises(Now(o, Push(l, Primary), h), Now(o, Push(l, Postfix), h))
    BY <1>2, Looser
  <1>4. Now(o, Push(l, Primary), h) \in Shapes /\ Now(o, Push(l, Postfix), h) \in Shapes
    BY <1>2, Sorts, ShapeSorts
  <1>5. QED
    BY <1>1, <1>3, <1>4, LeadsLess

\* One more alternative of a union.
LEMMA NextDone ==
  ASSUME NEW o \in Seq(Tokens), NEW l \in Seq(Nat), NEW h \in Seq(Settled), NEW n \in Nat,
         n <= Len(l)
  PROVE  Leads(Go("union", n + 1), Now(o, Push(l, 0), Push(h, "spent")),
               Now(o, Instead(l, n, 0), h))
  <1> DEFINE p == Push(l, 0)
             m == n + 1
  <1>1. p \in Seq(Nat) /\ Len(p) = Len(l) + 1 /\ Len(l) \in Nat
    BY Pushed
  <1>2. m \in Nat /\ m <= Len(p) /\ m > 0
    BY <1>1
  <1>3. Instead(p, m, 0) = Instead(l, n, 0)
    BY Replaced
  <1> HIDE DEF p, m
  <1>4. Leads(Go("union", m), Now(o, p, Push(h, "spent")), Now(o, Instead(p, m, 0), h))
    BY <1>1, <1>2, HandedDone
  <1>5. QED
    BY <1>3, <1>4 DEF p, m

\* The right operand of an operator has been parsed.
LEMMA RhsDone ==
  ASSUME NEW o \in Seq(Tokens), NEW l \in Seq(Nat), NEW h \in Seq(Settled),
         NEW m \in SUBSET Tokens, NEW a \in Nat, NEW n \in Nat, n <= a,
         \A t \in m : Prec(t) <= a
  PROVE  Leads(Item("rhs", "", n), Shape(o, Push(l, a), m, h), Shape(o, Push(l, n), UpTo(n - 1), h))
  <1> DEFINE p == Push(l, a)
             q == Push(l, n)
  <1>1. /\ p \in Seq(Nat) /\ p # <<>> /\ Last(p) = a /\ q \in Seq(Nat)
        /\ Instead(p, 1, n) = q
    BY Pushed, Replaced
  <1> HIDE DEF p, q
  <1>2. UpTo(n - 1) \subseteq Tokens
    BY DEF UpTo
  <1>3. RhsDoes(n, Shape(o, p, m, h), Shape(o, q, UpTo(n - 1), h))
    BY <1>1, ShapeIs DEF RhsDoes
  <1>4. Shape(o, p, m, h) \in Shapes /\ Shape(o, q, UpTo(n - 1), h) \in Shapes
    BY <1>1, <1>2, Sorts, ShapeSorts
  <1>5. Does(Item("rhs", "", n), Shape(o, p, m, h), Shape(o, q, UpTo(n - 1), h))
    BY <1>3, <1>4 DEF Does, Item
  <1>6. QED
    BY <1>4, <1>5, DoesLeads DEF p, q

\* An expression ends where no operator follows.
LEMMA RhsAllDone ==
  ASSUME NEW o \in Seq(Tokens), NEW l \in Seq(Nat), NEW h \in Seq(Settled)
  PROVE  Leads(Item("rhs", "", 0), Now(o, Push(l, Unary), h), Now(o, Push(l, 0), h))
  <1>1. Unary \in Nat /\ 0 <= Unary /\ \A t \in Tokens : Prec(t) <= Unary
    <2>1. ASSUME NEW t \in Tokens PROVE Prec(t) <= 13
      <3>1. Prec(t) \in -1..12
        BY PrecType
      <3>2. QED
        BY <3>1
    <2>2. QED
      BY <2>1 DEF Unary
  <1>2. /\ Leads(Item("rhs", "", 0), Shape(o, Push(l, Unary), Tokens, h),
                 Shape(o, Push(l, 0), UpTo(0 - 1), h))
    BY <1>1, RhsDone
  <1>3. UpTo(0 - 1) \subseteq Tokens
    BY DEF UpTo
  <1>4. /\ Shape(o, Push(l, 0), UpTo(0 - 1), h) \in Shapes
        /\ Shape(o, Push(l, 0), Tokens, h) \in Shapes
    BY <1>3, Sorts, ShapeSorts
  <1>5. Promises(Shape(o, Push(l, 0), UpTo(0 - 1), h), Shape(o, Push(l, 0), Tokens, h))
    <2> DEFINE p == Push(l, 0)
    <2>1. p \in Seq(Nat)
      BY Sorts
    <2> HIDE DEF p
    <2>2. \A i \in 1..Len(p) : p[i] >= p[i]
      BY <2>1
    <2>3. QED
      BY <1>3, <2>2, ShapeIs DEF Promises, p
  <1>6. QED
    BY <1>2, <1>4, <1>5, LeadsLess DEF Now

-----------------------------------------------------------------------------
(* What a call puts in its place does what the call does.                  *)

(* Expressions.                                                            *)
LEMMA PostfixRuns ==
  ASSUME NEW t \in Tokens, NEW o \in Seq(Tokens), NEW l \in Seq(Nat), NEW h \in Seq(Settled)
  PROVE  /\ Runs(parse_index_expr, Now(o, Push(l, Postfix), h), Now(o, Push(l, Postfix), h))
         /\ Runs(parse_call_expr, Now(o, Push(l, Postfix), h), Now(o, Push(l, Postfix), h))
         /\ Runs(parse_postfix_expr, Now(o, l, h), Now(o, Push(l, Postfix), h))
         /\ Runs(effect_ref(t), Now(o, Push(l, Postfix), h), Now(o, Push(l, Postfix), h))
         /\ Runs(postfix_loop(t), Now(o, Push(l, Postfix), h), Now(o, Push(l, Postfix), h))
  <1>1. Runs(parse_index_expr, Now(o, Push(l, Postfix), h), Now(o, Push(l, Postfix), h))
    <2>1. Leads(Take("LBRACKET"), Now(o, Push(l, Postfix), h),
                Now(Push(o, "LBRACKET"), Push(l, Postfix), h))
      BY TakeDone, Sorts
    <2>2. Leads(Call("expr"), Now(Push(o, "LBRACKET"), Push(l, Postfix), h),
                Now(Push(o, "LBRACKET"), Push(Push(l, Postfix), 0), h))
      BY MakersDone, MakerNames, Sorts
    <2>3. Leads(Take("RBRACKET"), Now(Push(o, "LBRACKET"), Push(Push(l, Postfix), 0), h),
                Now(o, Push(Push(l, Postfix), 0), h))
      BY TakeDone, Sorts
    <2>4. Leads(Make("postfix", 2), Now(o, Push(Push(l, Postfix), 0), h),
                Now(o, Push(l, Postfix), h))
      BY MadeDone, Sorts
    <2>5. QED
      BY <2>1, <2>2, <2>3, <2>4, RunsFour DEF parse_index_expr
  <1>2. Runs(parse_call_expr, Now(o, Push(l, Postfix), h), Now(o, Push(l, Postfix), h))
    <2>1. Leads(Call("tuple_expr"), Now(o, Push(l, Postfix), h),
                Now(o, Push(Push(l, Postfix), 0), h))
      BY MakersDone, MakerNames, Sorts
    <2>2. Leads(Make("postfix", 2), Now(o, Push(Push(l, Postfix), 0), h),
                Now(o, Push(l, Postfix), h))
      BY MadeDone, Sorts
    <2>3. QED
      BY <2>1, <2>2, RunsTwo DEF parse_call_expr
  <1>3. Runs(parse_postfix_expr, Now(o, l, h), Now(o, Push(l, Postfix), h))
    <2>1. Leads(Call("primary_expr"), Now(o, l, h), Now(o, Push(l, Postfix), h))
      BY MakersDone, MakerNames, Sorts
    <2>2. Leads(Call("effect_ref"), Now(o, Push(l, Postfix), h), Now(o, Push(l, Postfix), h))
      BY OtherDone, OtherNames, Sorts
    <2>3. Leads(Call("postfix_loop"), Now(o, Push(l, Postfix), h), Now(o, Push(l, Postfix), h))
      BY OtherDone, OtherNames, Sorts
    <2>4. QED
      BY <2>1, <2>2, <2>3, RunsThree DEF parse_postfix_expr
  <1>4. Runs(effect_ref(t), Now(o, Push(l, Postfix), h), Now(o, Push(l, Postfix), h))
    <2>1. Runs(<<Take("NOT"), Make("postfix", 1)>>, Now(o, Push(l, Postfix), h),
          Now(o, Push(l, Postfix), h))
      <3>1. Leads(Take("NOT"), Now(o, Push(l, Postfix), h), Now(o, Push(l, Postfix), h))
        BY TakeDone, Sorts, WordNames
      <3>2. Leads(Make("postfix", 1), Now(o, Push(l, Postfix), h), Now(o, Push(l, Postfix), h))
        BY MadeDone, Sorts
      <3>3. QED
        BY <3>1, <3>2, RunsTwo
    <2>2. Runs(<<>>, Now(o, Push(l, Postfix), h), Now(o, Push(l, Postfix), h))
      BY RunsNothing, ShapeSorts, Sorts
    <2>3. QED
      BY <2>1, <2>2 DEF effect_ref, Opt
  <1>5. Runs(postfix_loop(t), Now(o, Push(l, Postfix), h), Now(o, Push(l, Postfix), h))
    <2>1. Runs(<<Take("DOT"), Call("primary_expr"), Make("postfix", 2), Call("postfix_loop")>>,
          Now(o, Push(l, Postfix), h), Now(o, Push(l, Postfix), h))
      <3>1. Leads(Take("DOT"), Now(o, Push(l, Postfix), h), Now(o, Push(l, Postfix), h))
        BY TakeDone, Sorts, WordNames
      <3>2. Leads(Call("primary_expr"), Now(o, Push(l, Postfix), h),
                  Now(o, Push(Push(l, Postfix), 0), h))
        BY MakersDone, MakerNames, Sorts
      <3>3. Leads(Make("postfix", 2), Now(o, Push(Push(l, Postfix), 0), h),
                  Now(o, Push(l, Postfix), h))
        BY MadeDone, Sorts
      <3>4. Leads(Call("postfix_loop"), Now(o, Push(l, Postfix), h),
                  Now(o, Push(l, Postfix), h))
        BY OtherDone, OtherNames, Sorts
      <3>5. QED
        BY <3>1, <3>2, <3>3, <3>4, RunsFour
    <2>2. Runs(<<Call("index_expr"), Call("postfix_loop")>>, Now(o, Push(l, Postfix), h),
          Now(o, Push(l, Postfix), h))
      <3>1. Leads(Call("index_expr"), Now(o, Push(l, Postfix), h), Now(o, Push(l, Postfix), h))
        BY OtherDone, OtherNames, Sorts
      <3>2. Leads(Call("postfix_loop"), Now(o, Push(l, Postfix), h),
                  Now(o, Push(l, Postfix), h))
        BY OtherDone, OtherNames, Sorts
      <3>3. QED
        BY <3>1, <3>2, RunsTwo
    <2>3. Runs(<<Call("call_expr"), Call("postfix_loop")>>, Now(o, Push(l, Postfix), h),
          Now(o, Push(l, Postfix), h))
      <3>1. Leads(Call("call_expr"), Now(o, Push(l, Postfix), h), Now(o, Push(l, Postfix), h))
        BY OtherDone, OtherNames, Sorts
      <3>2. Leads(Call("postfix_loop"), Now(o, Push(l, Postfix), h),
                  Now(o, Push(l, Postfix), h))
        BY OtherDone, OtherNames, Sorts
      <3>3. QED
        BY <3>1, <3>2, RunsTwo
    <2>4. Runs(<<Go("agg_expr", 1), Call("postfix_loop")>>, Now(o, Push(l, Postfix), h),
          Now(o, Push(l, Postfix), h))
      <3>1. Leads(Go("agg_expr", 1), Now(o, Push(l, Postfix), h), Now(o, Push(l, Postfix), h))
        BY OtherDone, OtherNames, Sorts
      <3>2. Leads(Call("postfix_loop"), Now(o, Push(l, Postfix), h),
                  Now(o, Push(l, Postfix), h))
        BY OtherDone, OtherNames, Sorts
      <3>3. QED
        BY <3>1, <3>2, RunsTwo
    <2>5. Runs(<<>>, Now(o, Push(l, Postfix), h), Now(o, Push(l, Postfix), h))
      BY RunsNothing, ShapeSorts, Sorts
    <2>6. QED
      BY <2>1, <2>2, <2>3, <2>4, <2>5 DEF postfix_loop
  <1>6. QED
    BY <1>1, <1>2, <1>3, <1>4, <1>5

LEMMA OperandRuns ==
  ASSUME NEW t \in Tokens, NEW o \in Seq(Tokens), NEW l \in Seq(Nat), NEW h \in Seq(Settled)
  PROVE  /\ Runs(parse_unary_expr(t), Now(o, l, h), Now(o, Push(l, Unary), h))
         /\ Runs(parse_expr, Now(o, l, h), Now(o, Push(l, 0), h))
         /\ Runs(parse_agg_expr(0), Now(o, l, h), Now(o, Push(l, Primary), h))
         /\ Runs(parse_agg_expr(1), Now(o, Push(l, Postfix), h), Now(o, Push(l, Postfix), h))
         /\ Runs(parse_type_expr, Now(o, l, h), Now(o, Push(l, Primary), h))
         /\ Runs(parse_var_expr, Now(o, l, h), Now(o, Push(l, Primary), h))
         /\ Runs(parse_selector_expr, Now(o, l, h), Now(o, Push(l, Primary), h))
         /\ Runs(parse_int_expr, Now(o, l, h), Now(o, Push(l, Primary), h))
         /\ Runs(parse_flt_expr, Now(o, l, h), Now(o, Push(l, Primary), h))
         /\ Runs(parse_str_expr, Now(o, l, h), Now(o, Push(l, Primary), h))
         /\ Runs(parse_chr_expr, Now(o, l, h), Now(o, Push(l, Primary), h))
         /\ Runs(parse_tuple_expr, Now(o, l, h), Now(o, Push(l, Primary), h))
         /\ Runs(no_trailing_comma(t), Now(o, l, h), Now(o, l, h))
  <1>1. Runs(parse_unary_expr(t), Now(o, l, h), Now(o, Push(l, Unary), h))
    <2>1. ASSUME t \in {"NOT", "MINUS", "STAR", "BAND", "ELLIPSIS"}
          PROVE  Runs(<<Take(t), Call("unary_expr"), Make("unary", 1)>>, Now(o, l, h),
                Now(o, Push(l, Unary), h))
      <3>1. Leads(Take(t), Now(o, l, h), Now(o, l, h))
        BY <2>1, TakeDone, Sorts, WordNames
      <3>2. Leads(Call("unary_expr"), Now(o, l, h), Now(o, Push(l, Unary), h))
        BY MakersDone, MakerNames, Sorts
      <3>3. Leads(Make("unary", 1), Now(o, Push(l, Unary), h), Now(o, Push(l, Unary), h))
        BY MadeDone, Sorts
      <3>4. QED
        BY <3>1, <3>2, <3>3, RunsThree
    <2>2. ASSUME t = "PLUS"
          PROVE  Runs(<<Take(t), Call("unary_expr")>>, Now(o, l, h), Now(o, Push(l, Unary), h))
      <3>1. Leads(Take(t), Now(o, l, h), Now(o, l, h))
        BY <2>2, TakeDone, Sorts, WordNames
      <3>2. Leads(Call("unary_expr"), Now(o, l, h), Now(o, Push(l, Unary), h))
        BY MakersDone, MakerNames, Sorts
      <3>3. QED
        BY <3>1, <3>2, RunsTwo
    <2>3. Runs(<<Call("postfix_expr")>>, Now(o, l, h), Now(o, Push(l, Unary), h))
      <3>1. Leads(Call("postfix_expr"), Now(o, l, h), Now(o, Push(l, Unary), h))
        BY MakersDone, MakerNames, Sorts
      <3>2. QED
        BY <3>1, RunsOne
    <2>4. QED
      BY <2>1, <2>2, <2>3 DEF parse_unary_expr
  <1>2. Runs(parse_expr, Now(o, l, h), Now(o, Push(l, 0), h))
    <2>1. Leads(Call("unary_expr"), Now(o, l, h), Now(o, Push(l, Unary), h))
      BY MakersDone, MakerNames, Sorts
    <2>2. Leads(Item("rhs", "", 0), Now(o, Push(l, Unary), h), Now(o, Push(l, 0), h))
      BY RhsAllDone, Sorts
    <2>3. QED
      BY <2>1, <2>2, RunsTwo DEF parse_expr
  <1>3. Runs(parse_agg_expr(0), Now(o, l, h), Now(o, Push(l, Primary), h))
    <2>1. Leads(Take("LBRACE"), Now(o, l, h), Now(Push(o, "LBRACE"), l, h))
      BY TakeDone, Sorts
    <2>2. Leads(List("agg_expr"), Now(Push(o, "LBRACE"), l, h), Now(o, l, h))
      BY ListsDone, Sorts
    <2>3. Leads(Make("expr", 0), Now(o, l, h), Now(o, Push(l, Primary), h))
      BY MadeDone, KindNames, Sorts
    <2>4. QED
      BY <2>1, <2>2, <2>3, RunsThree DEF parse_agg_expr
  <1>4. Runs(parse_agg_expr(1), Now(o, Push(l, Postfix), h), Now(o, Push(l, Postfix), h))
    <2>1. Leads(Take("LBRACE"), Now(o, Push(l, Postfix), h),
                Now(Push(o, "LBRACE"), Push(l, Postfix), h))
      BY TakeDone, Sorts
    <2>2. Leads(List("agg_expr"), Now(Push(o, "LBRACE"), Push(l, Postfix), h),
                Now(o, Push(l, Postfix), h))
      BY ListsDone, Sorts
    <2>3. Leads(Make("expr", 1), Now(o, Push(l, Postfix), h), Now(o, Push(l, Postfix), h))
      BY MadeLess, Sorts
    <2>4. QED
      BY <2>1, <2>2, <2>3, RunsThree DEF parse_agg_expr
  <1>5. Runs(parse_type_expr, Now(o, l, h), Now(o, Push(l, Primary), h))
    <2>1. Leads(Call("type"), Now(o, l, h), Now(o, Push(l, 0), h))
      BY MakersDone, MakerNames, Sorts
    <2>2. Leads(Make("typeexpr", 1), Now(o, Push(l, 0), h), Now(o, Push(l, Primary), h))
      BY MadeDone, KindNames, Sorts
    <2>3. QED
      BY <2>1, <2>2, RunsTwo DEF parse_type_expr
  <1>6. Runs(parse_var_expr, Now(o, l, h), Now(o, Push(l, Primary), h))
    <2>1. Leads(Take("IDENT"), Now(o, l, h), Now(o, l, h))
      BY TakeDone, Sorts, WordNames
    <2>2. Leads(Make("expr", 0), Now(o, l, h), Now(o, Push(l, Primary), h))
      BY MadeDone, KindNames, Sorts
    <2>3. QED
      BY <2>1, <2>2, RunsTwo DEF parse_var_expr
  <1>7. Runs(parse_selector_expr, Now(o, l, h), Now(o, Push(l, Primary), h))
    <2>1. Leads(Take("DOT"), Now(o, l, h), Now(o, l, h))
      BY TakeDone, Sorts, WordNames
    <2>2. Leads(Take("IDENT"), Now(o, l, h), Now(o, l, h))
      BY TakeDone, Sorts, WordNames
    <2>3. Leads(Make("expr", 0), Now(o, l, h), Now(o, Push(l, Primary), h))
      BY MadeDone, KindNames, Sorts
    <2>4. QED
      BY <2>1, <2>2, <2>3, RunsThree DEF parse_selector_expr
  <1>8. Runs(parse_int_expr, Now(o, l, h), Now(o, Push(l, Primary), h))
    <2>1. Leads(Take("LIT_INT"), Now(o, l, h), Now(o, l, h))
      BY TakeDone, Sorts, WordNames
    <2>2. Leads(Do("strtoull"), Now(o, l, h), Now(o, l, h))
      BY DoDone, KindNames, Sorts
    <2>3. Leads(Make("expr", 0), Now(o, l, h), Now(o, Push(l, Primary), h))
      BY MadeDone, KindNames, Sorts
    <2>4. QED
      BY <2>1, <2>2, <2>3, RunsThree DEF parse_int_expr
  <1>9. Runs(parse_flt_expr, Now(o, l, h), Now(o, Push(l, Primary), h))
    <2>1. Leads(Take("LIT_FLT"), Now(o, l, h), Now(o, l, h))
      BY TakeDone, Sorts, WordNames
    <2>2. Leads(Do("strtod"), Now(o, l, h), Now(o, l, h))
      BY DoDone, KindNames, Sorts
    <2>3. Leads(Make("expr", 0), Now(o, l, h), Now(o, Push(l, Primary), h))
      BY MadeDone, KindNames, Sorts
    <2>4. QED
      BY <2>1, <2>2, <2>3, RunsThree DEF parse_flt_expr
  <1>10. Runs(parse_str_expr, Now(o, l, h), Now(o, Push(l, Primary), h))
    <2>1. Leads(Take("LIT_STR"), Now(o, l, h), Now(o, l, h))
      BY TakeDone, Sorts, WordNames
    <2>2. Leads(Make("expr", 0), Now(o, l, h), Now(o, Push(l, Primary), h))
      BY MadeDone, KindNames, Sorts
    <2>3. QED
      BY <2>1, <2>2, RunsTwo DEF parse_str_expr
  <1>11. Runs(parse_chr_expr, Now(o, l, h), Now(o, Push(l, Primary), h))
    <2>1. Leads(Take("LIT_CHR"), Now(o, l, h), Now(o, l, h))
      BY TakeDone, Sorts, WordNames
    <2>2. Leads(Make("expr", 0), Now(o, l, h), Now(o, Push(l, Primary), h))
      BY MadeDone, KindNames, Sorts
    <2>3. QED
      BY <2>1, <2>2, RunsTwo DEF parse_chr_expr
  <1>12. Runs(parse_tuple_expr, Now(o, l, h), Now(o, Push(l, Primary), h))
    <2>1. Leads(Take("LPAREN"), Now(o, l, h), Now(Push(o, "LPAREN"), l, h))
      BY TakeDone, Sorts
    <2>2. Leads(List("tuple_expr"), Now(Push(o, "LPAREN"), l, h), Now(o, Push(l, Primary), h))
      BY ListsDone, Sorts
    <2>3. QED
      BY <2>1, <2>2, RunsTwo DEF parse_tuple_expr
  <1>13. Runs(no_trailing_comma(t), Now(o, l, h), Now(o, l, h))
    <2>1. Runs(<<Fail>>, Now(o, l, h), Now(o, l, h))
      <3>1. Leads(Fail, Now(o, l, h), Now(o, l, h))
        BY FailDone, ShapeSorts, Sorts
      <3>2. QED
        BY <3>1, RunsOne
    <2>2. Runs(<<>>, Now(o, l, h), Now(o, l, h))
      BY RunsNothing, ShapeSorts, Sorts
    <2>3. QED
      BY <2>1, <2>2 DEF no_trailing_comma, Opt
  <1>14. QED
    BY <1>1, <1>2, <1>3, <1>4, <1>5, <1>6, <1>7, <1>8, <1>9, <1>10, <1>11, <1>12, <1>13

(* Types.                                                                  *)
LEMMA TypeRuns ==
  ASSUME NEW t \in Tokens, NEW o \in Seq(Tokens), NEW l \in Seq(Nat), NEW h \in Seq(Settled),
         NEW a \in Nat
  PROVE  /\ Runs(parse_ident_type, Now(o, l, h), Now(o, Push(l, Primary), h))
         /\ Runs(parse_tuple_type, Now(o, l, h), Now(o, Push(l, Primary), h))
         /\ Runs(parse_args_type, Now(o, l, h), Now(o, l, h))
         /\ Runs(name_or_elem(t), Now(o, Push(l, a), h), Now(o, l, h))
         /\ Runs(parse_group_type, Now(o, l, h), Now(o, Push(l, Primary), h))
         /\ Runs(parse_varargs_type, Now(o, l, h), Now(o, Push(l, Primary), h))
         /\ Runs(parse_ptr_type, Now(o, l, h), Now(o, Push(l, Primary), h))
         /\ Runs(parse_atom_type, Now(o, l, h), Now(o, Push(l, Primary), h))
         /\ Runs(parse_bracket_type, Now(o, l, h), Now(o, Push(l, Primary), h))
         /\ Runs(in_brackets(t), Now(Push(o, "LBRACKET"), l, h), Now(o, Push(l, Primary), h))
         /\ Runs(enum_init(t), Now(o, l, h), Now(o, l, h))
  <1>1. Runs(parse_ident_type, Now(o, l, h), Now(o, Push(l, Primary), h))
    <2>1. Leads(Take("IDENT"), Now(o, l, h), Now(o, l, h))
      BY TakeDone, Sorts, WordNames
    <2>2. Leads(Make("ident", 0), Now(o, l, h), Now(o, Push(l, Primary), h))
      BY MadeDone, KindNames, Sorts
    <2>3. QED
      BY <2>1, <2>2, RunsTwo DEF parse_ident_type
  <1>2. Runs(parse_tuple_type, Now(o, l, h), Now(o, Push(l, Primary), h))
    <2>1. Leads(Take("LBRACE"), Now(o, l, h), Now(Push(o, "LBRACE"), l, h))
      BY TakeDone, Sorts
    <2>2. Leads(List("tuple_type"), Now(Push(o, "LBRACE"), l, h), Now(o, l, h))
      BY ListsDone, Sorts
    <2>3. Leads(Make("type", 0), Now(o, l, h), Now(o, Push(l, Primary), h))
      BY MadeDone, KindNames, Sorts
    <2>4. QED
      BY <2>1, <2>2, <2>3, RunsThree DEF parse_tuple_type
  <1>3. Runs(parse_args_type, Now(o, l, h), Now(o, l, h))
    <2>1. Leads(Take("LPAREN"), Now(o, l, h), Now(Push(o, "LPAREN"), l, h))
      BY TakeDone, Sorts
    <2>2. Leads(List("args_type"), Now(Push(o, "LPAREN"), l, h), Now(o, l, h))
      BY ListsDone, Sorts
    <2>3. QED
      BY <2>1, <2>2, RunsTwo DEF parse_args_type
  <1>4. Runs(name_or_elem(t), Now(o, Push(l, a), h), Now(o, l, h))
    <2>1. Runs(<<Drop>>, Now(o, Push(l, a), h), Now(o, l, h))
      <3>1. Leads(Drop, Now(o, Push(l, a), h), Now(o, l, h))
        BY DropDone, Sorts
      <3>2. QED
        BY <3>1, RunsOne
    <2>2. Runs(<<Drop, Take("COLON"), Call("type"), Drop>>, Now(o, Push(l, a), h), Now(o, l, h))
      <3>1. Leads(Drop, Now(o, Push(l, a), h), Now(o, l, h))
        BY DropDone, Sorts
      <3>2. Leads(Take("COLON"), Now(o, l, h), Now(o, l, h))
        BY TakeDone, Sorts, WordNames
      <3>3. Leads(Call("type"), Now(o, l, h), Now(o, Push(l, 0), h))
        BY MakersDone, MakerNames, Sorts
      <3>4. Leads(Drop, Now(o, Push(l, 0), h), Now(o, l, h))
        BY DropDone, Sorts
      <3>5. QED
        BY <3>1, <3>2, <3>3, <3>4, RunsFour
    <2>3. Runs(<<Fail>>, Now(o, Push(l, a), h), Now(o, l, h))
      <3>1. Leads(Fail, Now(o, Push(l, a), h), Now(o, l, h))
        BY FailDone, ShapeSorts, Sorts
      <3>2. QED
        BY <3>1, RunsOne
    <2>4. QED
      BY <2>1, <2>2, <2>3 DEF name_or_elem
  <1>5. Runs(parse_group_type, Now(o, l, h), Now(o, Push(l, Primary), h))
    <2>1. Leads(Take("LPAREN"), Now(o, l, h), Now(Push(o, "LPAREN"), l, h))
      BY TakeDone, Sorts
    <2>2. Leads(Call("type"), Now(Push(o, "LPAREN"), l, h),
                Now(Push(o, "LPAREN"), Push(l, 0), h))
      BY MakersDone, MakerNames, Sorts
    <2>3. Leads(Take("RPAREN"), Now(Push(o, "LPAREN"), Push(l, 0), h), Now(o, Push(l, 0), h))
      BY TakeDone, Sorts
    <2>4. Leads(Make("type", 1), Now(o, Push(l, 0), h), Now(o, Push(l, Primary), h))
      BY MadeDone, KindNames, Sorts
    <2>5. QED
      BY <2>1, <2>2, <2>3, <2>4, RunsFour DEF parse_group_type
  <1>6. Runs(parse_varargs_type, Now(o, l, h), Now(o, Push(l, Primary), h))
    <2>1. Leads(Take("ELLIPSIS"), Now(o, l, h), Now(o, l, h))
      BY TakeDone, Sorts, WordNames
    <2>2. Leads(Make("type", 0), Now(o, l, h), Now(o, Push(l, Primary), h))
      BY MadeDone, KindNames, Sorts
    <2>3. QED
      BY <2>1, <2>2, RunsTwo DEF parse_varargs_type
  <1>7. Runs(parse_ptr_type, Now(o, l, h), Now(o, Push(l, Primary), h))
    <2>1. Leads(Take("STAR"), Now(o, l, h), Now(o, l, h))
      BY TakeDone, Sorts, WordNames
    <2>2. Leads(Call("type"), Now(o, l, h), Now(o, Push(l, 0), h))
      BY MakersDone, MakerNames, Sorts
    <2>3. Leads(Make("type", 1), Now(o, Push(l, 0), h), Now(o, Push(l, Primary), h))
      BY MadeDone, KindNames, Sorts
    <2>4. QED
      BY <2>1, <2>2, <2>3, RunsThree DEF parse_ptr_type
  <1>8. Runs(parse_atom_type, Now(o, l, h), Now(o, Push(l, Primary), h))
    <2>1. Leads(Call("type"), Now(o, l, h), Now(o, Push(l, 0), h))
      BY MakersDone, MakerNames, Sorts
    <2>2. Leads(Make("type", 1), Now(o, Push(l, 0), h), Now(o, Push(l, Primary), h))
      BY MadeDone, KindNames, Sorts
    <2>3. QED
      BY <2>1, <2>2, RunsTwo DEF parse_atom_type
  <1>9. Runs(parse_bracket_type, Now(o, l, h), Now(o, Push(l, Primary), h))
    <2>1. Leads(Take("LBRACKET"), Now(o, l, h), Now(Push(o, "LBRACKET"), l, h))
      BY TakeDone, Sorts
    <2>2. Leads(Call("in_brackets"), Now(Push(o, "LBRACKET"), l, h),
                Now(o, Push(l, Primary), h))
      BY OtherDone, OtherNames, Sorts
    <2>3. QED
      BY <2>1, <2>2, RunsTwo DEF parse_bracket_type
  <1>10. Runs(in_brackets(t), Now(Push(o, "LBRACKET"), l, h), Now(o, Push(l, Primary), h))
    <2>1. Runs(<<List("enums"), Make("type", 0)>>, Now(Push(o, "LBRACKET"), l, h),
          Now(o, Push(l, Primary), h))
      <3>1. Leads(List("enums"), Now(Push(o, "LBRACKET"), l, h), Now(o, l, h))
        BY ListsDone, Sorts
      <3>2. Leads(Make("type", 0), Now(o, l, h), Now(o, Push(l, Primary), h))
        BY MadeDone, KindNames, Sorts
      <3>3. QED
        BY <3>1, <3>2, RunsTwo
    <2>2. Runs(<<Take("QUESTION"), Take("RBRACKET"), Call("type"), Make("type", 1)>>,
          Now(Push(o, "LBRACKET"), l, h), Now(o, Push(l, Primary), h))
      <3>1. Leads(Take("QUESTION"), Now(Push(o, "LBRACKET"), l, h),
                  Now(Push(o, "LBRACKET"), l, h))
        BY TakeDone, Sorts, WordNames
      <3>2. Leads(Take("RBRACKET"), Now(Push(o, "LBRACKET"), l, h), Now(o, l, h))
        BY TakeDone, Sorts
      <3>3. Leads(Call("type"), Now(o, l, h), Now(o, Push(l, 0), h))
        BY MakersDone, MakerNames, Sorts
      <3>4. Leads(Make("type", 1), Now(o, Push(l, 0), h), Now(o, Push(l, Primary), h))
        BY MadeDone, KindNames, Sorts
      <3>5. QED
        BY <3>1, <3>2, <3>3, <3>4, RunsFour
    <2>3. Runs(<<Call("expr"), Take("RBRACKET"), Call("type"), Make("type", 2)>>,
          Now(Push(o, "LBRACKET"), l, h), Now(o, Push(l, Primary), h))
      <3>1. Leads(Call("expr"), Now(Push(o, "LBRACKET"), l, h),
                  Now(Push(o, "LBRACKET"), Push(l, 0), h))
        BY MakersDone, MakerNames, Sorts
      <3>2. Leads(Take("RBRACKET"), Now(Push(o, "LBRACKET"), Push(l, 0), h),
                  Now(o, Push(l, 0), h))
        BY TakeDone, Sorts
      <3>3. Leads(Call("type"), Now(o, Push(l, 0), h), Now(o, Push(Push(l, 0), 0), h))
        BY MakersDone, MakerNames, Sorts
      <3>4. Leads(Make("type", 2), Now(o, Push(Push(l, 0), 0), h), Now(o, Push(l, Primary), h))
        BY MadeDone, KindNames, Sorts
      <3>5. QED
        BY <3>1, <3>2, <3>3, <3>4, RunsFour
    <2>4. QED
      BY <2>1, <2>2, <2>3 DEF in_brackets
  <1>11. Runs(enum_init(t), Now(o, l, h), Now(o, l, h))
    <2>1. Runs(<<Take("EQ"), Call("expr"), Drop>>, Now(o, l, h), Now(o, l, h))
      <3>1. Leads(Take("EQ"), Now(o, l, h), Now(o, l, h))
        BY TakeDone, Sorts, WordNames
      <3>2. Leads(Call("expr"), Now(o, l, h), Now(o, Push(l, 0), h))
        BY MakersDone, MakerNames, Sorts
      <3>3. Leads(Drop, Now(o, Push(l, 0), h), Now(o, l, h))
        BY DropDone, Sorts
      <3>4. QED
        BY <3>1, <3>2, <3>3, RunsThree
    <2>2. Runs(<<>>, Now(o, l, h), Now(o, l, h))
      BY RunsNothing, ShapeSorts, Sorts
    <2>3. QED
      BY <2>1, <2>2 DEF enum_init, Opt
  <1>12. QED
    BY <1>1, <1>2, <1>3, <1>4, <1>5, <1>6, <1>7, <1>8, <1>9, <1>10, <1>11

LEMMA FnTypeRuns ==
  ASSUME NEW t \in Tokens, NEW o \in Seq(Tokens), NEW l \in Seq(Nat), NEW h \in Seq(Settled)
  PROVE  /\ Runs(parse_fn_type, Now(o, l, h), Now(o, Push(l, Primary), h))
         /\ Runs(more_args(t), Now(o, l, h), Now(o, l, h))
         /\ Runs(effects(t), Now(o, l, h), Now(o, l, h))
         /\ Runs(ret(t), Now(o, l, h), Now(o, l, h))
  <1>1. Runs(parse_fn_type, Now(o, l, h), Now(o, Push(l, Primary), h))
    <2>1. Leads(Take("KW_FN"), Now(o, l, h), Now(o, l, h))
      BY TakeDone, Sorts, WordNames
    <2>2. Leads(Call("args_type"), Now(o, l, h), Now(o, l, h))
      BY OtherDone, OtherNames, Sorts
    <2>3. Leads(Call("more_args"), Now(o, l, h), Now(o, l, h))
      BY OtherDone, OtherNames, Sorts
    <2>4. Leads(Call("effects"), Now(o, l, h), Now(o, l, h))
      BY OtherDone, OtherNames, Sorts
    <2>5. Leads(Call("ret"), Now(o, l, h), Now(o, l, h))
      BY OtherDone, OtherNames, Sorts
    <2>6. Leads(Make("type", 0), Now(o, l, h), Now(o, Push(l, Primary), h))
      BY MadeDone, KindNames, Sorts
    <2>7. QED
      BY <2>1, <2>2, <2>3, <2>4, <2>5, <2>6, RunsSix DEF parse_fn_type
  <1>2. Runs(more_args(t), Now(o, l, h), Now(o, l, h))
    <2>1. Runs(<<Call("args_type")>>, Now(o, l, h), Now(o, l, h))
      <3>1. Leads(Call("args_type"), Now(o, l, h), Now(o, l, h))
        BY OtherDone, OtherNames, Sorts
      <3>2. QED
        BY <3>1, RunsOne
    <2>2. Runs(<<>>, Now(o, l, h), Now(o, l, h))
      BY RunsNothing, ShapeSorts, Sorts
    <2>3. QED
      BY <2>1, <2>2 DEF more_args, Opt
  <1>3. Runs(effects(t), Now(o, l, h), Now(o, l, h))
    <2>1. Runs(<<Take("LT"), List("effects")>>, Now(o, l, h), Now(o, l, h))
      <3>1. Leads(Take("LT"), Now(o, l, h), Now(o, l, h))
        BY TakeDone, Sorts, WordNames
      <3>2. Leads(List("effects"), Now(o, l, h), Now(o, l, h))
        BY ListsDone, Sorts
      <3>3. QED
        BY <3>1, <3>2, RunsTwo
    <2>2. Runs(<<>>, Now(o, l, h), Now(o, l, h))
      BY RunsNothing, ShapeSorts, Sorts
    <2>3. QED
      BY <2>1, <2>2 DEF effects, Opt
  <1>4. Runs(ret(t), Now(o, l, h), Now(o, l, h))
    <2>1. Runs(<<Take("ARROW"), Call("type"), Drop>>, Now(o, l, h), Now(o, l, h))
      <3>1. Leads(Take("ARROW"), Now(o, l, h), Now(o, l, h))
        BY TakeDone, Sorts, WordNames
      <3>2. Leads(Call("type"), Now(o, l, h), Now(o, Push(l, 0), h))
        BY MakersDone, MakerNames, Sorts
      <3>3. Leads(Drop, Now(o, Push(l, 0), h), Now(o, l, h))
        BY DropDone, Sorts
      <3>4. QED
        BY <3>1, <3>2, <3>3, RunsThree
    <2>2. Runs(<<>>, Now(o, l, h), Now(o, l, h))
      BY RunsNothing, ShapeSorts, Sorts
    <2>3. QED
      BY <2>1, <2>2 DEF ret, Opt
  <1>5. QED
    BY <1>1, <1>2, <1>3, <1>4

(* Statements.                                                             *)
LEMMA StmtRuns ==
  ASSUME NEW t \in Tokens, NEW o \in Seq(Tokens), NEW l \in Seq(Nat), NEW h \in Seq(Settled)
  PROVE  /\ Runs(parse_stmt(t), Now(o, l, h), Now(o, l, h))
         /\ Runs(parse_block_stmt, Now(o, l, h), Now(o, l, h))
         /\ Runs(stmts(t), Now(o, l, h), Now(o, l, h))
         /\ Runs(parse_return_stmt, Now(o, l, h), Now(o, l, h))
         /\ Runs(return_value(t), Now(o, l, h), Now(o, l, h))
         /\ Runs(parse_defer_stmt, Now(o, l, h), Now(o, l, h))
         /\ Runs(parse_break_stmt, Now(o, l, h), Now(o, l, h))
         /\ Runs(parse_continue_stmt, Now(o, l, h), Now(o, l, h))
         /\ Runs(parse_if_stmt, Now(o, l, h), Now(o, l, h))
         /\ Runs(init(t), Now(o, l, h), Now(o, l, h))
         /\ Runs(else_if(t), Now(o, l, h), Now(o, l, h))
         /\ Runs(else_arm(t), Now(o, l, h), Now(o, l, h))
  <1>1. Runs(parse_stmt(t), Now(o, l, h), Now(o, l, h))
    <2>1. Runs(<<Call("block_stmt")>>, Now(o, l, h), Now(o, l, h))
      <3>1. Leads(Call("block_stmt"), Now(o, l, h), Now(o, l, h))
        BY OtherDone, OtherNames, Sorts
      <3>2. QED
        BY <3>1, RunsOne
    <2>2. Runs(<<Call("return_stmt")>>, Now(o, l, h), Now(o, l, h))
      <3>1. Leads(Call("return_stmt"), Now(o, l, h), Now(o, l, h))
        BY OtherDone, OtherNames, Sorts
      <3>2. QED
        BY <3>1, RunsOne
    <2>3. Runs(<<Call("defer_stmt")>>, Now(o, l, h), Now(o, l, h))
      <3>1. Leads(Call("defer_stmt"), Now(o, l, h), Now(o, l, h))
        BY OtherDone, OtherNames, Sorts
      <3>2. QED
        BY <3>1, RunsOne
    <2>4. Runs(<<Call("break_stmt")>>, Now(o, l, h), Now(o, l, h))
      <3>1. Leads(Call("break_stmt"), Now(o, l, h), Now(o, l, h))
        BY OtherDone, OtherNames, Sorts
      <3>2. QED
        BY <3>1, RunsOne
    <2>5. Runs(<<Call("continue_stmt")>>, Now(o, l, h), Now(o, l, h))
      <3>1. Leads(Call("continue_stmt"), Now(o, l, h), Now(o, l, h))
        BY OtherDone, OtherNames, Sorts
      <3>2. QED
        BY <3>1, RunsOne
    <2>6. Runs(<<Call("if_stmt")>>, Now(o, l, h), Now(o, l, h))
      <3>1. Leads(Call("if_stmt"), Now(o, l, h), Now(o, l, h))
        BY OtherDone, OtherNames, Sorts
      <3>2. QED
        BY <3>1, RunsOne
    <2>7. Runs(<<Call("let_stmt")>>, Now(o, l, h), Now(o, l, h))
      <3>1. Leads(Call("let_stmt"), Now(o, l, h), Now(o, l, h))
        BY OtherDone, OtherNames, Sorts
      <3>2. QED
        BY <3>1, RunsOne
    <2>8. Runs(<<Call("using_stmt")>>, Now(o, l, h), Now(o, l, h))
      <3>1. Leads(Call("using_stmt"), Now(o, l, h), Now(o, l, h))
        BY OtherDone, OtherNames, Sorts
      <3>2. QED
        BY <3>1, RunsOne
    <2>9. Runs(<<Call("for_stmt")>>, Now(o, l, h), Now(o, l, h))
      <3>1. Leads(Call("for_stmt"), Now(o, l, h), Now(o, l, h))
        BY OtherDone, OtherNames, Sorts
      <3>2. QED
        BY <3>1, RunsOne
    <2>10. Runs(<<Take("AT"), Hold, Call("attrs"), Keep, Call("only_let")>>, Now(o, l, h),
          Now(o, l, h))
      <3>1. Leads(Take("AT"), Now(o, l, h), Now(o, l, h))
        BY TakeDone, Sorts, WordNames
      <3>2. Leads(Hold, Now(o, l, h), Now(o, l, Push(h, "spent")))
        BY AttrsDone, Sorts
      <3>3. Leads(Call("attrs"), Now(o, l, Push(h, "spent")), Now(o, l, Push(h, "spent")))
        BY OtherDone, OtherNames, Sorts
      <3>4. Leads(Keep, Now(o, l, Push(h, "spent")), Now(o, l, Push(h, "new")))
        BY AttrsDone, Sorts
      <3>5. Leads(Call("only_let"), Now(o, l, Push(h, "new")), Now(o, l, h))
        BY HandedDone, Sorts
      <3>6. QED
        BY <3>1, <3>2, <3>3, <3>4, <3>5, RunsFive
    <2>11. Runs(<<Call("expr_stmt"), Take("SEMI")>>, Now(o, l, h), Now(o, l, h))
      <3>1. Leads(Call("expr_stmt"), Now(o, l, h), Now(o, l, h))
        BY OtherDone, OtherNames, Sorts
      <3>2. Leads(Take("SEMI"), Now(o, l, h), Now(o, l, h))
        BY TakeDone, Sorts, WordNames
      <3>3. QED
        BY <3>1, <3>2, RunsTwo
    <2>12. QED
      BY <2>1, <2>2, <2>3, <2>4, <2>5, <2>6, <2>7, <2>8, <2>9, <2>10, <2>11 DEF parse_stmt
  <1>2. Runs(parse_block_stmt, Now(o, l, h), Now(o, l, h))
    <2>1. Leads(Take("LBRACE"), Now(o, l, h), Now(Push(o, "LBRACE"), l, h))
      BY TakeDone, Sorts
    <2>2. Leads(Call("stmts"), Now(Push(o, "LBRACE"), l, h), Now(Push(o, "LBRACE"), l, h))
      BY OtherDone, OtherNames, Sorts
    <2>3. Leads(Take("RBRACE"), Now(Push(o, "LBRACE"), l, h), Now(o, l, h))
      BY TakeDone, Sorts
    <2>4. QED
      BY <2>1, <2>2, <2>3, RunsThree DEF parse_block_stmt
  <1>3. Runs(stmts(t), Now(o, l, h), Now(o, l, h))
    <2>1. Runs(<<Call("stmt"), Call("stmts")>>, Now(o, l, h), Now(o, l, h))
      <3>1. Leads(Call("stmt"), Now(o, l, h), Now(o, l, h))
        BY OtherDone, OtherNames, Sorts
      <3>2. Leads(Call("stmts"), Now(o, l, h), Now(o, l, h))
        BY OtherDone, OtherNames, Sorts
      <3>3. QED
        BY <3>1, <3>2, RunsTwo
    <2>2. Runs(<<>>, Now(o, l, h), Now(o, l, h))
      BY RunsNothing, ShapeSorts, Sorts
    <2>3. QED
      BY <2>1, <2>2 DEF stmts
  <1>4. Runs(parse_return_stmt, Now(o, l, h), Now(o, l, h))
    <2>1. Runs(<<Fail>>, Now(o, l, h), Now(o, l, h))
      <3>1. Leads(Fail, Now(o, l, h), Now(o, l, h))
        BY FailDone, ShapeSorts, Sorts
      <3>2. QED
        BY <3>1, RunsOne
    <2>2. Runs(<<Take("KW_RETURN"), Call("return_value"), Take("SEMI")>>, Now(o, l, h),
          Now(o, l, h))
      <3>1. Leads(Take("KW_RETURN"), Now(o, l, h), Now(o, l, h))
        BY TakeDone, Sorts, WordNames
      <3>2. Leads(Call("return_value"), Now(o, l, h), Now(o, l, h))
        BY OtherDone, OtherNames, Sorts
      <3>3. Leads(Take("SEMI"), Now(o, l, h), Now(o, l, h))
        BY TakeDone, Sorts, WordNames
      <3>4. QED
        BY <3>1, <3>2, <3>3, RunsThree
    <2>3. QED
      BY <2>1, <2>2 DEF parse_return_stmt
  <1>5. Runs(return_value(t), Now(o, l, h), Now(o, l, h))
    <2>1. Runs(<<>>, Now(o, l, h), Now(o, l, h))
      BY RunsNothing, ShapeSorts, Sorts
    <2>2. Runs(<<Call("expr"), Drop>>, Now(o, l, h), Now(o, l, h))
      <3>1. Leads(Call("expr"), Now(o, l, h), Now(o, Push(l, 0), h))
        BY MakersDone, MakerNames, Sorts
      <3>2. Leads(Drop, Now(o, Push(l, 0), h), Now(o, l, h))
        BY DropDone, Sorts
      <3>3. QED
        BY <3>1, <3>2, RunsTwo
    <2>3. QED
      BY <2>1, <2>2 DEF return_value
  <1>6. Runs(parse_defer_stmt, Now(o, l, h), Now(o, l, h))
    <2>1. Leads(Take("KW_DEFER"), Now(o, l, h), Now(o, l, h))
      BY TakeDone, Sorts, WordNames
    <2>2. Leads(Do("defer"), Now(o, l, h), Now(o, l, h))
      BY DoDone, KindNames, Sorts
    <2>3. QED
      BY <2>1, <2>2, RunsTwo DEF parse_defer_stmt
  <1>7. Runs(parse_break_stmt, Now(o, l, h), Now(o, l, h))
    <2>1. Leads(Take("KW_BREAK"), Now(o, l, h), Now(o, l, h))
      BY TakeDone, Sorts, WordNames
    <2>2. Leads(Take("SEMI"), Now(o, l, h), Now(o, l, h))
      BY TakeDone, Sorts, WordNames
    <2>3. QED
      BY <2>1, <2>2, RunsTwo DEF parse_break_stmt
  <1>8. Runs(parse_continue_stmt, Now(o, l, h), Now(o, l, h))
    <2>1. Leads(Take("KW_CONTINUE"), Now(o, l, h), Now(o, l, h))
      BY TakeDone, Sorts, WordNames
    <2>2. Leads(Take("SEMI"), Now(o, l, h), Now(o, l, h))
      BY TakeDone, Sorts, WordNames
    <2>3. QED
      BY <2>1, <2>2, RunsTwo DEF parse_continue_stmt
  <1>9. Runs(parse_if_stmt, Now(o, l, h), Now(o, l, h))
    <2>1. Leads(Take("KW_IF"), Now(o, l, h), Now(o, l, h))
      BY TakeDone, Sorts, WordNames
    <2>2. Leads(Call("init"), Now(o, l, h), Now(o, l, h))
      BY OtherDone, OtherNames, Sorts
    <2>3. Leads(Call("expr"), Now(o, l, h), Now(o, Push(l, 0), h))
      BY MakersDone, MakerNames, Sorts
    <2>4. Leads(Drop, Now(o, Push(l, 0), h), Now(o, l, h))
      BY DropDone, Sorts
    <2>5. Leads(Call("block_stmt"), Now(o, l, h), Now(o, l, h))
      BY OtherDone, OtherNames, Sorts
    <2>6. Leads(Call("else_if"), Now(o, l, h), Now(o, l, h))
      BY OtherDone, OtherNames, Sorts
    <2>7. QED
      BY <2>1, <2>2, <2>3, <2>4, <2>5, <2>6, RunsSix DEF parse_if_stmt
  <1>10. Runs(init(t), Now(o, l, h), Now(o, l, h))
    <2>1. Runs(<<Call("let_stmt")>>, Now(o, l, h), Now(o, l, h))
      <3>1. Leads(Call("let_stmt"), Now(o, l, h), Now(o, l, h))
        BY OtherDone, OtherNames, Sorts
      <3>2. QED
        BY <3>1, RunsOne
    <2>2. Runs(<<>>, Now(o, l, h), Now(o, l, h))
      BY RunsNothing, ShapeSorts, Sorts
    <2>3. QED
      BY <2>1, <2>2 DEF init, Opt
  <1>11. Runs(else_if(t), Now(o, l, h), Now(o, l, h))
    <2>1. Runs(<<Take("KW_ELSE"), Call("else_arm")>>, Now(o, l, h), Now(o, l, h))
      <3>1. Leads(Take("KW_ELSE"), Now(o, l, h), Now(o, l, h))
        BY TakeDone, Sorts, WordNames
      <3>2. Leads(Call("else_arm"), Now(o, l, h), Now(o, l, h))
        BY OtherDone, OtherNames, Sorts
      <3>3. QED
        BY <3>1, <3>2, RunsTwo
    <2>2. Runs(<<>>, Now(o, l, h), Now(o, l, h))
      BY RunsNothing, ShapeSorts, Sorts
    <2>3. QED
      BY <2>1, <2>2 DEF else_if, Opt
  <1>12. Runs(else_arm(t), Now(o, l, h), Now(o, l, h))
    <2>1. Runs(<<Call("if_stmt")>>, Now(o, l, h), Now(o, l, h))
      <3>1. Leads(Call("if_stmt"), Now(o, l, h), Now(o, l, h))
        BY OtherDone, OtherNames, Sorts
      <3>2. QED
        BY <3>1, RunsOne
    <2>2. Runs(<<Call("block_stmt")>>, Now(o, l, h), Now(o, l, h))
      <3>1. Leads(Call("block_stmt"), Now(o, l, h), Now(o, l, h))
        BY OtherDone, OtherNames, Sorts
      <3>2. QED
        BY <3>1, RunsOne
    <2>3. QED
      BY <2>1, <2>2 DEF else_arm
  <1>13. QED
    BY <1>1, <1>2, <1>3, <1>4, <1>5, <1>6, <1>7, <1>8, <1>9, <1>10, <1>11, <1>12

LEMMA MoreStmtRuns ==
  ASSUME NEW t \in Tokens, NEW o \in Seq(Tokens), NEW l \in Seq(Nat), NEW h \in Seq(Settled)
  PROVE  /\ Runs(parse_let_stmt, Now(o, l, h), Now(o, l, h))
         /\ Runs(parse_using_stmt, Now(o, l, h), Now(o, l, h))
         /\ Runs(parse_for_stmt, Now(o, l, h), Now(o, l, h))
         /\ Runs(for_expr(t), Now(o, l, h), Now(o, l, h))
         /\ Runs(for_post(t), Now(o, l, h), Now(o, l, h))
         /\ Runs(post_stmt(t), Now(o, l, h), Now(o, l, h))
         /\ Runs(for_else(t), Now(o, l, h), Now(o, l, h))
         /\ Runs(parse_expr_stmt, Now(o, l, h), Now(o, l, h))
         /\ Runs(assignment(t), Now(o, l, h), Now(o, l, h))
  <1>1. Runs(parse_let_stmt, Now(o, l, h), Now(o, l, h))
    <2>1. Leads(Take("KW_LET"), Now(o, l, h), Now(o, l, h))
      BY TakeDone, Sorts, WordNames
    <2>2. Leads(Take("IDENT"), Now(o, l, h), Now(o, l, h))
      BY TakeDone, Sorts, WordNames
    <2>3. Leads(Take("EQ"), Now(o, l, h), Now(o, l, h))
      BY TakeDone, Sorts, WordNames
    <2>4. Leads(Call("expr"), Now(o, l, h), Now(o, Push(l, 0), h))
      BY MakersDone, MakerNames, Sorts
    <2>5. Leads(Drop, Now(o, Push(l, 0), h), Now(o, l, h))
      BY DropDone, Sorts
    <2>6. Leads(Take("SEMI"), Now(o, l, h), Now(o, l, h))
      BY TakeDone, Sorts, WordNames
    <2>7. QED
      BY <2>1, <2>2, <2>3, <2>4, <2>5, <2>6, RunsSix DEF parse_let_stmt
  <1>2. Runs(parse_using_stmt, Now(o, l, h), Now(o, l, h))
    <2>1. Leads(Take("KW_USING"), Now(o, l, h), Now(o, l, h))
      BY TakeDone, Sorts, WordNames
    <2>2. Leads(Take("IDENT"), Now(o, l, h), Now(o, l, h))
      BY TakeDone, Sorts, WordNames
    <2>3. Leads(Take("EQ"), Now(o, l, h), Now(o, l, h))
      BY TakeDone, Sorts, WordNames
    <2>4. Leads(Call("expr"), Now(o, l, h), Now(o, Push(l, 0), h))
      BY MakersDone, MakerNames, Sorts
    <2>5. Leads(Drop, Now(o, Push(l, 0), h), Now(o, l, h))
      BY DropDone, Sorts
    <2>6. Leads(Take("SEMI"), Now(o, l, h), Now(o, l, h))
      BY TakeDone, Sorts, WordNames
    <2>7. QED
      BY <2>1, <2>2, <2>3, <2>4, <2>5, <2>6, RunsSix DEF parse_using_stmt
  <1>3. Runs(parse_for_stmt, Now(o, l, h), Now(o, l, h))
    <2>1. Leads(Take("KW_FOR"), Now(o, l, h), Now(o, l, h))
      BY TakeDone, Sorts, WordNames
    <2>2. Leads(Call("init"), Now(o, l, h), Now(o, l, h))
      BY OtherDone, OtherNames, Sorts
    <2>3. Leads(Call("for_expr"), Now(o, l, h), Now(o, l, h))
      BY OtherDone, OtherNames, Sorts
    <2>4. Leads(Call("for_post"), Now(o, l, h), Now(o, l, h))
      BY OtherDone, OtherNames, Sorts
    <2>5. Leads(Call("block_stmt"), Now(o, l, h), Now(o, l, h))
      BY OtherDone, OtherNames, Sorts
    <2>6. Leads(Call("for_else"), Now(o, l, h), Now(o, l, h))
      BY OtherDone, OtherNames, Sorts
    <2>7. QED
      BY <2>1, <2>2, <2>3, <2>4, <2>5, <2>6, RunsSix DEF parse_for_stmt
  <1>4. Runs(for_expr(t), Now(o, l, h), Now(o, l, h))
    <2>1. Runs(<<>>, Now(o, l, h), Now(o, l, h))
      BY RunsNothing, ShapeSorts, Sorts
    <2>2. Runs(<<Call("expr"), Drop>>, Now(o, l, h), Now(o, l, h))
      <3>1. Leads(Call("expr"), Now(o, l, h), Now(o, Push(l, 0), h))
        BY MakersDone, MakerNames, Sorts
      <3>2. Leads(Drop, Now(o, Push(l, 0), h), Now(o, l, h))
        BY DropDone, Sorts
      <3>3. QED
        BY <3>1, <3>2, RunsTwo
    <2>3. QED
      BY <2>1, <2>2 DEF for_expr
  <1>5. Runs(for_post(t), Now(o, l, h), Now(o, l, h))
    <2>1. Runs(<<Take("SEMI"), Call("post_stmt")>>, Now(o, l, h), Now(o, l, h))
      <3>1. Leads(Take("SEMI"), Now(o, l, h), Now(o, l, h))
        BY TakeDone, Sorts, WordNames
      <3>2. Leads(Call("post_stmt"), Now(o, l, h), Now(o, l, h))
        BY OtherDone, OtherNames, Sorts
      <3>3. QED
        BY <3>1, <3>2, RunsTwo
    <2>2. Runs(<<>>, Now(o, l, h), Now(o, l, h))
      BY RunsNothing, ShapeSorts, Sorts
    <2>3. QED
      BY <2>1, <2>2 DEF for_post, Opt
  <1>6. Runs(post_stmt(t), Now(o, l, h), Now(o, l, h))
    <2>1. Runs(<<Fail>>, Now(o, l, h), Now(o, l, h))
      <3>1. Leads(Fail, Now(o, l, h), Now(o, l, h))
        BY FailDone, ShapeSorts, Sorts
      <3>2. QED
        BY <3>1, RunsOne
    <2>2. Runs(<<Call("expr_stmt")>>, Now(o, l, h), Now(o, l, h))
      <3>1. Leads(Call("expr_stmt"), Now(o, l, h), Now(o, l, h))
        BY OtherDone, OtherNames, Sorts
      <3>2. QED
        BY <3>1, RunsOne
    <2>3. QED
      BY <2>1, <2>2 DEF post_stmt
  <1>7. Runs(for_else(t), Now(o, l, h), Now(o, l, h))
    <2>1. Runs(<<Take("KW_ELSE"), Call("block_stmt")>>, Now(o, l, h), Now(o, l, h))
      <3>1. Leads(Take("KW_ELSE"), Now(o, l, h), Now(o, l, h))
        BY TakeDone, Sorts, WordNames
      <3>2. Leads(Call("block_stmt"), Now(o, l, h), Now(o, l, h))
        BY OtherDone, OtherNames, Sorts
      <3>3. QED
        BY <3>1, <3>2, RunsTwo
    <2>2. Runs(<<>>, Now(o, l, h), Now(o, l, h))
      BY RunsNothing, ShapeSorts, Sorts
    <2>3. QED
      BY <2>1, <2>2 DEF for_else, Opt
  <1>8. Runs(parse_expr_stmt, Now(o, l, h), Now(o, l, h))
    <2>1. Leads(Call("expr"), Now(o, l, h), Now(o, Push(l, 0), h))
      BY MakersDone, MakerNames, Sorts
    <2>2. Leads(Drop, Now(o, Push(l, 0), h), Now(o, l, h))
      BY DropDone, Sorts
    <2>3. Leads(Call("assignment"), Now(o, l, h), Now(o, l, h))
      BY OtherDone, OtherNames, Sorts
    <2>4. QED
      BY <2>1, <2>2, <2>3, RunsThree DEF parse_expr_stmt
  <1>9. Runs(assignment(t), Now(o, l, h), Now(o, l, h))
    <2>1. ASSUME t \in {"EQ", "PLUSEQ", "MINUSEQ", "STAREQ", "FSLASHEQ"}
          PROVE  Runs(<<Take(t), Call("expr"), Drop>>, Now(o, l, h), Now(o, l, h))
      <3>1. Leads(Take(t), Now(o, l, h), Now(o, l, h))
        BY <2>1, TakeDone, Sorts, WordNames
      <3>2. Leads(Call("expr"), Now(o, l, h), Now(o, Push(l, 0), h))
        BY MakersDone, MakerNames, Sorts
      <3>3. Leads(Drop, Now(o, Push(l, 0), h), Now(o, l, h))
        BY DropDone, Sorts
      <3>4. QED
        BY <3>1, <3>2, <3>3, RunsThree
    <2>2. Runs(<<>>, Now(o, l, h), Now(o, l, h))
      BY RunsNothing, ShapeSorts, Sorts
    <2>3. QED
      BY <2>1, <2>2 DEF assignment
  <1>10. QED
    BY <1>1, <1>2, <1>3, <1>4, <1>5, <1>6, <1>7, <1>8, <1>9

(* Declarations.                                                           *)
LEMMA DeclRuns ==
  ASSUME NEW t \in Tokens, NEW o \in Seq(Tokens), NEW l \in Seq(Nat), NEW h \in Seq(Settled)
  PROVE  /\ Runs(parse_fn, Now(o, l, h), Now(o, l, h))
         /\ Runs(parse_typedef, Now(o, l, h), Now(o, l, h))
         /\ Runs(parse_module, Now(o, l, h), Now(o, l, h))
         /\ Runs(parse_import, Now(o, l, h), Now(o, l, h))
         /\ Runs(parse_effect, Now(o, l, h), Now(o, l, h))
         /\ Runs(parse_attrs, Now(o, l, h), Now(o, l, h))
  <1>1. Runs(parse_fn, Now(o, l, h), Now(o, l, h))
    <2>1. Leads(Take("KW_FN"), Now(o, l, h), Now(o, l, h))
      BY TakeDone, Sorts, WordNames
    <2>2. Leads(Call("more_args"), Now(o, l, h), Now(o, l, h))
      BY OtherDone, OtherNames, Sorts
    <2>3. Leads(Take("IDENT"), Now(o, l, h), Now(o, l, h))
      BY TakeDone, Sorts, WordNames
    <2>4. Leads(Call("args_type"), Now(o, l, h), Now(o, l, h))
      BY OtherDone, OtherNames, Sorts
    <2>5. Leads(Call("effects"), Now(o, l, h), Now(o, l, h))
      BY OtherDone, OtherNames, Sorts
    <2>6. Leads(Call("ret"), Now(o, l, h), Now(o, l, h))
      BY OtherDone, OtherNames, Sorts
    <2>7. Leads(Call("block_stmt"), Now(o, l, h), Now(o, l, h))
      BY OtherDone, OtherNames, Sorts
    <2>8. QED
      BY <2>1, <2>2, <2>3, <2>4, <2>5, <2>6, <2>7, RunsSeven DEF parse_fn
  <1>2. Runs(parse_typedef, Now(o, l, h), Now(o, l, h))
    <2>1. Leads(Take("KW_TYPE"), Now(o, l, h), Now(o, l, h))
      BY TakeDone, Sorts, WordNames
    <2>2. Leads(Take("IDENT"), Now(o, l, h), Now(o, l, h))
      BY TakeDone, Sorts, WordNames
    <2>3. Leads(Take("EQ"), Now(o, l, h), Now(o, l, h))
      BY TakeDone, Sorts, WordNames
    <2>4. Leads(Call("type"), Now(o, l, h), Now(o, Push(l, 0), h))
      BY MakersDone, MakerNames, Sorts
    <2>5. Leads(Drop, Now(o, Push(l, 0), h), Now(o, l, h))
      BY DropDone, Sorts
    <2>6. Leads(Take("SEMI"), Now(o, l, h), Now(o, l, h))
      BY TakeDone, Sorts, WordNames
    <2>7. QED
      BY <2>1, <2>2, <2>3, <2>4, <2>5, <2>6, RunsSix DEF parse_typedef
  <1>3. Runs(parse_module, Now(o, l, h), Now(o, l, h))
    <2>1. Leads(Take("KW_MODULE"), Now(o, l, h), Now(o, l, h))
      BY TakeDone, Sorts, WordNames
    <2>2. Leads(Take("IDENT"), Now(o, l, h), Now(o, l, h))
      BY TakeDone, Sorts, WordNames
    <2>3. Leads(Take("SEMI"), Now(o, l, h), Now(o, l, h))
      BY TakeDone, Sorts, WordNames
    <2>4. QED
      BY <2>1, <2>2, <2>3, RunsThree DEF parse_module
  <1>4. Runs(parse_import, Now(o, l, h), Now(o, l, h))
    <2>1. Leads(Take("KW_IMPORT"), Now(o, l, h), Now(o, l, h))
      BY TakeDone, Sorts, WordNames
    <2>2. Leads(Take("IDENT"), Now(o, l, h), Now(o, l, h))
      BY TakeDone, Sorts, WordNames
    <2>3. Leads(Take("SEMI"), Now(o, l, h), Now(o, l, h))
      BY TakeDone, Sorts, WordNames
    <2>4. QED
      BY <2>1, <2>2, <2>3, RunsThree DEF parse_import
  <1>5. Runs(parse_effect, Now(o, l, h), Now(o, l, h))
    <2>1. Leads(Take("KW_EFFECT"), Now(o, l, h), Now(o, l, h))
      BY TakeDone, Sorts, WordNames
    <2>2. Leads(Take("IDENT"), Now(o, l, h), Now(o, l, h))
      BY TakeDone, Sorts, WordNames
    <2>3. Leads(Take("EQ"), Now(o, l, h), Now(o, l, h))
      BY TakeDone, Sorts, WordNames
    <2>4. Leads(Call("type"), Now(o, l, h), Now(o, Push(l, 0), h))
      BY MakersDone, MakerNames, Sorts
    <2>5. Leads(Drop, Now(o, Push(l, 0), h), Now(o, l, h))
      BY DropDone, Sorts
    <2>6. Leads(Take("SEMI"), Now(o, l, h), Now(o, l, h))
      BY TakeDone, Sorts, WordNames
    <2>7. QED
      BY <2>1, <2>2, <2>3, <2>4, <2>5, <2>6, RunsSix DEF parse_effect
  <1>6. Runs(parse_attrs, Now(o, l, h), Now(o, l, h))
    <2>1. Leads(Take("LPAREN"), Now(o, l, h), Now(Push(o, "LPAREN"), l, h))
      BY TakeDone, Sorts
    <2>2. Leads(List("attrs"), Now(Push(o, "LPAREN"), l, h), Now(o, l, h))
      BY ListsDone, Sorts
    <2>3. QED
      BY <2>1, <2>2, RunsTwo DEF parse_attrs
  <1>7. QED
    BY <1>1, <1>2, <1>3, <1>4, <1>5, <1>6

(* Attributes and what takes them.                                         *)
LEMMA HoldingRuns ==
  ASSUME NEW o \in Seq(Tokens), NEW l \in Seq(Nat), NEW h \in Seq(Settled)
  PROVE  /\ Runs(parse_type, Now(o, l, h), Now(o, Push(l, 0), h))
  <1>1. Runs(parse_type, Now(o, l, h), Now(o, Push(l, 0), h))
    <2>1. Leads(Hold, Now(o, l, h), Now(o, l, Push(h, "spent")))
      BY AttrsDone, Sorts
    <2>2. Leads(Go("alternative", 0), Now(o, l, Push(h, "spent")), Now(o, Push(l, 0), h))
      <3>1. Instead(l, 0, 0) = Push(l, 0)
        BY Replaced
      <3>2. 0 \in Nat /\ 0 <= Len(l)
        OBVIOUS
      <3>3. Leads(Go("alternative", 0), Now(o, l, Push(h, "spent")), Now(o, Instead(l, 0, 0), h))
        BY <3>2, HandedDone
      <3>4. QED
        BY <3>1, <3>3
    <2>3. QED
      BY <2>1, <2>2, RunsTwo DEF parse_type
  <1>2. QED
    BY <1>1

\* An alternative is given the attributes before it.
LEMMA GivenRuns ==
  ASSUME NEW o \in Seq(Tokens), NEW l \in Seq(Nat), NEW h \in Seq(Settled),
         NEW n \in Nat, n <= Len(l), NEW f \in Makers, f # "bool_expr",
         NEW t \in Tokens, NEW x \in {t, "spent"}
  PROVE  Runs(<<Call(f), Give(t), Go("union", n + 1)>>, Now(o, l, Push(h, x)),
              Now(o, Instead(l, n, 0), h))
  <1>1. x \in Settled
    BY Sorts
  <1>2. Leads(Call(f), Now(o, l, Push(h, x)), Now(o, Push(l, 0), Push(h, x)))
    BY <1>1, MakersDone, Sorts
  <1>3. Leads(Give(t), Now(o, Push(l, 0), Push(h, x)), Now(o, Push(l, 0), Push(h, "spent")))
    BY <1>1, AttrsDone, Sorts
  <1>4. Leads(Go("union", n + 1), Now(o, Push(l, 0), Push(h, "spent")), Now(o, Instead(l, n, 0), h))
    BY NextDone
  <1>5. QED
    BY <1>2, <1>3, <1>4, RunsThree

LEMMA FreshIs ==
  /\ \A t \in Tokens : Fresh(t) \in Settled
  /\ \A t \in Tokens : t \notin Takers => Fresh(t) = t
  /\ \A t \in Takers : Fresh(t) = "spent"
  BY Sorts DEF Fresh

LEMMA AlternativeRuns ==
  ASSUME NEW t \in Tokens, NEW o \in Seq(Tokens), NEW l \in Seq(Nat), NEW h \in Seq(Settled),
         NEW n \in Nat, n <= Len(l), NEW x \in {Fresh(t), "spent"}
  PROVE  Runs(alternative(n, t), Now(o, l, Push(h, x)), Now(o, Instead(l, n, 0), h))
  <1> DEFINE from == Now(o, l, Push(h, x))
             to == Now(o, Instead(l, n, 0), h)
             next == Go("union", n + 1)
  <1>1. x \in Settled
    BY FreshIs, Sorts
  <1>2. ASSUME NEW f \in Makers, f # "bool_expr", t \notin Takers
        PROVE  Runs(<<Call(f), Give(t), next>>, from, to)
    BY <1>2, FreshIs, GivenRuns
  <1>3. ASSUME t = "LPAREN" PROVE Runs(<<Call("group_type"), next>>, from, to)
    <2>1. x = "spent"
      BY <1>3, FreshIs DEF Takers
    <2>2. Leads(Call("group_type"), from, Now(o, Push(l, 0), Push(h, x)))
      BY <1>1, MakersDone, MakerNames, Sorts
    <2>3. Leads(next, Now(o, Push(l, 0), Push(h, x)), to)
      BY <2>1, NextDone
    <2>4. QED
      BY <2>2, <2>3, RunsTwo
  <1>4. ASSUME t = "AT" PROVE Runs(<<Take("AT"), Go("at_type", n)>>, from, to)
    <2>1. x \in {"AT", "spent"}
      BY <1>4, FreshIs, WordNames DEF Takers
    <2>2. Leads(Take("AT"), from, from)
      BY <1>1, TakeDone, WordNames, Sorts
    <2>3. Leads(Go("at_type", n), from, to)
      BY <2>1, HandedDone
    <2>4. QED
      BY <2>2, <2>3, RunsTwo
  <1>5. Runs(<<Fail>>, from, to)
    <2>1. from \in Shapes /\ to \in Shapes
      BY <1>1, ShapeSorts, Sorts, Replaced
    <2>2. QED
      BY <2>1, FailDone, RunsOne
  <1>6. t \in {"IDENT", "LBRACE", "STAR", "LBRACKET", "KW_FN", "ELLIPSIS"} => t \notin Takers
    BY DEF Takers
  <1> HIDE DEF from, to, next
  <1>7. QED
    BY <1>2, <1>3, <1>4, <1>5, <1>6, MakerNames DEF alternative, from, to, next

LEMMA AtTypeRuns ==
  ASSUME NEW t \in Tokens, NEW o \in Seq(Tokens), NEW l \in Seq(Nat), NEW h \in Seq(Settled),
         NEW n \in Nat, n <= Len(l), NEW x \in {"AT", "spent"}
  PROVE  Runs(at_type(n, t), Now(o, l, Push(h, x)), Now(o, Instead(l, n, 0), h))
  <1>1. x \in Settled /\ "AT" \in Tokens
    BY Sorts, WordNames DEF Words
  <1>2. Runs(<<Call("attrs"), Keep, Go("alternative", n)>>, Now(o, l, Push(h, x)),
             Now(o, Instead(l, n, 0), h))
    <2>1. Leads(Call("attrs"), Now(o, l, Push(h, x)), Now(o, l, Push(h, x)))
      BY <1>1, OtherDone, OtherNames, Sorts
    <2>2. Leads(Keep, Now(o, l, Push(h, x)), Now(o, l, Push(h, "new")))
      BY <1>1, AttrsDone
    <2>3. Leads(Go("alternative", n), Now(o, l, Push(h, "new")), Now(o, Instead(l, n, 0), h))
      BY HandedDone
    <2>4. QED
      BY <2>1, <2>2, <2>3, RunsThree
  <1>3. Runs(<<Call("atom_type"), Give("AT"), Go("union", n + 1)>>, Now(o, l, Push(h, x)),
             Now(o, Instead(l, n, 0), h))
    BY <1>1, GivenRuns, MakerNames
  <1>4. QED
    BY <1>2, <1>3 DEF at_type

LEMMA UnionRuns ==
  ASSUME NEW t \in Tokens, NEW o \in Seq(Tokens), NEW l \in Seq(Nat), NEW h \in Seq(Settled),
         NEW n \in Nat, n <= Len(l), n > 0
  PROVE  Runs(union_type(n, t), Now(o, l, Push(h, "spent")), Now(o, Instead(l, n, 0), h))
  <1>1. "spent" \in Settled /\ "union" \in Tokens \union {"union"}
    BY Sorts
  <1>2. /\ Instead(l, n, 0) \in Seq(Nat) /\ Instead(l, n, Primary) \in Seq(Nat)
        /\ Push(h, "spent") \in Seq(Settled) /\ h \in Seq(Statuses)
    BY Sorts, Replaced, ZenonT(60)
  <1>3. Runs(<<Take("BOR"), Go("alternative", n)>>, Now(o, l, Push(h, "spent")),
             Now(o, Instead(l, n, 0), h))
    <2>1. Leads(Take("BOR"), Now(o, l, Push(h, "spent")), Now(o, l, Push(h, "spent")))
      BY TakeDone, WordNames, Sorts
    <2>2. Leads(Go("alternative", n), Now(o, l, Push(h, "spent")), Now(o, Instead(l, n, 0), h))
      BY HandedDone
    <2>3. QED
      BY <2>1, <2>2, RunsTwo
  <1> DEFINE kept == SubSeq(l, 1, Len(l) - n)
  <1>4. /\ kept \in Seq(Nat) /\ Len(kept) = Len(l) - n
        /\ \A i \in 1..Len(l) - n : kept[i] = l[i]
    OBVIOUS
  <1>5. Instead(l, n, 0) = Push(kept, 0) /\ Instead(l, n, Primary) = Push(kept, Primary)
    BY DEF Instead
  <1> HIDE DEF kept
  <1>6. ASSUME n = 1
        PROVE  Runs(<<Release>>, Now(o, l, Push(h, "spent")), Now(o, Instead(l, n, 0), h))
    <2>1. Leads(Release, Now(o, l, Push(h, "spent")), Now(o, l, h))
      BY <1>1, AttrsDone
    <2> DEFINE p == Push(kept, 0)
    <2>2. /\ Len(p) = Len(kept) + 1 /\ p[Len(kept) + 1] = 0
          /\ \A i \in 1..Len(kept) : p[i] = kept[i]
      <3>1. kept \in Seq(Nat) /\ 0 \in Nat
        BY <1>4
      <3> HIDE DEF p
      <3>2. p = Append(kept, 0)
        BY DEF Push, p
      <3>3. QED
        BY <3>1, <3>2, Appended
    <2>3. /\ Len(p) = Len(l) /\ Len(l) \in Nat /\ Len(kept) + 1 = Len(l)
          /\ Len(kept) = Len(l) - 1 /\ Len(l) - n = Len(l) - 1
      BY <1>4, <1>6, <2>2
    <2>4. ASSUME NEW i \in 1..Len(l) PROVE l[i] >= p[i]
      <3>1. l[i] \in Nat
        OBVIOUS
      <3>2. CASE i = Len(l)
        BY <3>1, <3>2, <2>2, <2>3
      <3>3. CASE i # Len(l)
        <4>0. i \in 1..Len(l) - 1
          BY <3>3, <2>3
        <4>1. i \in 1..Len(kept) /\ i \in 1..Len(l) - n
          BY <4>0, <2>3
        <4>2. p[i] = l[i]
          BY <4>1, <2>2, <1>4
        <4>3. QED
          BY <3>1, <4>2
      <3>4. QED
        BY <3>2, <3>3
    <2> HIDE DEF p
    <2>5. Promises(Now(o, l, h), Now(o, p, h))
      BY <2>3, <2>4, ShapeIs DEF Promises, Now
    <2>6. Now(o, l, h) \in Shapes /\ Now(o, p, h) \in Shapes
      BY <1>2, <1>5, ShapeSorts DEF p
    <2>7. Leads(Release, Now(o, l, Push(h, "spent")), Now(o, p, h))
      BY <2>1, <2>5, <2>6, LeadsLess
    <2>8. QED
      BY <2>7, <1>5, RunsOne DEF p
  <1>7. Runs(<<Give("union"), Release, Make("type", n)>>, Now(o, l, Push(h, "spent")),
             Now(o, Instead(l, n, 0), h))
    <2>1. Leads(Give("union"), Now(o, l, Push(h, "spent")), Now(o, l, Push(h, "spent")))
      BY <1>1, AttrsDone
    <2>2. Leads(Release, Now(o, l, Push(h, "spent")), Now(o, l, h))
      BY <1>1, AttrsDone
    <2>3. Leads(Make("type", n), Now(o, l, h), Now(o, Push(kept, Primary), h))
      <3>1. /\ "type" \in NodeKinds \ {"binary"}
            /\ "type" # "postfix" /\ "type" # "unary"
        BY KindNames
      <3>2. QED
        BY <1>2, <1>5, <3>1, MakeDone
    <2>4. Leads(Make("type", n), Now(o, l, h), Now(o, Push(kept, 0), h))
      <3>1. 0 <= Primary
        BY DEF Primary
      <3>2. Promises(Now(o, Push(kept, Primary), h), Now(o, Push(kept, 0), h))
        BY <1>2, <1>4, <3>1, Looser, Sorts
      <3>3. Now(o, Push(kept, Primary), h) \in Shapes /\ Now(o, Push(kept, 0), h) \in Shapes
        BY <1>2, <1>5, ShapeSorts
      <3>4. QED
        BY <2>3, <3>2, <3>3, LeadsLess
    <2>5. QED
      BY <1>5, <2>1, <2>2, <2>4, RunsThree
  <1>8. QED
    BY <1>3, <1>6, <1>7 DEF union_type

LEMMA OnlyLetRuns ==
  ASSUME NEW t \in Tokens, NEW o \in Seq(Tokens), NEW l \in Seq(Nat), NEW h \in Seq(Settled),
         NEW x \in {Fresh(t), "spent"}
  PROVE  Runs(only_let(t), Now(o, l, Push(h, x)), Now(o, l, h))
  <1>1. x \in Settled
    BY FreshIs, Sorts
  <1>2. ASSUME t = "KW_LET"
        PROVE  Runs(<<Call("let_stmt"), Give("KW_LET"), Release>>, Now(o, l, Push(h, x)),
                    Now(o, l, h))
    <2>1. x \in {"KW_LET", "spent"}
      BY <1>2, FreshIs DEF Takers
    <2>2. Leads(Call("let_stmt"), Now(o, l, Push(h, x)), Now(o, l, Push(h, x)))
      BY <1>1, OtherDone, OtherNames, Sorts
    <2>3. Leads(Give("KW_LET"), Now(o, l, Push(h, x)), Now(o, l, Push(h, "spent")))
      <3>1. "KW_LET" \in Tokens
        BY <1>2
      <3>2. QED
        BY <1>1, <2>1, <3>1, AttrsDone
    <2>4. Leads(Release, Now(o, l, Push(h, "spent")), Now(o, l, h))
      BY AttrsDone, Sorts
    <2>5. QED
      BY <2>2, <2>3, <2>4, RunsThree
  <1>3. Runs(<<Fail>>, Now(o, l, Push(h, x)), Now(o, l, h))
    <2>1. Now(o, l, Push(h, x)) \in Shapes /\ Now(o, l, h) \in Shapes
      BY <1>1, ShapeSorts, Sorts
    <2>2. QED
      BY <2>1, FailDone, RunsOne
  <1>4. QED
    BY <1>2, <1>3 DEF only_let

LEMMA UnitRuns ==
  ASSUME NEW t \in Tokens, NEW o \in Seq(Tokens), NEW l \in Seq(Nat), NEW h \in Seq(Settled),
         NEW x \in {Fresh(t), "spent"}
  PROVE  Runs(parse(t), Now(o, l, Push(h, x)), Now(o, l, h))
  <1> DEFINE from == Now(o, l, Push(h, x))
             to == Now(o, l, h)
  <1>1. x \in Settled
    BY FreshIs, Sorts
  <1>2. Runs(<<Take("AT"), Call("attrs"), Keep, Call("unit")>>, from, to)
    <2>1. Leads(Take("AT"), from, from)
      BY <1>1, TakeDone, WordNames, Sorts
    <2>2. Leads(Call("attrs"), from, from)
      BY <1>1, OtherDone, OtherNames, Sorts
    <2>3. Leads(Keep, from, Now(o, l, Push(h, "new")))
      BY <1>1, AttrsDone
    <2>4. Leads(Call("unit"), Now(o, l, Push(h, "new")), to)
      BY HandedDone
    <2>5. QED
      BY <2>1, <2>2, <2>3, <2>4, RunsFour
  <1>3. ASSUME NEW f \in Others, t \notin Takers
        PROVE  Runs(<<Call(f), Give(t), Call("unit")>>, from, to)
    <2>1. x \in {t, "spent"}
      BY <1>3, FreshIs
    <2>2. Leads(Call(f), from, from)
      BY <1>1, OtherDone, Sorts
    <2>3. Leads(Give(t), from, Now(o, l, Push(h, "spent")))
      BY <1>1, <2>1, AttrsDone
    <2>4. Leads(Call("unit"), Now(o, l, Push(h, "spent")), to)
      BY HandedDone
    <2>5. QED
      BY <2>2, <2>3, <2>4, RunsThree
  <1>4. ASSUME NEW f \in Others, t \in Takers
        PROVE  /\ Runs(<<Call(f), Call("unit")>>, from, to)
               /\ \A what \in Steps : what # "attr_args" =>
                    Runs(<<Call(f), Do(what), Call("unit")>>, from, to)
    <2>1. x = "spent"
      BY <1>4, FreshIs
    <2>2. Leads(Call(f), from, from)
      BY <1>1, OtherDone, Sorts
    <2>3. \A what \in Steps : what # "attr_args" => Leads(Do(what), from, from)
      BY <1>1, DoDone, Sorts
    <2>4. Leads(Call("unit"), from, to)
      BY <2>1, HandedDone
    <2>5. QED
      BY <2>2, <2>3, <2>4, RunsTwo, RunsThree
  <1>5. Runs(<<Release>>, from, to)
    BY <1>1, AttrsDone, RunsOne
  <1>6. Runs(<<Fail>>, from, to)
    <2>1. from \in Shapes /\ to \in Shapes
      BY <1>1, ShapeSorts, Sorts
    <2>2. QED
      BY <2>1, FailDone, RunsOne
  <1>7. /\ t \in {"KW_FN", "KW_TYPE", "KW_LET"} => t \notin Takers
        /\ t \in {"KW_MODULE", "KW_IMPORT", "KW_EFFECT"} => t \in Takers
        /\ "assign_module" \in Steps /\ "assign_module" # "attr_args"
        /\ "add_import" \in Steps /\ "add_import" # "attr_args"
    BY KindNames DEF Takers
  <1> HIDE DEF from, to
  <1>8. QED
    BY <1>2, <1>3, <1>4, <1>5, <1>6, <1>7, OtherNames DEF parse, from, to

(* Lists, which are parsed in their brackets.                              *)
Inside(list, o) == IF list = "effects" THEN o ELSE Push(o, Match[Closer(list)])
After(list, l) == IF list = "tuple_expr" THEN Push(l, Primary) ELSE l

LEMMA Longer ==
  ASSUME NEW S, NEW u \in Seq(S), NEW x \in S, NEW w \in Seq(S), Len(w) = Len(u) + 1,
         \A i \in 1..Len(u) : w[i] = u[i], w[Len(u) + 1] = x
  PROVE  u \o <<x>> = w
  <1> DEFINE v == u \o <<x>>
  <1>1. /\ v \in Seq(S) /\ Len(v) = Len(u) + 1 /\ v[Len(u) + 1] = x
        /\ \A i \in 1..Len(u) : v[i] = u[i]
    OBVIOUS
  <1> HIDE DEF v
  <1>2. \A i \in 1..Len(v) : v[i] = w[i]
    BY <1>1
  <1>3. v = w
    BY <1>1, <1>2
  <1>4. QED
    BY <1>3 DEF v

LEMMA Chained ==
  ASSUME NEW a, NEW b, NEW c, NEW d, NEW e
  PROVE  /\ <<a>> \o <<>> = <<a>>
         /\ <<a>> \o <<b>> = <<a, b>>
         /\ <<a, b>> \o <<c>> = <<a, b, c>>
         /\ <<a, b, c>> \o <<d>> = <<a, b, c, d>>
         /\ <<a, b, c, d>> \o <<e>> = <<a, b, c, d, e>>
  <1> DEFINE S == {a, b, c, d, e}
             s1 == <<a>>
             s2 == <<a, b>>
             s3 == <<a, b, c>>
             s4 == <<a, b, c, d>>
             s5 == <<a, b, c, d, e>>
  <1>1. s1 \in Seq(S) /\ s2 \in Seq(S) /\ s3 \in Seq(S) /\ s4 \in Seq(S) /\ s5 \in Seq(S)
    OBVIOUS
  <1>2. Len(s1) = 1 /\ Len(s2) = 2 /\ Len(s3) = 3 /\ Len(s4) = 4 /\ Len(s5) = 5
    OBVIOUS
  <1>3. /\ s1[1] = a /\ s2[1] = a /\ s3[1] = a /\ s4[1] = a /\ s5[1] = a
        /\ s2[2] = b /\ s3[2] = b /\ s4[2] = b /\ s5[2] = b
        /\ s3[3] = c /\ s4[3] = c /\ s5[3] = c
        /\ s4[4] = d /\ s5[4] = d /\ s5[5] = e
    OBVIOUS
  <1>4. b \in S /\ c \in S /\ d \in S /\ e \in S
    OBVIOUS
  <1>5. s1 \o <<>> = s1
    OBVIOUS
  <1> HIDE DEF S, s1, s2, s3, s4, s5
  <1>6. /\ \A i \in 1..1 : i = 1
        /\ \A i \in 1..2 : i = 1 \/ i = 2
        /\ \A i \in 1..3 : i = 1 \/ i = 2 \/ i = 3
        /\ \A i \in 1..4 : i = 1 \/ i = 2 \/ i = 3 \/ i = 4
    OBVIOUS
  <1>7. s1 \o <<b>> = s2
    <2>1. Len(s1) + 1 = 2 /\ Len(s2) = 2 /\ 1..Len(s1) = 1..1
      BY <1>2
    <2>2. \A i \in 1..Len(s1) : s2[i] = s1[i]
      BY <1>3, <1>6, <2>1
    <2>3. s2[Len(s1) + 1] = b
      BY <1>3, <2>1
    <2>4. QED
      BY <1>1, <1>4, <2>1, <2>2, <2>3, Longer
  <1>8. s2 \o <<c>> = s3
    <2>1. Len(s2) + 1 = 3 /\ Len(s3) = 3 /\ 1..Len(s2) = 1..2
      BY <1>2
    <2>2. \A i \in 1..Len(s2) : s3[i] = s2[i]
      BY <1>3, <1>6, <2>1
    <2>3. s3[Len(s2) + 1] = c
      BY <1>3, <2>1
    <2>4. QED
      BY <1>1, <1>4, <2>1, <2>2, <2>3, Longer
  <1>9. s3 \o <<d>> = s4
    <2>1. Len(s3) + 1 = 4 /\ Len(s4) = 4 /\ 1..Len(s3) = 1..3
      BY <1>2
    <2>2. \A i \in 1..Len(s3) : s4[i] = s3[i]
      BY <1>3, <1>6, <2>1
    <2>3. s4[Len(s3) + 1] = d
      BY <1>3, <2>1
    <2>4. QED
      BY <1>1, <1>4, <2>1, <2>2, <2>3, Longer
  <1>10. s4 \o <<e>> = s5
    <2>1. Len(s4) + 1 = 5 /\ Len(s5) = 5 /\ 1..Len(s4) = 1..4
      BY <1>2
    <2>2. \A i \in 1..Len(s4) : s5[i] = s4[i]
      BY <1>3, <1>6, <2>1
    <2>3. s5[Len(s4) + 1] = e
      BY <1>3, <2>1
    <2>4. QED
      BY <1>1, <1>4, <2>1, <2>2, <2>3, Longer
  <1>11. QED
    BY <1>5, <1>7, <1>8, <1>9, <1>10 DEF s1, s2, s3, s4, s5

LEMMA InsideSorts ==
  ASSUME NEW o \in Seq(Tokens), NEW l \in Seq(Nat), NEW list \in Lists
  PROVE  /\ Inside(list, o) \in Seq(Tokens) /\ After(list, l) \in Seq(Nat)
         /\ list # "effects" => Closer(list) \in Closers
         /\ list = "effects" => Closer(list) = "GT"
  <1>1. list # "effects" => Closer(list) \in Closers
    BY DEF Closer, Closers, Lists
  <1>2. list # "effects" => Match[Closer(list)] \in Openers
    BY <1>1, BracketTokens DEF Closers, Openers
  <1>3. list = "effects" => Closer(list) = "GT"
    BY DEF Closer
  <1>4. QED
    BY <1>1, <1>2, <1>3, Sorts DEF Inside, After

LEMMA ClosedRuns ==
  ASSUME NEW o \in Seq(Tokens), NEW l \in Seq(Nat), NEW h \in Seq(Settled), NEW n,
         NEW list \in Lists
  PROVE  Runs(Closed(list, n), Now(Inside(list, o), l, h), Now(o, After(list, l), h))
  <1>1. h \in Seq(Statuses) /\ Primary \in Nat
    BY Sorts
  <1>2. Leads(Take(Closer(list)), Now(Inside(list, o), l, h), Now(o, l, h))
    BY <1>1, InsideSorts, WordNames, TakeDone DEF Inside
  <1>3. CASE list = "tuple_expr"
    <2> DEFINE kind == IF n = 1 THEN "tuple1" ELSE "tuple"
    <2>1. kind \in NodeKinds \ {"binary", "postfix", "unary"}
      BY KindNames
    <2> HIDE DEF kind
    <2>2. Leads(Make(kind, 0), Now(o, l, h), Now(o, Push(l, Primary), h))
      BY <1>1, <2>1, MadeDone
    <2>3. Closed(list, n) = <<Take(Closer(list)), Make(kind, 0)>>
      BY <1>3, Chained DEF Closed, kind
    <2>4. QED
      BY <1>2, <1>3, <2>2, <2>3, RunsTwo DEF After
  <1>4. CASE list # "tuple_expr"
    <2>1. Closed(list, n) = <<Take(Closer(list))>>
      BY <1>4, Chained DEF Closed
    <2>2. QED
      BY <1>2, <1>4, <2>1, RunsOne DEF After
  <1>5. QED
    BY <1>3, <1>4

\* An element leaves things as they are for what follows it.
LEMMA ElementRuns ==
  ASSUME NEW o \in Seq(Tokens), NEW l \in Seq(Nat), NEW h \in Seq(Settled), NEW list \in Lists,
         NEW x, NEW r, Leads(x, Now(o, l, h), r)
  PROVE  Runs(Element(list) \o <<x>>, Now(o, l, h), r)
  <1> DEFINE s == Now(o, l, h)
  <1>1. h \in Seq(Statuses) /\ Primary \in Nat /\ 0 \in Nat
    BY Sorts
  <1>2. Runs(<<Call("expr"), Drop, x>>, s, r)
    <2>1. Leads(Call("expr"), s, Now(o, Push(l, 0), h))
      BY MakersDone, MakerNames
    <2>2. Leads(Drop, Now(o, Push(l, 0), h), s)
      BY <1>1, DropDone
    <2>3. QED
      BY <2>1, <2>2, RunsThree
  <1>3. Runs(<<Call("type"), Call("name_or_elem"), x>>, s, r)
    <2>1. Leads(Call("type"), s, Now(o, Push(l, 0), h))
      BY MakersDone, MakerNames
    <2>2. Leads(Call("name_or_elem"), Now(o, Push(l, 0), h), s)
      BY <1>1, OtherDone
    <2>3. QED
      BY <2>1, <2>2, RunsThree
  <1>4. Runs(<<Call("ident_type"), Drop, x>>, s, r)
    <2>1. Leads(Call("ident_type"), s, Now(o, Push(l, 0), h))
      BY MakersDone, MakerNames
    <2>2. Leads(Drop, Now(o, Push(l, 0), h), s)
      BY <1>1, DropDone
    <2>3. QED
      BY <2>1, <2>2, RunsThree
  <1>5. Leads(Take("DOT"), s, s) /\ Leads(Take("IDENT"), s, s)
    BY <1>1, TakeDone, WordNames
  <1>6. Runs(<<Take("DOT"), Take("IDENT"), Call("enum_init"), x>>, s, r)
    <2>1. Leads(Call("enum_init"), s, s)
      BY OtherDone, OtherNames
    <2>2. QED
      BY <1>5, <2>1, RunsFour
  <1>7. Runs(<<Take("IDENT"), Do("attr_name"), Call("tuple_expr"), Do("attr_args"), x>>, s, r)
    <2>1. Leads(Do("attr_name"), s, s)
      BY DoDone, KindNames
    <2>2. Leads(Call("tuple_expr"), s, Now(o, Push(l, 0), h))
      BY MakersDone, MakerNames
    <2>3. Leads(Do("attr_args"), Now(o, Push(l, 0), h), s)
      BY <1>1, DropDone
    <2>4. QED
      BY <1>5, <2>1, <2>2, <2>3, RunsFive
  <1> HIDE DEF s
  <1>8. Runs(Element(list) \o <<x>>, s, r)
    <2>1. \/ Element(list) = <<Call("expr"), Drop>>
          \/ Element(list) = <<Call("type"), Call("name_or_elem")>>
          \/ Element(list) = <<Call("ident_type"), Drop>>
          \/ Element(list) = <<Take("DOT"), Take("IDENT"), Call("enum_init")>>
          \/ Element(list) = <<Take("IDENT"), Do("attr_name"), Call("tuple_expr"), Do("attr_args")>>
      BY DEF Element
    <2>2. /\ <<Call("expr"), Drop>> \o <<x>> = <<Call("expr"), Drop, x>>
          /\ <<Call("type"), Call("name_or_elem")>> \o <<x>>
               = <<Call("type"), Call("name_or_elem"), x>>
          /\ <<Call("ident_type"), Drop>> \o <<x>> = <<Call("ident_type"), Drop, x>>
      BY Chained
    <2>3. <<Take("DOT"), Take("IDENT"), Call("enum_init")>> \o <<x>>
            = <<Take("DOT"), Take("IDENT"), Call("enum_init"), x>>
      BY Chained
    <2>4. <<Take("IDENT"), Do("attr_name"), Call("tuple_expr"), Do("attr_args")>> \o <<x>>
            = <<Take("IDENT"), Do("attr_name"), Call("tuple_expr"), Do("attr_args"), x>>
      <3> DEFINE a == Take("IDENT")
                 b == Do("attr_name")
                 c == Call("tuple_expr")
                 d == Do("attr_args")
      <3> HIDE DEF a, b, c, d
      <3>1. <<a, b, c, d>> \o <<x>> = <<a, b, c, d, x>>
        BY Chained, ZenonT(60)
      <3>2. QED
        BY <3>1 DEF a, b, c, d
    <2>5. QED
      BY <1>2, <1>3, <1>4, <1>6, <1>7, <2>1, <2>2, <2>3, <2>4
  <1>9. QED
    BY <1>8 DEF s

LEMMA ListRuns ==
  ASSUME NEW t \in Tokens, NEW o \in Seq(Tokens), NEW l \in Seq(Nat), NEW h \in Seq(Settled),
         NEW n, NEW list \in Lists
  PROVE  /\ Runs(Elements(list, n, t), Now(Inside(list, o), l, h), Now(o, After(list, l), h))
         /\ Runs(AfterElement(list, n, t), Now(Inside(list, o), l, h), Now(o, After(list, l), h))
  <1> DEFINE in == Inside(list, o)
             from == Now(in, l, h)
             to == Now(o, After(list, l), h)
  <1>1. in \in Seq(Tokens) /\ h \in Seq(Statuses)
    BY InsideSorts, Sorts
  <1>2. Runs(Closed(list, n), from, to)
    BY ClosedRuns
  <1>3. \A m : \A do \in {"list", "comma"} : Leads(Item(do, list, m), from, to)
    BY ListDone DEF Inside, After
  <1> HIDE DEF in, to
  <1>4. \A m : Runs(Element(list) \o <<Item("comma", list, m)>>, from, to)
    BY <1>1, <1>3, ElementRuns
  <1>5. Leads(Take("COMMA"), from, from)
    BY <1>1, TakeDone, WordNames
  <1>6. Leads(Call("no_trailing_comma"), from, from)
    BY <1>1, OtherDone, OtherNames
  <1> HIDE DEF from
  <1>7. Runs(Elements(list, n, t), from, to)
    BY <1>2, <1>4 DEF Elements
  <1>8. Runs(AfterElement(list, n, t), from, to)
    <2> DEFINE x == Item("list", list, n)
    <2>1. Leads(x, from, to)
      BY <1>3
    <2> HIDE DEF x
    <2>2. Runs(<<Take("COMMA"), x>>, from, to)
      BY <1>5, <2>1, RunsTwo
    <2>3. Runs(<<Take("COMMA"), Call("no_trailing_comma"), x>>, from, to)
      BY <1>5, <1>6, <2>1, RunsThree
    <2>4. /\ <<Take("COMMA")>> \o <<>> \o <<x>> = <<Take("COMMA"), x>>
          /\ <<Take("COMMA")>> \o <<Call("no_trailing_comma")>> \o <<x>>
               = <<Take("COMMA"), Call("no_trailing_comma"), x>>
      BY Chained
    <2>5. QED
      BY <1>2, <2>2, <2>3, <2>4 DEF AfterElement, x
  <1>9. QED
    BY <1>7, <1>8 DEF from, to, in

(* Operators.                                                              *)
LEMMA OperatorWords ==
  \A t \in Tokens : Prec(t) >= 0 => t \in Words /\ Prec(t) \in Nat /\ Prec(t) + 1 <= Unary
  <1>1. \A t : t \in Openers \union Closers \union {"END"} => ~(Prec(t) >= 0)
    BY DEF Openers, Closers, Prec
  <1>2. ASSUME NEW t, Prec(t) >= 0 PROVE Prec(t) \in Nat /\ Prec(t) + 1 <= 13
    <2>1. Prec(t) \in -1..12
      BY PrecType
    <2>2. QED
      BY <1>2, <2>1
  <1>3. QED
    BY <1>1, <1>2 DEF Words, Unary

LEMMA Weaker ==
  ASSUME NEW o \in Seq(Tokens), NEW l \in Seq(Nat), NEW h \in Seq(Statuses),
         NEW k \in Nat, NEW j \in Nat, j <= k, NEW m, NEW m2, m \subseteq m2
  PROVE  Promises(Shape(o, Push(l, k), m, h), Shape(o, Push(l, j), m2, h))
  BY Looser, ShapeIs DEF Promises, Now

LEMMA UpToTokens == \A k \in Int : UpTo(k) \in SUBSET Tokens
  BY DEF UpTo

LEMMA BinopRuns ==
  ASSUME NEW t \in Tokens, NEW o \in Seq(Tokens), NEW l \in Seq(Nat), NEW h \in Seq(Settled),
         NEW a \in Nat, NEW n \in Nat, n <= a, Prec(t) <= a
  PROVE  Stands(parse_binop_rhs(n, t), Shape(o, Push(l, a), {t}, h),
                Shape(o, Push(l, n), UpTo(n - 1), h))
  <1> DEFINE from == Shape(o, Push(l, a), {t}, h)
             to == Shape(o, Push(l, n), UpTo(n - 1), h)
             p == Prec(t)
  <1>1. /\ h \in Seq(Statuses) /\ Push(l, a) \in Seq(Nat) /\ Push(l, n) \in Seq(Nat)
        /\ {t} \in SUBSET Tokens /\ UpTo(n - 1) \in SUBSET Tokens
    <2>1. n - 1 \in Int
      OBVIOUS
    <2>2. UpTo(n - 1) \in SUBSET Tokens
      BY <2>1, UpToTokens
    <2>3. QED
      BY <2>2, Sorts
  <1>2. from \in Shapes /\ to \in Shapes
    BY <1>1, ShapeSorts
  <1>3. CASE p < n
    <2>1. p <= n - 1
      <3>1. p \in -1..12
        BY PrecType
      <3>2. QED
        BY <1>3, <3>1, SMTT(30)
    <2>2. {t} \subseteq UpTo(n - 1)
      BY <2>1 DEF UpTo
    <2>3. Promises(from, to)
      BY <1>1, <2>2, Weaker
    <2>4. parse_binop_rhs(n, t) = <<>>
      BY <1>3 DEF parse_binop_rhs
    <2>5. QED
      BY <1>2, <2>3, <2>4, StandsNothing
  <1>4. CASE ~(p < n)
    <2>1. p \in Nat /\ n <= p /\ t \in Words /\ p + 1 \in Nat /\ p + 1 <= Unary /\ p >= 0
      <3>1. p \in -1..12
        BY PrecType
      <3>2. p >= 0 /\ n <= p
        BY <1>4, <3>1
      <3>3. QED
        BY <3>2, OperatorWords
    <2> DEFINE low == Push(l, p)
               mid == Push(low, Unary)
               tight == Push(low, p + 1)
               s1 == Now(o, low, h)
               f == IF t \in {"KW_AS", "KW_IS"} THEN "type_expr" ELSE "unary_expr"
    <2>2. p <= a
      OBVIOUS
    <2> HIDE DEF p
    <2>3. low \in Seq(Nat)
      BY <2>1, Sorts
    <2>4. Promises(from, s1) /\ s1 \in Shapes
      BY <1>1, <2>1, <2>2, <2>3, Weaker, ShapeSorts DEF Now
    <2>5. Leads(Take(t), s1, s1)
      BY <1>1, <2>1, <2>3, TakeDone
    <2>6. Leads(Call(f), s1, Now(o, mid, h))
      <3> HIDE DEF low
      <3>1. QED
        BY <2>3, MakersDone, MakerNames
    <2>7. mid \in Seq(Nat) /\ tight \in Seq(Nat)
      <3> HIDE DEF low
      <3>1. QED
        BY <2>1, <2>3, Sorts
    <2>8. Leads(Item("tighter", t, 0), Now(o, mid, h), Shape(o, tight, UpTo(p), h))
      <3> HIDE DEF low
      <3>1. mid # <<>> /\ Last(mid) = Unary /\ Instead(mid, 1, p + 1) = tight
        <4>1. Unary \in Nat
          BY Sorts
        <4>2. mid # <<>> /\ Last(mid) = Unary
          BY <2>3, <4>1, Pushed
        <4>3. Instead(mid, 1, p + 1) = tight
          BY <2>1, <2>3, <4>1, Replaced
        <4>4. QED
          BY <4>2, <4>3
      <3> HIDE DEF mid, tight
      <3>2. Unary >= Unary
        BY DEF Unary
      <3>3. TighterDoes(t, Now(o, mid, h), Shape(o, tight, UpTo(p), h))
        BY <2>1, <3>1, <3>2, ShapeIs DEF TighterDoes, Now, p
      <3>4. Now(o, mid, h) \in Shapes /\ Shape(o, tight, UpTo(p), h) \in Shapes
        BY <1>1, <2>1, <2>7, ShapeSorts, UpToTokens
      <3>5. Does(Item("tighter", t, 0), Now(o, mid, h), Shape(o, tight, UpTo(p), h))
        BY <3>3, <3>4 DEF Does, Item
      <3>6. QED
        BY <3>4, <3>5, DoesLeads
    <2>9. Leads(Item("binary", t, p), Shape(o, tight, UpTo(p), h), Shape(o, low, UpTo(p), h))
      <3>1. Len(low) = Len(l) + 1 /\ low[Len(l) + 1] = p /\ Len(l) \in Nat
        BY <2>1, Appended DEF Push
      <3>2. Instead(tight, 2, p) = low
        BY <2>1, Replaced
      <3> HIDE DEF low
      <3>3. /\ Len(tight) = Len(low) + 1 /\ tight[Len(low) + 1] = p + 1
            /\ \A i \in 1..Len(low) : tight[i] = low[i]
        BY <2>1, <2>3, Appended DEF Push
      <3> HIDE DEF tight
      <3>4. Len(tight) >= 2 /\ Len(tight) - 1 = Len(l) + 1 /\ Len(l) + 1 \in 1..Len(low)
        BY <3>1, <3>3
      <3>5. tight[Len(tight) - 1] = p
        BY <3>1, <3>3, <3>4
      <3>6. tight[Len(tight)] = p + 1
        BY <3>3
      <3>7. BinaryDoes(p, Shape(o, tight, UpTo(p), h), Shape(o, low, UpTo(p), h))
        BY <2>1, <3>2, <3>4, <3>5, <3>6, ShapeIs, SMTT(30) DEF BinaryDoes
      <3>8. Shape(o, low, UpTo(p), h) \in Shapes /\ Shape(o, tight, UpTo(p), h) \in Shapes
        BY <1>1, <2>1, <2>3, <2>7, ShapeSorts, UpToTokens
      <3>9. Does(Item("binary", t, p), Shape(o, tight, UpTo(p), h), Shape(o, low, UpTo(p), h))
        BY <3>7, <3>8 DEF Does, Item
      <3>10. QED
        BY <3>8, <3>9, DoesLeads
    <2>10. Leads(Item("rhs", "", n), Shape(o, low, UpTo(p), h), to)
      <3>1. \A u \in UpTo(p) : Prec(u) <= p
        BY DEF UpTo
      <3>2. UpTo(p) \in SUBSET Tokens
        BY <2>1, UpToTokens
      <3> HIDE DEF low, to
      <3>3. Leads(Item("rhs", "", n), Shape(o, Push(l, p), UpTo(p), h),
                  Shape(o, Push(l, n), UpTo(n - 1), h))
        BY <2>1, <3>1, <3>2, RhsDone
      <3>4. QED
        BY <3>3 DEF low, to
    <2>11. parse_binop_rhs(n, t)
             = <<Take(t), Call(f), Item("tighter", t, 0), Item("binary", t, p), Item("rhs", "", n)>>
      BY <1>4 DEF parse_binop_rhs, p
    <2> HIDE DEF low, mid, tight, s1, f, from, to
    <2>12. Runs(parse_binop_rhs(n, t), s1, to)
      BY <2>5, <2>6, <2>8, <2>9, <2>10, <2>11, RunsFive
    <2>13. QED
      BY <2>4, <2>12 DEF Stands, from, to
  <1>5. QED
    BY <1>3, <1>4

LEMMA TighterRuns ==
  ASSUME NEW t \in Tokens, NEW o \in Seq(Tokens), NEW l \in Seq(Nat), NEW h \in Seq(Settled),
         NEW op \in Tokens, Prec(op) >= 0, NEW a \in Nat, a >= Unary
  PROVE  Stands(tighter(op, t), Shape(o, Push(l, a), {t}, h),
                Shape(o, Push(l, Prec(op) + 1), UpTo(Prec(op)), h))
  <1> DEFINE p == Prec(op)
             n == p + 1
             from == Shape(o, Push(l, a), {t}, h)
             to == Shape(o, Push(l, n), UpTo(p), h)
  <1>1. p \in Nat /\ n \in Nat /\ n <= a /\ n - 1 = p /\ Prec(t) <= a /\ Prec(t) \in Int
    <2>1. p \in -1..12 /\ Prec(t) \in -1..12
      BY PrecType
    <2>2. QED
      BY <2>1, SMTT(30) DEF Unary
  <1>2. /\ h \in Seq(Statuses) /\ Push(l, a) \in Seq(Nat) /\ Push(l, n) \in Seq(Nat)
        /\ {t} \in SUBSET Tokens /\ UpTo(p) \in SUBSET Tokens
    <2>1. UpTo(p) \in SUBSET Tokens
      BY <1>1, UpToTokens
    <2> HIDE DEF p, n
    <2>2. Push(l, a) \in Seq(Nat) /\ Push(l, n) \in Seq(Nat) /\ h \in Seq(Statuses)
      BY <1>1, Sorts
    <2>3. QED
      BY <2>1, <2>2
  <1>3. from \in Shapes /\ to \in Shapes
    BY <1>2, ShapeSorts
  <1>4. CASE p < Prec(t)
    <2>1. Leads(Item("rhs", "", n), from, Shape(o, Push(l, n), UpTo(n - 1), h))
      <3>1. \A u \in {t} : Prec(u) <= a
        BY <1>1
      <3> HIDE DEF n, p
      <3>2. QED
        BY <1>1, <1>2, <3>1, RhsDone
    <2>2. tighter(op, t) = <<Item("rhs", "", n)>>
      BY <1>4 DEF tighter
    <2>3. Runs(tighter(op, t), from, to)
      BY <1>1, <2>1, <2>2, RunsOne
    <2>4. QED
      BY <1>3, <2>3, StandsIfRuns
  <1>5. CASE ~(p < Prec(t))
    <2>1. Prec(t) <= p
      BY <1>1, <1>5
    <2>2. {t} \subseteq UpTo(p)
      BY <2>1 DEF UpTo
    <2>3. Promises(from, to)
      BY <1>1, <1>2, <2>2, Weaker
    <2>4. tighter(op, t) = <<>>
      BY <1>5 DEF tighter
    <2>5. QED
      BY <1>3, <2>3, <2>4, StandsNothing
  <1>6. QED
    BY <1>4, <1>5

(* What a primary expression begins with.                                  *)
LEMMA StillPromised ==
  ASSUME NEW t \in Tokens, NEW o \in Seq(Tokens), NEW l \in Seq(Nat), NEW h \in Seq(Statuses)
  PROVE  /\ Promises(Shape(o, l, {t}, h), Now(o, l, h))
         /\ Shape(o, l, {t}, h) \in Shapes /\ Now(o, l, h) \in Shapes
  <1>1. \A i \in 1..Len(l) : l[i] >= l[i]
    OBVIOUS
  <1>2. Promises(Shape(o, l, {t}, h), Now(o, l, h))
    BY <1>1, ShapeIs DEF Promises, Now
  <1>3. QED
    BY <1>2, ShapeSorts

\* A rule that asks for nothing of the next token stands in the place of its call.
LEMMA RunsStand ==
  ASSUME NEW t \in Tokens, NEW o \in Seq(Tokens), NEW l \in Seq(Nat), NEW h \in Seq(Statuses),
         NEW items, NEW r, Runs(items, Now(o, l, h), r)
  PROVE  Stands(items, Shape(o, l, {t}, h), r)
  BY StillPromised DEF Stands

LEMMA BoolRuns ==
  ASSUME NEW t \in {"KW_TRUE", "KW_FALSE"}, NEW o \in Seq(Tokens), NEW l \in Seq(Nat),
         NEW h \in Seq(Settled)
  PROVE  /\ Runs(parse_bool_expr(t), Now(o, l, h), Now(o, Push(l, Primary), h))
         /\ Runs(<<Call("bool_expr")>>, Shape(o, l, {t}, h), Now(o, Push(l, Primary), h))
  <1>1. h \in Seq(Statuses) /\ Primary \in Nat /\ Push(l, Primary) \in Seq(Nat)
    BY Sorts
  <1>2. t \in Words /\ t \in Tokens
    BY WordNames DEF Words
  <1>3. Leads(Take(t), Now(o, l, h), Now(o, l, h))
    BY <1>1, <1>2, TakeDone
  <1>4. Leads(Make("expr", 0), Now(o, l, h), Now(o, Push(l, Primary), h))
    BY <1>1, KindNames, MadeDone
  <1>5. Leads(Call("bool_expr"), Shape(o, l, {t}, h), Now(o, Push(l, Primary), h))
    <2>1. "bool_expr" \in Makers /\ Binds("bool_expr") = Primary
      BY DEF Makers, Binds
    <2>2. CallDoes("bool_expr", 0, Shape(o, l, {t}, h), Now(o, Push(l, Primary), h))
      BY <2>1, ShapeIs DEF CallDoes, Adds, Now
    <2>3. Shape(o, l, {t}, h) \in Shapes /\ Now(o, Push(l, Primary), h) \in Shapes
      BY <1>1, <1>2, ShapeSorts
    <2>4. Does(Call("bool_expr"), Shape(o, l, {t}, h), Now(o, Push(l, Primary), h))
      BY <2>2, <2>3 DEF Does, Call, Item
    <2>5. QED
      BY <2>3, <2>4, DoesLeads
  <1>6. QED
    BY <1>3, <1>4, <1>5, RunsOne, RunsTwo DEF parse_bool_expr

LEMMA PrimaryRuns ==
  ASSUME NEW t \in Tokens, NEW o \in Seq(Tokens), NEW l \in Seq(Nat), NEW h \in Seq(Settled)
  PROVE  Stands(parse_primary_expr(t), Shape(o, l, {t}, h), Now(o, Push(l, Primary), h))
  <1> DEFINE s == Now(o, l, h)
             from == Shape(o, l, {t}, h)
             to == Now(o, Push(l, Primary), h)
  <1>1. h \in Seq(Statuses) /\ Primary \in Nat /\ Push(l, Primary) \in Seq(Nat)
    BY Sorts
  <1>2. Promises(from, s) /\ from \in Shapes /\ s \in Shapes /\ to \in Shapes
    BY <1>1, StillPromised, ShapeSorts
  <1>3. t \in {"KW_TRUE", "KW_FALSE"} => Runs(<<Call("bool_expr")>>, from, to)
    BY BoolRuns
  <1>4. \A f \in {"selector_expr", "var_expr", "int_expr", "flt_expr", "str_expr", "chr_expr",
                  "tuple_expr", "type_expr"} :
          /\ f \in Makers /\ f \notin {"bool_expr", "expr", "type", "unary_expr"}
          /\ f # "postfix_expr"
    BY MakerNames
  <1>5. \A f \in {"selector_expr", "var_expr", "int_expr", "flt_expr", "str_expr", "chr_expr",
                  "tuple_expr", "type_expr"} : Leads(Call(f), s, to)
    BY <1>4, MakersDone
  <1>6. Leads(Take("KW_NEW"), s, s)
    BY <1>1, TakeDone, WordNames
  <1>7. Leads(Go("agg_expr", 0), s, to)
    BY OtherDone
  <1>8. Leads(Fail, s, to)
    BY <1>2, FailDone
  <1> HIDE DEF s, from, to
  <1>9. /\ \A f \in {"selector_expr", "var_expr", "int_expr", "flt_expr", "str_expr", "chr_expr",
                     "tuple_expr"} : Runs(<<Call(f)>>, s, to)
        /\ Runs(<<Take("KW_NEW"), Call("type_expr")>>, s, to)
        /\ Runs(<<Go("agg_expr", 0)>>, s, to)
        /\ Runs(<<Fail>>, s, to)
    BY <1>5, <1>6, <1>7, <1>8, RunsOne, RunsTwo
  <1>10. CASE t \in {"KW_TRUE", "KW_FALSE"}
    <2>1. parse_primary_expr(t) = <<Call("bool_expr")>>
      BY <1>10 DEF parse_primary_expr
    <2>2. QED
      BY <1>2, <1>3, <1>10, <2>1, StandsIfRuns DEF from, to
  <1>11. CASE t \notin {"KW_TRUE", "KW_FALSE"}
    <2>1. Runs(parse_primary_expr(t), s, to)
      BY <1>9, <1>11 DEF parse_primary_expr
    <2>2. QED
      BY <1>2, <2>1 DEF Stands, from, to
  <1>12. QED
    BY <1>10, <1>11

\* What each call puts in its place.
LEMMA BodiesOfMakers ==
  ASSUME NEW n, NEW t
  PROVE  /\ Body("expr", n, t) = parse_expr
         /\ Body("unary_expr", n, t) = parse_unary_expr(t)
         /\ Body("postfix_expr", n, t) = parse_postfix_expr
         /\ Body("primary_expr", n, t) = parse_primary_expr(t)
         /\ Body("type_expr", n, t) = parse_type_expr
         /\ Body("var_expr", n, t) = parse_var_expr
         /\ Body("selector_expr", n, t) = parse_selector_expr
         /\ Body("int_expr", n, t) = parse_int_expr
         /\ Body("flt_expr", n, t) = parse_flt_expr
         /\ Body("str_expr", n, t) = parse_str_expr
         /\ Body("chr_expr", n, t) = parse_chr_expr
         /\ Body("bool_expr", n, t) = parse_bool_expr(t)
         /\ Body("tuple_expr", n, t) = parse_tuple_expr
         /\ Body("type", n, t) = parse_type
         /\ Body("ident_type", n, t) = parse_ident_type
         /\ Body("tuple_type", n, t) = parse_tuple_type
         /\ Body("group_type", n, t) = parse_group_type
         /\ Body("varargs_type", n, t) = parse_varargs_type
         /\ Body("ptr_type", n, t) = parse_ptr_type
         /\ Body("atom_type", n, t) = parse_atom_type
         /\ Body("bracket_type", n, t) = parse_bracket_type
         /\ Body("fn_type", n, t) = parse_fn_type
  BY DEF Body

LEMMA BodiesOfMovers ==
  ASSUME NEW n, NEW t
  PROVE  /\ Body("effect_ref", n, t) = effect_ref(t)
         /\ Body("postfix_loop", n, t) = postfix_loop(t)
         /\ Body("index_expr", n, t) = parse_index_expr
         /\ Body("call_expr", n, t) = parse_call_expr
         /\ Body("agg_expr", n, t) = parse_agg_expr(n)
         /\ Body("in_brackets", n, t) = in_brackets(t)
         /\ Body("name_or_elem", n, t) = name_or_elem(t)
         /\ Body("alternative", n, t) = alternative(n, t)
         /\ Body("at_type", n, t) = at_type(n, t)
         /\ Body("union", n, t) = union_type(n, t)
         /\ Body("only_let", n, t) = only_let(t)
         /\ Body("unit", n, t) = parse(t)
  BY DEF Body

LEMMA BodiesOfOthers ==
  ASSUME NEW n, NEW t
  PROVE  /\ Body("no_trailing_comma", n, t) = no_trailing_comma(t)
         /\ Body("args_type", n, t) = parse_args_type
         /\ Body("enum_init", n, t) = enum_init(t)
         /\ Body("more_args", n, t) = more_args(t)
         /\ Body("effects", n, t) = effects(t)
         /\ Body("ret", n, t) = ret(t)
         /\ Body("stmt", n, t) = parse_stmt(t)
         /\ Body("block_stmt", n, t) = parse_block_stmt
         /\ Body("stmts", n, t) = stmts(t)
         /\ Body("return_stmt", n, t) = parse_return_stmt
         /\ Body("return_value", n, t) = return_value(t)
         /\ Body("defer_stmt", n, t) = parse_defer_stmt
         /\ Body("break_stmt", n, t) = parse_break_stmt
         /\ Body("continue_stmt", n, t) = parse_continue_stmt
         /\ Body("if_stmt", n, t) = parse_if_stmt
         /\ Body("init", n, t) = init(t)
  BY DEF Body

LEMMA MoreBodies ==
  ASSUME NEW n, NEW t
  PROVE  /\ Body("else_if", n, t) = else_if(t)
         /\ Body("else_arm", n, t) = else_arm(t)
         /\ Body("let_stmt", n, t) = parse_let_stmt
         /\ Body("using_stmt", n, t) = parse_using_stmt
         /\ Body("for_stmt", n, t) = parse_for_stmt
         /\ Body("for_expr", n, t) = for_expr(t)
         /\ Body("for_post", n, t) = for_post(t)
         /\ Body("post_stmt", n, t) = post_stmt(t)
         /\ Body("for_else", n, t) = for_else(t)
         /\ Body("expr_stmt", n, t) = parse_expr_stmt
         /\ Body("assignment", n, t) = assignment(t)
         /\ Body("fn", n, t) = parse_fn
         /\ Body("typedef", n, t) = parse_typedef
         /\ Body("module", n, t) = parse_module
         /\ Body("import", n, t) = parse_import
         /\ Body("effect", n, t) = parse_effect
         /\ Body("attrs", n, t) = parse_attrs
  BY DEF Body

LEMMA Halves ==
  ASSUME NEW S, NEW s \in Seq(S), s # <<>>
  PROVE  /\ Front(s) \in Seq(S) /\ Last(s) \in S /\ Push(Front(s), Last(s)) = s
         /\ Len(Front(s)) = Len(s) - 1 /\ s[Len(s)] = Last(s)
         /\ \A i \in 1..Len(s) - 1 : Front(s)[i] = s[i]
  <1> DEFINE u == SubSeq(s, 1, Len(s) - 1)
             x == s[Len(s)]
  <1>1. /\ u \in Seq(S) /\ x \in S /\ Len(u) = Len(s) - 1 /\ Len(u) + 1 = Len(s)
        /\ \A i \in 1..Len(u) : u[i] = s[i]
    <2>1. Len(s) \in Nat /\ Len(s) >= 1
      OBVIOUS
    <2>2. u \in Seq(S) /\ x \in S
      BY <2>1
    <2>3. Len(u) = Len(s) - 1
      BY <2>1, SMTT(40)
    <2>4. \A i \in 1..Len(s) - 1 : u[i] = s[i]
      BY <2>1
    <2> HIDE DEF u, x
    <2>5. QED
      BY <2>1, <2>2, <2>3, <2>4
  <1>2. s[Len(u) + 1] = x
    BY <1>1
  <1> HIDE DEF u
  <1> DEFINE v == Append(u, x)
  <1>3. /\ v \in Seq(S) /\ Len(v) = Len(s) /\ v[Len(u) + 1] = x
        /\ \A i \in 1..Len(u) : v[i] = u[i]
    BY <1>1, Appended
  <1>4. \A i \in 1..Len(v) : v[i] = s[i]
    <2> HIDE DEF v, x
    <2>1. \A i \in 1..Len(v) : i \in 1..Len(u) \/ i = Len(u) + 1
      BY <1>1, <1>3
    <2>2. QED
      BY <1>1, <1>2, <1>3, <2>1
  <1>5. v = s
    <2> HIDE DEF v
    <2>1. QED
      BY <1>3, <1>4
  <1>6. Front(s) = u /\ Last(s) = x
    BY DEF Front, Last, u
  <1>7. QED
    BY <1>1, <1>5, <1>6 DEF Push

LEMMA InsteadOne ==
  ASSUME NEW l \in Seq(Nat), l # <<>>, NEW k
  PROVE  Instead(l, 1, k) = Push(Front(l), k)
  BY DEF Instead, Front

\* What is seen of the next token says nothing of what was settled before.
LEMMA SeenSettled ==
  ASSUME NEW s \in Shapes, s.held \in Seq(Settled), NEW t
  PROVE  Seen(s, t) = Shape(s.open, s.low, {t}, s.held)
  <1>1. s.held # <<>> => Last(s.held) \in Settled
    BY Halves
  <1>2. "new" \notin Settled
    BY KindNames DEF Settled
  <1>3. QED
    BY <1>1, <1>2 DEF Seen

LEMMA ShapeParts ==
  ASSUME NEW s \in Shapes
  PROVE  s.open \in Seq(Tokens) /\ s.low \in Seq(Nat) /\ s.held \in Seq(Statuses)
         /\ s.next \subseteq Tokens
  BY DEF Shapes

(* Each call, and what it puts in its place.                               *)
LEMMA PrimariesRun ==
  ASSUME NEW t \in Tokens, NEW o \in Seq(Tokens), NEW l \in Seq(Nat), NEW h \in Seq(Settled),
         NEW n, NEW f \in Makers,
         f \notin {"expr", "type", "unary_expr", "postfix_expr", "primary_expr", "bool_expr"}
  PROVE  Runs(Body(f, n, t), Now(o, l, h), Now(o, Push(l, Primary), h))
  <1>1. CASE f \in {"type_expr", "var_expr", "selector_expr", "int_expr", "flt_expr",
                   "str_expr", "chr_expr", "tuple_expr"}
    BY <1>1, OperandRuns, BodiesOfMakers
  <1>2. CASE f \in {"ident_type", "tuple_type", "group_type", "varargs_type", "ptr_type",
                   "atom_type", "bracket_type", "fn_type"}
    BY <1>2, TypeRuns, FnTypeRuns, BodiesOfMakers
  <1>3. QED
    BY <1>1, <1>2 DEF Makers

LEMMA MakersStand ==
  ASSUME NEW t \in Tokens, NEW o \in Seq(Tokens), NEW l \in Seq(Nat), NEW h \in Seq(Settled),
         NEW n, NEW f \in Makers, f = "bool_expr" => t \in {"KW_TRUE", "KW_FALSE"}
  PROVE  Stands(Body(f, n, t), Shape(o, l, {t}, h), Now(o, Push(l, Binds(f)), h))
  <1> DEFINE s == Now(o, l, h)
             from == Shape(o, l, {t}, h)
             to == Now(o, Push(l, Binds(f)), h)
  <1>1. h \in Seq(Statuses)
    BY Sorts
  <1>2. ASSUME Runs(Body(f, n, t), s, to) PROVE Stands(Body(f, n, t), from, to)
    BY <1>1, <1>2, RunsStand
  <1>3. CASE f = "expr"
    <2>1. Runs(parse_expr, s, Now(o, Push(l, 0), h))
      BY OperandRuns
    <2>2. Binds(f) = 0
      BY <1>3 DEF Binds
    <2>3. QED
      BY <1>2, <1>3, <2>1, <2>2, BodiesOfMakers
  <1>4. CASE f = "type"
    <2>1. Runs(parse_type, s, Now(o, Push(l, 0), h))
      BY HoldingRuns
    <2>2. Binds(f) = 0
      BY <1>4 DEF Binds
    <2>3. QED
      BY <1>2, <1>4, <2>1, <2>2, BodiesOfMakers
  <1>5. CASE f = "unary_expr"
    <2>1. Runs(parse_unary_expr(t), s, Now(o, Push(l, Unary), h))
      BY OperandRuns
    <2>2. QED
      BY <1>2, <1>5, <2>1, MakersBind, BodiesOfMakers
  <1>6. CASE f = "postfix_expr"
    <2>1. Runs(parse_postfix_expr, s, Now(o, Push(l, Postfix), h))
      BY PostfixRuns
    <2>2. QED
      BY <1>2, <1>6, <2>1, MakersBind, BodiesOfMakers
  <1>7. CASE f = "primary_expr"
    <2>1. Stands(parse_primary_expr(t), from, Now(o, Push(l, Primary), h))
      BY PrimaryRuns
    <2>2. Binds(f) = Primary
      BY <1>7 DEF Binds
    <2>3. QED
      BY <1>7, <2>1, <2>2, BodiesOfMakers
  <1>8. CASE f = "bool_expr"
    <2>1. Runs(parse_bool_expr(t), s, Now(o, Push(l, Primary), h))
      BY <1>8, BoolRuns
    <2>2. Binds(f) = Primary
      BY <1>8 DEF Binds
    <2>3. QED
      BY <1>2, <1>8, <2>1, <2>2, BodiesOfMakers
  <1>9. CASE f \notin {"expr", "type", "unary_expr", "postfix_expr", "primary_expr", "bool_expr"}
    <2>1. Runs(Body(f, n, t), s, Now(o, Push(l, Primary), h))
      BY <1>9, PrimariesRun
    <2>2. Binds(f) = Primary
      BY <1>9 DEF Binds
    <2>3. QED
      BY <1>2, <2>1, <2>2
  <1>10. QED
    BY <1>3, <1>4, <1>5, <1>6, <1>7, <1>8, <1>9

LEMMA OthersRun ==
  ASSUME NEW t \in Tokens, NEW o \in Seq(Tokens), NEW l \in Seq(Nat), NEW h \in Seq(Settled),
         NEW n, NEW f \in Others
  PROVE  Runs(Body(f, n, t), Now(o, l, h), Now(o, l, h))
  <1>1. CASE f \in {"stmt", "block_stmt", "stmts", "return_stmt", "return_value",
                   "defer_stmt", "break_stmt", "continue_stmt", "if_stmt", "init",
                   "else_if", "else_arm"}
    BY <1>1, StmtRuns, BodiesOfOthers, MoreBodies
  <1>2. CASE f \in {"let_stmt", "using_stmt", "for_stmt", "for_expr", "for_post",
                   "post_stmt", "for_else", "expr_stmt", "assignment"}
    BY <1>2, MoreStmtRuns, BodiesOfOthers, MoreBodies
  <1>3. CASE f \in {"fn", "typedef", "module", "import", "effect", "attrs"}
    BY <1>3, DeclRuns, BodiesOfOthers, MoreBodies
  <1>4. CASE f = "no_trailing_comma"
    BY <1>4, OperandRuns, BodiesOfOthers
  <1>5. CASE f \in {"args_type", "enum_init"}
    <2>1. 0 \in Nat
      OBVIOUS
    <2>2. Runs(parse_args_type, Now(o, l, h), Now(o, l, h))
      BY <2>1, TypeRuns
    <2>3. Runs(enum_init(t), Now(o, l, h), Now(o, l, h))
      BY <2>1, TypeRuns
    <2>4. QED
      BY <1>5, <2>2, <2>3, BodiesOfOthers
  <1>6. CASE f \in {"more_args", "effects", "ret"}
    BY <1>6, FnTypeRuns, BodiesOfOthers
  <1>7. QED
    BY <1>1, <1>2, <1>3, <1>4, <1>5, <1>6 DEF Others

LEMMA MoversRun ==
  ASSUME NEW t \in Tokens, NEW o \in Seq(Tokens), NEW l \in Seq(Nat), NEW h \in Seq(Settled),
         NEW n, NEW f, f \in Movers \/ (f = "agg_expr" /\ n = 1)
  PROVE  Runs(Body(f, n, t), Now(o, Push(l, Postfix), h), Now(o, Push(l, Postfix), h))
  BY PostfixRuns, OperandRuns, BodiesOfMovers DEF Movers

LEMMA SeenHanded ==
  ASSUME NEW s \in Shapes, NEW t \in Tokens, s.held # <<>>, Front(s.held) \in Seq(Settled)
  PROVE  LET x == IF Last(s.held) = "new" THEN Fresh(t) ELSE Last(s.held) IN
         /\ Seen(s, t) = Shape(s.open, s.low, {t}, Push(Front(s.held), x))
         /\ x \in Settled
         /\ Last(s.held) \in {"new", "spent"} => x \in {Fresh(t), "spent"}
         /\ Last(s.held) \in {"AT", "spent"} => x \in {"AT", "spent"}
         /\ Last(s.held) \in {"spent"} => x = "spent"
  <1>1. s.held \in Seq(Statuses)
    BY ShapeParts
  <1>2. Last(s.held) \in Statuses /\ s.held = Push(Front(s.held), Last(s.held))
    BY <1>1, Halves
  <1>3. Last(s.held) # "new" => Last(s.held) \in Settled
    BY <1>2 DEF Statuses
  <1>4. Fresh(t) \in Settled /\ "AT" # "new"
    BY FreshIs
  <1> DEFINE x == IF Last(s.held) = "new" THEN Fresh(t) ELSE Last(s.held)
  <1>5. Seen(s, t) = Shape(s.open, s.low, {t}, Push(Front(s.held), x))
    BY <1>2 DEF Seen
  <1>6. QED
    BY <1>3, <1>4, <1>5

LEMMA CallStands ==
  ASSUME NEW s \in Shapes, NEW q \in Shapes, NEW t \in Tokens, t \in s.next,
         NEW f, NEW n \in Nat, CallDoes(f, n, s, q)
  PROVE  Stands(Body(f, n, t), Seen(s, t), q)
  <1> DEFINE o == s.open
             l == s.low
             h == s.held
             from == Shape(o, l, {t}, h)
  <1>1. o \in Seq(Tokens) /\ l \in Seq(Nat) /\ h \in Seq(Statuses)
    BY ShapeParts
  <1>2. h \in Seq(Settled) => Seen(s, t) = from
    BY SeenSettled
  <1> HIDE DEF o, l, h
  <1>3. ASSUME f \in Makers \/ (f = "agg_expr" /\ n = 0),
               f = "bool_expr" => s.next \subseteq {"KW_TRUE", "KW_FALSE"},
               h \in Seq(Settled), Adds(s, q, Binds(f))
        PROVE  Stands(Body(f, n, t), Seen(s, t), q)
    <2>1. q = Now(o, Push(l, Binds(f)), h)
      BY <1>3 DEF Adds, Now, o, l, h
    <2>2. CASE f \in Makers
      <3>1. f = "bool_expr" => t \in {"KW_TRUE", "KW_FALSE"}
        BY <1>3
      <3>2. QED
        BY <1>1, <1>2, <1>3, <2>1, <2>2, <3>1, MakersStand
    <2>3. CASE f = "agg_expr" /\ n = 0
      <3>1. Binds(f) = Primary
        BY <2>3 DEF Binds
      <3>2. Runs(parse_agg_expr(0), Now(o, l, h), Now(o, Push(l, Primary), h))
        BY <1>1, <1>3, OperandRuns
      <3>3. Runs(Body(f, n, t), Now(o, l, h), q)
        BY <2>1, <2>3, <3>1, <3>2, BodiesOfMovers
      <3>4. QED
        BY <1>1, <1>2, <1>3, <3>3, RunsStand
    <2>4. QED
      BY <1>3, <2>2, <2>3
  <1>4. ASSUME f \in Movers \/ (f = "agg_expr" /\ n = 1), h \in Seq(Settled),
               l # <<>>, Last(l) >= Postfix, Moves(s, q, 1, Postfix)
        PROVE  Stands(Body(f, n, t), Seen(s, t), q)
    <2> DEFINE k == Front(l)
               x == Last(l)
               s1 == Now(o, Push(k, Postfix), h)
    <2>1. k \in Seq(Nat) /\ x \in Nat /\ l = Push(k, x) /\ Postfix \in Nat /\ Postfix <= x
      BY <1>1, <1>4, Halves, Sorts
    <2>2. q = s1
      BY <1>1, <1>4, InsteadOne DEF Moves, Now, o, l, h
    <2> HIDE DEF k, x
    <2>3. Runs(Body(f, n, t), s1, s1)
      BY <1>1, <1>4, <2>1, MoversRun
    <2>4. {t} \subseteq Tokens
      OBVIOUS
    <2>5. Promises(Shape(o, Push(k, x), {t}, h), s1)
      BY <1>1, <2>1, <2>4, Weaker DEF Now
    <2>6. s1 \in Shapes
      BY <1>1, <2>1, Sorts, ShapeSorts
    <2> HIDE DEF s1
    <2>7. QED
      BY <1>2, <1>4, <2>1, <2>2, <2>3, <2>5, <2>6 DEF Stands
  <1>5. ASSUME f \in Others, h \in Seq(Settled), Stays(s, q)
        PROVE  Stands(Body(f, n, t), Seen(s, t), q)
    <2>1. q = Now(o, l, h)
      BY <1>5 DEF Stays, Now, o, l, h
    <2>2. Runs(Body(f, n, t), Now(o, l, h), q)
      BY <1>1, <1>5, <2>1, OthersRun
    <2>3. QED
      BY <1>1, <1>2, <1>5, <2>2, RunsStand
  <1>6. ASSUME f = "in_brackets", h \in Seq(Settled), o # <<>>, Last(o) = "LBRACKET",
               q = Shape(Front(o), Push(l, Primary), Tokens, h)
        PROVE  Stands(Body(f, n, t), Seen(s, t), q)
    <2> DEFINE k == Front(o)
    <2>1. k \in Seq(Tokens) /\ o = Push(k, "LBRACKET")
      BY <1>1, <1>6, Halves
    <2>2. q = Now(k, Push(l, Primary), h)
      BY <1>6 DEF Now
    <2> HIDE DEF k
    <2>3. 0 \in Nat
      OBVIOUS
    <2>4. Runs(in_brackets(t), Now(Push(k, "LBRACKET"), l, h), Now(k, Push(l, Primary), h))
      BY <1>1, <1>6, <2>1, <2>3, TypeRuns
    <2>5. Runs(Body(f, n, t), Now(o, l, h), q)
      BY <1>6, <2>1, <2>2, <2>4, BodiesOfMovers
    <2>6. QED
      BY <1>1, <1>2, <1>6, <2>5, RunsStand
  <1>7. ASSUME f = "name_or_elem", h \in Seq(Settled), l # <<>>,
               q = Shape(o, Front(l), Tokens, h)
        PROVE  Stands(Body(f, n, t), Seen(s, t), q)
    <2> DEFINE k == Front(l)
               x == Last(l)
    <2>1. k \in Seq(Nat) /\ x \in Nat /\ l = Push(k, x)
      BY <1>1, <1>7, Halves
    <2>2. q = Now(o, k, h)
      BY <1>7 DEF Now
    <2> HIDE DEF k, x
    <2>3. Runs(name_or_elem(t), Now(o, Push(k, x), h), Now(o, k, h))
      BY <1>1, <1>7, <2>1, TypeRuns
    <2>4. Runs(Body(f, n, t), Now(o, l, h), q)
      BY <1>7, <2>1, <2>2, <2>3, BodiesOfMovers
    <2>5. QED
      BY <1>1, <1>2, <1>7, <2>4, RunsStand
  <1> DEFINE g == Front(h)
             x == IF Last(h) = "new" THEN Fresh(t) ELSE Last(h)
  <1>8. ASSUME h # <<>>, g \in Seq(Settled)
        PROVE  /\ Seen(s, t) = Shape(o, l, {t}, Push(g, x))
               /\ Push(g, x) \in Seq(Statuses) /\ x \in Settled
               /\ Last(h) \in {"new", "spent"} => x \in {Fresh(t), "spent"}
               /\ Last(h) \in {"AT", "spent"} => x \in {"AT", "spent"}
               /\ Last(h) \in {"spent"} => x = "spent"
    BY <1>8, SeenHanded, Sorts DEF o, l, h
  <1> HIDE DEF g, x
  <1>9. ASSUME \/ f = "alternative" /\ Handed(s, {"new", "spent"})
               \/ f = "at_type" /\ Handed(s, {"AT", "spent"})
               \/ f = "union" /\ n > 0 /\ Handed(s, {"spent"}),
               Len(l) >= n, q = Shape(o, Instead(l, n, 0), Tokens, g)
        PROVE  Stands(Body(f, n, t), Seen(s, t), q)
    <2>1. /\ h # <<>> /\ g \in Seq(Settled)
          /\ f = "alternative" => Last(h) \in {"new", "spent"}
          /\ f = "at_type" => Last(h) \in {"AT", "spent"}
          /\ f = "union" => Last(h) \in {"spent"} /\ n > 0
      BY <1>9 DEF Handed, g, h
    <2>2. n <= Len(l) /\ q = Now(o, Instead(l, n, 0), g)
      BY <1>1, <1>9 DEF Now
    <2>3. CASE f = "alternative"
      <3>1. Runs(alternative(n, t), Now(o, l, Push(g, x)), q)
        BY <1>1, <1>8, <2>1, <2>2, <2>3, AlternativeRuns
      <3>2. QED
        BY <1>1, <1>8, <2>1, <2>3, <3>1, RunsStand, BodiesOfMovers
    <2>4. CASE f = "at_type"
      <3>1. Runs(at_type(n, t), Now(o, l, Push(g, x)), q)
        BY <1>1, <1>8, <2>1, <2>2, <2>4, AtTypeRuns
      <3>2. QED
        BY <1>1, <1>8, <2>1, <2>4, <3>1, RunsStand, BodiesOfMovers
    <2>5. CASE f = "union"
      <3>1. Runs(union_type(n, t), Now(o, l, Push(g, x)), q)
        BY <1>1, <1>8, <2>1, <2>2, <2>5, UnionRuns
      <3>2. QED
        BY <1>1, <1>8, <2>1, <2>5, <3>1, RunsStand, BodiesOfMovers
    <2>6. QED
      BY <1>9, <2>3, <2>4, <2>5
  <1>10. ASSUME f \in {"only_let", "unit"}, Handed(s, {"new", "spent"}),
                q = Shape(o, l, Tokens, g)
         PROVE  Stands(Body(f, n, t), Seen(s, t), q)
    <2>1. h # <<>> /\ g \in Seq(Settled) /\ Last(h) \in {"new", "spent"}
      BY <1>10 DEF Handed, g, h
    <2>2. q = Now(o, l, g)
      BY <1>10 DEF Now
    <2>3. x \in {Fresh(t), "spent"}
      BY <1>8, <2>1
    <2>4. /\ Runs(only_let(t), Now(o, l, Push(g, x)), q)
          /\ Runs(parse(t), Now(o, l, Push(g, x)), q)
      BY <1>1, <2>1, <2>2, <2>3, OnlyLetRuns, UnitRuns
    <2>5. Runs(Body(f, n, t), Now(o, l, Push(g, x)), q)
      BY <1>10, <2>4, BodiesOfMovers
    <2>6. QED
      BY <1>1, <1>8, <2>1, <2>5, RunsStand
  <1>11. QED
    BY <1>3, <1>4, <1>5, <1>6, <1>7, <1>9, <1>10 DEF CallDoes, o, l, h, g

LEMMA ListStands ==
  ASSUME NEW s \in Shapes, NEW q \in Shapes, NEW t \in Tokens, NEW list, NEW n,
         ListDoes(list, s, q)
  PROVE  /\ Stands(Elements(list, n, t), Seen(s, t), q)
         /\ Stands(AfterElement(list, n, t), Seen(s, t), q)
  <1> DEFINE o == s.open
             l == s.low
             h == s.held
             k == IF list = "effects" THEN o ELSE Front(o)
  <1>1. o \in Seq(Tokens) /\ l \in Seq(Nat) /\ h \in Seq(Settled) /\ h \in Seq(Statuses)
    BY ShapeParts DEF ListDoes
  <1>2. list \in Lists /\ Seen(s, t) = Shape(o, l, {t}, h)
    BY SeenSettled DEF ListDoes
  <1>3. k \in Seq(Tokens) /\ Inside(list, k) = o
    BY <1>1, Halves DEF Inside, ListDoes
  <1>4. q = Now(k, After(list, l), h)
    BY DEF ListDoes, After, Now
  <1> HIDE DEF o, l, h, k
  <1>5. /\ Runs(Elements(list, n, t), Now(o, l, h), q)
        /\ Runs(AfterElement(list, n, t), Now(o, l, h), q)
    <2>1. /\ Runs(Elements(list, n, t), Now(Inside(list, k), l, h), Now(k, After(list, l), h))
          /\ Runs(AfterElement(list, n, t), Now(Inside(list, k), l, h), Now(k, After(list, l), h))
      BY <1>1, <1>2, <1>3, ListRuns
    <2>2. QED
      BY <1>3, <1>4, <2>1
  <1>6. QED
    BY <1>1, <1>2, <1>5, RunsStand

LEMMA OperatorsStand ==
  ASSUME NEW s \in Shapes, NEW q \in Shapes, NEW t \in Tokens, t \in s.next, NEW n \in Nat, NEW op
  PROVE  /\ RhsDoes(n, s, q) => Stands(parse_binop_rhs(n, t), Seen(s, t), q)
         /\ TighterDoes(op, s, q) => Stands(tighter(op, t), Seen(s, t), q)
  <1> DEFINE o == s.open
             l == s.low
             h == s.held
             k == Front(l)
             a == Last(l)
  <1>1. o \in Seq(Tokens) /\ l \in Seq(Nat) /\ h \in Seq(Statuses)
    BY ShapeParts
  <1>2. h \in Seq(Settled) => Seen(s, t) = Shape(o, l, {t}, h)
    BY SeenSettled
  <1>3. l # <<>> => /\ k \in Seq(Nat) /\ a \in Nat /\ l = Push(k, a)
                    /\ \A x : Instead(l, 1, x) = Push(k, x)
    BY <1>1, Halves, InsteadOne
  <1>4. ASSUME RhsDoes(n, s, q) PROVE Stands(parse_binop_rhs(n, t), Seen(s, t), q)
    <2>1. /\ h \in Seq(Settled) /\ l # <<>> /\ a >= n /\ Prec(t) <= a
          /\ q = Shape(o, Instead(l, 1, n), UpTo(n - 1), h)
      BY <1>4 DEF RhsDoes
    <2> HIDE DEF o, l, h, k, a
    <2>2. n <= a
      BY <1>3, <2>1
    <2>3. Stands(parse_binop_rhs(n, t), Shape(o, Push(k, a), {t}, h),
                 Shape(o, Push(k, n), UpTo(n - 1), h))
      BY <1>1, <1>3, <2>1, <2>2, BinopRuns
    <2>4. QED
      BY <1>2, <1>3, <2>1, <2>3
  <1>5. ASSUME TighterDoes(op, s, q) PROVE Stands(tighter(op, t), Seen(s, t), q)
    <2>1. /\ h \in Seq(Settled) /\ l # <<>> /\ a >= Unary /\ op \in Tokens /\ Prec(op) >= 0
          /\ q = Shape(o, Instead(l, 1, Prec(op) + 1), UpTo(Prec(op)), h)
      BY <1>5 DEF TighterDoes
    <2> HIDE DEF o, l, h, k, a
    <2>2. Stands(tighter(op, t), Shape(o, Push(k, a), {t}, h),
                 Shape(o, Push(k, Prec(op) + 1), UpTo(Prec(op)), h))
      BY <1>1, <1>3, <2>1, TighterRuns
    <2>3. QED
      BY <1>2, <1>3, <2>1, <2>2
  <1>6. QED
    BY <1>4, <1>5

\* What is put in the place of a call, a loop or a branch takes what is known with the next
\* token to what the call does.
LEMMA ExpansionStands ==
  ASSUME NEW item \in Items, item.do \in {"call", "list", "comma", "rhs", "tighter"},
         NEW s, NEW q, NEW t \in Tokens, Does(item, s, q), t \in s.next
  PROVE  /\ Stands(Expansion(item, t), Seen(s, t), q)
         /\ s.held # <<>> => Front(s.held) \in Seq(Settled)
  <1>1. s \in Shapes /\ q \in Shapes /\ item.n \in Nat
    BY DEF Does, Items
  <1>2. s.held \in Seq(Settled) /\ s.held # <<>> => Front(s.held) \in Seq(Settled)
    BY Halves
  <1>3. CASE item.do = "call"
    <2>1. CallDoes(item.what, item.n, s, q)
      BY <1>3 DEF Does
    <2>2. Stands(Body(item.what, item.n, t), Seen(s, t), q)
      BY <1>1, <2>1, CallStands
    <2>3. s.held # <<>> => Front(s.held) \in Seq(Settled)
      BY <1>2, <2>1 DEF CallDoes, Handed
    <2>4. QED
      BY <1>3, <2>2, <2>3 DEF Expansion
  <1>4. CASE item.do \in {"list", "comma"}
    <2>1. ListDoes(item.what, s, q)
      BY <1>4 DEF Does
    <2>2. QED
      BY <1>1, <1>2, <1>4, <2>1, ListStands DEF Expansion, ListDoes
  <1>5. CASE item.do = "rhs"
    <2>1. RhsDoes(item.n, s, q)
      BY <1>5 DEF Does
    <2>2. QED
      BY <1>1, <1>2, <1>5, <2>1, OperatorsStand DEF Expansion, RhsDoes
  <1>6. CASE item.do = "tighter"
    <2>1. TighterDoes(item.what, s, q)
      BY <1>6 DEF Does
    <2>2. 0 \in Nat
      OBVIOUS
    <2>3. QED
      BY <1>1, <1>2, <1>6, <2>1, <2>2, OperatorsStand DEF Expansion, TighterDoes
  <1>7. QED
    BY <1>3, <1>4, <1>5, <1>6

-----------------------------------------------------------------------------
(* What the parser fits to.                                                *)

Nothing == Shape(<<>>, <<>>, Tokens, <<>>)

NodesFit(ns, low) == Len(ns) = Len(low) /\ \A i \in 1..Len(ns) : ns[i].prec >= low[i]

NextFits(p, m) == IF p = None THEN m = Tokens ELSE p \in m

\* A list just parsed is the newest, and the token behind it is still to be seen.
ArrayFits(a, fs, bs, x) ==
  IF x = "new" THEN a = Len(fs) /\ a = Len(bs) + 1
  ELSE a # 0 => a \in 1..Len(bs) /\ bs[a] \in Takers \union {x}
ArraysFit(as, fs, bs, h) ==
  /\ Len(as) = Len(h)
  /\ h \in Seq(Settled) => Len(bs) = Len(fs)
  /\ \A i \in 1..Len(as) : ArrayFits(as[i], fs, bs, h[i])

FitsIn(s, o, ns, p, as, fs, bs) ==
  o = s.open /\ NodesFit(ns, s.low) /\ NextFits(p, s.next) /\ ArraysFit(as, fs, bs, s.held)

Fits(s) == FitsIn(s, open, nodes, peeked, attrs, fate, before)

\* What the calls have still to do leads to the end.
GoesOn == \E s \in Shapes : Fits(s) /\ Runs(todo, s, Nothing)

Grouped(node) ==
  /\ node.left >= node.prec
  /\ IF node.kind = "binary" THEN node.right > node.prec ELSE node.right >= Unary

\* What becomes of the nodes that wait.
WithNode(ns, kind, n) ==
  SubSeq(ns, 1, Len(ns) - n) \o <<Node(kind, SubSeq(ns, (Len(ns) - n) + 1, Len(ns)))>>
WithBinary(ns, p) ==
  Append(SubSeq(ns, 1, Len(ns) - 2),
         [kind |-> "binary", prec |-> p, left |-> ns[(Len(ns) - 2) + 1].prec,
          right |-> ns[(Len(ns) - 2) + 2].prec])

NodesIn(ns) == ns \in Seq(Nodes) /\ \A i \in 1..Len(ns) : Grouped(ns[i])
NodesOK == NodesIn(nodes)

\* No list is in two arrays or in one when it is not held; and lists reach what follows.
AttrsIn(as, fs, bs) ==
  /\ as \in Seq(0..Len(fs)) /\ fs \in Seq(Fates) /\ bs \in Seq(Tokens)
  /\ Len(bs) <= Len(fs)
  /\ \A i \in 1..Len(as) : as[i] # 0 =>
       /\ fs[as[i]] = "held"
       /\ \A j \in 1..Len(as) : as[j] = as[i] => j = i
  /\ \A l \in 1..Len(bs) : fs[l] \in {"held", "dropped", bs[l]} \/ bs[l] \in Takers

\* A list that is held is in an array.
HeldIn(as, fs) == \A l \in 1..Len(fs) : fs[l] = "held" => \E i \in 1..Len(as) : as[i] = l

RestOK ==
  /\ open \in Seq(Tokens)
  /\ errno \in BOOLEAN
  /\ unit \in Unit
  /\ result \in {None, "unit", "diagnosed", "silent"}

TreeInv ==
  /\ DeferInv
  /\ NodesOK
  /\ AttrsIn(attrs, fate, before)
  /\ RestOK
  /\ result = None => HeldIn(attrs, fate) /\ GoesOn
  /\ result = "unit" => open = <<>> /\ \A l \in 1..Len(fate) : fate[l] # "held"

LEMMA FitsLess ==
  ASSUME NEW q \in Shapes, NEW r \in Shapes, Promises(q, r), NEW o, NEW ns \in Seq(Nodes), NEW p,
         NEW as, NEW fs, NEW bs, FitsIn(q, o, ns, p, as, fs, bs)
  PROVE  FitsIn(r, o, ns, p, as, fs, bs)
  <1>1. q.low \in Seq(Nat) /\ r.low \in Seq(Nat) /\ r.next \subseteq Tokens
    BY ShapeParts
  <1>2. NodesFit(ns, r.low)
    <2>1. Len(ns) = Len(q.low) /\ Len(ns) = Len(r.low)
      BY DEF FitsIn, NodesFit, Promises
    <2>2. ASSUME NEW i \in 1..Len(ns) PROVE ns[i].prec >= r.low[i]
      <3>1. ns[i].prec \in Nat /\ q.low[i] \in Nat /\ r.low[i] \in Nat
        <4>1. i \in 1..Len(q.low) /\ i \in 1..Len(r.low)
          BY <2>1
        <4>2. ns[i] \in Nodes
          OBVIOUS
        <4>3. ns[i].prec \in Nat
          BY <4>2 DEF Nodes
        <4>4. q.low[i] \in Nat
          BY <1>1, <4>1
        <4>5. r.low[i] \in Nat
          BY <1>1, <4>1
        <4>6. QED
          BY <4>3, <4>4, <4>5
      <3>2. ns[i].prec >= q.low[i] /\ q.low[i] >= r.low[i]
        BY <2>1 DEF FitsIn, NodesFit, Promises
      <3>3. QED
        BY <3>1, <3>2
    <2>3. QED
      BY <2>1, <2>2 DEF NodesFit
  <1>3. NextFits(p, r.next)
    <2>1. NextFits(p, q.next) /\ q.next \subseteq r.next
      BY DEF FitsIn, Promises
    <2>2. CASE p = None
      <3>1. r.next = Tokens
        BY <1>1, <2>1, <2>2 DEF NextFits
      <3>2. QED
        BY <2>2, <3>1 DEF NextFits
    <2>3. CASE p # None
      BY <2>1, <2>3 DEF NextFits
    <2>4. QED
      BY <2>2, <2>3
  <1>4. QED
    BY <1>2, <1>3 DEF FitsIn, Promises

\* Whatever is next, it is a token.
LEMMA NextIsAny ==
  ASSUME NEW p \in Tokens \union {None}
  PROVE  NextFits(p, Tokens)
  BY DEF NextFits

\* What is ahead of the parser.
LEMMA Ahead ==
  ASSUME NEW items \in Seq(Items), items # <<>>, NEW s \in Shapes, Runs(items, s, Nothing)
  PROVE  \E q \in Shapes : \E r \in Shapes :
           Does(Head(items), s, q) /\ Promises(q, r) /\ Runs(Tail(items), r, Nothing)
  <1>1. Nothing \in Shapes
    BY DEF Nothing, Shape, Shapes
  <1>2. PICK r \in Shapes : Leads(Head(items), s, r) /\ Runs(Tail(items), r, Nothing)
    BY <1>1, RunsApart
  <1>3. QED
    BY <1>2 DEF Leads

LEMMA NodesReplaced ==
  ASSUME NEW ns, NodesIn(ns),
         NEW l \in Seq(Nat), NodesFit(ns, l), NEW kept \in Nat, kept <= Len(ns),
         NEW x \in Nodes, Grouped(x), NEW k \in Nat, x.prec >= k
  PROVE  LET new == Append(SubSeq(ns, 1, kept), x) IN
         /\ NodesIn(new)
         /\ NodesFit(new, Push(SubSeq(l, 1, kept), k))
         /\ SubSeq(ns, 1, kept) \o <<x>> = new
  <1> DEFINE u == SubSeq(ns, 1, kept)
             v == SubSeq(l, 1, kept)
             new == Append(u, x)
             low == Append(v, k)
  <1>0. ns \in Seq(Nodes) /\ \A i \in 1..Len(ns) : Grouped(ns[i])
    BY DEF NodesIn
  <1>1. Len(ns) = Len(l) /\ Len(l) \in Nat
    BY DEF NodesFit
  <1>2. u \in Seq(Nodes) /\ Len(u) = kept /\ \A i \in 1..kept : u[i] = ns[i]
    BY <1>0
  <1>3. v \in Seq(Nat) /\ Len(v) = kept /\ \A i \in 1..kept : v[i] = l[i]
    BY <1>1
  <1>4. \A i \in 1..kept : i \in 1..Len(ns)
    BY <1>1
  <1> HIDE DEF u, v
  <1>5. /\ new \in Seq(Nodes) /\ Len(new) = kept + 1 /\ new[kept + 1] = x
        /\ \A i \in 1..kept : new[i] = ns[i]
    BY <1>2, Appended
  <1>6. Len(low) = kept + 1 /\ low[kept + 1] = k /\ \A i \in 1..kept : low[i] = l[i]
    BY <1>3, Appended
  <1>7. u \o <<x>> = new
    BY <1>2
  <1> HIDE DEF new, low
  <1>8. \A i \in 1..kept + 1 : i \in 1..kept \/ i = kept + 1
    OBVIOUS
  <1>9. \A i \in 1..Len(new) : Grouped(new[i])
    BY <1>0, <1>4, <1>5, <1>8
  <1>10. \A i \in 1..Len(new) : new[i].prec >= low[i]
    <2>1. \A i \in 1..kept : ns[i].prec >= l[i]
      BY <1>4 DEF NodesFit
    <2>2. QED
      BY <1>5, <1>6, <1>8, <2>1
  <1>11. NodesFit(new, low)
    BY <1>5, <1>6, <1>10 DEF NodesFit
  <1>12. QED
    BY <1>5, <1>7, <1>9, <1>11 DEF new, low, u, v, Push, NodesIn

\* A node is made of the newest ones.
LEMMA NodeFits ==
  ASSUME NEW ns, NodesIn(ns), NEW s \in Shapes, NEW q \in Shapes, NodesFit(ns, s.low),
         NEW kind, NEW n \in Nat, MakeDoes(kind, n, s, q)
  PROVE  /\ NodesIn(WithNode(ns, kind, n)) /\ NodesFit(WithNode(ns, kind, n), q.low)
         /\ q.open = s.open /\ q.held = s.held /\ q.next = Tokens
  <1> DEFINE l == s.low
             kept == Len(ns) - n
             parts == SubSeq(ns, kept + 1, Len(ns))
             x == Node(kind, parts)
             k == CASE kind = "postfix" -> Postfix [] kind = "unary" -> Unary [] OTHER -> Primary
  <1>0. ns \in Seq(Nodes)
    BY DEF NodesIn
  <1>1. l \in Seq(Nat) /\ Len(l) = Len(ns) /\ Len(ns) \in Nat
    BY <1>0, ShapeParts DEF NodesFit
  <1>2. /\ kind \in NodeKinds \ {"binary"} /\ Len(l) >= n
        /\ kind = "postfix" => n > 0 /\ l[Len(l) - n + 1] >= Postfix
        /\ kind = "unary" => n > 0 /\ l[Len(l) - n + 1] >= Unary
        /\ q = Shape(s.open, Push(SubSeq(l, 1, Len(l) - n), k), Tokens, s.held)
    BY DEF MakeDoes, Moves, Instead
  <1>3. kept \in Nat /\ kept <= Len(ns) /\ Len(l) - n = kept
    BY <1>1, <1>2
  <1>4. n > 0 => /\ kept + 1 \in 1..Len(ns) /\ parts[1] = ns[kept + 1]
                 /\ parts[1] \in Nodes /\ parts[1].prec \in Nat
                 /\ parts[1].prec >= l[kept + 1] /\ l[kept + 1] \in Nat
    <2> SUFFICES ASSUME n > 0
                 PROVE  /\ kept + 1 \in 1..Len(ns) /\ parts[1] = ns[kept + 1]
                        /\ parts[1] \in Nodes /\ parts[1].prec \in Nat
                        /\ parts[1].prec >= l[kept + 1] /\ l[kept + 1] \in Nat
      OBVIOUS
    <2>1. kept + 1 \in 1..Len(ns)
      BY <1>1, <1>3
    <2>2. parts[1] = ns[kept + 1]
      <3> HIDE DEF kept
      <3>1. QED
        BY <1>0, <1>1, <1>3, <2>1
    <2>3. ns[kept + 1] \in Nodes
      BY <1>0, <2>1
    <2>4. parts[1] \in Nodes /\ parts[1].prec \in Nat
      BY <2>2, <2>3 DEF Nodes
    <2>5. ns[kept + 1].prec >= l[kept + 1]
      BY <2>1 DEF NodesFit
    <2>6. l[kept + 1] \in Nat
      <3> HIDE DEF kept, l
      <3>1. QED
        BY <1>1, <2>1
    <2>7. QED
      BY <2>1, <2>2, <2>4, <2>5, <2>6
  <1> HIDE DEF l, kept, parts
  <1>5. x \in Nodes /\ Grouped(x) /\ x.prec = k /\ k \in Nat
    <2>1. CASE kind = "postfix"
      <3>1. parts[1].prec \in Nat /\ parts[1].prec >= Postfix
        <4>1. n > 0 /\ l[kept + 1] >= Postfix
          BY <1>2, <1>3, <2>1
        <4>2. QED
          BY <1>4, <4>1 DEF Postfix
      <3>2. x = [kind |-> kind, prec |-> Postfix, left |-> parts[1].prec, right |-> Primary]
        BY <2>1 DEF Node
      <3>3. QED
        BY <1>2, <2>1, <3>1, <3>2 DEF Nodes, Grouped, Postfix, Primary, Unary
    <2>2. CASE kind = "unary"
      <3>1. parts[1].prec \in Nat /\ parts[1].prec >= Unary
        <4>1. n > 0 /\ l[kept + 1] >= Unary
          BY <1>2, <1>3, <2>2
        <4>2. QED
          BY <1>4, <4>1 DEF Unary
      <3>2. x = [kind |-> kind, prec |-> Unary, left |-> Primary, right |-> parts[1].prec]
        BY <2>2 DEF Node
      <3>3. QED
        BY <1>2, <2>2, <3>1, <3>2 DEF Nodes, Grouped, Postfix, Primary, Unary
    <2>3. CASE kind \notin {"postfix", "unary"}
      <3>1. x = [kind |-> kind, prec |-> Primary, left |-> Primary, right |-> Primary]
        BY <2>3 DEF Node
      <3>2. QED
        BY <1>2, <2>3, <3>1 DEF Nodes, Grouped, Postfix, Primary, Unary
    <2>4. QED
      BY <2>1, <2>2, <2>3
  <1>6. x.prec >= k
    BY <1>5
  <1> HIDE DEF x, k
  <1> DEFINE more == Append(SubSeq(ns, 1, kept), x)
  <1>7. /\ NodesIn(more) /\ NodesFit(more, Push(SubSeq(l, 1, kept), k))
        /\ SubSeq(ns, 1, kept) \o <<x>> = more
    BY <1>1, <1>3, <1>5, <1>6, NodesReplaced DEF l
  <1> HIDE DEF more
  <1>10. WithNode(ns, kind, n) = more
    BY <1>7 DEF kept, parts, x, WithNode
  <1>8. /\ q.low = Push(SubSeq(l, 1, kept), k) /\ q.open = s.open /\ q.held = s.held
        /\ q.next = Tokens
    BY <1>2, <1>3, ShapeIs
  <1>9. QED
    BY <1>7, <1>8, <1>10

\* An operator is given its operands.
LEMMA BinaryFits ==
  ASSUME NEW ns, NodesIn(ns), NEW s \in Shapes, NEW q \in Shapes, NodesFit(ns, s.low),
         NEW p \in Nat, BinaryDoes(p, s, q)
  PROVE  /\ NodesIn(WithBinary(ns, p)) /\ NodesFit(WithBinary(ns, p), q.low)
         /\ q.open = s.open /\ q.held = s.held /\ q.next = s.next
  <1> DEFINE l == s.low
             kept == Len(ns) - 2
             x == [kind |-> "binary", prec |-> p,
                   left |-> ns[kept + 1].prec, right |-> ns[kept + 2].prec]
  <1>0. ns \in Seq(Nodes)
    BY DEF NodesIn
  <1>1. l \in Seq(Nat) /\ Len(l) = Len(ns) /\ Len(ns) \in Nat
    BY <1>0, ShapeParts DEF NodesFit
  <1>2. /\ Len(l) >= 2 /\ l[Len(l) - 1] >= p /\ l[Len(l)] > p
        /\ q = Shape(s.open, Push(SubSeq(l, 1, Len(l) - 2), p), s.next, s.held)
    BY DEF BinaryDoes, Instead
  <1>3. /\ kept \in Nat /\ kept <= Len(ns) /\ Len(l) - 2 = kept
        /\ kept + 1 = Len(l) - 1 /\ kept + 2 = Len(l)
        /\ kept + 1 \in 1..Len(ns) /\ kept + 2 \in 1..Len(ns)
    BY <1>1, <1>2
  <1> HIDE DEF l, kept
  <1>4. ASSUME NEW i \in 1..Len(ns)
        PROVE  ns[i].prec \in Nat /\ l[i] \in Nat /\ ns[i].prec >= l[i]
    <2>1. ns[i] \in Nodes
      BY <1>0
    <2>2. ns[i].prec \in Nat
      BY <2>1 DEF Nodes
    <2>3. l[i] \in Nat
      BY <1>1
    <2>4. ns[i].prec >= l[i]
      BY DEF NodesFit, l
    <2>5. QED
      BY <2>2, <2>3, <2>4
  <1>5. ns[kept + 1].prec \in Nat /\ ns[kept + 1].prec >= p
    BY <1>2, <1>3, <1>4
  <1>6. ns[kept + 2].prec \in Nat /\ ns[kept + 2].prec > p
    BY <1>2, <1>3, <1>4
  <1>7. "binary" \in NodeKinds
    BY DEF NodeKinds
  <1>8. x \in Nodes /\ Grouped(x) /\ x.prec >= p
    BY <1>5, <1>6, <1>7 DEF Nodes, Grouped
  <1> DEFINE more == Append(SubSeq(ns, 1, kept), x)
  <1>12. WithBinary(ns, p) = more
    BY DEF kept, WithBinary
  <1> HIDE DEF x
  <1>9. NodesIn(more) /\ NodesFit(more, Push(SubSeq(l, 1, kept), p))
    BY <1>1, <1>3, <1>8, NodesReplaced DEF l
  <1> HIDE DEF more
  <1>10. /\ q.low = Push(SubSeq(l, 1, kept), p) /\ q.open = s.open /\ q.held = s.held
         /\ q.next = s.next
    BY <1>2, <1>3, ShapeIs
  <1>11. QED
    BY <1>9, <1>10, <1>12

\* The newest node goes to its parent.
LEMMA DropFits ==
  ASSUME NEW ns, NodesIn(ns),
         NEW s \in Shapes, NEW q \in Shapes, NodesFit(ns, s.low), DropDoes(s, q)
  PROVE  /\ NodesIn(Front(ns)) /\ NodesFit(Front(ns), q.low)
         /\ q.open = s.open /\ q.held = s.held /\ q.next = Tokens
  <1> DEFINE l == s.low
             new == Front(ns)
             low == Front(l)
  <1>0. ns \in Seq(Nodes) /\ \A i \in 1..Len(ns) : Grouped(ns[i])
    BY DEF NodesIn
  <1>1. l \in Seq(Nat) /\ Len(l) = Len(ns) /\ Len(ns) \in Nat
    BY <1>0, ShapeParts DEF NodesFit
  <1>2. l # <<>> /\ q = Shape(s.open, low, Tokens, s.held)
    BY DEF DropDoes
  <1>3. ns # <<>>
    BY <1>1, <1>2
  <1>4. /\ new \in Seq(Nodes) /\ Len(new) = Len(ns) - 1
        /\ \A i \in 1..Len(ns) - 1 : new[i] = ns[i]
    BY <1>0, <1>3, Halves
  <1>5. Len(low) = Len(ns) - 1 /\ \A i \in 1..Len(ns) - 1 : low[i] = l[i]
    <2> HIDE DEF l
    <2>1. QED
      BY <1>1, <1>2, Halves
  <1>6. \A i \in 1..Len(ns) - 1 : i \in 1..Len(ns)
    BY <1>1
  <1>7. \A i \in 1..Len(ns) : ns[i].prec >= l[i]
    BY DEF NodesFit
  <1> HIDE DEF new, low
  <1>8. \A i \in 1..Len(new) : Grouped(new[i])
    BY <1>0, <1>4, <1>6
  <1>9. NodesFit(new, low)
    BY <1>4, <1>5, <1>6, <1>7 DEF NodesFit
  <1>10. q.low = low /\ q.open = s.open /\ q.held = s.held /\ q.next = Tokens
    BY <1>2, ShapeIs
  <1>11. QED
    BY <1>4, <1>8, <1>9, <1>10 DEF new, NodesIn

\* What becomes of the list a.
ToldIn(fs, a, w) == IF a = 0 THEN fs ELSE [fs EXCEPT ![a] = w]

\* The innermost array is emptied and gone.
LEMMA TakenAway ==
  ASSUME NEW as, NEW fs, NEW bs, NEW h \in Seq(Settled), AttrsIn(as, fs, bs), HeldIn(as, fs),
         ArraysFit(as, fs, bs, h), h # <<>>, NEW w \in Fates \ {"held"},
         w = "dropped" \/ Last(h) \in {w, "spent"}
  PROVE  LET u == Front(as)
             told == ToldIn(fs, Last(as), w)
         IN  /\ as # <<>>
             /\ AttrsIn(u, told, bs) /\ HeldIn(u, told) /\ ArraysFit(u, told, bs, Front(h))
             /\ Len(told) = Len(fs)
  <1> DEFINE u == Front(as)
             a == Last(as)
             told == ToldIn(fs, a, w)
             g == Front(h)
             n == Len(as)
  <1> HIDE DEF u, a, told, g, n
  <1>1. /\ as \in Seq(0..Len(fs)) /\ fs \in Seq(Fates) /\ bs \in Seq(Tokens)
        /\ Len(as) = Len(h) /\ Len(bs) = Len(fs) /\ Len(fs) \in Nat
    <2>1. as \in Seq(0..Len(fs)) /\ fs \in Seq(Fates) /\ bs \in Seq(Tokens)
      BY DEF AttrsIn
    <2>2. Len(as) = Len(h) /\ Len(bs) = Len(fs)
      BY DEF ArraysFit
    <2>3. Len(fs) \in Nat
      BY <2>1
    <2>4. QED
      BY <2>1, <2>2, <2>3
  <1>2. as # <<>> /\ n \in Nat /\ n >= 1
    <2>1. Len(h) \in Nat /\ Len(h) >= 1
      OBVIOUS
    <2>2. n = Len(h)
      BY <1>1 DEF n
    <2>3. ASSUME as = <<>> PROVE FALSE
      <3>1. Len(as) = 0
        BY <2>3
      <3>2. QED
        BY <1>1, <2>1, <3>1
    <2>4. QED
      BY <2>1, <2>2, <2>3
  <1>3. /\ u \in Seq(0..Len(fs)) /\ a \in 0..Len(fs) /\ Len(u) = n - 1 /\ as[n] = a
        /\ \A i \in 1..n - 1 : u[i] = as[i]
    <2>1. /\ u \in Seq(0..Len(fs)) /\ a \in 0..Len(fs) /\ Len(u) = Len(as) - 1
          /\ as[Len(as)] = a /\ \A i \in 1..Len(as) - 1 : u[i] = as[i]
      BY <1>1, <1>2, Halves DEF u, a
    <2>2. QED
      BY <2>1 DEF n
  <1>4. /\ g \in Seq(Settled) /\ Len(g) = n - 1 /\ h[n] = Last(h)
        /\ \A i \in 1..n - 1 : g[i] = h[i]
    <2>1. /\ g \in Seq(Settled) /\ Len(g) = Len(h) - 1 /\ h[Len(h)] = Last(h)
          /\ \A i \in 1..Len(h) - 1 : g[i] = h[i]
      BY Halves DEF g
    <2>2. QED
      BY <1>1, <2>1 DEF n
  <1>5. \A i \in 1..n - 1 : i \in 1..n /\ i # n
    BY <1>2
  <1>6. n \in 1..n
    BY <1>2
  <1>7. /\ told \in Seq(Fates) /\ Len(told) = Len(fs)
        /\ \A l \in 1..Len(fs) : told[l] = IF l = a THEN w ELSE fs[l]
    <2>1. CASE a = 0
      <3>1. \A l \in 1..Len(fs) : l # a
        BY <2>1
      <3>2. QED
        BY <1>1, <2>1, <3>1 DEF ToldIn, told
    <2>2. CASE a # 0
      <3>1. told = [fs EXCEPT ![a] = w]
        BY <2>2 DEF ToldIn, told
      <3>0. a \in 1..Len(fs)
        BY <1>1, <1>3, <2>2
      <3>2. QED
        BY <1>1, <3>0, <3>1
    <2>3. QED
      BY <2>1, <2>2
  <1>8. /\ \A i \in 1..n : as[i] # 0 => /\ fs[as[i]] = "held"
                                         /\ \A j \in 1..n : as[j] = as[i] => j = i
        /\ \A l \in 1..Len(bs) : fs[l] \in {"held", "dropped", bs[l]} \/ bs[l] \in Takers
    BY DEF AttrsIn, n
  <1>9. \A i \in 1..n : ArrayFits(as[i], fs, bs, h[i])
    BY DEF ArraysFit, n
  <1>10. \A x \in Settled : x # "new"
    BY KindNames DEF Settled
  <1>11. h[n] \in Settled /\ \A i \in 1..n - 1 : h[i] \in Settled
    <2>1. \A i \in 1..n : i \in 1..Len(h)
      BY <1>1 DEF n
    <2>2. QED
      BY <1>5, <1>6, <2>1
  <1>12. \A i \in 1..n - 1 : u[i] # 0 => u[i] \in 1..Len(fs) /\ u[i] # a
    <2> SUFFICES ASSUME NEW i \in 1..n - 1, u[i] # 0 PROVE u[i] \in 1..Len(fs) /\ u[i] # a
      OBVIOUS
    <2>1. u[i] = as[i] /\ i \in 1..n /\ i # n
      BY <1>3, <1>5
    <2>2. u[i] \in 0..Len(fs) /\ u[i] \in 1..Len(fs)
      <3>1. i \in 1..Len(u)
        BY <1>3
      <3>2. u[i] \in 0..Len(fs)
        BY <1>3, <3>1
      <3>3. QED
        BY <1>1, <3>2
    <2>3. as[i] # as[n]
      BY <1>6, <1>8, <2>1
    <2>4. QED
      BY <1>3, <2>1, <2>2, <2>3
  <1>13. AttrsIn(u, told, bs)
    <2>1. ASSUME NEW i \in 1..Len(u), u[i] # 0
          PROVE  told[u[i]] = "held" /\ \A j \in 1..Len(u) : u[j] = u[i] => j = i
      <3>1. i \in 1..n - 1 /\ i \in 1..n /\ u[i] = as[i]
        BY <1>3, <1>5
      <3>2. told[u[i]] = fs[u[i]]
        BY <1>7, <1>12, <2>1, <3>1
      <3>3. \A j \in 1..Len(u) : j \in 1..n /\ u[j] = as[j]
        BY <1>3, <1>5
      <3>4. fs[as[i]] = "held" /\ \A j \in 1..n : as[j] = as[i] => j = i
        BY <1>8, <2>1, <3>1
      <3>5. QED
        BY <3>1, <3>2, <3>3, <3>4
    <2>2. ASSUME NEW l \in 1..Len(bs)
          PROVE  told[l] \in {"held", "dropped", bs[l]} \/ bs[l] \in Takers
      <3>1. l \in 1..Len(fs)
        BY <1>1
      <3>2. CASE l # a
        BY <1>7, <1>8, <3>1, <3>2
      <3>3. CASE l = a
        <4>1. told[l] = w /\ a # 0
          BY <1>7, <3>1, <3>3
        <4>2. ArrayFits(a, fs, bs, h[n]) /\ h[n] # "new"
          BY <1>3, <1>6, <1>9, <1>10, <1>11
        <4>3. bs[a] \in Takers \union {h[n]}
          BY <4>1, <4>2 DEF ArrayFits
        <4>4. bs[a] # "spent"
          <5>1. bs[l] \in Tokens
            BY <1>1
          <5>2. QED
            BY <5>1, <3>3, KindNames
        <4>5. QED
          BY <1>4, <3>3, <4>1, <4>3, <4>4
      <3>4. QED
        BY <3>2, <3>3
    <2>3. u \in Seq(0..Len(told)) /\ Len(bs) <= Len(told)
      BY <1>1, <1>3, <1>7
    <2>4. QED
      BY <1>1, <1>7, <2>1, <2>2, <2>3 DEF AttrsIn
  <1>14. HeldIn(u, told)
    <2> SUFFICES ASSUME NEW l \in 1..Len(told), told[l] = "held"
                 PROVE  \E i \in 1..Len(u) : u[i] = l
      BY DEF HeldIn
    <2>1. l \in 1..Len(fs) /\ l # a /\ fs[l] = "held"
      BY <1>7
    <2>2. PICK i \in 1..n : as[i] = l
      BY <2>1 DEF HeldIn, n
    <2>3. i # n
      BY <1>3, <2>1, <2>2
    <2>4. i \in 1..n - 1
      BY <1>2, <2>3
    <2>5. QED
      BY <1>3, <2>2, <2>4
  <1>15. ArraysFit(u, told, bs, g)
    <2>1. ASSUME NEW i \in 1..Len(u) PROVE ArrayFits(u[i], told, bs, g[i])
      <3>1. i \in 1..n - 1 /\ i \in 1..n /\ u[i] = as[i] /\ g[i] = h[i]
        BY <1>3, <1>4, <1>5
      <3>2. ArrayFits(as[i], fs, bs, h[i]) /\ h[i] # "new"
        BY <1>9, <1>10, <1>11, <3>1
      <3>3. QED
        BY <3>1, <3>2 DEF ArrayFits
    <2>2. QED
      BY <1>1, <1>3, <1>4, <1>7, <2>1 DEF ArraysFit
  <1>16. QED
    BY <1>2, <1>7, <1>13, <1>14, <1>15 DEF u, a, told, g

LEMMA OneOf ==
  ASSUME NEW S, NEW s \in Seq(S), NEW i \in 1..Len(s)
  PROVE  s[i] \in S
  OBVIOUS

LEMMA SeqOfMore ==
  ASSUME NEW S, NEW T, S \subseteq T, NEW s \in Seq(S)
  PROVE  s \in Seq(T)
  OBVIOUS

\* An array that holds nothing.
LEMMA EmptyAdded ==
  ASSUME NEW as, NEW fs, NEW bs, NEW h \in Seq(Settled), AttrsIn(as, fs, bs), HeldIn(as, fs),
         ArraysFit(as, fs, bs, h)
  PROVE  LET u == Append(as, 0) IN
         AttrsIn(u, fs, bs) /\ HeldIn(u, fs) /\ ArraysFit(u, fs, bs, Push(h, "spent"))
  <1> DEFINE u == Append(as, 0)
             g == Append(h, "spent")
             n == Len(as)
  <1> HIDE DEF u, g, n
  <1>1. /\ as \in Seq(0..Len(fs)) /\ fs \in Seq(Fates) /\ bs \in Seq(Tokens)
        /\ Len(as) = Len(h) /\ Len(bs) = Len(fs)
    BY DEF AttrsIn, ArraysFit
  <1>2. n \in Nat /\ Len(fs) \in Nat
    BY <1>1 DEF n
  <1>3. 0 \in 0..Len(fs)
    BY <1>2
  <1>4. /\ u \in Seq(0..Len(fs)) /\ Len(u) = n + 1 /\ u[n + 1] = 0
        /\ \A i \in 1..n : u[i] = as[i]
    BY <1>1, <1>3, Appended, ZenonT(60) DEF u, n
  <1>5. "spent" \in Settled /\ "spent" # "new"
    BY DEF Settled
  <1>6. Len(g) = n + 1 /\ g[n + 1] = "spent" /\ \A i \in 1..n : g[i] = h[i]
    <2>1. Len(h) = n
      BY <1>1 DEF n
    <2>2. QED
      BY <1>5, <2>1, Appended DEF g
  <1>7. \A i \in 1..n + 1 : i \in 1..n \/ i = n + 1
    BY <1>2
  <1>8. /\ \A i \in 1..n : as[i] # 0 => /\ fs[as[i]] = "held"
                                         /\ \A j \in 1..n : as[j] = as[i] => j = i
        /\ \A l \in 1..Len(bs) : fs[l] \in {"held", "dropped", bs[l]} \/ bs[l] \in Takers
        /\ \A i \in 1..n : ArrayFits(as[i], fs, bs, h[i])
    BY DEF AttrsIn, ArraysFit, n
  <1>9. AttrsIn(u, fs, bs)
    <2>1. ASSUME NEW i \in 1..Len(u), u[i] # 0
          PROVE  fs[u[i]] = "held" /\ \A j \in 1..Len(u) : u[j] = u[i] => j = i
      <3>1. i \in 1..n /\ u[i] = as[i]
        BY <1>4, <1>7, <2>1
      <3>2. ASSUME NEW j \in 1..Len(u), u[j] = u[i] PROVE j = i
        <4>1. j \in 1..n /\ u[j] = as[j]
          BY <1>4, <1>7, <2>1, <3>2
        <4>2. QED
          BY <1>8, <2>1, <3>1, <3>2, <4>1
      <3>3. QED
        BY <1>8, <2>1, <3>1, <3>2
    <2>2. Len(bs) <= Len(fs)
      BY <1>1, <1>2
    <2>3. QED
      BY <1>1, <1>4, <1>8, <2>1, <2>2 DEF AttrsIn
  <1>10. HeldIn(u, fs)
    <2> SUFFICES ASSUME NEW l \in 1..Len(fs), fs[l] = "held" PROVE \E i \in 1..Len(u) : u[i] = l
      BY DEF HeldIn
    <2>1. PICK i \in 1..n : as[i] = l
      BY DEF HeldIn, n
    <2>2. i \in 1..n + 1
      BY <1>2
    <2>3. QED
      BY <1>4, <2>1, <2>2
  <1>11. ArraysFit(u, fs, bs, g)
    <2>1. ASSUME NEW i \in 1..Len(u) PROVE ArrayFits(u[i], fs, bs, g[i])
      <3>1. CASE i \in 1..n
        BY <1>4, <1>6, <1>8, <3>1
      <3>2. CASE i = n + 1
        <4>1. u[i] = 0 /\ g[i] = "spent"
          BY <1>4, <1>6, <3>2
        <4>2. QED
          BY <1>5, <4>1 DEF ArrayFits
      <3>3. QED
        BY <1>4, <1>7, <3>1, <3>2
    <2>2. QED
      BY <1>1, <1>4, <1>6, <2>1 DEF ArraysFit
  <1>12. QED
    BY <1>9, <1>10, <1>11 DEF u, g, Push

\* An array that holds a list just parsed.
LEMMA NewAdded ==
  ASSUME NEW as, NEW fs, NEW bs, NEW h \in Seq(Settled), AttrsIn(as, fs, bs), HeldIn(as, fs),
         ArraysFit(as, fs, bs, h)
  PROVE  LET u == Append(as, Len(fs) + 1)
             told == Append(fs, "held")
         IN  AttrsIn(u, told, bs) /\ HeldIn(u, told) /\ ArraysFit(u, told, bs, Push(h, "new"))
  <1> DEFINE a == Len(fs) + 1
             u == Append(as, a)
             told == Append(fs, "held")
             g == Append(h, "new")
             n == Len(as)
  <1> HIDE DEF a, u, told, g, n
  <1>1. /\ as \in Seq(0..Len(fs)) /\ fs \in Seq(Fates) /\ bs \in Seq(Tokens)
        /\ Len(as) = Len(h) /\ Len(bs) = Len(fs)
    BY DEF AttrsIn, ArraysFit
  <1>2. n \in Nat /\ Len(fs) \in Nat
    BY <1>1 DEF n
  <1>3. /\ a \in Nat /\ a # 0 /\ a = Len(fs) + 1 /\ a = Len(bs) + 1 /\ a \in 0..a
        /\ \A l \in 1..Len(fs) : l # a /\ l \in 1..a
        /\ \A l \in 0..Len(fs) : l # a /\ l \in 0..a
        /\ \A l \in 1..a : l \in 1..Len(fs) \/ l = a
    BY <1>1, <1>2 DEF a
  <1>4. "held" \in Fates
    BY DEF Fates
  <1>5. /\ told \in Seq(Fates) /\ Len(told) = a /\ told[a] = "held"
        /\ \A l \in 1..Len(fs) : told[l] = fs[l]
    BY <1>1, <1>4, Appended DEF told, a
  <1>6. as \in Seq(0..a)
    <2>1. 0..Len(fs) \subseteq 0..a
      BY <1>3
    <2>2. QED
      BY <1>1, <2>1, SeqOfMore
  <1>7. /\ u \in Seq(0..a) /\ Len(u) = n + 1 /\ u[n + 1] = a
        /\ \A i \in 1..n : u[i] = as[i]
    <2>1. /\ Append(as, a) \in Seq(0..a) /\ Len(Append(as, a)) = Len(as) + 1
          /\ Append(as, a)[Len(as) + 1] = a
          /\ \A i \in 1..Len(as) : Append(as, a)[i] = as[i]
      <3> DEFINE S == 0..a
      <3>1. as \in Seq(S) /\ a \in S
        BY <1>3, <1>6
      <3> HIDE DEF S
      <3>2. /\ Append(as, a) \in Seq(S) /\ Len(Append(as, a)) = Len(as) + 1
            /\ Append(as, a)[Len(as) + 1] = a
            /\ \A i \in 1..Len(as) : Append(as, a)[i] = as[i]
        BY <3>1, Appended
      <3>3. QED
        BY <3>2 DEF S
    <2>2. QED
      BY <2>1 DEF u, n
  <1>8. "new" \in Statuses /\ "new" \notin Settled /\ h \in Seq(Statuses)
    <2>1. "new" \in Statuses /\ "new" \notin Settled /\ Settled \subseteq Statuses
      BY KindNames DEF Settled, Statuses
    <2>2. QED
      BY <2>1
  <1>9. Len(g) = n + 1 /\ g[n + 1] = "new" /\ \A i \in 1..n : g[i] = h[i]
    <2>1. Len(h) = n
      BY <1>1 DEF n
    <2>2. QED
      BY <1>8, <2>1, Appended DEF g
  <1>10. g \notin Seq(Settled)
    <2> SUFFICES ASSUME g \in Seq(Settled) PROVE FALSE
      OBVIOUS
    <2>1. n + 1 \in 1..Len(g)
      BY <1>2, <1>9
    <2>2. g[n + 1] \in Settled
      BY <2>1
    <2>3. QED
      BY <1>8, <1>9, <2>2
  <1>11. \A i \in 1..n + 1 : i \in 1..n \/ i = n + 1
    BY <1>2
  <1>12. /\ \A i \in 1..n : as[i] # 0 => /\ fs[as[i]] = "held"
                                          /\ \A j \in 1..n : as[j] = as[i] => j = i
         /\ \A l \in 1..Len(bs) : fs[l] \in {"held", "dropped", bs[l]} \/ bs[l] \in Takers
         /\ \A i \in 1..n : ArrayFits(as[i], fs, bs, h[i])
    BY DEF AttrsIn, ArraysFit, n
  <1>13. ASSUME NEW i \in 1..n
         PROVE  /\ u[i] = as[i] /\ as[i] \in 0..Len(fs) /\ as[i] # a
                /\ as[i] # 0 => as[i] \in 1..Len(fs) /\ told[as[i]] = fs[as[i]]
    <2>0. i \in 1..Len(as)
      BY DEF n
    <2>1. as[i] \in 0..Len(fs)
      BY <1>1, <2>0, OneOf
    <2>2. as[i] # 0 => as[i] \in 1..Len(fs)
      <3> DEFINE e == as[i]
      <3> HIDE DEF e
      <3>1. e \in 0..Len(fs) => (e # 0 => e \in 1..Len(fs))
        BY <1>2
      <3>2. QED
        BY <2>1, <3>1 DEF e
    <2>3. QED
      BY <1>3, <1>5, <1>7, <2>1, <2>2
  <1>14. AttrsIn(u, told, bs)
    <2>1. ASSUME NEW i \in 1..Len(u), u[i] # 0
          PROVE  told[u[i]] = "held" /\ \A j \in 1..Len(u) : u[j] = u[i] => j = i
      <3>1. CASE i \in 1..n
        <4>1. told[u[i]] = "held"
          BY <1>12, <1>13, <2>1, <3>1
        <4>2. ASSUME NEW j \in 1..Len(u), u[j] = u[i] PROVE j = i
          <5>1. j # n + 1
            BY <1>7, <1>13, <3>1, <4>2
          <5>2. j \in 1..n
            BY <1>7, <1>11, <5>1
          <5>3. QED
            BY <1>12, <1>13, <2>1, <3>1, <4>2, <5>2
        <4>3. QED
          BY <4>1, <4>2
      <3>2. CASE i = n + 1
        <4>1. told[u[i]] = "held"
          BY <1>5, <1>7, <3>2
        <4>2. ASSUME NEW j \in 1..Len(u), u[j] = u[i] PROVE j = i
          <5>1. j \in 1..n => u[j] # a
            BY <1>13
          <5>2. QED
            BY <1>7, <1>11, <3>2, <4>2, <5>1
        <4>3. QED
          BY <4>1, <4>2
      <3>3. QED
        BY <1>7, <1>11, <3>1, <3>2
    <2>2. \A l \in 1..Len(bs) : told[l] \in {"held", "dropped", bs[l]} \/ bs[l] \in Takers
      <3>1. \A l \in 1..Len(bs) : l \in 1..Len(fs)
        BY <1>1
      <3>2. QED
        BY <1>5, <1>12, <3>1
    <2>3. Len(bs) <= a
      BY <1>1, <1>2, <1>3
    <2>4. QED
      BY <1>1, <1>5, <1>7, <2>1, <2>2, <2>3 DEF AttrsIn
  <1>15. HeldIn(u, told)
    <2> SUFFICES ASSUME NEW l \in 1..a, told[l] = "held" PROVE \E i \in 1..n + 1 : u[i] = l
      BY <1>5, <1>7 DEF HeldIn
    <2>1. CASE l = a
      <3>1. n + 1 \in 1..n + 1
        BY <1>2
      <3>2. QED
        BY <1>7, <2>1, <3>1
    <2>2. CASE l \in 1..Len(fs)
      <3>1. fs[l] = "held"
        BY <1>5, <2>2
      <3>2. PICK i \in 1..n : as[i] = l
        BY <2>2, <3>1 DEF HeldIn, n
      <3>3. i \in 1..n + 1
        BY <1>2
      <3>4. QED
        BY <1>7, <3>2, <3>3
    <2>3. QED
      BY <1>3, <2>1, <2>2
  <1>16. ArraysFit(u, told, bs, g)
    <2>1. ASSUME NEW i \in 1..Len(u) PROVE ArrayFits(u[i], told, bs, g[i])
      <3>1. CASE i \in 1..n
        <4>1. h[i] # "new" /\ ArrayFits(as[i], fs, bs, h[i])
          <5>0. i \in 1..Len(h)
            BY <1>1, <3>1 DEF n
          <5>1. h[i] \in Settled
            BY <5>0, OneOf
          <5>2. QED
            BY <1>8, <1>12, <3>1, <5>1
        <4>2. u[i] = as[i] /\ g[i] = h[i]
          BY <1>7, <1>9, <3>1
        <4>3. QED
          BY <4>1, <4>2 DEF ArrayFits
      <3>2. CASE i = n + 1
        <4>1. u[i] = a /\ g[i] = "new"
          BY <1>7, <1>9, <3>2
        <4>2. QED
          BY <1>3, <1>5, <4>1 DEF ArrayFits
      <3>3. QED
        BY <1>7, <1>11, <3>1, <3>2
    <2>2. QED
      BY <1>7, <1>9, <1>10, <2>1 DEF ArraysFit
  <1>17. QED
    BY <1>14, <1>15, <1>16 DEF u, told, g, a, Push

\* The token behind a list just parsed is seen.
LEMMA SeenFits ==
  ASSUME NEW as, NEW fs, NEW bs, NEW s \in Shapes, NEW t \in Tokens, AttrsIn(as, fs, bs),
         ArraysFit(as, fs, bs, s.held), s.held # <<>> => Front(s.held) \in Seq(Settled)
  PROVE  LET after == IF Len(bs) < Len(fs) THEN Append(bs, t) ELSE bs IN
         AttrsIn(as, fs, after) /\ ArraysFit(as, fs, after, Seen(s, t).held)
  <1> DEFINE h == s.held
             after == IF Len(bs) < Len(fs) THEN Append(bs, t) ELSE bs
             n == Len(as)
  <1> HIDE DEF h, after, n
  <1>1. /\ as \in Seq(0..Len(fs)) /\ fs \in Seq(Fates) /\ bs \in Seq(Tokens)
        /\ Len(as) = Len(h)
    BY DEF AttrsIn, ArraysFit, h
  <1>2. n \in Nat /\ Len(fs) \in Nat /\ Len(bs) \in Nat /\ Len(bs) <= Len(fs)
    BY <1>1 DEF n, AttrsIn
  <1>3. h \in Seq(Statuses)
    BY ShapeParts DEF h
  <1>4. CASE h \in Seq(Settled)
    <2>1. Seen(s, t).held = h
      <3>1. s.held \in Seq(Settled)
        BY <1>4 DEF h
      <3>2. Seen(s, t) = Shape(s.open, s.low, {t}, s.held)
        BY <3>1, SeenSettled
      <3>3. QED
        BY <3>2, ShapeIs DEF h
    <2>2. Len(bs) = Len(fs)
      BY <1>4 DEF ArraysFit, h
    <2>3. after = bs
      BY <1>2, <2>2 DEF after
    <2>4. QED
      BY <2>1, <2>3 DEF h, after
  <1>5. CASE h \notin Seq(Settled)
    <2>1. h # <<>> /\ Front(h) \in Seq(Settled)
      <3>1. <<>> \in Seq(Settled)
        OBVIOUS
      <3>2. QED
        BY <1>5, <3>1 DEF h
    <2>2. Last(h) = "new"
      <3> SUFFICES ASSUME Last(h) # "new" PROVE h \in Seq(Settled)
        BY <1>5
      <3>1. Last(h) \in Settled /\ Push(Front(h), Last(h)) = h
        BY <1>3, <2>1, Halves DEF Statuses
      <3>2. Push(Front(h), Last(h)) \in Seq(Settled)
        BY <2>1, <3>1, Appended DEF Push
      <3>3. QED
        BY <3>1, <3>2
    <2>3. Len(h) = n
      BY <1>1 DEF n
    <2>4. /\ Len(Front(h)) = n - 1 /\ h[n] = "new"
          /\ \A i \in 1..n - 1 : Front(h)[i] = h[i]
      BY <1>3, <2>1, <2>2, <2>3, Halves
    <2>5. n >= 1 /\ n \in 1..n /\ \A i \in 1..n : i \in 1..n - 1 \/ i = n
      <3>1. n # 0
        BY <1>3, <2>1, <2>3
      <3>2. QED
        BY <1>2, <3>1
    <2> DEFINE x == Fresh(t)
               g == Push(Front(h), x)
    <2>6. Seen(s, t).held = g
      BY <2>1, <2>2, ShapeIs DEF Seen, h
    <2>7. x \in Settled /\ x # "new"
      BY KindNames DEF Fresh, Settled
    <2>8. Len(g) = n /\ g[n] = x /\ \A i \in 1..n - 1 : g[i] = h[i]
      <3> HIDE DEF x
      <3>1. /\ Len(g) = Len(Front(h)) + 1 /\ g[Len(Front(h)) + 1] = x
            /\ \A i \in 1..Len(Front(h)) : g[i] = Front(h)[i]
        BY <2>1, <2>7, Appended DEF Push
      <3>2. Len(Front(h)) + 1 = n
        BY <1>2, <2>4
      <3>3. QED
        BY <2>4, <3>1, <3>2
    <2> HIDE DEF g
    <2>9. \A i \in 1..n : ArrayFits(as[i], fs, bs, h[i])
      BY DEF ArraysFit, h, n
    <2>10. as[n] = Len(fs) /\ Len(fs) = Len(bs) + 1
      <3>1. ArrayFits(as[n], fs, bs, "new")
        BY <2>4, <2>5, <2>9
      <3>2. as[n] = Len(fs) /\ as[n] = Len(bs) + 1
        BY <3>1 DEF ArrayFits
      <3>3. QED
        BY <3>2
    <2>11. after = Append(bs, t)
      BY <1>2, <2>10 DEF after
    <2>12. /\ after \in Seq(Tokens) /\ Len(after) = Len(fs) /\ after[Len(fs)] = t
           /\ \A l \in 1..Len(bs) : after[l] = bs[l]
      BY <1>1, <2>10, <2>11, Appended
    <2>13. /\ \A l \in 1..Len(fs) : l \in 1..Len(bs) \/ l = Len(fs)
           /\ \A l \in 1..Len(bs) : l \in 1..Len(fs)
           /\ Len(fs) \in 1..Len(fs) /\ Len(fs) # 0
      BY <1>2, <2>10
    <2>14. AttrsIn(as, fs, after)
      <3>1. /\ \A i \in 1..Len(as) : as[i] # 0 =>
                 /\ fs[as[i]] = "held"
                 /\ \A j \in 1..Len(as) : as[j] = as[i] => j = i
            /\ \A l \in 1..Len(bs) : fs[l] \in {"held", "dropped", bs[l]} \/ bs[l] \in Takers
        BY DEF AttrsIn
      <3>2. fs[Len(fs)] = "held"
        BY <2>5, <2>10, <2>13, <3>1 DEF n
      <3>3. ASSUME NEW l \in 1..Len(after)
            PROVE  fs[l] \in {"held", "dropped", after[l]} \/ after[l] \in Takers
        <4>1. l \in 1..Len(bs) \/ l = Len(fs)
          BY <2>12, <2>13
        <4>2. QED
          BY <2>12, <3>1, <3>2, <4>1
      <3>4. Len(after) <= Len(fs)
        BY <1>2, <2>12
      <3>5. QED
        BY <1>1, <2>12, <3>1, <3>3, <3>4 DEF AttrsIn
    <2>15. ArraysFit(as, fs, after, g)
      <3>1. ASSUME NEW i \in 1..n PROVE ArrayFits(as[i], fs, after, g[i])
        <4>1. CASE i = n
          <5>1. after[as[i]] \in Takers \union {x}
            BY <2>10, <2>12, <4>1 DEF Fresh
          <5>2. as[i] \in 1..Len(after)
            BY <2>10, <2>12, <2>13, <4>1
          <5>3. QED
            BY <2>7, <2>8, <4>1, <5>1, <5>2 DEF ArrayFits
        <4>2. CASE i \in 1..n - 1
          <5>1. h[i] \in Settled /\ h[i] # "new"
            <6>1. i \in 1..Len(Front(h))
              BY <2>4, <4>2
            <6>2. Front(h)[i] \in Settled
              BY <2>1, <6>1, OneOf
            <6>3. QED
              BY <2>4, <4>2, <6>2, KindNames DEF Settled
          <5>2. as[i] # 0 => as[i] \in 1..Len(bs) /\ bs[as[i]] \in Takers \union {h[i]}
            BY <2>9, <5>1 DEF ArrayFits
          <5>3. as[i] # 0 => as[i] \in 1..Len(after) /\ after[as[i]] \in Takers \union {h[i]}
            BY <2>12, <2>13, <5>2
          <5>4. g[i] = h[i]
            BY <2>8, <4>2
          <5>5. QED
            BY <5>1, <5>3, <5>4 DEF ArrayFits
        <4>3. QED
          BY <2>5, <4>1, <4>2
      <3>2. QED
        BY <1>1, <2>3, <2>8, <2>12, <3>1 DEF ArraysFit, n
    <2>16. QED
      BY <2>6, <2>14, <2>15 DEF after
  <1>6. QED
    BY <1>4, <1>5

-----------------------------------------------------------------------------
(* The steps.                                                              *)

LEMMA BracketsAre ==
  /\ DOMAIN Match = Closers
  /\ {Match[c] : c \in DOMAIN Match} = Openers
  /\ \A o, t : Brackets(o, t) = CASE t \in Openers -> Push(o, t)
                                  [] t \in Closers -> Front(o)
                                  [] OTHER -> o
  <1>1. DOMAIN Match = Closers
    BY DEF Match, Closers
  <1>2. {Match[c] : c \in Closers} = Openers
    BY DEF Match, Closers, Openers
  <1>3. QED
    BY <1>1, <1>2 DEF Brackets, Push

\* The next thing to do, and what the rest leads to.
LEMMA StepAhead ==
  ASSUME TreeInv, result = None, todo # <<>>
  PROVE  /\ Head(todo) \in Items /\ Tail(todo) \in Seq(Items)
         /\ \E s \in Shapes : \E q \in Shapes : \E r \in Shapes :
              /\ Fits(s) /\ Does(Head(todo), s, q)
              /\ Promises(q, r) /\ Runs(Tail(todo), r, Nothing)
  <1>1. todo \in Seq(Items) /\ GoesOn
    BY DEF TreeInv, DeferInv
  <1>2. PICK s \in Shapes : Fits(s) /\ Runs(todo, s, Nothing)
    BY <1>1 DEF GoesOn
  <1>3. \E q \in Shapes : \E r \in Shapes :
          Does(Head(todo), s, q) /\ Promises(q, r) /\ Runs(Tail(todo), r, Nothing)
    BY <1>1, <1>2, Ahead
  <1>4. Head(todo) \in Items /\ Tail(todo) \in Seq(Items)
    BY <1>1
  <1>5. QED
    BY <1>2, <1>3, <1>4

\* The next thing is done.
LEMMA Onward ==
  ASSUME DeferInv', result' = None, NEW q \in Shapes, NEW r \in Shapes, Promises(q, r),
         Runs(todo', r, Nothing), NodesOK', RestOK', AttrsIn(attrs', fate', before'),
         HeldIn(attrs', fate'), FitsIn(q, open', nodes', peeked', attrs', fate', before')
  PROVE  TreeInv'
  <1>1. FitsIn(r, open', nodes', peeked', attrs', fate', before')
    BY FitsLess DEF NodesOK, NodesIn
  <1>2. GoesOn'
    BY <1>1 DEF GoesOn, Fits
  <1>3. result' # "unit"
    BY DEF None
  <1>4. QED
    BY <1>2, <1>3 DEF TreeInv

\* Every caller returns.
LEMMA Back ==
  ASSUME TreeInv, DeferInv', NEW how \in {"diagnosed", "silent"}, Unwind(how), errno' \in BOOLEAN
  PROVE  TreeInv'
  <1>1. result' = how /\ how # None /\ how # "unit"
    BY DEF Unwind, None
  <1>2. NodesOK'
    BY DEF Unwind, NodesOK, NodesIn
  <1>3. AttrsIn(attrs', fate', before')
    <2>1. /\ fate \in Seq(Fates) /\ before \in Seq(Tokens) /\ Len(before) <= Len(fate)
          /\ \A l \in 1..Len(before) :
               fate[l] \in {"held", "dropped", before[l]} \/ before[l] \in Takers
      BY DEF TreeInv, AttrsIn
    <2>2. attrs' = <<>> /\ fate' = fate /\ before' = before
      BY DEF Unwind
    <2>3. <<>> \in Seq(0..Len(fate)) /\ 1..Len(<<>>) = {}
      OBVIOUS
    <2>4. AttrsIn(<<>>, fate, before)
      BY <2>1, <2>3 DEF AttrsIn
    <2>5. QED
      BY <2>2, <2>4
  <1>4. RestOK'
    BY <1>1 DEF TreeInv, RestOK, Unwind
  <1>5. QED
    BY <1>1, <1>2, <1>3, <1>4 DEF TreeInv

\* A step that only nodes and the next token know of.
LEMMA AttrsStay ==
  ASSUME TreeInv, result = None, NEW s \in Shapes, NEW q \in Shapes, Fits(s), q.held = s.held,
         attrs' = attrs, fate' = fate, before' = before, open' = q.open,
         NodesFit(nodes', q.low), NextFits(peeked', q.next)
  PROVE  /\ AttrsIn(attrs', fate', before') /\ HeldIn(attrs', fate')
         /\ FitsIn(q, open', nodes', peeked', attrs', fate', before')
  BY DEF TreeInv, Fits, FitsIn

LEMMA SeenSort ==
  ASSUME NEW s \in Shapes, NEW t \in Tokens, s.held # <<>> => Front(s.held) \in Seq(Settled)
  PROVE  Seen(s, t) \in Shapes
  <1>1. /\ s.open \in Seq(Tokens) /\ s.low \in Seq(Nat) /\ s.held \in Seq(Statuses)
        /\ {t} \in SUBSET Tokens
    BY ShapeParts
  <1>2. ASSUME NEW h \in Seq(Statuses) PROVE Shape(s.open, s.low, {t}, h) \in Shapes
    BY <1>1, ShapeSorts
  <1>3. s.held # <<>> => Push(Front(s.held), Fresh(t)) \in Seq(Statuses)
    <2>1. SUFFICES ASSUME s.held # <<>> PROVE Push(Front(s.held), Fresh(t)) \in Seq(Statuses)
      OBVIOUS
    <2>2. Front(s.held) \in Seq(Statuses) /\ Fresh(t) \in Statuses
      BY <1>1, <2>1, Halves DEF Fresh, Statuses, Settled
    <2>3. QED
      BY <2>2, Appended DEF Push
  <1>4. QED
    BY <1>1, <1>2, <1>3 DEF Seen

\* A call begins, or a loop comes round.
LEMMA ExpandKeeps ==
  ASSUME TreeInv, DeferInv', Expand
  PROVE  TreeInv'
  <1>1. /\ result = None /\ result' = None /\ todo # <<>>
        /\ Head(todo).do \in {"call", "list", "comma", "rhs", "tighter"}
    BY DEF Expand
  <1>2. PICK t \in Peeked : /\ peeked' = t
                            /\ todo' = Expansion(Head(todo), t) \o Tail(todo)
                            /\ before' = IF Len(before) < Len(fate) THEN Append(before, t)
                                         ELSE before
    BY DEF Expand
  <1>3. /\ UNCHANGED <<nodes, attrs, fate, open, errno, unit, result>>
    BY DEF Expand
  <1>4. t \in Tokens
    BY PeekedType DEF TreeInv, DeferInv
  <1>5. Head(todo) \in Items /\ Tail(todo) \in Seq(Items)
    BY <1>1, StepAhead
  <1>6. PICK s \in Shapes, q \in Shapes, r \in Shapes :
          /\ Fits(s) /\ Does(Head(todo), s, q)
          /\ Promises(q, r) /\ Runs(Tail(todo), r, Nothing)
    BY <1>1, StepAhead
  <1>7. t \in s.next
    <2>1. NextFits(peeked, s.next)
      BY <1>6 DEF Fits, FitsIn
    <2>2. QED
      BY <1>2, <1>4, <2>1 DEF NextFits, Peeked
  <1> DEFINE e == Expansion(Head(todo), t)
  <1>8. e \in Seq(Items)
    <2>1. e \in Seq(Plain)
      BY <1>4, <1>5, ExpansionRule
    <2>2. Plain \subseteq Items
      BY DEF Plain
    <2> HIDE DEF e
    <2>3. QED
      BY <2>1, <2>2, SeqOfMore
  <1>9. Stands(e, Seen(s, t), q) /\ (s.held # <<>> => Front(s.held) \in Seq(Settled))
    BY <1>1, <1>4, <1>5, <1>6, <1>7, ExpansionStands
  <1>10. Seen(s, t) \in Shapes
    BY <1>4, <1>9, SeenSort
  <1> HIDE DEF e
  <1>11. Stands(e, Seen(s, t), r)
    BY <1>6, <1>8, <1>9, <1>10, StandsLess
  <1>12. PICK s1 \in Shapes : Promises(Seen(s, t), s1) /\ Runs(e, s1, r)
    BY <1>11 DEF Stands
  <1>13. Runs(todo', s1, Nothing)
    <2>1. Nothing \in Shapes
      BY DEF Nothing, Shape, Shapes
    <2>2. Runs(e \o Tail(todo), s1, Nothing)
      BY <1>5, <1>6, <1>8, <1>12, <2>1, RunsJoined
    <2>3. QED
      BY <1>2, <2>2 DEF e
  <1>14. /\ AttrsIn(attrs, fate, before')
         /\ ArraysFit(attrs, fate, before', Seen(s, t).held)
    BY <1>2, <1>4, <1>6, <1>9, SeenFits DEF TreeInv, Fits, FitsIn
  <1>15. FitsIn(Seen(s, t), open', nodes', peeked', attrs', fate', before')
    <2>1. Seen(s, t).open = s.open /\ Seen(s, t).low = s.low /\ Seen(s, t).next = {t}
      BY ShapeIs DEF Seen
    <2>2. NextFits(t, {t})
      <3>1. t # None
        BY <1>4 DEF None, Tokens
      <3>2. QED
        BY <3>1 DEF NextFits
    <2>3. QED
      BY <1>2, <1>3, <1>6, <1>14, <2>1, <2>2 DEF Fits, FitsIn
  <1>16. NodesOK' /\ RestOK' /\ HeldIn(attrs', fate')
    BY <1>1, <1>3 DEF TreeInv, NodesOK, RestOK
  <1>17. AttrsIn(attrs', fate', before')
    BY <1>3, <1>14
  <1>18. QED
    BY <1>1, <1>10, <1>12, <1>13, <1>15, <1>16, <1>17, Onward

\* next().
LEMMA ConsumeKeeps ==
  ASSUME TreeInv, DeferInv', Consume
  PROVE  TreeInv'
  <1>1. CASE Unwind("diagnosed") /\ UNCHANGED errno
    <2>1. errno' \in BOOLEAN
      BY <1>1 DEF TreeInv, RestOK
    <2>2. QED
      BY <1>1, <2>1, Back
  <1>2. ASSUME NEW t \in Peeked, t = Head(todo).what, peeked' = None, text' = Behind,
               open' = Brackets(open, t), todo' = Tail(todo),
               UNCHANGED <<nodes, attrs, fate, before, inDefer, errno, unit, result>>
        PROVE  TreeInv'
    <2>1. result = None /\ result' = None /\ todo # <<>> /\ Head(todo).do = "take"
      BY <1>2 DEF Consume, At
    <2>2. t \in Tokens
      BY PeekedType DEF TreeInv, DeferInv
    <2>3. PICK s \in Shapes, q \in Shapes, r \in Shapes :
            /\ Fits(s) /\ Does(Head(todo), s, q)
            /\ Promises(q, r) /\ Runs(Tail(todo), r, Nothing)
      BY <2>1, StepAhead
    <2>4. TakeDoes(t, s, q)
      BY <1>2, <2>1, <2>3 DEF Does
    <2>5. /\ q.open = CASE t \in Openers -> Push(s.open, t)
                        [] t \in Closers -> Front(s.open)
                        [] OTHER -> s.open
          /\ q.low = s.low /\ q.held = s.held /\ q.next = Tokens
      BY <2>4, ShapeIs DEF TakeDoes
    <2>6. s.open = open /\ NodesFit(nodes, s.low)
      BY <2>3 DEF Fits, FitsIn
    <2>7. open' = q.open
      BY <1>2, <2>5, <2>6, BracketsAre
    <2>8. NodesFit(nodes', q.low)
      BY <1>2, <2>5, <2>6
    <2>9. NextFits(peeked', q.next)
      BY <1>2, <2>5 DEF NextFits
    <2>10. /\ AttrsIn(attrs', fate', before') /\ HeldIn(attrs', fate')
           /\ FitsIn(q, open', nodes', peeked', attrs', fate', before')
      BY <1>2, <2>1, <2>3, <2>5, <2>7, <2>8, <2>9, AttrsStay
    <2>11. open' \in Seq(Tokens)
      BY <2>7, ShapeParts
    <2>12. NodesOK' /\ RestOK'
      BY <1>2, <2>1, <2>11 DEF TreeInv, NodesOK, RestOK
    <2>13. Runs(todo', r, Nothing)
      BY <1>2, <2>3
    <2>14. QED
      BY <2>1, <2>3, <2>10, <2>12, <2>13, Onward
  <1>3. QED
    BY <1>1, <1>2 DEF Consume

\* A node is made.
LEMMA NewNodeKeeps ==
  ASSUME TreeInv, DeferInv', NewNode
  PROVE  TreeInv'
  <1>1. /\ result = None /\ todo # <<>> /\ Head(todo).do = "make" /\ todo' = Tail(todo)
        /\ UNCHANGED <<text, peeked, attrs, fate, before, open, inDefer, errno, unit, result>>
    BY DEF NewNode, At
  <1>2. PICK s \in Shapes, q \in Shapes, r \in Shapes :
          /\ Fits(s) /\ Does(Head(todo), s, q)
          /\ Promises(q, r) /\ Runs(Tail(todo), r, Nothing)
    BY <1>1, StepAhead
  <1>3. MakeDoes(Head(todo).what, Head(todo).n, s, q) /\ Head(todo).n \in Nat
    <2>1. Head(todo).n \in Nat
      BY <1>1, StepAhead DEF Items
    <2>2. QED
      BY <1>1, <1>2, <2>1 DEF Does
  <1>4. s.open = open /\ NodesFit(nodes, s.low)
    BY <1>2 DEF Fits, FitsIn
  <1>5. NodesIn(nodes)
    BY DEF TreeInv, NodesOK
  <1>6. nodes' = WithNode(nodes, Head(todo).what, Head(todo).n)
    BY DEF NewNode, WithNode
  <1>7. /\ NodesIn(nodes') /\ NodesFit(nodes', q.low)
        /\ q.open = s.open /\ q.held = s.held /\ q.next = Tokens
    BY <1>3, <1>4, <1>5, <1>6, NodeFits
  <1>8. NextFits(peeked', q.next)
    BY <1>1, <1>7, NextIsAny DEF TreeInv, DeferInv
  <1>9. /\ AttrsIn(attrs', fate', before') /\ HeldIn(attrs', fate')
        /\ FitsIn(q, open', nodes', peeked', attrs', fate', before')
    BY <1>1, <1>2, <1>4, <1>7, <1>8, AttrsStay
  <1>10. NodesOK'
    BY <1>7 DEF NodesOK
  <1>11. RestOK' /\ result' = None /\ Runs(todo', r, Nothing)
    BY <1>1, <1>2 DEF TreeInv, RestOK
  <1>12. QED
    BY <1>2, <1>9, <1>10, <1>11, Onward

\* An operator is given its operands.
LEMMA NewBinaryKeeps ==
  ASSUME TreeInv, DeferInv', NewBinary
  PROVE  TreeInv'
  <1>1. /\ result = None /\ todo # <<>> /\ Head(todo).do = "binary" /\ todo' = Tail(todo)
        /\ UNCHANGED <<text, peeked, attrs, fate, before, open, inDefer, errno, unit, result>>
    BY DEF NewBinary, At
  <1>2. PICK s \in Shapes, q \in Shapes, r \in Shapes :
          /\ Fits(s) /\ Does(Head(todo), s, q)
          /\ Promises(q, r) /\ Runs(Tail(todo), r, Nothing)
    BY <1>1, StepAhead
  <1>3. BinaryDoes(Head(todo).n, s, q) /\ Head(todo).n \in Nat
    <2>1. Head(todo).n \in Nat
      BY <1>1, StepAhead DEF Items
    <2>2. QED
      BY <1>1, <1>2, <2>1 DEF Does
  <1>4. s.open = open /\ NodesFit(nodes, s.low) /\ NextFits(peeked, s.next)
    BY <1>2 DEF Fits, FitsIn
  <1>5. NodesIn(nodes)
    BY DEF TreeInv, NodesOK
  <1>6. nodes' = WithBinary(nodes, Head(todo).n)
    BY DEF NewBinary, WithBinary
  <1>7. /\ NodesIn(nodes') /\ NodesFit(nodes', q.low)
        /\ q.open = s.open /\ q.held = s.held /\ q.next = s.next
    BY <1>3, <1>4, <1>5, <1>6, BinaryFits
  <1>8. NextFits(peeked', q.next)
    BY <1>1, <1>4, <1>7
  <1>9. /\ AttrsIn(attrs', fate', before') /\ HeldIn(attrs', fate')
        /\ FitsIn(q, open', nodes', peeked', attrs', fate', before')
    BY <1>1, <1>2, <1>4, <1>7, <1>8, AttrsStay
  <1>10. NodesOK'
    BY <1>7 DEF NodesOK
  <1>11. RestOK' /\ result' = None /\ Runs(todo', r, Nothing)
    BY <1>1, <1>2 DEF TreeInv, RestOK
  <1>12. QED
    BY <1>2, <1>9, <1>10, <1>11, Onward

\* The newest node goes to its parent: DropNode, and AttrArgs when it goes on.
LEMMA DropKeeps ==
  ASSUME TreeInv, DeferInv', result = None, todo # <<>>, nodes' = Front(nodes),
         Head(todo).do = "drop" \/ (Head(todo).do = "do" /\ Head(todo).what = "attr_args"),
         todo' = Tail(todo),
         UNCHANGED <<text, peeked, attrs, fate, before, open, inDefer, errno, unit, result>>
  PROVE  TreeInv'
  <1>1. PICK s \in Shapes, q \in Shapes, r \in Shapes :
          /\ Fits(s) /\ Does(Head(todo), s, q)
          /\ Promises(q, r) /\ Runs(Tail(todo), r, Nothing)
    BY StepAhead
  <1>2. DropDoes(s, q)
    BY <1>1 DEF Does, DoDoes
  <1>3. s.open = open /\ NodesFit(nodes, s.low)
    BY <1>1 DEF Fits, FitsIn
  <1>4. NodesIn(nodes)
    BY DEF TreeInv, NodesOK
  <1>5. /\ NodesIn(nodes') /\ NodesFit(nodes', q.low)
        /\ q.open = s.open /\ q.held = s.held /\ q.next = Tokens
    BY <1>2, <1>3, <1>4, DropFits
  <1>6. NextFits(peeked', q.next)
    BY <1>5, NextIsAny DEF TreeInv, DeferInv
  <1>7. /\ AttrsIn(attrs', fate', before') /\ HeldIn(attrs', fate')
        /\ FitsIn(q, open', nodes', peeked', attrs', fate', before')
    BY <1>1, <1>3, <1>5, <1>6, AttrsStay
  <1>8. NodesOK'
    BY <1>5 DEF NodesOK
  <1>9. RestOK' /\ result' = None /\ Runs(todo', r, Nothing)
    BY <1>1 DEF TreeInv, RestOK
  <1>10. QED
    BY <1>1, <1>7, <1>8, <1>9, Onward

\* A step that leaves things as they are.
LEMMA StayKeeps ==
  ASSUME TreeInv, DeferInv', result = None, todo # <<>>, Head(todo).do = "do",
         Head(todo).what # "attr_args", todo' = Tail(todo),
         UNCHANGED <<text, peeked, nodes, attrs, fate, before, open, inDefer, result>>,
         errno' \in BOOLEAN, unit' \in Unit
  PROVE  TreeInv'
  <1>1. PICK s \in Shapes, q \in Shapes, r \in Shapes :
          /\ Fits(s) /\ Does(Head(todo), s, q)
          /\ Promises(q, r) /\ Runs(Tail(todo), r, Nothing)
    BY StepAhead
  <1>2. Stays(s, q)
    BY <1>1 DEF Does, DoDoes
  <1>3. q.open = s.open /\ q.low = s.low /\ q.held = s.held /\ q.next = Tokens
    BY <1>2, ShapeIs DEF Stays
  <1>4. s.open = open /\ NodesFit(nodes, s.low)
    BY <1>1 DEF Fits, FitsIn
  <1>5. NextFits(peeked', q.next)
    BY <1>3, NextIsAny DEF TreeInv, DeferInv
  <1>6. /\ AttrsIn(attrs', fate', before') /\ HeldIn(attrs', fate')
        /\ FitsIn(q, open', nodes', peeked', attrs', fate', before')
    BY <1>1, <1>3, <1>4, <1>5, AttrsStay
  <1>7. NodesOK' /\ RestOK' /\ result' = None /\ Runs(todo', r, Nothing)
    BY <1>1 DEF TreeInv, NodesOK, RestOK
  <1>8. QED
    BY <1>1, <1>6, <1>7, Onward

\* A deferred statement begins.
LEMMA BeginDeferKeeps ==
  ASSUME TreeInv, DeferInv', BeginDefer
  PROVE  TreeInv'
  <1>1. /\ result = None /\ todo # <<>> /\ Head(todo).do = "do" /\ Head(todo).what = "defer"
        /\ todo' = <<Call("stmt"), LeaveDefer(0)>> \o Tail(todo)
        /\ UNCHANGED <<text, peeked, nodes, attrs, fate, before, open, errno, unit, result>>
    BY DEF BeginDefer, Step, At
  <1>2. PICK s \in Shapes, q \in Shapes, r \in Shapes :
          /\ Fits(s) /\ Does(Head(todo), s, q)
          /\ Promises(q, r) /\ Runs(Tail(todo), r, Nothing)
    BY <1>1, StepAhead
  <1>3. Stays(s, q) /\ s.held \in Seq(Settled)
    BY <1>1, <1>2 DEF Does, DoDoes
  <1>4. q.open = s.open /\ q.low = s.low /\ q.held = s.held /\ q.next = Tokens
    BY <1>3, ShapeIs DEF Stays
  <1>5. Stays(q, q)
    BY <1>3, <1>4 DEF Stays
  <1> DEFINE a == Call("stmt")
             b == LeaveDefer(0)
  <1>6. a \in Items /\ b \in Items
    BY PlainItems, Undefer, Names DEF Plain
  <1>7. Leads(a, q, q)
    <2>1. a.do = "call" /\ a.what = "stmt" /\ a.n = 0
      BY DEF Call, Item
    <2>2. "stmt" \in Others
      BY DEF Others
    <2>3. CallDoes("stmt", 0, q, q)
      BY <1>3, <1>4, <1>5, <2>2 DEF CallDoes
    <2> HIDE DEF a
    <2>4. Does(a, q, q)
      BY <2>1, <2>3 DEF Does
    <2>5. QED
      BY <2>4, PromisesItself DEF Leads
  <1>8. Leads(b, q, r)
    <2>1. b.do = "undefer"
      BY Undefer
    <2> HIDE DEF b
    <2>2. Does(b, q, q)
      BY <1>5, <2>1 DEF Does
    <2>3. QED
      BY <1>2, <2>2 DEF Leads
  <1> HIDE DEF a, b
  <1>9. Runs(<<a, b>>, q, r)
    BY <1>7, <1>8, RunsTwo
  <1>10. Runs(todo', q, Nothing)
    <2> DEFINE e == <<a, b>>
    <2>1. Nothing \in Shapes
      BY DEF Nothing, Shape, Shapes
    <2>2. e \in Seq(Items) /\ Runs(e, q, r) /\ todo' = e \o Tail(todo)
      BY <1>1, <1>6, <1>9 DEF a, b
    <2>3. Tail(todo) \in Seq(Items)
      BY <1>1, StepAhead
    <2> HIDE DEF e
    <2>4. QED
      BY <1>2, <2>1, <2>2, <2>3, RunsJoined
  <1>11. s.open = open /\ NodesFit(nodes, s.low)
    BY <1>2 DEF Fits, FitsIn
  <1>12. NextFits(peeked', q.next)
    BY <1>1, <1>4, NextIsAny DEF TreeInv, DeferInv
  <1>13. /\ AttrsIn(attrs', fate', before') /\ HeldIn(attrs', fate')
         /\ FitsIn(q, open', nodes', peeked', attrs', fate', before')
    BY <1>1, <1>2, <1>4, <1>11, <1>12, AttrsStay
  <1>14. NodesOK' /\ RestOK' /\ result' = None
    BY <1>1 DEF TreeInv, NodesOK, RestOK
  <1>15. QED
    BY <1>10, <1>13, <1>14, PromisesItself, Onward

\* The ghost of the defers that are open makes no difference.
LEMMA MarkedRuns ==
  ASSUME NEW items \in Seq(Items), NEW s \in Shapes, NEW r \in Shapes, Runs(items, s, r),
         NEW marked \in Seq(Items), Len(marked) = Len(items),
         \A i \in 1..Len(items) :
           \/ marked[i] = items[i]
           \/ marked[i].do = "undefer" /\ items[i].do = "undefer"
  PROVE  Runs(marked, s, r)
  <1>1. PICK f \in [0..Len(items) -> Shapes] :
          /\ f[0] = s /\ f[Len(items)] = r
          /\ \A i \in 1..Len(items) : Leads(items[i], f[i - 1], f[i])
    BY DEF Runs
  <1>2. ASSUME NEW i \in 1..Len(items) PROVE Leads(marked[i], f[i - 1], f[i])
    <2>1. Leads(items[i], f[i - 1], f[i])
      BY <1>1
    <2>2. CASE marked[i] = items[i]
      BY <2>1, <2>2
    <2>3. CASE marked[i].do = "undefer" /\ items[i].do = "undefer"
      <3>1. PICK q \in Shapes : Does(items[i], f[i - 1], q) /\ Promises(q, f[i])
        BY <2>1 DEF Leads
      <3>2. Does(marked[i], f[i - 1], q)
        BY <2>3, <3>1 DEF Does
      <3>3. QED
        BY <2>1, <3>1, <3>2 DEF Leads
    <2>4. QED
      BY <2>2, <2>3
  <1>3. QED
    BY <1>1, <1>2 DEF Runs

\* A deferred statement ends.
LEMMA EndDeferKeeps ==
  ASSUME TreeInv, DeferInv', EndDefer
  PROVE  TreeInv'
  <1>1. /\ result = None /\ todo # <<>> /\ Head(todo).do = "undefer"
        /\ todo' = [i \in 1..Len(todo) - 1 |->
                      IF todo[i + 1].do = "undefer" THEN LeaveDefer(1) ELSE todo[i + 1]]
        /\ UNCHANGED <<text, peeked, nodes, attrs, fate, before, open, errno, unit, result>>
    BY DEF EndDefer, At
  <1>2. PICK s \in Shapes, q \in Shapes, r \in Shapes :
          /\ Fits(s) /\ Does(Head(todo), s, q)
          /\ Promises(q, r) /\ Runs(Tail(todo), r, Nothing)
    BY <1>1, StepAhead
  <1>3. Stays(s, q)
    BY <1>1, <1>2 DEF Does
  <1>4. q.open = s.open /\ q.low = s.low /\ q.held = s.held /\ q.next = Tokens
    BY <1>3, ShapeIs DEF Stays
  <1>5. Runs(todo', r, Nothing)
    <2>1. Nothing \in Shapes
      BY DEF Nothing, Shape, Shapes
    <2>2. todo \in Seq(Items) /\ Tail(todo) \in Seq(Items) /\ todo' \in Seq(Items)
      BY <1>1, StepAhead DEF TreeInv, DeferInv
    <2>3. /\ Len(todo) \in Nat /\ Len(Tail(todo)) = Len(todo) - 1
          /\ \A i \in 1..Len(todo) - 1 : Tail(todo)[i] = todo[i + 1]
      BY <1>1, <2>2
    <2>4. Len(todo') = Len(todo) - 1
      <3>1. Len(todo) - 1 \in Nat
        BY <1>1, <2>2, <2>3
      <3>2. QED
        BY <1>1, <2>2, <3>1
    <2>5. \A i \in 1..Len(Tail(todo)) :
            \/ todo'[i] = Tail(todo)[i]
            \/ todo'[i].do = "undefer" /\ Tail(todo)[i].do = "undefer"
      BY <1>1, <2>3, Undefer
    <2> DEFINE new == todo'
               rest == Tail(todo)
    <2> HIDE DEF new, rest
    <2>6. new \in Seq(Items) /\ Len(new) = Len(rest) /\ rest \in Seq(Items)
      BY <2>2, <2>3, <2>4 DEF new, rest
    <2>7. \A i \in 1..Len(rest) :
            \/ new[i] = rest[i]
            \/ new[i].do = "undefer" /\ rest[i].do = "undefer"
      BY <2>5 DEF new, rest
    <2>8. Runs(rest, r, Nothing)
      BY <1>2 DEF rest
    <2>9. Runs(new, r, Nothing)
      BY <2>1, <2>6, <2>7, <2>8, MarkedRuns
    <2>10. QED
      BY <2>9 DEF new
  <1>6. s.open = open /\ NodesFit(nodes, s.low)
    BY <1>2 DEF Fits, FitsIn
  <1>7. NextFits(peeked', q.next)
    BY <1>1, <1>4, NextIsAny DEF TreeInv, DeferInv
  <1>8. /\ AttrsIn(attrs', fate', before') /\ HeldIn(attrs', fate')
        /\ FitsIn(q, open', nodes', peeked', attrs', fate', before')
    BY <1>1, <1>2, <1>4, <1>6, <1>7, AttrsStay
  <1>9. NodesOK' /\ RestOK' /\ result' = None
    BY <1>1 DEF TreeInv, NodesOK, RestOK
  <1>10. QED
    BY <1>2, <1>5, <1>8, <1>9, Onward

\* A step of the attribute arrays.
LEMMA ArraysKeep ==
  ASSUME TreeInv, DeferInv', result = None, todo # <<>>, todo' = Tail(todo),
         UNCHANGED <<text, peeked, nodes, before, open, inDefer, errno, unit, result>>,
         NEW s \in Shapes, NEW q \in Shapes, NEW r \in Shapes, Fits(s),
         Promises(q, r), Runs(Tail(todo), r, Nothing),
         q.open = s.open, q.low = s.low, q.next = Tokens,
         AttrsIn(attrs', fate', before), HeldIn(attrs', fate'),
         ArraysFit(attrs', fate', before, q.held)
  PROVE  TreeInv'
  <1>1. s.open = open /\ NodesFit(nodes, s.low)
    BY DEF Fits, FitsIn
  <1>2. NextFits(peeked', q.next)
    BY NextIsAny DEF TreeInv, DeferInv
  <1>3. FitsIn(q, open', nodes', peeked', attrs', fate', before')
    BY <1>1, <1>2 DEF FitsIn
  <1>4. NodesOK' /\ RestOK' /\ result' = None /\ AttrsIn(attrs', fate', before')
    BY DEF TreeInv, NodesOK, RestOK
  <1>5. QED
    BY <1>3, <1>4, Onward

\* A local, empty array.
LEMMA HoldKeeps ==
  ASSUME TreeInv, DeferInv', HoldAttrs
  PROVE  TreeInv'
  <1>1. /\ result = None /\ todo # <<>> /\ Head(todo).do = "hold" /\ todo' = Tail(todo)
        /\ attrs' = Append(attrs, 0) /\ fate' = fate
        /\ UNCHANGED <<text, peeked, nodes, before, open, inDefer, errno, unit, result>>
    BY DEF HoldAttrs, At
  <1>2. PICK s \in Shapes, q \in Shapes, r \in Shapes :
          /\ Fits(s) /\ Does(Head(todo), s, q)
          /\ Promises(q, r) /\ Runs(Tail(todo), r, Nothing)
    BY <1>1, StepAhead
  <1>3. HoldDoes(s, q)
    BY <1>1, <1>2 DEF Does
  <1>4. /\ s.held \in Seq(Settled) /\ q.held = Push(s.held, "spent")
        /\ q.open = s.open /\ q.low = s.low /\ q.next = Tokens
    BY <1>3, ShapeIs DEF HoldDoes
  <1>5. /\ AttrsIn(attrs, fate, before) /\ HeldIn(attrs, fate)
        /\ ArraysFit(attrs, fate, before, s.held)
    BY <1>1, <1>2 DEF TreeInv, Fits, FitsIn
  <1>6. /\ AttrsIn(attrs', fate', before) /\ HeldIn(attrs', fate')
        /\ ArraysFit(attrs', fate', before, q.held)
    BY <1>1, <1>4, <1>5, EmptyAdded
  <1>7. QED
    BY <1>1, <1>2, <1>4, <1>6, ArraysKeep

\* The array holds the list just parsed.
LEMMA KeepKeeps ==
  ASSUME TreeInv, DeferInv', KeepAttrs
  PROVE  TreeInv'
  <1> DEFINE told == ToldIn(fate, Last(attrs), "dropped")
             u == Front(attrs)
  <1>1. /\ result = None /\ todo # <<>> /\ Head(todo).do = "keep" /\ todo' = Tail(todo)
        /\ attrs' = Append(u, Len(fate) + 1) /\ fate' = Append(told, "held")
        /\ UNCHANGED <<text, peeked, nodes, before, open, inDefer, errno, unit, result>>
    BY DEF KeepAttrs, At, Told, ToldIn
  <1>2. PICK s \in Shapes, q \in Shapes, r \in Shapes :
          /\ Fits(s) /\ Does(Head(todo), s, q)
          /\ Promises(q, r) /\ Runs(Tail(todo), r, Nothing)
    BY <1>1, StepAhead
  <1>3. KeepDoes(s, q)
    BY <1>1, <1>2 DEF Does
  <1>4. /\ s.held # <<>> /\ s.held \in Seq(Settled) /\ q.held = Push(Front(s.held), "new")
        /\ q.open = s.open /\ q.low = s.low /\ q.next = Tokens
    BY <1>3, ShapeIs DEF KeepDoes
  <1>5. /\ AttrsIn(attrs, fate, before) /\ HeldIn(attrs, fate)
        /\ ArraysFit(attrs, fate, before, s.held)
    BY <1>1, <1>2 DEF TreeInv, Fits, FitsIn
  <1>6. "dropped" \in Fates \ {"held"}
    BY DEF Fates
  <1>7. /\ AttrsIn(u, told, before) /\ HeldIn(u, told)
        /\ ArraysFit(u, told, before, Front(s.held))
        /\ Len(told) = Len(fate)
    BY <1>4, <1>5, <1>6, TakenAway
  <1>8. Front(s.held) \in Seq(Settled)
    BY <1>4, Halves
  <1> HIDE DEF told, u
  <1>9. /\ AttrsIn(attrs', fate', before) /\ HeldIn(attrs', fate')
        /\ ArraysFit(attrs', fate', before, q.held)
    BY <1>1, <1>4, <1>7, <1>8, NewAdded
  <1>10. QED
    BY <1>1, <1>2, <1>4, <1>9, ArraysKeep

\* A node is given the list, if there is one.
LEMMA GiveKeeps ==
  ASSUME TreeInv, DeferInv', GiveAttrs
  PROVE  TreeInv'
  <1> DEFINE w == Head(todo).what
             told == ToldIn(fate, Last(attrs), w)
             u == Front(attrs)
  <1>1. /\ result = None /\ todo # <<>> /\ Head(todo).do = "give" /\ todo' = Tail(todo)
        /\ attrs' = Append(u, 0) /\ fate' = told
        /\ UNCHANGED <<text, peeked, nodes, before, open, inDefer, errno, unit, result>>
    BY DEF GiveAttrs, At, Told, ToldIn
  <1>2. PICK s \in Shapes, q \in Shapes, r \in Shapes :
          /\ Fits(s) /\ Does(Head(todo), s, q)
          /\ Promises(q, r) /\ Runs(Tail(todo), r, Nothing)
    BY <1>1, StepAhead
  <1>3. GiveDoes(w, s, q)
    BY <1>1, <1>2 DEF Does
  <1>4. /\ s.held # <<>> /\ s.held \in Seq(Settled) /\ q.held = Push(Front(s.held), "spent")
        /\ q.open = s.open /\ q.low = s.low /\ q.next = Tokens
        /\ Last(s.held) \in {w, "spent"}
    BY <1>3, ShapeIs DEF GiveDoes
  <1>5. /\ AttrsIn(attrs, fate, before) /\ HeldIn(attrs, fate)
        /\ ArraysFit(attrs, fate, before, s.held)
    BY <1>1, <1>2 DEF TreeInv, Fits, FitsIn
  <1>6. w \in Fates \ {"held"}
    <2>1. w \in Tokens \union {"union"}
      BY <1>3 DEF GiveDoes
    <2>2. "held" \notin Tokens \union {"union"}
      BY DEF Tokens
    <2> HIDE DEF w
    <2>3. QED
      BY <2>1, <2>2 DEF Fates
  <1>7. /\ AttrsIn(u, told, before) /\ HeldIn(u, told)
        /\ ArraysFit(u, told, before, Front(s.held))
    <2> HIDE DEF w
    <2>1. QED
      BY <1>4, <1>5, <1>6, TakenAway
  <1>8. Front(s.held) \in Seq(Settled)
    BY <1>4, Halves
  <1> HIDE DEF told, u, w
  <1>9. /\ AttrsIn(attrs', fate', before) /\ HeldIn(attrs', fate')
        /\ ArraysFit(attrs', fate', before, q.held)
    BY <1>1, <1>4, <1>7, <1>8, EmptyAdded
  <1>10. QED
    BY <1>1, <1>2, <1>4, <1>9, ArraysKeep

\* The array goes out of scope.
LEMMA ReleaseKeeps ==
  ASSUME TreeInv, DeferInv', ReleaseAttrs
  PROVE  TreeInv'
  <1> DEFINE told == ToldIn(fate, Last(attrs), "dropped")
             u == Front(attrs)
  <1>1. /\ result = None /\ todo # <<>> /\ Head(todo).do = "release" /\ todo' = Tail(todo)
        /\ attrs' = u /\ fate' = told
        /\ UNCHANGED <<text, peeked, nodes, before, open, inDefer, errno, unit, result>>
    BY DEF ReleaseAttrs, At, Told, ToldIn
  <1>2. PICK s \in Shapes, q \in Shapes, r \in Shapes :
          /\ Fits(s) /\ Does(Head(todo), s, q)
          /\ Promises(q, r) /\ Runs(Tail(todo), r, Nothing)
    BY <1>1, StepAhead
  <1>3. ReleaseDoes(s, q)
    BY <1>1, <1>2 DEF Does
  <1>4. /\ s.held # <<>> /\ s.held \in Seq(Settled) /\ q.held = Front(s.held)
        /\ q.open = s.open /\ q.low = s.low /\ q.next = Tokens
    BY <1>3, ShapeIs DEF ReleaseDoes
  <1>5. /\ AttrsIn(attrs, fate, before) /\ HeldIn(attrs, fate)
        /\ ArraysFit(attrs, fate, before, s.held)
    BY <1>1, <1>2 DEF TreeInv, Fits, FitsIn
  <1>6. "dropped" \in Fates \ {"held"}
    BY DEF Fates
  <1>7. /\ AttrsIn(u, told, before) /\ HeldIn(u, told)
        /\ ArraysFit(u, told, before, Front(s.held))
    BY <1>4, <1>5, <1>6, TakenAway
  <1> HIDE DEF told, u
  <1>8. /\ AttrsIn(attrs', fate', before) /\ HeldIn(attrs', fate')
        /\ ArraysFit(attrs', fate', before, q.held)
    BY <1>1, <1>4, <1>7
  <1>9. QED
    BY <1>1, <1>2, <1>4, <1>8, ArraysKeep

\* parse() returns the unit.
LEMMA FinishKeeps ==
  ASSUME TreeInv, DeferInv', Finish
  PROVE  TreeInv'
  <1>1. /\ result = None /\ todo = <<>> /\ result' = "unit"
        /\ UNCHANGED <<text, peeked, todo, nodes, attrs, fate, before, open, inDefer, errno, unit>>
    BY DEF Finish
  <1>2. PICK s \in Shapes : Fits(s) /\ Runs(<<>>, s, Nothing)
    BY <1>1 DEF TreeInv, GoesOn
  <1>3. s = Nothing
    BY <1>2, RunsEnd
  <1>4. s.open = <<>> /\ s.held = <<>>
    BY <1>3, ShapeIs DEF Nothing
  <1>5. open = <<>> /\ Len(attrs) = 0
    BY <1>2, <1>4 DEF Fits, FitsIn, ArraysFit
  <1>6. \A l \in 1..Len(fate) : fate[l] # "held"
    BY <1>1, <1>5 DEF TreeInv, HeldIn
  <1>7. NodesOK' /\ AttrsIn(attrs', fate', before') /\ RestOK'
    BY <1>1 DEF TreeInv, NodesOK, RestOK
  <1>8. result' # None
    BY <1>1 DEF None
  <1>9. QED
    BY <1>1, <1>5, <1>6, <1>7, <1>8 DEF TreeInv

\* One step, whatever it is.
LEMMA NextTree == TreeInv /\ [Next]_vars => TreeInv'
  <1> SUFFICES ASSUME TreeInv, [Next]_vars PROVE TreeInv'
    OBVIOUS
  <1>0. DeferInv' /\ errno \in BOOLEAN /\ unit \in Unit
    BY NextDefer DEF TreeInv, RestOK
  <1> DEFINE back == (Unwind("diagnosed") \/ Unwind("silent")) /\ errno' \in BOOLEAN
             on == /\ result = None /\ todo # <<>> /\ Head(todo).do = "do"
                   /\ Head(todo).what # "attr_args" /\ todo' = Tail(todo)
                   /\ UNCHANGED <<text, peeked, nodes, attrs, fate, before, open, inDefer, result>>
                   /\ errno' \in BOOLEAN /\ unit' \in Unit
  <1>1. back => TreeInv'
    BY <1>0, Back
  <1>2. on => TreeInv'
    BY <1>0, StayKeeps
  <1>3. CASE Expand
    BY <1>0, <1>3, ExpandKeeps
  <1>4. CASE Consume
    BY <1>0, <1>4, ConsumeKeeps
  <1>5. CASE Refuse
    BY <1>0, <1>1, <1>5 DEF Refuse
  <1>6. CASE NewNode
    BY <1>0, <1>6, NewNodeKeeps
  <1>7. CASE NewBinary
    BY <1>0, <1>7, NewBinaryKeeps
  <1>8. CASE DropNode
    <2>1. /\ result = None /\ todo # <<>> /\ Head(todo).do = "drop"
          /\ nodes' = Front(nodes) /\ todo' = Tail(todo)
          /\ UNCHANGED <<text, peeked, attrs, fate, before, open, inDefer, errno, unit, result>>
      BY <1>8 DEF DropNode, At
    <2>2. QED
      BY <1>0, <2>1, DropKeeps
  <1>9. CASE BeginDefer
    BY <1>0, <1>9, BeginDeferKeeps
  <1>10. CASE EndDefer
    BY <1>0, <1>10, EndDeferKeeps
  <1>11. CASE HoldAttrs
    BY <1>0, <1>11, HoldKeeps
  <1>12. CASE KeepAttrs
    BY <1>0, <1>12, KeepKeeps
  <1>13. CASE GiveAttrs
    BY <1>0, <1>13, GiveKeeps
  <1>14. CASE ReleaseAttrs
    BY <1>0, <1>14, ReleaseKeeps
  <1>15. CASE AttrName
    <2>1. back \/ on
      BY <1>0, <1>15 DEF AttrName, Step, At
    <2>2. QED
      BY <1>1, <1>2, <2>1
  <1>16. CASE AttrArgs
    <2>1. CASE Unwind("silent") /\ UNCHANGED errno
      BY <1>0, <1>1, <2>1
    <2>2. CASE /\ nodes' = Front(nodes) /\ todo' = Tail(todo)
               /\ UNCHANGED <<text, peeked, attrs, fate, before, open, inDefer, errno, unit, result>>
      <3>1. /\ result = None /\ todo # <<>> /\ Head(todo).do = "do"
            /\ Head(todo).what = "attr_args"
        BY <1>16 DEF AttrArgs, Step, At
      <3>2. QED
        BY <1>0, <2>2, <3>1, DropKeeps
    <2>3. QED
      BY <1>16, <2>1, <2>2 DEF AttrArgs
  <1>17. CASE IntLiteral
    <2>1. CASE Unwind("diagnosed") /\ UNCHANGED errno
      BY <1>0, <1>1, <2>1
    <2>2. ASSUME NEW l \in Literals, errno' = (errno \/ l.over),
                 \/ /\ todo' = Tail(todo)
                    /\ UNCHANGED <<text, peeked, nodes, attrs, fate, before, open, inDefer, unit,
                                   result>>
                 \/ Unwind("diagnosed")
          PROVE  TreeInv'
      <3>1. errno' \in BOOLEAN
        BY <2>2
      <3>2. back \/ on
        BY <1>0, <1>17, <2>2, <3>1 DEF IntLiteral, Step, At
      <3>3. QED
        BY <1>1, <1>2, <3>2
    <2>3. QED
      BY <1>17, <2>1, <2>2 DEF IntLiteral
  <1>18. CASE FltLiteral
    <2>1. back \/ on
      BY <1>0, <1>18 DEF FltLiteral, Step, At
    <2>2. QED
      BY <1>1, <1>2, <2>1
  <1>19. CASE AssignModule
    <2>1. CASE Unwind("diagnosed") /\ UNCHANGED errno
      BY <1>0, <1>1, <2>1
    <2>2. CASE unit' = [unit EXCEPT !.module = TRUE] /\ todo' = Tail(todo) /\ errno' = errno
               /\ UNCHANGED <<text, peeked, nodes, attrs, fate, before, open, inDefer, result>>
      <3>1. unit' \in Unit
        BY <1>0, <2>2 DEF Unit
      <3>2. on
        BY <1>0, <1>19, <2>2, <3>1 DEF AssignModule, Step, At
      <3>3. QED
        BY <1>2, <3>2
    <2>3. QED
      BY <1>19, <2>1, <2>2 DEF AssignModule
  <1>20. CASE AddImport
    <2>1. CASE Unwind("diagnosed") /\ UNCHANGED errno
      BY <1>0, <1>1, <2>1
    <2>2. CASE unit' = [unit EXCEPT !.imports = @ + 1] /\ todo' = Tail(todo) /\ errno' = errno
               /\ UNCHANGED <<text, peeked, nodes, attrs, fate, before, open, inDefer, result>>
      <3>1. unit' \in Unit
        BY <1>0, <2>2 DEF Unit
      <3>2. on
        BY <1>0, <1>20, <2>2, <3>1 DEF AddImport, Step, At
      <3>3. QED
        BY <1>2, <3>2
    <2>3. QED
      BY <1>20, <2>1, <2>2 DEF AddImport
  <1>21. CASE Finish
    BY <1>0, <1>21, FinishKeeps
  <1>22. CASE UNCHANGED vars
    BY <1>22 DEF vars, TreeInv, DeferInv, DeferFlagIsRight, NodesOK, RestOK, GoesOn, Fits
  <1>23. QED
    BY <1>3, <1>4, <1>5, <1>6, <1>7, <1>8, <1>9, <1>10, <1>11, <1>12, <1>13, <1>14, <1>15,
       <1>16, <1>17, <1>18, <1>19, <1>20, <1>21, <1>22 DEF Next

LEMMA InitTree == Init => TreeInv
  <1> SUFFICES ASSUME Init PROVE TreeInv
    OBVIOUS
  <1>1. DeferInv
    BY InitDefer
  <1>2. /\ peeked = None /\ todo = <<Call("unit")>> /\ nodes = <<>> /\ attrs = <<0>>
        /\ fate = <<>> /\ before = <<>> /\ open = <<>> /\ result = None
        /\ errno = FALSE /\ unit = [module |-> FALSE, imports |-> 0]
    BY DEF Init
  <1> DEFINE a == Call("unit")
             h == Push(<<>>, "spent")
             s == Now(<<>>, <<>>, h)
  <1>3. <<>> \in Seq(Tokens) /\ <<>> \in Seq(Nat) /\ <<>> \in Seq(Settled) /\ <<>> \in Seq(Statuses)
    OBVIOUS
  <1>4. Leads(a, s, Now(<<>>, <<>>, <<>>))
    <2> HIDE DEF a
    <2>1. QED
      BY <1>3, HandedDone DEF a
  <1>5. Leads(a, s, Nothing)
    BY <1>4 DEF Nothing, Now
  <1>6. s \in Shapes /\ s.open = <<>> /\ s.low = <<>> /\ s.next = Tokens /\ s.held = h
    <2>1. s \in Shapes
      BY <1>4, LeadsShapes
    <2>2. QED
      BY <2>1, ShapeIs DEF Now
  <1>7. h = <<"spent">> /\ Len(h) = 1 /\ h[1] = "spent"
    BY DEF Push
  <1>8. AttrsIn(attrs, fate, before) /\ HeldIn(attrs, fate)
    <2>1. <<0>> \in Seq(0..0) /\ Len(<<0>>) = 1 /\ <<0>>[1] = 0 /\ Len(<<>>) = 0
      OBVIOUS
    <2>2. <<>> \in Seq(Fates) /\ 1..0 = {} /\ 0 <= 0 /\ \A i \in 1..1 : i = 1
      OBVIOUS
    <2>3. AttrsIn(<<0>>, <<>>, <<>>)
      BY <1>3, <2>1, <2>2 DEF AttrsIn
    <2>4. HeldIn(<<0>>, <<>>)
      BY <2>1, <2>2 DEF HeldIn
    <2>5. QED
      BY <1>2, <2>3, <2>4
  <1> HIDE DEF a, h, s
  <1>9. ArraysFit(attrs, fate, before, h)
    <2>1. Len(attrs) = 1 /\ attrs[1] = 0 /\ Len(before) = Len(fate)
      BY <1>2
    <2>2. \A i \in 1..1 : i = 1
      OBVIOUS
    <2>3. ArrayFits(0, fate, before, "spent")
      BY DEF ArrayFits
    <2>4. QED
      BY <1>7, <2>1, <2>2, <2>3 DEF ArraysFit
  <1>10. Fits(s)
    <2>1. NodesFit(nodes, <<>>) /\ NextFits(peeked, Tokens)
      BY <1>2 DEF NodesFit, NextFits
    <2>2. QED
      BY <1>2, <1>6, <1>9, <2>1 DEF Fits, FitsIn
  <1>11. GoesOn
    <2>1. Runs(<<a>>, s, Nothing)
      BY <1>5, RunsOne
    <2>2. todo = <<a>>
      BY <1>2 DEF a
    <2>3. QED
      BY <1>6, <1>10, <2>1, <2>2 DEF GoesOn
  <1>12. NodesOK
    BY <1>2 DEF NodesOK, NodesIn
  <1>13. RestOK /\ result # "unit"
    <2>1. unit \in Unit
      <3>1. [module |-> FALSE, imports |-> 0] \in Unit
        BY DEF Unit
      <3>2. QED
        BY <1>2, <3>1
    <2>2. open \in Seq(Tokens) /\ errno \in BOOLEAN
      BY <1>2, <1>3
    <2>3. result \in {None, "unit", "diagnosed", "silent"} /\ result # "unit"
      BY <1>2 DEF None
    <2>4. QED
      BY <2>1, <2>2, <2>3 DEF RestOK
  <1>14. QED
    BY <1>1, <1>8, <1>11, <1>12, <1>13 DEF TreeInv

LEMMA TreeAlways == Spec => []TreeInv
  BY InitTree, NextTree, PTL DEF Spec

-----------------------------------------------------------------------------
(* What follows.                                                           *)

(* The parser's state is of its types whatever the text: above all, every  *)
(* node taken from those that wait is there, and every array asked for     *)
(* attributes too (new_node in the parse_* functions, parser.cpp).         *)
THEOREM ParserTyped == Spec => []TypeOK
  <1>1. TreeInv => TypeOK
    <2> SUFFICES ASSUME TreeInv PROVE TypeOK
      OBVIOUS
    <2>1. text \in TextType /\ peeked \in Tokens \union {None} /\ todo \in Seq(Items)
      BY DEF TreeInv, DeferInv
    <2>2. {inDefer, errno} \subseteq BOOLEAN
      BY DEF TreeInv, DeferInv, RestOK
    <2>3. nodes \in Seq(Nodes)
      BY DEF TreeInv, NodesOK, NodesIn
    <2>4. attrs \in Seq(0..Len(fate)) /\ fate \in Seq(Fates) /\ before \in Seq(Tokens)
      BY DEF TreeInv, AttrsIn
    <2>5. /\ open \in Seq(Tokens) /\ unit \in Unit
          /\ result \in {None, "unit", "diagnosed", "silent"}
      BY DEF TreeInv, RestOK
    <2>6. QED
      BY <2>1, <2>2, <2>3, <2>4, <2>5 DEF TypeOK
  <1>2. QED
    BY <1>1, TreeAlways, PTL

(* Operators group as their table says, those that bind alike from the     *)
(* left, in expressions of any length and depth (parse_binop_rhs, its      *)
(* recursion for tighter operators and its loop).                          *)
THEOREM TreeGroups == Spec => []GroupsByPrecedence
  <1>1. TreeInv => GroupsByPrecedence
    <2> SUFFICES ASSUME TreeInv PROVE GroupsByPrecedence
      OBVIOUS
    <2>1. nodes \in Seq(Nodes) /\ \A i \in 1..Len(nodes) : Grouped(nodes[i])
      BY DEF TreeInv, NodesOK, NodesIn
    <2>2. DOMAIN nodes = 1..Len(nodes)
      BY <2>1
    <2>3. QED
      BY <2>1, <2>2 DEF GroupsByPrecedence, Grouped
  <1>2. QED
    BY <1>1, TreeAlways, PTL

(* An attribute list is in one array while it is held and in none after;   *)
(* when the unit is returned every list has been given or is gone          *)
(* (parse_type, parse and parse_fn, which move the arrays on).             *)
THEOREM AttrsOnce == Spec => []AttrsHeldOnce
  <1>1. TreeInv => AttrsHeldOnce
    <2> SUFFICES ASSUME TreeInv PROVE AttrsHeldOnce
      OBVIOUS
    <2>1. /\ attrs \in Seq(0..Len(fate)) /\ fate \in Seq(Fates)
          /\ \A i \in 1..Len(attrs) : attrs[i] # 0 =>
               /\ fate[attrs[i]] = "held"
               /\ \A j \in 1..Len(attrs) : attrs[j] = attrs[i] => j = i
      BY DEF TreeInv, AttrsIn
    <2>2. DOMAIN attrs = 1..Len(attrs) /\ DOMAIN fate = 1..Len(fate)
      BY <2>1
    <2>3. result = "unit" => \A l \in 1..Len(fate) : fate[l] # "held"
      BY DEF TreeInv
    <2>4. QED
      BY <2>1, <2>2, <2>3 DEF AttrsHeldOnce
  <1>2. QED
    BY <1>1, TreeAlways, PTL

(* Attributes go to what they stand before, unless that is a group, a      *)
(* module, an import or an effect, which take none (the switch of          *)
(* parse_type, and parse).                                                 *)
THEOREM AttrsReach == Spec => []AttrsReachWhatFollows
  <1>1. TreeInv => AttrsReachWhatFollows
    <2> SUFFICES ASSUME TreeInv PROVE AttrsReachWhatFollows
      OBVIOUS
    <2>1. /\ before \in Seq(Tokens)
          /\ \A l \in 1..Len(before) :
               fate[l] \in {"held", "dropped", before[l]} \/ before[l] \in Takers
      BY DEF TreeInv, AttrsIn
    <2>2. DOMAIN before = 1..Len(before)
      BY <2>1
    <2>3. QED
      BY <2>1, <2>2 DEF AttrsReachWhatFollows, Takers
  <1>2. QED
    BY <1>1, TreeAlways, PTL

LEMMA OnlyFinish ==
  ASSUME Next, result' = "unit"
  PROVE  Finish
  <1> DEFINE on == result = None /\ result' = result
             back == result' = "diagnosed" \/ result' = "silent"
  <1>1. ~on /\ ~back
    BY DEF None
  <1>2. ~Expand /\ ~NewNode /\ ~NewBinary /\ ~DropNode /\ ~BeginDefer /\ ~EndDefer
    <2>1. Expand \/ NewNode \/ NewBinary \/ DropNode \/ BeginDefer \/ EndDefer => on
      BY DEF Expand, NewNode, NewBinary, DropNode, BeginDefer, EndDefer, At, Step
    <2>2. QED
      BY <1>1, <2>1
  <1>3. ~HoldAttrs /\ ~KeepAttrs /\ ~GiveAttrs /\ ~ReleaseAttrs
    <2>1. HoldAttrs \/ KeepAttrs \/ GiveAttrs \/ ReleaseAttrs => on
      BY DEF HoldAttrs, KeepAttrs, GiveAttrs, ReleaseAttrs, At
    <2>2. QED
      BY <1>1, <2>1
  <1>4. ~Consume /\ ~Refuse
    <2>1. Consume \/ Refuse => on \/ back
      BY DEF Consume, Refuse, At, Unwind
    <2>2. QED
      BY <1>1, <2>1
  <1>5. ~AttrName /\ ~AttrArgs
    <2>1. AttrName \/ AttrArgs => on \/ back
      BY DEF AttrName, AttrArgs, At, Step, Unwind
    <2>2. QED
      BY <1>1, <2>1
  <1>6. ~IntLiteral /\ ~FltLiteral
    <2>1. IntLiteral \/ FltLiteral => on \/ back
      BY DEF IntLiteral, FltLiteral, At, Step, Unwind
    <2>2. QED
      BY <1>1, <2>1
  <1>7. ~AssignModule /\ ~AddImport
    <2>1. AssignModule \/ AddImport => on \/ back
      BY DEF AssignModule, AddImport, At, Step, Unwind
    <2>2. QED
      BY <1>1, <2>1
  <1>8. QED
    BY <1>2, <1>3, <1>4, <1>5, <1>6, <1>7 DEF Next

(* Every closing bracket that is consumed closes the newest that is open,  *)
(* however deep they nest, and none is open when the unit is returned: the *)
(* functions that share a pair of brackets agree (parse_bracket_type and   *)
(* parse_enum_type, parse_fn_type, the lists of every kind).               *)
THEOREM BracketsAgree == Spec => BracketsMatch
  <1> DEFINE agree == /\ At("take") /\ result' = None /\ Head(todo).what \in DOMAIN Match =>
                           open # <<>> /\ Last(open) = Match[Head(todo).what]
                      /\ result' = "unit" => open = <<>>
  <1>1. TreeInv /\ [Next]_vars => [agree]_vars
    <2> SUFFICES ASSUME TreeInv, Next PROVE agree
      OBVIOUS
    <2>1. ASSUME At("take"), Head(todo).what \in DOMAIN Match
          PROVE  open # <<>> /\ Last(open) = Match[Head(todo).what]
      <3>1. result = None /\ todo # <<>> /\ Head(todo).do = "take"
        BY <2>1 DEF At
      <3>2. PICK s \in Shapes, q \in Shapes : Fits(s) /\ Does(Head(todo), s, q)
        BY <3>1, StepAhead
      <3>3. TakeDoes(Head(todo).what, s, q)
        BY <3>1, <3>2 DEF Does
      <3>4. s.open # <<>> /\ Last(s.open) = Match[Head(todo).what]
        BY <2>1, <3>3, BracketsAre DEF TakeDoes
      <3>5. QED
        BY <3>2, <3>4 DEF Fits, FitsIn
    <2>2. ASSUME result' = "unit" PROVE open = <<>>
      <3>1. open' = open
        BY <2>2, OnlyFinish DEF Finish
      <3>2. TreeInv'
        BY NextTree
      <3>3. QED
        BY <2>2, <3>1, <3>2 DEF TreeInv
    <2>3. QED
      BY <2>1, <2>2
  <1>2. QED
    BY <1>1, TreeAlways, PTL DEF BracketsMatch, Spec

-----------------------------------------------------------------------------
(* The parser ends: what is left to do shrinks with every step.            *)

\* Functions that begin with a token they must find.
TakeFirst ==
  {"index_expr", "agg_expr", "var_expr", "selector_expr", "int_expr", "flt_expr", "str_expr",
   "chr_expr", "bool_expr", "tuple_expr", "ident_type", "tuple_type", "args_type",
   "group_type", "varargs_type", "ptr_type", "bracket_type", "fn_type", "block_stmt",
   "return_stmt", "defer_stmt", "break_stmt", "continue_stmt", "if_stmt", "let_stmt",
   "using_stmt", "for_stmt", "fn", "typedef", "module", "import", "effect", "attrs"}

\* Functions that consume a token before they return, or give up.
Consumers == TakeFirst \union
  {"call_expr", "postfix_expr", "unary_expr", "expr", "primary_expr", "type_expr", "type",
   "alternative", "at_type", "atom_type", "in_brackets", "stmt", "only_let", "else_arm",
   "post_stmt", "expr_stmt"}

\* Functions that begin with a token if it is there.
Lookers == {"effect_ref", "no_trailing_comma", "enum_init", "effects", "ret", "else_if",
            "for_post", "for_else", "assignment"}

\* How many calls deep a token is consumed at most, or that there is none to consume.
Depth(f) ==
  CASE f \in TakeFirst \union Lookers -> 2
    [] f \in {"postfix_expr", "postfix_loop", "union"} -> 4
    [] f \in {"unary_expr", "type"} -> 5
    [] f \in {"expr", "type_expr", "atom_type"} -> 6
    [] f \in {"at_type", "return_value", "for_expr", "expr_stmt"} -> 7
    [] f \in {"in_brackets", "stmt", "post_stmt"} -> 8
    [] f = "stmts" -> 9
    [] OTHER -> 3

\* The same for the other items.
Consumes(item) ==
  \/ item.do \in {"take", "fail", "list", "comma"}
  \/ item.do = "call" /\ item.what \in Consumers
Effort(item) ==
  CASE item.do = "call" -> Depth(item.what)
    [] item.do = "list" -> 7
    [] item.do \in {"comma", "rhs"} -> 2
    [] item.do = "tighter" -> 3
    [] item.do = "do" -> 9
    [] OTHER -> 1

\* What it takes at most until the next token is consumed.
CostStep(cost, q) ==
  IF q = <<>> THEN 0
  ELSE Effort(Head(q)) + (IF Consumes(Head(q)) THEN 0 ELSE cost[Tail(q)])
Cost[q \in Seq(Items)] == CostStep(Cost, q)

\* The tokens that are not consumed.
Remaining == Len(text.script) + text.left

\* A token is consumed, or the next one gets closer.
Shrinks ==
  \/ Remaining' < Remaining
  \/ Remaining' = Remaining /\ Cost[todo'] < Cost[todo]

\* Once parse() returned nothing happens; until then every step but the last shrinks it.
AlwaysShrinks == [][result = None /\ (result' # None \/ Shrinks)]_vars

\* A token that was looked at is there to be consumed.
PeekedIsThere == peeked \notin {None, "END"} => Remaining > 0


LEMMA Least ==
  ASSUME NEW S, S \subseteq Nat, S # {}
  PROVE  \E x \in S : \A y \in S : x <= y
  <1> DEFINE R == OpToRel(<, Nat)
  <1>1. IsWellFoundedOn(R, Nat)
    BY NatLessThanWellFounded
  <1>2. \A x, y \in Nat : x < y => <<x, y>> \in R
    BY DEF OpToRel
  <1> HIDE DEF R
  <1>3. PICK x \in S : \A y \in S : ~(<<y, x>> \in R)
    BY <1>1, WFMin
  <1>4. ASSUME NEW y \in S
        PROVE  x <= y
    <2>1. x \in Nat /\ y \in Nat
      OBVIOUS
    <2>2. ~(y < x)
      BY <1>2, <1>3, <2>1
    <2>3. QED
      BY <2>1, <2>2
  <1>5. QED
    BY <1>4

LEMMA EffortType == \A item : Effort(item) \in Nat
  <1>1. \A f : Depth(f) \in Nat
    BY DEF Depth
  <1>2. QED
    BY <1>1 DEF Effort

\* The costs of the ends of q, shortest first; the last one is n.
AmountsOf(q, l, n) ==
  \E c \in [0..l -> Nat] :
    /\ c[0] = 0 /\ c[l] = n
    /\ \A k \in 1..l :
         c[k] = Effort(q[l + 1 - k]) + (IF Consumes(q[l + 1 - k]) THEN 0 ELSE c[k - 1])
Amounts(q, n) == AmountsOf(q, Len(q), n)

Onto(item, n) == Effort(item) + (IF Consumes(item) THEN 0 ELSE n)

LEMMA AmountNone == \A n : Amounts(<<>>, n) <=> n = 0
  <1>1. ASSUME NEW n, Amounts(<<>>, n) PROVE n = 0
    <2>1. Len(<<>>) = 0
      OBVIOUS
    <2>2. QED
      BY <1>1, <2>1 DEF Amounts, AmountsOf
  <1>2. Amounts(<<>>, 0)
    <2> DEFINE c == [k \in 0..0 |-> 0]
    <2>1. c \in [0..Len(<<>>) -> Nat] /\ c[0] = 0 /\ c[Len(<<>>)] = 0
      OBVIOUS
    <2>2. \A k \in 1..Len(<<>>) : FALSE
      OBVIOUS
    <2> HIDE DEF c
    <2>3. QED
      BY <2>1, <2>2 DEF Amounts, AmountsOf
  <1>3. QED
    BY <1>1, <1>2

LEMMA EndsOfTail ==
  ASSUME NEW q \in Seq(Items), q # <<>>
  PROVE  /\ Tail(q) \in Seq(Items) /\ Len(q) \in Nat /\ Len(q) >= 1
         /\ Len(Tail(q)) = Len(q) - 1
         /\ q[1] = Head(q) /\ Head(q) \in Items
         /\ \A k \in 1..Len(q) - 1 : Tail(q)[Len(q) - 1 + 1 - k] = q[Len(q) + 1 - k]
  <1>1. /\ Tail(q) \in Seq(Items) /\ Len(q) \in Nat /\ Len(q) >= 1
        /\ Len(Tail(q)) = Len(q) - 1
        /\ q[1] = Head(q) /\ Head(q) \in Items
        /\ \A i \in 1..Len(q) - 1 : Tail(q)[i] = q[i + 1]
    OBVIOUS
  <1>2. ASSUME NEW k \in 1..Len(q) - 1
        PROVE  Tail(q)[Len(q) - 1 + 1 - k] = q[Len(q) + 1 - k]
    <2> DEFINE i == Len(q) - k
    <2>1. i \in 1..Len(q) - 1 /\ Len(q) - 1 + 1 - k = i /\ Len(q) + 1 - k = i + 1
      BY <1>1
    <2> HIDE DEF i
    <2>2. QED
      BY <1>1, <2>1
  <1>3. QED
    BY <1>1, <1>2

LEMMA AmountStep ==
  ASSUME NEW q \in Seq(Items), q # <<>>, NEW n
  PROVE  Amounts(q, n) <=> \E m \in Nat : Amounts(Tail(q), m) /\ n = Onto(Head(q), m)
  <1> DEFINE l == Len(q)
             p == Tail(q)
             a == Head(q)
  <1>1. /\ p \in Seq(Items) /\ l \in Nat /\ l >= 1 /\ Len(p) = l - 1 /\ Len(q) = l
        /\ q[1] = a
        /\ \A k \in 1..l - 1 : p[l - 1 + 1 - k] = q[l + 1 - k]
    BY EndsOfTail
  <1> HIDE DEF l, p, a
  <1>2. ASSUME Amounts(q, n) PROVE \E m \in Nat : Amounts(p, m) /\ n = Onto(a, m)
    <2>1. PICK c \in [0..l -> Nat] :
            /\ c[0] = 0 /\ c[l] = n
            /\ \A k \in 1..l : c[k] = Effort(q[l + 1 - k])
                                      + (IF Consumes(q[l + 1 - k]) THEN 0 ELSE c[k - 1])
      BY <1>1, <1>2 DEF Amounts, AmountsOf
    <2> DEFINE d == [k \in 0..l - 1 |-> c[k]]
    <2>2. d \in [0..l - 1 -> Nat] /\ d[0] = 0 /\ d[l - 1] = c[l - 1] /\ c[l - 1] \in Nat
      BY <1>1, <2>1
    <2>3. ASSUME NEW k \in 1..l - 1
          PROVE  d[k] = Effort(p[l - 1 + 1 - k])
                        + (IF Consumes(p[l - 1 + 1 - k]) THEN 0 ELSE d[k - 1])
      <3>1. k \in 1..l /\ d[k] = c[k] /\ d[k - 1] = c[k - 1]
        BY <1>1
      <3>2. p[l - 1 + 1 - k] = q[l + 1 - k]
        BY <1>1
      <3> HIDE DEF d
      <3>3. QED
        BY <2>1, <3>1, <3>2
    <2> HIDE DEF d
    <2>4. Amounts(p, c[l - 1])
      <3>1. AmountsOf(p, l - 1, c[l - 1])
        BY <2>2, <2>3 DEF AmountsOf
      <3>2. QED
        BY <1>1, <3>1 DEF Amounts
    <2>5. n = Onto(a, c[l - 1])
      <3>1. l \in 1..l /\ l + 1 - l = 1
        BY <1>1
      <3>2. QED
        BY <1>1, <2>1, <3>1 DEF Onto
    <2>6. QED
      BY <2>2, <2>4, <2>5
  <1>3. ASSUME NEW m \in Nat, Amounts(p, m), n = Onto(a, m) PROVE Amounts(q, n)
    <2>1. PICK d \in [0..l - 1 -> Nat] :
            /\ d[0] = 0 /\ d[l - 1] = m
            /\ \A k \in 1..l - 1 : d[k] = Effort(p[l - 1 + 1 - k])
                                      + (IF Consumes(p[l - 1 + 1 - k]) THEN 0 ELSE d[k - 1])
      <3>1. AmountsOf(p, l - 1, m)
        BY <1>1, <1>3 DEF Amounts
      <3>2. QED
        BY <3>1 DEF AmountsOf
    <2> DEFINE c == [k \in 0..l |-> IF k = l THEN n ELSE d[k]]
    <2>2. n \in Nat
      BY <1>3, EffortType DEF Onto
    <2>3. c \in [0..l -> Nat] /\ c[0] = 0 /\ c[l] = n
      BY <1>1, <2>1, <2>2
    <2>4. ASSUME NEW k \in 1..l
          PROVE  c[k] = Effort(q[l + 1 - k]) + (IF Consumes(q[l + 1 - k]) THEN 0 ELSE c[k - 1])
      <3>1. CASE k = l
        <4>1. l + 1 - k = 1 /\ c[k] = n /\ c[k - 1] = m
          BY <1>1, <2>1, <3>1
        <4> HIDE DEF c
        <4>2. QED
          BY <1>1, <1>3, <4>1 DEF Onto
      <3>2. CASE k # l
        <4>1. k \in 1..l - 1 /\ c[k] = d[k] /\ c[k - 1] = d[k - 1]
          BY <1>1, <3>2
        <4>2. p[l - 1 + 1 - k] = q[l + 1 - k]
          BY <1>1, <4>1
        <4> HIDE DEF c
        <4>3. QED
          BY <2>1, <4>1, <4>2
      <3>3. QED
        BY <3>1, <3>2
    <2> HIDE DEF c
    <2>5. QED
      BY <1>1, <2>3, <2>4 DEF Amounts, AmountsOf
  <1>4. QED
    BY <1>2, <1>3 DEF p, a

LEMMA AmountOnce ==
  ASSUME NEW q \in Seq(Items)
  PROVE  \E n \in Nat : \A m : Amounts(q, m) <=> m = n
  <1> DEFINE Has(s) == \E n \in Nat : \A m : Amounts(s, m) <=> m = n
             T == {k \in Nat : \E s \in Seq(Items) : Len(s) = k /\ ~Has(s)}
  <1>1. T = {}
    <2> SUFFICES ASSUME T # {} PROVE FALSE
      OBVIOUS
    <2>1. PICK k \in T : \A j \in T : k <= j
      <3>1. T \subseteq Nat
        OBVIOUS
      <3> HIDE DEF T
      <3>2. QED
        BY <3>1, Least
    <2>2. PICK s \in Seq(Items) : Len(s) = k /\ ~Has(s)
      OBVIOUS
    <2>3. s # <<>>
      BY <2>2, AmountNone
    <2>4. Tail(s) \in Seq(Items) /\ Len(Tail(s)) = k - 1 /\ k - 1 \in Nat /\ k \in Nat
      BY <2>2, <2>3, EndsOfTail
    <2>5. Has(Tail(s))
      <3>1. ~Has(Tail(s)) => k - 1 \in T
        BY <2>4
      <3> HIDE DEF T, Has
      <3>2. QED
        BY <2>1, <2>4, <3>1
    <2>6. PICK n \in Nat : \A m : Amounts(Tail(s), m) <=> m = n
      BY <2>5
    <2>7. \A m : Amounts(s, m) <=> m = Onto(Head(s), n)
      BY <2>3, <2>6, AmountStep
    <2>8. Onto(Head(s), n) \in Nat
      BY EffortType DEF Onto
    <2>9. QED
      BY <2>2, <2>7, <2>8
  <1>2. Len(q) \in Nat /\ Len(q) \notin T
    BY <1>1
  <1>3. Has(q)
    BY <1>2
  <1>4. QED
    BY <1>3

\* There is such a function.
LEMMA CostIs ==
  ASSUME NEW q \in Seq(Items)
  PROVE  Cost[q] \in Nat /\ Cost[q] = CostStep(Cost, q)
  <1> DEFINE F == [s \in Seq(Items) |-> CHOOSE n \in Nat : \A m : Amounts(s, m) <=> m = n]
  <1>1. ASSUME NEW s \in Seq(Items)
        PROVE  F[s] \in Nat /\ \A m : Amounts(s, m) <=> m = F[s]
    BY AmountOnce
  <1> HIDE DEF F
  <1>2. ASSUME NEW s \in Seq(Items) PROVE F[s] = CostStep(F, s)
    <2>1. CASE s = <<>>
      BY <1>1, <2>1, AmountNone DEF CostStep
    <2>2. CASE s # <<>>
      <3>1. Tail(s) \in Seq(Items)
        BY <2>2, EndsOfTail
      <3>2. F[Tail(s)] \in Nat /\ Amounts(Tail(s), F[Tail(s)])
        BY <1>1, <3>1
      <3>3. Amounts(s, Onto(Head(s), F[Tail(s)]))
        BY <2>2, <3>2, AmountStep
      <3>4. F[s] = Onto(Head(s), F[Tail(s)])
        BY <1>1, <3>3
      <3>5. QED
        BY <2>2, <3>4 DEF CostStep, Onto
    <2>3. QED
      BY <2>1, <2>2
  <1>3. F = [s \in Seq(Items) |-> CostStep(F, s)]
    <2>1. F = [s \in Seq(Items) |-> F[s]]
      BY DEF F
    <2>2. QED
      BY <1>2, <2>1
  <1>4. Cost = [s \in Seq(Items) |-> CostStep(Cost, s)]
    BY <1>3 DEF Cost
  <1>5. \A s \in Seq(Items) : Cost[s] = CostStep(Cost, s)
    BY <1>4
  <1> DEFINE T == {k \in Nat : \E s \in Seq(Items) : Len(s) = k /\ Cost[s] \notin Nat}
  <1>6. T = {}
    <2> SUFFICES ASSUME T # {} PROVE FALSE
      OBVIOUS
    <2>1. PICK k \in T : \A j \in T : k <= j
      <3>1. T \subseteq Nat
        OBVIOUS
      <3> HIDE DEF T
      <3>2. QED
        BY <3>1, Least
    <2>2. PICK s \in Seq(Items) : Len(s) = k /\ Cost[s] \notin Nat
      OBVIOUS
    <2>3. s # <<>>
      BY <1>5, <2>2 DEF CostStep
    <2>4. Tail(s) \in Seq(Items) /\ Len(Tail(s)) = k - 1 /\ k - 1 \in Nat /\ k \in Nat
      BY <2>2, <2>3, EndsOfTail
    <2>5. Cost[Tail(s)] \in Nat
      <3>1. Cost[Tail(s)] \notin Nat => k - 1 \in T
        BY <2>4
      <3> HIDE DEF T
      <3>2. QED
        BY <2>1, <2>4, <3>1
    <2>6. CostStep(Cost, s) \in Nat
      BY <2>3, <2>5, EffortType DEF CostStep
    <2>7. QED
      BY <1>5, <2>2, <2>6
  <1>7. Len(q) \in Nat /\ Len(q) \notin T
    BY <1>6
  <1>8. QED
    BY <1>5, <1>7

-----------------------------------------------------------------------------
(* What a rule costs.                                                      *)

LEMMA CostOnto ==
  ASSUME NEW q \in Seq(Items), q # <<>>
  PROVE  Cost[q] = Onto(Head(q), Cost[Tail(q)])
  BY CostIs DEF CostStep, Onto

LEMMA JoinedEnds ==
  ASSUME NEW q \in Seq(Items), q # <<>>, NEW s \in Seq(Items)
  PROVE  /\ q \o s \in Seq(Items) /\ q \o s # <<>>
         /\ Head(q \o s) = Head(q) /\ Tail(q \o s) = Tail(q) \o s
         /\ Tail(q) \in Seq(Items) /\ Tail(q) \o s \in Seq(Items)
  <1>1. /\ q \o s \in Seq(Items) /\ q \o s # <<>>
        /\ Tail(q) \in Seq(Items) /\ Tail(q) \o s \in Seq(Items)
        /\ Head(q \o s) = Head(q)
    OBVIOUS
  <1>2. Tail(q \o s) = Tail(q) \o s
    OBVIOUS
  <1>3. QED
    BY <1>1, <1>2

\* q in front of anything is sure to consume a token soon, or costs little itself.
Soon(q, r) == \A s \in Seq(Items) : Cost[q \o s] < r
Near(q, r) == \A s \in Seq(Items) : Cost[q \o s] < r + Cost[s]

\* q begins with what consumes a token soon.
Leading(q, r) == q # <<>> /\ Consumes(Head(q)) /\ Effort(Head(q)) < r

LEMMA LeadingSoon ==
  ASSUME NEW q \in Seq(Items), NEW r \in Nat, Leading(q, r)
  PROVE  Soon(q, r)
  <1>1. SUFFICES ASSUME NEW s \in Seq(Items) PROVE Cost[q \o s] < r
    BY DEF Soon
  <1>2. /\ q # <<>> /\ Consumes(Head(q)) /\ Effort(Head(q)) < r
        /\ q \o s \in Seq(Items) /\ q \o s # <<>> /\ Head(q \o s) = Head(q)
    BY JoinedEnds DEF Leading
  <1>3. Cost[q \o s] = Onto(Head(q), Cost[Tail(q \o s)])
    BY <1>2, CostOnto
  <1>4. QED
    BY <1>2, <1>3, EffortType DEF Onto

LEMMA SoonNear ==
  ASSUME NEW q, NEW r \in Nat, Soon(q, r), \A s \in Seq(Items) : q \o s \in Seq(Items)
  PROVE  Near(q, r)
  <1>1. SUFFICES ASSUME NEW s \in Seq(Items) PROVE Cost[q \o s] < r + Cost[s]
    BY DEF Near
  <1>2. Cost[q \o s] \in Nat /\ Cost[s] \in Nat
    BY CostIs
  <1>3. Cost[q \o s] < r
    BY DEF Soon
  <1>4. QED
    BY <1>2, <1>3

LEMMA NothingNear ==
  ASSUME NEW r \in Nat, r > 0
  PROVE  Near(<<>>, r)
  <1>1. \A s \in Seq(Items) : <<>> \o s = s /\ Cost[s] \in Nat
    BY CostIs
  <1>2. QED
    BY <1>1 DEF Near

\* What comes before costs what it costs.
LEMMA BeforeSoon ==
  ASSUME NEW q \in Seq(Items), q # <<>>, NEW r \in Nat, Soon(Tail(q), r)
  PROVE  Soon(q, Effort(Head(q)) + r)
  <1>1. SUFFICES ASSUME NEW s \in Seq(Items) PROVE Cost[q \o s] < Effort(Head(q)) + r
    BY DEF Soon
  <1>2. /\ q \o s \in Seq(Items) /\ q \o s # <<>> /\ Head(q \o s) = Head(q)
        /\ Tail(q \o s) = Tail(q) \o s /\ Tail(q) \o s \in Seq(Items)
    BY JoinedEnds
  <1>3. Cost[q \o s] = Onto(Head(q), Cost[Tail(q) \o s])
    BY <1>2, CostOnto
  <1>4. Cost[Tail(q) \o s] < r /\ Cost[Tail(q) \o s] \in Nat
    BY <1>2, CostIs DEF Soon
  <1>5. QED
    BY <1>3, <1>4, EffortType DEF Onto

LEMMA BeforeNear ==
  ASSUME NEW q \in Seq(Items), q # <<>>, NEW r \in Nat, Near(Tail(q), r)
  PROVE  Near(q, Effort(Head(q)) + r)
  <1>1. SUFFICES ASSUME NEW s \in Seq(Items)
                 PROVE  Cost[q \o s] < (Effort(Head(q)) + r) + Cost[s]
    BY DEF Near
  <1>2. /\ q \o s \in Seq(Items) /\ q \o s # <<>> /\ Head(q \o s) = Head(q)
        /\ Tail(q \o s) = Tail(q) \o s /\ Tail(q) \o s \in Seq(Items)
    BY JoinedEnds
  <1>3. Cost[q \o s] = Onto(Head(q), Cost[Tail(q) \o s])
    BY <1>2, CostOnto
  <1>4. /\ Cost[Tail(q) \o s] < r + Cost[s] /\ Cost[Tail(q) \o s] \in Nat
        /\ Cost[s] \in Nat
    BY <1>2, CostIs DEF Near
  <1>5. QED
    BY <1>3, <1>4, EffortType DEF Onto

-----------------------------------------------------------------------------
(* What the items cost.                                                    *)

LEMMA ItemsCost ==
  /\ \A w : Consumes(Take(w)) /\ Effort(Take(w)) = 1
  /\ Consumes(Fail) /\ Effort(Fail) = 1
  /\ \A w : Consumes(List(w)) /\ Effort(List(w)) = 7
  /\ \A w, n : Consumes(Item("list", w, n)) /\ Effort(Item("list", w, n)) = 7
  /\ \A w, n : Consumes(Item("comma", w, n)) /\ Effort(Item("comma", w, n)) = 2
  /\ \A n : ~Consumes(Item("rhs", "", n)) /\ Effort(Item("rhs", "", n)) = 2
  /\ \A n : ~Consumes(LeaveDefer(n)) /\ Effort(LeaveDefer(n)) = 1
  /\ Effort(Drop) = 1 /\ Effort(Hold) = 1 /\ Effort(Release) = 1
  /\ \A w : Effort(Give(w)) = 1
  /\ \A w, n : Effort(Make(w, n)) = 1
  BY DEF Consumes, Effort, Take, Fail, List, Item, LeaveDefer, Drop, Hold, Release, Give, Make

LEMMA CallsCost ==
  /\ \A f : (Consumes(Call(f)) <=> f \in Consumers) /\ Effort(Call(f)) = Depth(f)
  /\ \A f, n : (Consumes(Go(f, n)) <=> f \in Consumers) /\ Effort(Go(f, n)) = Depth(f)
  BY DEF Consumes, Effort, Call, Go, Item

LEMMA TakersCost ==
  /\ TakeFirst \subseteq Consumers /\ \A f \in TakeFirst : Depth(f) = 2
  /\ "agg_expr" \in TakeFirst /\ "args_type" \in TakeFirst /\ "attrs" \in TakeFirst
  /\ "block_stmt" \in TakeFirst /\ "bool_expr" \in TakeFirst
  /\ "bracket_type" \in TakeFirst /\ "break_stmt" \in TakeFirst /\ "chr_expr" \in TakeFirst
  /\ "continue_stmt" \in TakeFirst /\ "defer_stmt" \in TakeFirst /\ "effect" \in TakeFirst
  /\ "flt_expr" \in TakeFirst /\ "fn" \in TakeFirst /\ "fn_type" \in TakeFirst
  /\ "for_stmt" \in TakeFirst /\ "group_type" \in TakeFirst /\ "ident_type" \in TakeFirst
  /\ "if_stmt" \in TakeFirst /\ "import" \in TakeFirst /\ "index_expr" \in TakeFirst
  /\ "int_expr" \in TakeFirst /\ "let_stmt" \in TakeFirst /\ "module" \in TakeFirst
  /\ "ptr_type" \in TakeFirst /\ "return_stmt" \in TakeFirst
  /\ "selector_expr" \in TakeFirst /\ "str_expr" \in TakeFirst
  /\ "tuple_expr" \in TakeFirst /\ "tuple_type" \in TakeFirst /\ "typedef" \in TakeFirst
  /\ "using_stmt" \in TakeFirst /\ "var_expr" \in TakeFirst /\ "varargs_type" \in TakeFirst
  BY DEF TakeFirst, Consumers, Depth

LEMMA LookersCost ==
  /\ \A f \in Lookers : Depth(f) = 2
  /\ "effect_ref" \in Lookers /\ "no_trailing_comma" \in Lookers /\ "enum_init" \in Lookers
  /\ "effects" \in Lookers /\ "ret" \in Lookers /\ "else_if" \in Lookers
  /\ "for_post" \in Lookers /\ "for_else" \in Lookers /\ "assignment" \in Lookers
  BY DEF Lookers, Depth

LEMMA ConsumersCost ==
  /\ "call_expr" \in Consumers /\ "postfix_expr" \in Consumers
  /\ "unary_expr" \in Consumers /\ "expr" \in Consumers /\ "primary_expr" \in Consumers
  /\ "type_expr" \in Consumers /\ "type" \in Consumers /\ "alternative" \in Consumers
  /\ "at_type" \in Consumers /\ "atom_type" \in Consumers /\ "in_brackets" \in Consumers
  /\ "stmt" \in Consumers /\ "only_let" \in Consumers /\ "else_arm" \in Consumers
  /\ "post_stmt" \in Consumers /\ "expr_stmt" \in Consumers
  /\ Depth("call_expr") = 3 /\ Depth("postfix_expr") = 4 /\ Depth("unary_expr") = 5
  /\ Depth("expr") = 6 /\ Depth("primary_expr") = 3 /\ Depth("type_expr") = 6
  /\ Depth("type") = 5 /\ Depth("alternative") = 3 /\ Depth("at_type") = 7
  /\ Depth("atom_type") = 6 /\ Depth("in_brackets") = 8 /\ Depth("stmt") = 8
  /\ Depth("only_let") = 3 /\ Depth("else_arm") = 3 /\ Depth("post_stmt") = 8
  /\ Depth("expr_stmt") = 7
  <1>1. /\ "call_expr" \in Consumers /\ "postfix_expr" \in Consumers
        /\ "unary_expr" \in Consumers /\ "expr" \in Consumers
        /\ "primary_expr" \in Consumers /\ "type_expr" \in Consumers
        /\ "type" \in Consumers /\ "alternative" \in Consumers /\ "at_type" \in Consumers
        /\ "atom_type" \in Consumers /\ "in_brackets" \in Consumers /\ "stmt" \in Consumers
        /\ "only_let" \in Consumers /\ "else_arm" \in Consumers
        /\ "post_stmt" \in Consumers /\ "expr_stmt" \in Consumers
    BY DEF Consumers
  <1>2. /\ Depth("call_expr") = 3 /\ Depth("postfix_expr") = 4 /\ Depth("unary_expr") = 5
        /\ Depth("expr") = 6 /\ Depth("primary_expr") = 3 /\ Depth("type_expr") = 6
        /\ Depth("type") = 5 /\ Depth("alternative") = 3 /\ Depth("at_type") = 7
        /\ Depth("atom_type") = 6 /\ Depth("in_brackets") = 8 /\ Depth("stmt") = 8
        /\ Depth("only_let") = 3 /\ Depth("else_arm") = 3 /\ Depth("post_stmt") = 8
        /\ Depth("expr_stmt") = 7
    BY DEF Depth, TakeFirst, Lookers
  <1>3. QED
    BY <1>1, <1>2

LEMMA OthersCost ==
  /\ Depth("postfix_loop") = 4 /\ Depth("union") = 4 /\ Depth("name_or_elem") = 3
  /\ Depth("more_args") = 3 /\ Depth("stmts") = 9 /\ Depth("return_value") = 7
  /\ Depth("init") = 3 /\ Depth("for_expr") = 7 /\ Depth("unit") = 3
  BY DEF Depth, TakeFirst, Lookers

LEMMA NamesOnlyCost ==
  ASSUME NEW f, f \notin Functions
  PROVE  f \notin Consumers /\ Depth(f) = 3
  <1>1. TakeFirst \subseteq Functions /\ Lookers \subseteq Functions
    BY DEF TakeFirst, Lookers, Functions
  <1>2. Consumers \subseteq Functions
    BY <1>1 DEF Consumers, Functions
  <1>3. Depth(f) = 3
    BY <1>1 DEF Depth, Functions
  <1>4. QED
    BY <1>2, <1>3


LEMMA Heads ==
  /\ \A a : <<a>> # <<>> /\ Head(<<a>>) = a
  /\ \A a, b : <<a, b>> # <<>> /\ Head(<<a, b>>) = a
  /\ \A a, b, c : <<a, b, c>> # <<>> /\ Head(<<a, b, c>>) = a
  /\ \A a, b, c, d : <<a, b, c, d>> # <<>> /\ Head(<<a, b, c, d>>) = a
  /\ \A a, b, c, d, e : <<a, b, c, d, e>> # <<>> /\ Head(<<a, b, c, d, e>>) = a
  /\ \A a, b, c, d, e, f : <<a, b, c, d, e, f>> # <<>> /\ Head(<<a, b, c, d, e, f>>) = a
  /\ \A a, b, c, d, e, f, g :
       <<a, b, c, d, e, f, g>> # <<>> /\ Head(<<a, b, c, d, e, f, g>>) = a
  OBVIOUS

-----------------------------------------------------------------------------
(* What the rules cost.                                                    *)

\* What stands in the place of a call costs less than the call.
Fine(f, q) ==
  /\ f \in Consumers => Soon(q, Depth(f))
  /\ f \notin Consumers => Near(q, Depth(f))

\* A call may begin with an item that consumes a token and costs less, or leave nothing
\* to do.
Starts(item, f) == Consumes(item) /\ Effort(item) < Depth(f)
Begins(f, q) ==
  \/ q # <<>> /\ Starts(Head(q), f)
  \/ q = <<>> /\ f \notin Consumers

LEMMA DepthType == \A f : Depth(f) \in Nat /\ Depth(f) > 0
  BY DEF Depth

LEMMA PlainSeqs == Seq(Plain) \subseteq Seq(Items)
  <1>1. Plain \subseteq Items
    BY DEF Plain
  <1>2. QED
    BY <1>1

LEMMA BeginsFine ==
  ASSUME NEW f, NEW q \in Seq(Items), Begins(f, q)
  PROVE  Fine(f, q)
  <1>1. Depth(f) \in Nat /\ Depth(f) > 0
    BY DepthType
  <1>2. CASE q # <<>> /\ Starts(Head(q), f)
    <2>0. Leading(q, Depth(f))
      BY <1>2 DEF Starts, Leading
    <2>1. Soon(q, Depth(f))
      BY <1>1, <2>0, LeadingSoon
    <2>2. \A s \in Seq(Items) : q \o s \in Seq(Items)
      OBVIOUS
    <2>3. Near(q, Depth(f))
      BY <1>1, <2>1, <2>2, SoonNear
    <2>4. QED
      BY <2>1, <2>3 DEF Fine
  <1>3. CASE q = <<>> /\ f \notin Consumers
    BY <1>1, <1>3, NothingNear DEF Fine
  <1>4. QED
    BY <1>2, <1>3 DEF Begins

LEMMA NotConsumers ==
  /\ "effect_ref" \notin Consumers /\ "postfix_loop" \notin Consumers
  /\ "no_trailing_comma" \notin Consumers /\ "union" \notin Consumers
  /\ "name_or_elem" \notin Consumers /\ "enum_init" \notin Consumers
  /\ "more_args" \notin Consumers /\ "effects" \notin Consumers /\ "ret" \notin Consumers
  /\ "stmts" \notin Consumers /\ "return_value" \notin Consumers /\ "init" \notin Consumers
  /\ "else_if" \notin Consumers /\ "for_expr" \notin Consumers
  /\ "for_post" \notin Consumers /\ "for_else" \notin Consumers
  /\ "assignment" \notin Consumers /\ "unit" \notin Consumers
  BY DEF Consumers, TakeFirst


\* Any call may begin with a token it must find, or give up.
LEMMA TakeStarts == \A f : Starts(Fail, f) /\ \A w : Starts(Take(w), f)
  <1>1. \A f : Depth(f) \in Nat /\ Depth(f) >= 2
    BY DEF Depth
  <1>2. Consumes(Fail) /\ Effort(Fail) = 1
    BY DEF Consumes, Effort, Fail, Item
  <1>3. ASSUME NEW w PROVE Consumes(Take(w)) /\ Effort(Take(w)) = 1
    BY DEF Consumes, Effort, Take, Item
  <1>4. QED
    BY <1>1, <1>2, <1>3 DEF Starts

\* The other pairs there are.
LEMMA CallStarts ==
  /\ Starts(Call("tuple_expr"), "call_expr")
  /\ Starts(Call("primary_expr"), "postfix_expr")
  /\ Starts(Call("call_expr"), "postfix_loop")
  /\ Starts(Call("index_expr"), "postfix_loop")
  /\ \A n : Starts(Go("agg_expr", n), "postfix_loop")
  /\ Starts(Call("postfix_expr"), "unary_expr")
  /\ Starts(Call("unary_expr"), "expr")
  /\ Starts(Call("bool_expr"), "primary_expr")
  /\ Starts(Call("chr_expr"), "primary_expr")
  /\ Starts(Call("flt_expr"), "primary_expr")
  /\ Starts(Call("int_expr"), "primary_expr")
  /\ Starts(Call("selector_expr"), "primary_expr")
  /\ Starts(Call("str_expr"), "primary_expr")
  /\ Starts(Call("tuple_expr"), "primary_expr")
  /\ Starts(Call("var_expr"), "primary_expr")
  /\ \A n : Starts(Go("agg_expr", n), "primary_expr")
  /\ Starts(Call("type"), "type_expr")
  /\ Starts(Call("bracket_type"), "alternative")
  /\ Starts(Call("fn_type"), "alternative")
  /\ Starts(Call("group_type"), "alternative")
  /\ Starts(Call("ident_type"), "alternative")
  /\ Starts(Call("ptr_type"), "alternative")
  /\ Starts(Call("tuple_type"), "alternative")
  /\ Starts(Call("varargs_type"), "alternative")
  /\ Starts(Call("atom_type"), "at_type")
  /\ Starts(Call("attrs"), "at_type")
  /\ Starts(Call("type"), "atom_type")
  /\ Starts(Call("expr"), "in_brackets")
  /\ \A w : Starts(List(w), "in_brackets")
  /\ Starts(Call("args_type"), "more_args")
  /\ Starts(Call("block_stmt"), "stmt")
  /\ Starts(Call("break_stmt"), "stmt")
  /\ Starts(Call("continue_stmt"), "stmt")
  /\ Starts(Call("defer_stmt"), "stmt")
  /\ Starts(Call("expr_stmt"), "stmt")
  /\ Starts(Call("for_stmt"), "stmt")
  /\ Starts(Call("if_stmt"), "stmt")
  /\ Starts(Call("let_stmt"), "stmt")
  /\ Starts(Call("return_stmt"), "stmt")
  /\ Starts(Call("using_stmt"), "stmt")
  /\ Starts(Call("let_stmt"), "only_let")
  /\ Starts(Call("stmt"), "stmts")
  /\ Starts(Call("expr"), "return_value")
  /\ Starts(Call("let_stmt"), "init")
  /\ Starts(Call("block_stmt"), "else_arm")
  /\ Starts(Call("if_stmt"), "else_arm")
  /\ Starts(Call("expr"), "for_expr")
  /\ Starts(Call("expr_stmt"), "post_stmt")
  /\ Starts(Call("expr"), "expr_stmt")
  <1>1. ASSUME NEW g \in Consumers, NEW f, Depth(g) < Depth(f)
        PROVE  Starts(Call(g), f) /\ \A n : Starts(Go(g, n), f)
    <2>1. Consumes(Call(g)) /\ Effort(Call(g)) = Depth(g)
      BY CallsCost
    <2>2. \A n : Consumes(Go(g, n)) /\ Effort(Go(g, n)) = Depth(g)
      BY CallsCost
    <2>3. QED
      BY <1>1, <2>1, <2>2 DEF Starts
  <1>2. \A w : Starts(List(w), "in_brackets")
    <2>1. ASSUME NEW w PROVE Consumes(List(w)) /\ Effort(List(w)) = 7
      BY ItemsCost
    <2>2. QED
      BY <2>1, ConsumersCost DEF Starts
  <1>3. /\ Starts(Call("tuple_expr"), "call_expr")
        /\ Starts(Call("primary_expr"), "postfix_expr")
        /\ Starts(Call("call_expr"), "postfix_loop")
        /\ Starts(Call("index_expr"), "postfix_loop")
        /\ \A n : Starts(Go("agg_expr", n), "postfix_loop")
        /\ Starts(Call("postfix_expr"), "unary_expr")
        /\ Starts(Call("unary_expr"), "expr")
        /\ Starts(Call("bool_expr"), "primary_expr")
    BY <1>1, TakersCost, ConsumersCost, OthersCost
  <1>4. /\ Starts(Call("chr_expr"), "primary_expr")
        /\ Starts(Call("flt_expr"), "primary_expr")
        /\ Starts(Call("int_expr"), "primary_expr")
        /\ Starts(Call("selector_expr"), "primary_expr")
        /\ Starts(Call("str_expr"), "primary_expr")
        /\ Starts(Call("tuple_expr"), "primary_expr")
        /\ Starts(Call("var_expr"), "primary_expr")
        /\ \A n : Starts(Go("agg_expr", n), "primary_expr")
    BY <1>1, TakersCost, ConsumersCost, OthersCost
  <1>5. /\ Starts(Call("type"), "type_expr")
        /\ Starts(Call("bracket_type"), "alternative")
        /\ Starts(Call("fn_type"), "alternative")
        /\ Starts(Call("group_type"), "alternative")
        /\ Starts(Call("ident_type"), "alternative")
        /\ Starts(Call("ptr_type"), "alternative")
        /\ Starts(Call("tuple_type"), "alternative")
        /\ Starts(Call("varargs_type"), "alternative")
    BY <1>1, TakersCost, ConsumersCost, OthersCost
  <1>6. /\ Starts(Call("atom_type"), "at_type")
        /\ Starts(Call("attrs"), "at_type")
        /\ Starts(Call("type"), "atom_type")
        /\ Starts(Call("expr"), "in_brackets")
        /\ Starts(Call("args_type"), "more_args")
        /\ Starts(Call("block_stmt"), "stmt")
        /\ Starts(Call("break_stmt"), "stmt")
    BY <1>1, TakersCost, ConsumersCost, OthersCost
  <1>7. /\ Starts(Call("continue_stmt"), "stmt")
        /\ Starts(Call("defer_stmt"), "stmt")
        /\ Starts(Call("expr_stmt"), "stmt")
        /\ Starts(Call("for_stmt"), "stmt")
        /\ Starts(Call("if_stmt"), "stmt")
        /\ Starts(Call("let_stmt"), "stmt")
        /\ Starts(Call("return_stmt"), "stmt")
        /\ Starts(Call("using_stmt"), "stmt")
    BY <1>1, TakersCost, ConsumersCost, OthersCost
  <1>8. /\ Starts(Call("let_stmt"), "only_let")
        /\ Starts(Call("stmt"), "stmts")
        /\ Starts(Call("expr"), "return_value")
        /\ Starts(Call("let_stmt"), "init")
        /\ Starts(Call("block_stmt"), "else_arm")
        /\ Starts(Call("if_stmt"), "else_arm")
        /\ Starts(Call("expr"), "for_expr")
        /\ Starts(Call("expr_stmt"), "post_stmt")
    BY <1>1, TakersCost, ConsumersCost, OthersCost
  <1>9. /\ Starts(Call("expr"), "expr_stmt")
    BY <1>1, TakersCost, ConsumersCost, OthersCost
  <1>10. QED
    BY <1>2, <1>3, <1>4, <1>5, <1>6, <1>7, <1>8, <1>9

LEMMA RulesBegin1 ==
  ASSUME NEW t \in Tokens, NEW n \in Nat
  PROVE  /\ Begins("index_expr", parse_index_expr)
         /\ Begins("call_expr", parse_call_expr)
         /\ Begins("postfix_expr", parse_postfix_expr)
         /\ Begins("effect_ref", effect_ref(t))
         /\ Begins("postfix_loop", postfix_loop(t))
         /\ Begins("unary_expr", parse_unary_expr(t))
         /\ Begins("expr", parse_expr)
         /\ Begins("primary_expr", parse_primary_expr(t))
         /\ Begins("agg_expr", parse_agg_expr(n))
         /\ Begins("type_expr", parse_type_expr)
         /\ Begins("var_expr", parse_var_expr)
  <1>1. Begins("index_expr", parse_index_expr)
    BY Heads, TakeStarts
    DEF parse_index_expr, Begins
  <1>2. Begins("call_expr", parse_call_expr)
    BY Heads, TakeStarts, CallStarts
    DEF parse_call_expr, Begins
  <1>3. Begins("postfix_expr", parse_postfix_expr)
    BY Heads, TakeStarts, CallStarts
    DEF parse_postfix_expr, Begins
  <1>4. Begins("effect_ref", effect_ref(t))
    <2> DEFINE q == <<Take("NOT"), Make("postfix", 1)>>
    <2>1. q # <<>> /\ Head(q) = Take("NOT")
      BY Heads
    <2>2. effect_ref(t) = IF t = "NOT" THEN q ELSE <<>>
      BY DEF effect_ref, Opt
    <2> HIDE DEF q
    <2>3. Starts(Head(q), "effect_ref")
      BY <2>1, TakeStarts
    <2>4. QED
      BY <2>2, <2>1, <2>3, NotConsumers DEF Begins
  <1>5. Begins("postfix_loop", postfix_loop(t))
    <2>1. Begins("postfix_loop", <<Take("DOT"), Call("primary_expr"), Make("postfix", 2), Call("postfix_loop")>>)
      BY Heads, TakeStarts, CallStarts DEF Begins
    <2>2. Begins("postfix_loop", <<Call("index_expr"), Call("postfix_loop")>>)
      BY Heads, TakeStarts, CallStarts DEF Begins
    <2>3. Begins("postfix_loop", <<Call("call_expr"), Call("postfix_loop")>>)
      BY Heads, TakeStarts, CallStarts DEF Begins
    <2>4. Begins("postfix_loop", <<Go("agg_expr", 1), Call("postfix_loop")>>)
      BY Heads, TakeStarts, CallStarts DEF Begins
    <2>5. Begins("postfix_loop", <<>>)
      BY Heads, TakeStarts, CallStarts, NotConsumers DEF Begins
    <2>6. QED
      BY <2>1, <2>2, <2>3, <2>4, <2>5 DEF postfix_loop
  <1>6. Begins("unary_expr", parse_unary_expr(t))
    BY Heads, TakeStarts, CallStarts
    DEF parse_unary_expr, Begins
  <1>7. Begins("expr", parse_expr)
    BY Heads, TakeStarts, CallStarts
    DEF parse_expr, Begins
  <1>8. Begins("primary_expr", parse_primary_expr(t))
    <2>1. Begins("primary_expr", <<Call("selector_expr")>>)
      BY Heads, TakeStarts, CallStarts DEF Begins
    <2>2. Begins("primary_expr", <<Call("var_expr")>>)
      BY Heads, TakeStarts, CallStarts DEF Begins
    <2>3. Begins("primary_expr", <<Call("bool_expr")>>)
      BY Heads, TakeStarts, CallStarts DEF Begins
    <2>4. Begins("primary_expr", <<Call("int_expr")>>)
      BY Heads, TakeStarts, CallStarts DEF Begins
    <2>5. Begins("primary_expr", <<Call("flt_expr")>>)
      BY Heads, TakeStarts, CallStarts DEF Begins
    <2>6. Begins("primary_expr", <<Call("str_expr")>>)
      BY Heads, TakeStarts, CallStarts DEF Begins
    <2>7. Begins("primary_expr", <<Call("chr_expr")>>)
      BY Heads, TakeStarts, CallStarts DEF Begins
    <2>8. Begins("primary_expr", <<Call("tuple_expr")>>)
      BY Heads, TakeStarts, CallStarts DEF Begins
    <2>9. Begins("primary_expr", <<Take("KW_NEW"), Call("type_expr")>>)
      BY Heads, TakeStarts, CallStarts DEF Begins
    <2>10. Begins("primary_expr", <<Go("agg_expr", 0)>>)
      BY Heads, TakeStarts, CallStarts DEF Begins
    <2>11. Begins("primary_expr", <<Fail>>)
      BY Heads, TakeStarts, CallStarts DEF Begins
    <2>12. QED
      BY <2>1, <2>2, <2>3, <2>4, <2>5, <2>6, <2>7, <2>8, <2>9, <2>10, <2>11 DEF parse_primary_expr
  <1>9. Begins("agg_expr", parse_agg_expr(n))
    BY Heads, TakeStarts
    DEF parse_agg_expr, Begins
  <1>10. Begins("type_expr", parse_type_expr)
    BY Heads, TakeStarts, CallStarts
    DEF parse_type_expr, Begins
  <1>11. Begins("var_expr", parse_var_expr)
    BY Heads, TakeStarts
    DEF parse_var_expr, Begins
  <1>12. QED
    BY <1>1, <1>2, <1>3, <1>4, <1>5, <1>6, <1>7, <1>8, <1>9, <1>10, <1>11

LEMMA RulesBegin2 ==
  ASSUME NEW t \in Tokens, NEW n \in Nat
  PROVE  /\ Begins("selector_expr", parse_selector_expr)
         /\ Begins("int_expr", parse_int_expr)
         /\ Begins("flt_expr", parse_flt_expr)
         /\ Begins("str_expr", parse_str_expr)
         /\ Begins("chr_expr", parse_chr_expr)
         /\ Begins("bool_expr", parse_bool_expr(t))
         /\ Begins("tuple_expr", parse_tuple_expr)
         /\ Begins("no_trailing_comma", no_trailing_comma(t))
         /\ Begins("alternative", alternative(n, t))
         /\ Begins("at_type", at_type(n, t))
         /\ Begins("ident_type", parse_ident_type)
  <1>1. Begins("selector_expr", parse_selector_expr)
    BY Heads, TakeStarts
    DEF parse_selector_expr, Begins
  <1>2. Begins("int_expr", parse_int_expr)
    BY Heads, TakeStarts
    DEF parse_int_expr, Begins
  <1>3. Begins("flt_expr", parse_flt_expr)
    BY Heads, TakeStarts
    DEF parse_flt_expr, Begins
  <1>4. Begins("str_expr", parse_str_expr)
    BY Heads, TakeStarts
    DEF parse_str_expr, Begins
  <1>5. Begins("chr_expr", parse_chr_expr)
    BY Heads, TakeStarts
    DEF parse_chr_expr, Begins
  <1>6. Begins("bool_expr", parse_bool_expr(t))
    BY Heads, TakeStarts
    DEF parse_bool_expr, Begins
  <1>7. Begins("tuple_expr", parse_tuple_expr)
    BY Heads, TakeStarts
    DEF parse_tuple_expr, Begins
  <1>8. Begins("no_trailing_comma", no_trailing_comma(t))
    BY Heads, TakeStarts, NotConsumers
    DEF no_trailing_comma, Begins, Opt
  <1>9. Begins("alternative", alternative(n, t))
    BY Heads, TakeStarts, CallStarts
    DEF alternative, Begins
  <1>10. Begins("at_type", at_type(n, t))
    BY Heads, TakeStarts, CallStarts
    DEF at_type, Begins
  <1>11. Begins("ident_type", parse_ident_type)
    BY Heads, TakeStarts
    DEF parse_ident_type, Begins
  <1>12. QED
    BY <1>1, <1>2, <1>3, <1>4, <1>5, <1>6, <1>7, <1>8, <1>9, <1>10, <1>11

LEMMA RulesBegin3 ==
  ASSUME NEW t \in Tokens, NEW n \in Nat
  PROVE  /\ Begins("tuple_type", parse_tuple_type)
         /\ Begins("args_type", parse_args_type)
         /\ Begins("group_type", parse_group_type)
         /\ Begins("varargs_type", parse_varargs_type)
         /\ Begins("ptr_type", parse_ptr_type)
         /\ Begins("atom_type", parse_atom_type)
         /\ Begins("bracket_type", parse_bracket_type)
         /\ Begins("in_brackets", in_brackets(t))
         /\ Begins("enum_init", enum_init(t))
         /\ Begins("fn_type", parse_fn_type)
         /\ Begins("more_args", more_args(t))
  <1>1. Begins("tuple_type", parse_tuple_type)
    BY Heads, TakeStarts
    DEF parse_tuple_type, Begins
  <1>2. Begins("args_type", parse_args_type)
    BY Heads, TakeStarts
    DEF parse_args_type, Begins
  <1>3. Begins("group_type", parse_group_type)
    BY Heads, TakeStarts
    DEF parse_group_type, Begins
  <1>4. Begins("varargs_type", parse_varargs_type)
    BY Heads, TakeStarts
    DEF parse_varargs_type, Begins
  <1>5. Begins("ptr_type", parse_ptr_type)
    BY Heads, TakeStarts
    DEF parse_ptr_type, Begins
  <1>6. Begins("atom_type", parse_atom_type)
    BY Heads, TakeStarts, CallStarts
    DEF parse_atom_type, Begins
  <1>7. Begins("bracket_type", parse_bracket_type)
    BY Heads, TakeStarts
    DEF parse_bracket_type, Begins
  <1>8. Begins("in_brackets", in_brackets(t))
    BY Heads, TakeStarts, CallStarts
    DEF in_brackets, Begins
  <1>9. Begins("enum_init", enum_init(t))
    <2> DEFINE q == <<Take("EQ"), Call("expr"), Drop>>
    <2>1. q # <<>> /\ Head(q) = Take("EQ")
      BY Heads
    <2>2. enum_init(t) = IF t = "EQ" THEN q ELSE <<>>
      BY DEF enum_init, Opt
    <2> HIDE DEF q
    <2>3. Starts(Head(q), "enum_init")
      BY <2>1, TakeStarts
    <2>4. QED
      BY <2>2, <2>1, <2>3, NotConsumers DEF Begins
  <1>10. Begins("fn_type", parse_fn_type)
    BY Heads, TakeStarts
    DEF parse_fn_type, Begins
  <1>11. Begins("more_args", more_args(t))
    BY Heads, TakeStarts, CallStarts, NotConsumers
    DEF more_args, Begins, Opt
  <1>12. QED
    BY <1>1, <1>2, <1>3, <1>4, <1>5, <1>6, <1>7, <1>8, <1>9, <1>10, <1>11

LEMMA RulesBegin4 ==
  ASSUME NEW t \in Tokens, NEW n \in Nat
  PROVE  /\ Begins("effects", effects(t))
         /\ Begins("ret", ret(t))
         /\ Begins("stmt", parse_stmt(t))
         /\ Begins("only_let", only_let(t))
         /\ Begins("block_stmt", parse_block_stmt)
         /\ Begins("stmts", stmts(t))
         /\ Begins("return_stmt", parse_return_stmt)
         /\ Begins("return_value", return_value(t))
         /\ Begins("defer_stmt", parse_defer_stmt)
         /\ Begins("break_stmt", parse_break_stmt)
         /\ Begins("continue_stmt", parse_continue_stmt)
  <1>1. Begins("effects", effects(t))
    BY Heads, TakeStarts, NotConsumers
    DEF effects, Begins, Opt
  <1>2. Begins("ret", ret(t))
    BY Heads, TakeStarts, NotConsumers
    DEF ret, Begins, Opt
  <1>3. Begins("stmt", parse_stmt(t))
    BY Heads, TakeStarts, CallStarts
    DEF parse_stmt, Begins
  <1>4. Begins("only_let", only_let(t))
    BY Heads, TakeStarts, CallStarts
    DEF only_let, Begins
  <1>5. Begins("block_stmt", parse_block_stmt)
    BY Heads, TakeStarts
    DEF parse_block_stmt, Begins
  <1>6. Begins("stmts", stmts(t))
    BY Heads, TakeStarts, CallStarts, NotConsumers
    DEF stmts, Begins
  <1>7. Begins("return_stmt", parse_return_stmt)
    BY Heads, TakeStarts
    DEF parse_return_stmt, Begins
  <1>8. Begins("return_value", return_value(t))
    BY Heads, TakeStarts, CallStarts, NotConsumers
    DEF return_value, Begins
  <1>9. Begins("defer_stmt", parse_defer_stmt)
    BY Heads, TakeStarts
    DEF parse_defer_stmt, Begins
  <1>10. Begins("break_stmt", parse_break_stmt)
    BY Heads, TakeStarts
    DEF parse_break_stmt, Begins
  <1>11. Begins("continue_stmt", parse_continue_stmt)
    BY Heads, TakeStarts
    DEF parse_continue_stmt, Begins
  <1>12. QED
    BY <1>1, <1>2, <1>3, <1>4, <1>5, <1>6, <1>7, <1>8, <1>9, <1>10, <1>11

LEMMA RulesBegin5 ==
  ASSUME NEW t \in Tokens, NEW n \in Nat
  PROVE  /\ Begins("if_stmt", parse_if_stmt)
         /\ Begins("init", init(t))
         /\ Begins("else_if", else_if(t))
         /\ Begins("else_arm", else_arm(t))
         /\ Begins("let_stmt", parse_let_stmt)
         /\ Begins("using_stmt", parse_using_stmt)
         /\ Begins("for_stmt", parse_for_stmt)
         /\ Begins("for_expr", for_expr(t))
         /\ Begins("for_post", for_post(t))
         /\ Begins("post_stmt", post_stmt(t))
         /\ Begins("for_else", for_else(t))
  <1>1. Begins("if_stmt", parse_if_stmt)
    BY Heads, TakeStarts
    DEF parse_if_stmt, Begins
  <1>2. Begins("init", init(t))
    BY Heads, TakeStarts, CallStarts, NotConsumers
    DEF init, Begins, Opt
  <1>3. Begins("else_if", else_if(t))
    BY Heads, TakeStarts, NotConsumers
    DEF else_if, Begins, Opt
  <1>4. Begins("else_arm", else_arm(t))
    BY Heads, TakeStarts, CallStarts
    DEF else_arm, Begins
  <1>5. Begins("let_stmt", parse_let_stmt)
    BY Heads, TakeStarts
    DEF parse_let_stmt, Begins
  <1>6. Begins("using_stmt", parse_using_stmt)
    BY Heads, TakeStarts
    DEF parse_using_stmt, Begins
  <1>7. Begins("for_stmt", parse_for_stmt)
    BY Heads, TakeStarts
    DEF parse_for_stmt, Begins
  <1>8. Begins("for_expr", for_expr(t))
    BY Heads, TakeStarts, CallStarts, NotConsumers
    DEF for_expr, Begins
  <1>9. Begins("for_post", for_post(t))
    <2> DEFINE q == <<Take("SEMI"), Call("post_stmt")>>
    <2>1. q # <<>> /\ Head(q) = Take("SEMI")
      BY Heads
    <2>2. for_post(t) = IF t = "SEMI" THEN q ELSE <<>>
      BY DEF for_post, Opt
    <2> HIDE DEF q
    <2>3. Starts(Head(q), "for_post")
      BY <2>1, TakeStarts
    <2>4. QED
      BY <2>2, <2>1, <2>3, NotConsumers DEF Begins
  <1>10. Begins("post_stmt", post_stmt(t))
    BY Heads, TakeStarts, CallStarts
    DEF post_stmt, Begins
  <1>11. Begins("for_else", for_else(t))
    BY Heads, TakeStarts, NotConsumers
    DEF for_else, Begins, Opt
  <1>12. QED
    BY <1>1, <1>2, <1>3, <1>4, <1>5, <1>6, <1>7, <1>8, <1>9, <1>10, <1>11

LEMMA RulesBegin6 ==
  ASSUME NEW t \in Tokens, NEW n \in Nat
  PROVE  /\ Begins("expr_stmt", parse_expr_stmt)
         /\ Begins("assignment", assignment(t))
         /\ Begins("fn", parse_fn)
         /\ Begins("typedef", parse_typedef)
         /\ Begins("module", parse_module)
         /\ Begins("import", parse_import)
         /\ Begins("effect", parse_effect)
         /\ Begins("attrs", parse_attrs)
  <1>1. Begins("expr_stmt", parse_expr_stmt)
    BY Heads, TakeStarts, CallStarts
    DEF parse_expr_stmt, Begins
  <1>2. Begins("assignment", assignment(t))
    BY Heads, TakeStarts, NotConsumers
    DEF assignment, Begins
  <1>3. Begins("fn", parse_fn)
    BY Heads, TakeStarts
    DEF parse_fn, Begins
  <1>4. Begins("typedef", parse_typedef)
    BY Heads, TakeStarts
    DEF parse_typedef, Begins
  <1>5. Begins("module", parse_module)
    BY Heads, TakeStarts
    DEF parse_module, Begins
  <1>6. Begins("import", parse_import)
    BY Heads, TakeStarts
    DEF parse_import, Begins
  <1>7. Begins("effect", parse_effect)
    BY Heads, TakeStarts
    DEF parse_effect, Begins
  <1>8. Begins("attrs", parse_attrs)
    BY Heads, TakeStarts
    DEF parse_attrs, Begins
  <1>9. QED
    BY <1>1, <1>2, <1>3, <1>4, <1>5, <1>6, <1>7, <1>8

\* The four rules that begin with what consumes nothing.
LEMMA RestFine ==
  ASSUME NEW t \in Tokens, NEW n \in Nat
  PROVE  /\ Fine("type", parse_type)
         /\ Fine("name_or_elem", name_or_elem(t))
         /\ Fine("union", union_type(n, t))
         /\ Fine("unit", parse(t))
  <1>1. /\ Drop \in Items /\ Release \in Items /\ Give("union") \in Items
        /\ Make("type", n) \in Items /\ Hold \in Items /\ Go("alternative", 0) \in Items
        /\ Take("COLON") \in Items /\ Call("type") \in Items
    <2>1. Plain \subseteq Items /\ 0 \in Nat
      BY DEF Plain
    <2>2. Drop \in Plain /\ Release \in Plain /\ Hold \in Plain
      BY PlainItems
    <2>3. Give("union") \in Plain /\ Make("type", n) \in Plain /\ Call("type") \in Plain
      BY PlainItems, Names
    <2>4. Go("alternative", 0) \in Plain
      BY <2>1, Alternatives
    <2>5. Take("COLON") \in Plain
      <3>1. "COLON" \in Whats
        BY WhatsAre DEF Tokens
      <3>2. QED
        BY <3>1, PlainItems
    <2>6. QED
      BY <2>1, <2>2, <2>3, <2>4, <2>5
  <1>2. Near(<<>>, 1) /\ Near(<<>>, 2) /\ Near(<<>>, 3)
    BY NothingNear
  <1>3. ASSUME NEW a \in Items, NEW r \in Nat, Effort(a) = 1, Near(<<>>, r)
        PROVE  Near(<<a>>, 1 + r)
    <2>1. <<a>> \in Seq(Items) /\ <<a>> # <<>> /\ Head(<<a>>) = a /\ Tail(<<a>>) = <<>>
      OBVIOUS
    <2>2. QED
      BY <1>3, <2>1, BeforeNear
  <1>4. Fine("type", parse_type)
    <2> DEFINE q == <<Hold, Go("alternative", 0)>>
               p == <<Go("alternative", 0)>>
    <2>1. /\ q \in Seq(Items) /\ q # <<>> /\ Head(q) = Hold /\ Tail(q) = p
          /\ p \in Seq(Items) /\ p # <<>> /\ Head(p) = Go("alternative", 0)
      BY <1>1
    <2>2. parse_type = q
      BY DEF parse_type
    <2> HIDE DEF q, p
    <2>3. Leading(p, 4)
      BY <2>1, CallsCost, ConsumersCost DEF Leading
    <2>4. Soon(p, 4)
      BY <2>1, <2>3, LeadingSoon
    <2>5. Soon(q, Effort(Head(q)) + 4)
      BY <2>1, <2>4, BeforeSoon
    <2>6. Effort(Head(q)) = 1
      BY <2>1, ItemsCost
    <2>7. Soon(q, 5)
      BY <2>5, <2>6
    <2>8. "type" \in Consumers /\ Depth("type") = 5
      BY ConsumersCost
    <2>9. QED
      BY <2>2, <2>7, <2>8 DEF Fine
  <1>5. Fine("name_or_elem", name_or_elem(t))
    <2>1. "name_or_elem" \notin Consumers /\ Depth("name_or_elem") = 3
      BY NotConsumers, OthersCost
    <2>2. Fine("name_or_elem", <<Drop>>)
      <3>1. Effort(Drop) = 1
        BY ItemsCost
      <3>2. Near(<<Drop>>, 1 + 2)
        BY <1>1, <1>2, <1>3, <3>1
      <3>3. QED
        BY <2>1, <3>2 DEF Fine
    <2>3. Fine("name_or_elem", <<Fail>>)
      <3>1. <<Fail>> \in Seq(Items)
        BY PlainItems DEF Plain
      <3>2. Begins("name_or_elem", <<Fail>>)
        BY Heads, TakeStarts DEF Begins
      <3>3. QED
        BY <3>1, <3>2, BeginsFine
    <2>4. Fine("name_or_elem", <<Drop, Take("COLON"), Call("type"), Drop>>)
      <3> DEFINE q == <<Drop, Take("COLON"), Call("type"), Drop>>
                 p == <<Take("COLON"), Call("type"), Drop>>
      <3>1. /\ q \in Seq(Items) /\ q # <<>> /\ Head(q) = Drop /\ Tail(q) = p
            /\ p \in Seq(Items) /\ p # <<>> /\ Head(p) = Take("COLON")
        BY <1>1
      <3> HIDE DEF q, p
      <3>2. Leading(p, 2)
        <4>1. Consumes(Take("COLON")) /\ Effort(Take("COLON")) = 1
          BY ItemsCost
        <4>2. QED
          BY <3>1, <4>1 DEF Leading
      <3>3. Soon(p, 2) /\ \A s \in Seq(Items) : p \o s \in Seq(Items)
        BY <3>1, <3>2, LeadingSoon
      <3>4. Near(p, 2)
        BY <3>3, SoonNear
      <3>5. Near(q, Effort(Head(q)) + 2)
        BY <3>1, <3>4, BeforeNear
      <3>6. Effort(Head(q)) = 1
        BY <3>1, ItemsCost
      <3>7. Near(q, 3)
        BY <3>5, <3>6
      <3>8. QED
        BY <2>1, <3>7 DEF Fine, q
    <2>5. QED
      BY <2>2, <2>3, <2>4 DEF name_or_elem
  <1>6. Fine("union", union_type(n, t))
    <2>1. "union" \notin Consumers /\ Depth("union") = 4
      BY NotConsumers, OthersCost
    <2>2. Fine("union", <<Release>>)
      <3>1. Effort(Release) = 1
        BY ItemsCost
      <3>2. Near(<<Release>>, 1 + 3)
        BY <1>1, <1>2, <1>3, <3>1
      <3>3. QED
        BY <2>1, <3>2 DEF Fine
    <2>3. Fine("union", <<Give("union"), Release, Make("type", n)>>)
      <3> DEFINE p == <<Make("type", n)>>
                 q == <<Release, Make("type", n)>>
                 r == <<Give("union"), Release, Make("type", n)>>
      <3>1. /\ Effort(Give("union")) = 1 /\ Effort(Release) = 1 /\ Effort(Make("type", n)) = 1
        BY ItemsCost
      <3>2. Near(p, 1 + 1)
        BY <1>1, <1>2, <1>3, <3>1
      <3>3. /\ r \in Seq(Items) /\ r # <<>> /\ Head(r) = Give("union") /\ Tail(r) = q
            /\ q \in Seq(Items) /\ q # <<>> /\ Head(q) = Release /\ Tail(q) = p
        BY <1>1
      <3> HIDE DEF p, q, r
      <3>4. Near(p, 2)
        BY <3>2
      <3>5. Near(q, Effort(Head(q)) + 2)
        BY <3>3, <3>4, BeforeNear
      <3>6. Near(q, 3)
        BY <3>1, <3>3, <3>5
      <3>7. Near(r, Effort(Head(r)) + 3)
        BY <3>3, <3>6, BeforeNear
      <3>8. Near(r, 4)
        BY <3>1, <3>3, <3>7
      <3>9. QED
        BY <2>1, <3>8 DEF Fine, r
    <2>4. Fine("union", <<Take("BOR"), Go("alternative", n)>>)
      <3>1. <<Take("BOR"), Go("alternative", n)>> \in Seq(Items)
        <4>1. Take("BOR") \in Plain /\ Go("alternative", n) \in Plain
          BY PlainItems, Names, Alternatives
        <4>2. QED
          BY <4>1, Few, PlainSeqs
      <3>2. Begins("union", <<Take("BOR"), Go("alternative", n)>>)
        BY Heads, TakeStarts DEF Begins
      <3>3. QED
        BY <3>1, <3>2, BeginsFine
    <2>5. QED
      BY <2>2, <2>3, <2>4 DEF union_type
  <1>7. Fine("unit", parse(t))
    <2>1. "unit" \notin Consumers /\ Depth("unit") = 3
      BY NotConsumers, OthersCost
    <2>2. CASE t = "END"
      <3>1. Effort(Release) = 1
        BY ItemsCost
      <3>2. Near(<<Release>>, 1 + 2)
        BY <1>1, <1>2, <1>3, <3>1
      <3>3. parse(t) = <<Release>>
        BY <2>2 DEF parse
      <3>4. QED
        BY <2>1, <3>2, <3>3 DEF Fine
    <2>3. CASE t # "END"
      <3>1. ASSUME NEW g \in TakeFirst PROVE Starts(Call(g), "unit")
        <4>1. Consumes(Call(g)) /\ Effort(Call(g)) = 2
          BY CallsCost, TakersCost
        <4>2. QED
          BY <2>1, <4>1 DEF Starts
      <3>2. /\ Starts(Call("fn"), "unit") /\ Starts(Call("typedef"), "unit")
            /\ Starts(Call("let_stmt"), "unit") /\ Starts(Call("module"), "unit")
            /\ Starts(Call("import"), "unit") /\ Starts(Call("effect"), "unit")
        BY <3>1, TakersCost
      <3>3. /\ Begins("unit", <<Take("AT"), Call("attrs"), Keep, Call("unit")>>)
            /\ Begins("unit", <<Call("fn"), Give(t), Call("unit")>>)
            /\ Begins("unit", <<Call("typedef"), Give(t), Call("unit")>>)
            /\ Begins("unit", <<Call("let_stmt"), Give(t), Call("unit")>>)
            /\ Begins("unit", <<Call("module"), Do("assign_module"), Call("unit")>>)
            /\ Begins("unit", <<Call("import"), Do("add_import"), Call("unit")>>)
            /\ Begins("unit", <<Call("effect"), Call("unit")>>)
            /\ Begins("unit", <<Fail>>)
        BY <3>2, Heads, TakeStarts DEF Begins
      <3>4. Begins("unit", parse(t))
        BY <2>3, <3>3 DEF parse
      <3>5. parse(t) \in Seq(Items)
        BY DeclRules, PlainSeqs
      <3>6. QED
        BY <3>4, <3>5, BeginsFine
    <2>4. QED
      BY <2>2, <2>3
  <1>8. QED
    BY <1>4, <1>5, <1>6, <1>7

-----------------------------------------------------------------------------
(* What lists and operators cost.                                          *)

\* What begins a rule begins what is put together of it.
LEMMA FirstOfJoined ==
  ASSUME NEW a \in Seq(Plain), a # <<>>, NEW b \in Seq(Plain)
  PROVE  a \o b \in Seq(Plain) /\ a \o b # <<>> /\ Head(a \o b) = Head(a)
  OBVIOUS

LEMMA LeadsSoon ==
  ASSUME NEW q \in Seq(Plain), NEW r \in Nat, Leading(q, r)
  PROVE  Soon(q, r)
  BY PlainSeqs, LeadingSoon

LEMMA ListsCost ==
  ASSUME NEW list \in Whats, NEW n \in Nat, NEW t \in Tokens
  PROVE  Soon(Elements(list, n, t), 7) /\ Soon(AfterElement(list, n, t), 2)
  <1>1. Elements(list, n, t) \in Seq(Plain) /\ AfterElement(list, n, t) \in Seq(Plain)
    BY ListRules
  <1>2. Closer(list) \in Whats
    BY Names DEF Closer
  <1>3. Leading(Closed(list, n), 2) /\ Leading(Closed(list, n), 7)
    <2> DEFINE a == <<Take(Closer(list))>>
               b == IF list = "tuple_expr"
                    THEN <<Make(IF n = 1 THEN "tuple1" ELSE "tuple", 0)>> ELSE <<>>
    <2>1. a \in Seq(Plain) /\ a # <<>> /\ Head(a) = Take(Closer(list))
      BY <1>2, PlainItems, Few
    <2>2. b \in Seq(Plain)
      <3>1. Make(IF n = 1 THEN "tuple1" ELSE "tuple", 0) \in Plain
        BY Names, PlainItems
      <3>2. QED
        BY <3>1, Few
    <2>3. Closed(list, n) = a \o b
      BY DEF Closed
    <2> HIDE DEF a, b
    <2>4. Closed(list, n) # <<>> /\ Head(Closed(list, n)) = Take(Closer(list))
      BY <2>1, <2>2, <2>3, FirstOfJoined
    <2>5. Consumes(Take(Closer(list))) /\ Effort(Take(Closer(list))) = 1
      BY ItemsCost
    <2>6. QED
      BY <2>4, <2>5 DEF Leading
  <1>4. Leading(Elements(list, n, t), 7)
    <2>1. CASE t = Closer(list)
      BY <1>3, <2>1 DEF Elements
    <2>2. CASE t # Closer(list)
      <3> DEFINE a == Element(list)
                 b == <<Item("comma", list, IF n = 0 THEN 1 ELSE 2)>>
      <3>1. /\ <<Call("expr"), Drop>> \in Seq(Plain)
            /\ <<Call("type"), Call("name_or_elem")>> \in Seq(Plain)
            /\ <<Call("ident_type"), Drop>> \in Seq(Plain)
            /\ <<Take("DOT"), Take("IDENT"), Call("enum_init")>> \in Seq(Plain)
            /\ <<Take("IDENT"), Do("attr_name"), Call("tuple_expr"), Do("attr_args")>>
                 \in Seq(Plain)
        BY Names, PlainItems, Few
      <3>2. a \in Seq(Plain)
        BY <3>1 DEF Element
      <3>3. /\ Consumes(Call("expr")) /\ Effort(Call("expr")) = 6
            /\ Consumes(Call("type")) /\ Effort(Call("type")) = 5
            /\ Consumes(Call("ident_type")) /\ Effort(Call("ident_type")) = 2
            /\ Consumes(Take("DOT")) /\ Effort(Take("DOT")) = 1
            /\ Consumes(Take("IDENT")) /\ Effort(Take("IDENT")) = 1
        BY ItemsCost, CallsCost, ConsumersCost, TakersCost
      <3>4. /\ Leading(<<Call("expr"), Drop>>, 7)
            /\ Leading(<<Call("type"), Call("name_or_elem")>>, 7)
            /\ Leading(<<Call("ident_type"), Drop>>, 7)
            /\ Leading(<<Take("DOT"), Take("IDENT"), Call("enum_init")>>, 7)
            /\ Leading(<<Take("IDENT"), Do("attr_name"), Call("tuple_expr"), Do("attr_args")>>, 7)
        BY <3>3, Heads DEF Leading
      <3>5. Leading(a, 7)
        BY <3>4 DEF Element
      <3>6. b \in Seq(Plain)
        <4>1. Item("comma", list, IF n = 0 THEN 1 ELSE 2) \in Plain
          BY PlainItem
        <4>2. QED
          BY <4>1, Few
      <3>7. Elements(list, n, t) = a \o b
        BY <2>2 DEF Elements
      <3> HIDE DEF a, b
      <3>8. QED
        BY <3>2, <3>5, <3>6, <3>7, FirstOfJoined DEF Leading
    <2>3. QED
      BY <2>1, <2>2
  <1>5. Leading(AfterElement(list, n, t), 2)
    <2>1. CASE t # "COMMA"
      BY <1>3, <2>1 DEF AfterElement
    <2>2. CASE t = "COMMA"
      <3> DEFINE a == <<Take("COMMA")>>
                 more == IF list = "tuple_expr" THEN <<Call("no_trailing_comma")>> ELSE <<>>
                 b == <<Item("list", list, n)>>
      <3>1. a \in Seq(Plain) /\ a # <<>> /\ Head(a) = Take("COMMA")
        BY Names, PlainItems, Few
      <3>2. more \in Seq(Plain)
        BY Names, PlainItems, Few
      <3>3. b \in Seq(Plain)
        BY PlainItem, Few
      <3>4. AfterElement(list, n, t) = a \o more \o b
        BY <2>2 DEF AfterElement
      <3> HIDE DEF a, more, b
      <3>5. a \o more \in Seq(Plain) /\ a \o more # <<>> /\ Head(a \o more) = Take("COMMA")
        BY <3>1, <3>2, FirstOfJoined
      <3>6. /\ AfterElement(list, n, t) # <<>>
            /\ Head(AfterElement(list, n, t)) = Take("COMMA")
        BY <3>3, <3>4, <3>5, FirstOfJoined
      <3>7. Consumes(Take("COMMA")) /\ Effort(Take("COMMA")) = 1
        BY ItemsCost
      <3>8. QED
        BY <3>6, <3>7 DEF Leading
    <2>3. QED
      BY <2>1, <2>2
  <1>6. QED
    BY <1>1, <1>4, <1>5, LeadsSoon

LEMMA Lone ==
  ASSUME NEW a \in Items
  PROVE  <<a>> \in Seq(Items) /\ <<a>> # <<>> /\ Head(<<a>>) = a /\ Tail(<<a>>) = <<>>
  OBVIOUS

LEMMA OperatorsCost ==
  ASSUME NEW op, NEW n \in Nat, NEW t \in Tokens
  PROVE  Near(parse_binop_rhs(n, t), 2) /\ Near(tighter(op, t), 3)
  <1>1. parse_binop_rhs(n, t) \in Seq(Plain) /\ tighter(op, t) \in Seq(Plain)
    BY OperatorRules
  <1>2. Near(<<>>, 1) /\ Near(<<>>, 2) /\ Near(<<>>, 3)
    BY NothingNear
  <1>3. Near(parse_binop_rhs(n, t), 2)
    <2>1. CASE Prec(t) < n
      BY <1>2, <2>1 DEF parse_binop_rhs
    <2>2. CASE ~(Prec(t) < n)
      <3> DEFINE q == parse_binop_rhs(n, t)
      <3>1. q # <<>> /\ Head(q) = Take(t)
        BY <2>2, Heads DEF parse_binop_rhs
      <3>2. Consumes(Take(t)) /\ Effort(Take(t)) = 1
        BY ItemsCost
      <3>3. q \in Seq(Items) /\ Leading(q, 2)
        BY <1>1, <3>1, <3>2, PlainSeqs DEF Leading
      <3> HIDE DEF q
      <3>4. Soon(q, 2) /\ \A s \in Seq(Items) : q \o s \in Seq(Items)
        BY <3>3, LeadingSoon
      <3>5. Near(q, 2)
        BY <3>4, SoonNear
      <3>6. QED
        BY <3>5 DEF q
    <2>3. QED
      BY <2>1, <2>2
  <1>4. Near(tighter(op, t), 3)
    <2>1. CASE Prec(op) < Prec(t)
      <3> DEFINE q == tighter(op, t)
                 m == Prec(op) + 1
      <3>1. q = <<Item("rhs", "", m)>> /\ q \in Seq(Items)
        BY <1>1, <2>1, PlainSeqs DEF tighter
      <3> HIDE DEF q, m
      <3>2. q # <<>> /\ Head(q) = Item("rhs", "", m) /\ Tail(q) = <<>>
        <4>1. m \in Nat
          BY <2>1, PrecType DEF m
        <4>2. Item("rhs", "", m) \in Items
          BY <4>1, PlainItem, WhatsAre DEF Plain
        <4>3. QED
          BY <3>1, <4>2, Lone
      <3>3. Effort(Head(q)) = 2
        BY <3>2, ItemsCost
      <3>4. Near(q, Effort(Head(q)) + 1)
        BY <1>2, <3>1, <3>2, BeforeNear
      <3>5. Near(q, 3)
        BY <3>3, <3>4
      <3>6. QED
        BY <3>5 DEF q
    <2>2. CASE ~(Prec(op) < Prec(t))
      BY <1>2, <2>2 DEF tighter
    <2>3. QED
      BY <2>1, <2>2
  <1>5. QED
    BY <1>3, <1>4

-----------------------------------------------------------------------------
(* What is put in the place of a call or a loop costs less.                *)

LEMMA BodyBegins1 ==
  ASSUME NEW t \in Tokens, NEW n \in Nat,
         NEW f \in {"index_expr", "call_expr", "postfix_expr", "effect_ref", "postfix_loop",
                  "unary_expr", "expr", "primary_expr", "agg_expr",
                  "type_expr", "var_expr"}
  PROVE  Begins(f, Body(f, n, t))
  BY RulesBegin1 DEF Body

LEMMA BodyBegins2 ==
  ASSUME NEW t \in Tokens, NEW n \in Nat,
         NEW f \in {"selector_expr", "int_expr", "flt_expr", "str_expr", "chr_expr", "bool_expr",
                  "tuple_expr", "no_trailing_comma", "alternative", "at_type",
                  "ident_type"}
  PROVE  Begins(f, Body(f, n, t))
  BY RulesBegin2 DEF Body

LEMMA BodyBegins3 ==
  ASSUME NEW t \in Tokens, NEW n \in Nat,
         NEW f \in {"tuple_type", "args_type", "group_type", "varargs_type", "ptr_type",
                  "atom_type", "bracket_type", "in_brackets", "enum_init",
                  "fn_type", "more_args"}
  PROVE  Begins(f, Body(f, n, t))
  BY RulesBegin3 DEF Body

LEMMA BodyBegins4 ==
  ASSUME NEW t \in Tokens, NEW n \in Nat,
         NEW f \in {"effects", "ret", "stmt", "only_let", "block_stmt", "stmts", "return_stmt",
                  "return_value", "defer_stmt", "break_stmt", "continue_stmt"}
  PROVE  Begins(f, Body(f, n, t))
  BY RulesBegin4 DEF Body

LEMMA BodyBegins5 ==
  ASSUME NEW t \in Tokens, NEW n \in Nat,
         NEW f \in {"if_stmt", "init", "else_if", "else_arm", "let_stmt", "using_stmt",
                  "for_stmt", "for_expr", "for_post", "post_stmt", "for_else"}
  PROVE  Begins(f, Body(f, n, t))
  BY RulesBegin5 DEF Body

LEMMA BodyBegins6 ==
  ASSUME NEW t \in Tokens, NEW n \in Nat,
         NEW f \in {"expr_stmt", "assignment", "fn", "typedef", "module", "import", "effect",
                  "attrs"}
  PROVE  Begins(f, Body(f, n, t))
  BY RulesBegin6 DEF Body

LEMMA BodyFine ==
  ASSUME NEW t \in Tokens, NEW n \in Nat, NEW f
  PROVE  Fine(f, Body(f, n, t))
  <1> DEFINE special == {"type", "name_or_elem", "union", "unit"}
  <1>1. CASE f \in special
    <2>1. /\ Body("type", n, t) = parse_type
          /\ Body("name_or_elem", n, t) = name_or_elem(t)
          /\ Body("union", n, t) = union_type(n, t)
          /\ Body("unit", n, t) = parse(t)
      BY DEF Body
    <2>2. QED
      BY <1>1, <2>1, RestFine
  <1>2. CASE f \in Functions \ special
    <2>1. Body(f, n, t) \in Seq(Items)
      BY BodyRule, PlainSeqs
    <2>2. Begins(f, Body(f, n, t))
      <3>1. CASE f \in {"index_expr", "call_expr", "postfix_expr", "effect_ref",
                       "postfix_loop", "unary_expr", "expr", "primary_expr",
                       "agg_expr", "type_expr", "var_expr"}
        BY <3>1, BodyBegins1
      <3>2. CASE f \in {"selector_expr", "int_expr", "flt_expr", "str_expr", "chr_expr",
                       "bool_expr", "tuple_expr", "no_trailing_comma",
                       "alternative", "at_type", "ident_type"}
        BY <3>2, BodyBegins2
      <3>3. CASE f \in {"tuple_type", "args_type", "group_type", "varargs_type",
                       "ptr_type", "atom_type", "bracket_type",
                       "in_brackets", "enum_init", "fn_type", "more_args"}
        BY <3>3, BodyBegins3
      <3>4. CASE f \in {"effects", "ret", "stmt", "only_let", "block_stmt", "stmts",
                       "return_stmt", "return_value", "defer_stmt",
                       "break_stmt", "continue_stmt"}
        BY <3>4, BodyBegins4
      <3>5. CASE f \in {"if_stmt", "init", "else_if", "else_arm", "let_stmt",
                       "using_stmt", "for_stmt", "for_expr", "for_post",
                       "post_stmt", "for_else"}
        BY <3>5, BodyBegins5
      <3>6. CASE f \in {"expr_stmt", "assignment", "fn", "typedef", "module", "import",
                       "effect", "attrs"}
        BY <3>6, BodyBegins6
      <3>7. QED
        BY <1>2, <3>1, <3>2, <3>3, <3>4, <3>5, <3>6 DEF Functions
    <2>3. QED
      BY <2>1, <2>2, BeginsFine
  <1>3. CASE f \notin Functions
    <2>1. Body(f, n, t) = parse(t)
      BY <1>3 DEF Body, Functions
    <2>2. "unit" \notin Consumers /\ Depth("unit") = 3
      BY NotConsumers, OthersCost
    <2>3. Near(parse(t), 3)
      BY <2>2, RestFine DEF Fine
    <2>4. f \notin Consumers /\ Depth(f) = 3
      BY <1>3, NamesOnlyCost
    <2>5. QED
      BY <2>1, <2>3, <2>4 DEF Fine
  <1>4. QED
    BY <1>1, <1>2, <1>3

Looks == {"call", "list", "comma", "rhs", "tighter"}

\* A call, or a loop that comes round, costs more than what is put in its place.
LEMMA ExpansionLess ==
  ASSUME NEW t \in Tokens, NEW q \in Seq(Items), q # <<>>, Head(q).do \in Looks
  PROVE  Cost[Expansion(Head(q), t) \o Tail(q)] < Cost[q]
  <1> DEFINE item == Head(q)
             s == Tail(q)
             e == Expansion(item, t)
  <1>1. item \in Items /\ s \in Seq(Items)
    OBVIOUS
  <1>2. Cost[q] = Onto(item, Cost[s])
    BY CostOnto
  <1>3. Cost[s] \in Nat /\ item.what \in Whats /\ item.n \in Nat
    BY <1>1, CostIs DEF Items
  <1> HIDE DEF item, s, e
  <1>4. CASE item.do = "call"
    <2> DEFINE f == item.what
    <2>1. Fine(f, e)
      BY <1>3, <1>4, BodyFine DEF Expansion, e
    <2>2. Effort(item) = Depth(f) /\ (Consumes(item) <=> f \in Consumers) /\ Depth(f) \in Nat
      BY <1>4, DepthType DEF Effort, Consumes
    <2>3. CASE f \in Consumers
      <3>1. Cost[e \o s] < Depth(f)
        BY <1>1, <2>1, <2>3 DEF Fine, Soon, s
      <3>2. QED
        BY <1>2, <2>2, <2>3, <3>1 DEF Onto, e, s, item
    <2>4. CASE f \notin Consumers
      <3>1. Cost[e \o s] < Depth(f) + Cost[s]
        BY <1>1, <2>1, <2>4 DEF Fine, Near, s
      <3>2. QED
        BY <1>2, <2>2, <2>4, <3>1 DEF Onto, e, s, item
    <2>5. QED
      BY <2>3, <2>4
  <1>5. CASE item.do \in {"list", "comma"}
    <2>1. Consumes(item) /\ Effort(item) = IF item.do = "list" THEN 7 ELSE 2
      BY <1>5 DEF Consumes, Effort
    <2>2. Soon(e, Effort(item))
      BY <1>3, <1>5, <2>1, ListsCost DEF Expansion, e
    <2>3. Cost[e \o s] < Effort(item)
      BY <1>1, <2>2 DEF Soon
    <2>4. QED
      BY <1>2, <2>1, <2>3 DEF Onto, e, s, item
  <1>6. CASE item.do \in {"rhs", "tighter"}
    <2>1. ~Consumes(item) /\ Effort(item) = IF item.do = "rhs" THEN 2 ELSE 3
      BY <1>6 DEF Consumes, Effort
    <2>2. Near(e, Effort(item))
      BY <1>3, <1>6, <2>1, OperatorsCost DEF Expansion, e
    <2>3. Cost[e \o s] < Effort(item) + Cost[s]
      BY <1>1, <2>2 DEF Near
    <2>4. QED
      BY <1>2, <2>1, <2>3 DEF Onto, e, s, item
  <1>7. item.do \in Looks
    BY DEF item
  <1>8. QED
    BY <1>4, <1>5, <1>6, <1>7 DEF Looks, item, s, e

-----------------------------------------------------------------------------
(* Every step makes what is left to do less.                               *)

LEMMA EffortSome == \A item : Effort(item) \in Nat /\ Effort(item) > 0
  <1>1. \A f : Depth(f) \in Nat /\ Depth(f) > 0
    BY DepthType
  <1>2. QED
    BY <1>1 DEF Effort

LEMMA TailLess ==
  ASSUME NEW q \in Seq(Items), q # <<>>, ~Consumes(Head(q))
  PROVE  Cost[Tail(q)] < Cost[q]
  <1>1. Tail(q) \in Seq(Items)
    OBVIOUS
  <1>2. Cost[Tail(q)] \in Nat /\ Cost[q] = Onto(Head(q), Cost[Tail(q)])
    BY <1>1, CostIs, CostOnto
  <1>3. QED
    BY <1>2, EffortSome DEF Onto

\* A statement begins with less than what defers it.
LEMMA DeferredLess ==
  ASSUME NEW q \in Seq(Items), q # <<>>, Head(q).do = "do"
  PROVE  Cost[<<Call("stmt"), LeaveDefer(0)>> \o Tail(q)] < Cost[q]
  <1> DEFINE e == <<Call("stmt"), LeaveDefer(0)>>
  <1>1. Tail(q) \in Seq(Items)
    OBVIOUS
  <1>2. Call("stmt") \in Items /\ LeaveDefer(0) \in Items
    BY PlainItems, Undefer, Names DEF Plain
  <1>3. e \in Seq(Items) /\ e # <<>> /\ Head(e) = Call("stmt")
    BY <1>2
  <1>4. Consumes(Call("stmt")) /\ Effort(Call("stmt")) = 8
    BY CallsCost, ConsumersCost
  <1> HIDE DEF e
  <1>5. Leading(e, 9)
    BY <1>3, <1>4 DEF Leading
  <1>6. Soon(e, 9)
    BY <1>3, <1>5, LeadingSoon
  <1>7. Cost[e \o Tail(q)] < 9 /\ Cost[e \o Tail(q)] \in Nat
    <2>1. e \o Tail(q) \in Seq(Items)
      BY <1>1, <1>3
    <2>2. QED
      BY <1>1, <1>6, <2>1, CostIs DEF Soon
  <1>8. Effort(Head(q)) = 9 /\ ~Consumes(Head(q))
    BY DEF Effort, Consumes
  <1>9. Cost[q] = 9 + Cost[Tail(q)] /\ Cost[Tail(q)] \in Nat
    BY <1>1, <1>8, CostOnto, CostIs DEF Onto
  <1>10. Cost[e \o Tail(q)] < Cost[q]
    BY <1>7, <1>9
  <1>11. QED
    BY <1>10 DEF e

\* Items that differ in what has no cost.
Alike(q, r) ==
  /\ Len(q) = Len(r)
  /\ \A i \in 1..Len(q) : /\ Effort(q[i]) = Effort(r[i])
                          /\ Consumes(q[i]) <=> Consumes(r[i])

LEMMA AlikeEnds ==
  ASSUME NEW q \in Seq(Items), NEW r \in Seq(Items), Alike(q, r), q # <<>>
  PROVE  /\ r # <<>> /\ Tail(q) \in Seq(Items) /\ Tail(r) \in Seq(Items)
         /\ Effort(Head(q)) = Effort(Head(r)) /\ (Consumes(Head(q)) <=> Consumes(Head(r)))
         /\ Alike(Tail(q), Tail(r))
  <1>1. /\ Tail(q) \in Seq(Items) /\ Len(q) \in Nat /\ Len(q) >= 1
        /\ Len(Tail(q)) = Len(q) - 1 /\ q[1] = Head(q)
        /\ \A i \in 1..Len(q) - 1 : Tail(q)[i] = q[i + 1]
    OBVIOUS
  <1>2. Len(r) = Len(q) /\ r # <<>>
    <2>1. Len(<<>>) = 0
      OBVIOUS
    <2>2. QED
      BY <1>1, <2>1 DEF Alike
  <1>3. /\ Tail(r) \in Seq(Items) /\ Len(Tail(r)) = Len(r) - 1 /\ r[1] = Head(r)
        /\ \A i \in 1..Len(r) - 1 : Tail(r)[i] = r[i + 1]
    BY <1>2
  <1>4. Effort(Head(q)) = Effort(Head(r)) /\ (Consumes(Head(q)) <=> Consumes(Head(r)))
    <2>1. 1 \in 1..Len(q)
      BY <1>1
    <2>2. QED
      BY <1>1, <1>3, <2>1 DEF Alike
  <1>5. Alike(Tail(q), Tail(r))
    <2>1. ASSUME NEW i \in 1..Len(q) - 1
          PROVE  /\ Effort(Tail(q)[i]) = Effort(Tail(r)[i])
                 /\ Consumes(Tail(q)[i]) <=> Consumes(Tail(r)[i])
      <3>1. i + 1 \in 1..Len(q) /\ i \in 1..Len(r) - 1
        BY <1>1, <1>2
      <3>2. Tail(q)[i] = q[i + 1] /\ Tail(r)[i] = r[i + 1]
        BY <1>1, <1>3, <3>1
      <3>3. QED
        BY <3>1, <3>2 DEF Alike
    <2>2. Len(Tail(q)) = Len(q) - 1 /\ Len(Tail(r)) = Len(q) - 1
      BY <1>1, <1>2, <1>3
    <2>3. QED
      BY <2>1, <2>2 DEF Alike
  <1>6. QED
    BY <1>1, <1>2, <1>3, <1>4, <1>5

LEMMA AlikeCost ==
  ASSUME NEW q \in Seq(Items), NEW r \in Seq(Items), Alike(q, r)
  PROVE  Cost[q] = Cost[r]
  <1> DEFINE Bad(k) == \E x \in Seq(Items) : \E y \in Seq(Items) :
                         Len(x) = k /\ Alike(x, y) /\ Cost[x] # Cost[y]
             T == {k \in Nat : Bad(k)}
  <1>1. T = {}
    <2> SUFFICES ASSUME T # {} PROVE FALSE
      OBVIOUS
    <2>1. PICK k \in T : \A j \in T : k <= j
      <3>1. T \subseteq Nat
        OBVIOUS
      <3> HIDE DEF T
      <3>2. QED
        BY <3>1, Least
    <2>2. PICK x \in Seq(Items), y \in Seq(Items) :
            Len(x) = k /\ Alike(x, y) /\ Cost[x] # Cost[y]
      BY <2>1
    <2>3. CASE x = <<>>
      <3>1. y = <<>>
        <4>1. Len(x) = 0
          BY <2>3
        <4>2. Len(y) = 0
          BY <2>2, <4>1 DEF Alike
        <4>3. QED
          BY <4>2
      <3>2. QED
        BY <2>2, <2>3, <3>1
    <2>4. CASE x # <<>>
      <3>1. /\ y # <<>> /\ Tail(x) \in Seq(Items) /\ Tail(y) \in Seq(Items)
            /\ Effort(Head(x)) = Effort(Head(y))
            /\ (Consumes(Head(x)) <=> Consumes(Head(y)))
            /\ Alike(Tail(x), Tail(y))
        BY <2>2, <2>4, AlikeEnds
      <3>2. Len(Tail(x)) = k - 1 /\ k - 1 \in Nat /\ k \in Nat
        BY <2>2, <2>4, EndsOfTail
      <3>3. k - 1 \notin T
        <4> HIDE DEF T
        <4>1. QED
          BY <2>1, <3>2
      <3>4. Cost[Tail(x)] = Cost[Tail(y)]
        BY <3>1, <3>2, <3>3
      <3>5. Cost[x] = Onto(Head(x), Cost[Tail(x)]) /\ Cost[y] = Onto(Head(y), Cost[Tail(y)])
        BY <2>4, <3>1, CostOnto
      <3>6. QED
        BY <2>2, <3>1, <3>4, <3>5 DEF Onto
    <2>5. QED
      BY <2>3, <2>4
  <1>2. Len(q) \in Nat
    OBVIOUS
  <1>3. Len(q) \notin T
    BY <1>1
  <1>4. ~Bad(Len(q))
    BY <1>2, <1>3
  <1>5. QED
    BY <1>4

LEMMA LengthOf ==
  ASSUME NEW S, NEW n \in Nat, NEW s \in [1..n -> S]
  PROVE  s \in Seq(S) /\ Len(s) = n
  OBVIOUS

\* Defers that are marked cost what they cost.
LEMMA MarkedLess ==
  ASSUME NEW q \in Seq(Items), q # <<>>, Head(q).do = "undefer", NEW r,
         r = [i \in 1..Len(q) - 1 |-> IF q[i + 1].do = "undefer" THEN LeaveDefer(1) ELSE q[i + 1]]
  PROVE  Cost[r] < Cost[q]
  <1>1. /\ Tail(q) \in Seq(Items) /\ Len(q) \in Nat /\ Len(q) - 1 \in Nat
        /\ Len(Tail(q)) = Len(q) - 1
        /\ \A i \in 1..Len(q) - 1 : Tail(q)[i] = q[i + 1] /\ q[i + 1] \in Items
    OBVIOUS
  <1>2. /\ LeaveDefer(1) \in Items /\ LeaveDefer(1).do = "undefer"
        /\ ~Consumes(LeaveDefer(1)) /\ Effort(LeaveDefer(1)) = 1
    BY Undefer, ItemsCost
  <1>3. r \in [1..Len(q) - 1 -> Items]
    BY <1>1, <1>2
  <1>4. r \in Seq(Items) /\ Len(r) = Len(q) - 1
    <2> DEFINE m == Len(q) - 1
    <2>1. m \in Nat /\ r \in [1..m -> Items]
      BY <1>1, <1>3
    <2> HIDE DEF m
    <2>2. r \in Seq(Items) /\ Len(r) = m
      BY <2>1, LengthOf
    <2>3. QED
      BY <2>2 DEF m
  <1>5. ASSUME NEW i \in 1..Len(q) - 1
        PROVE  /\ Effort(Tail(q)[i]) = Effort(r[i])
               /\ Consumes(Tail(q)[i]) <=> Consumes(r[i])
    <2>1. Tail(q)[i] = q[i + 1]
      BY <1>1
    <2>2. r[i] = IF q[i + 1].do = "undefer" THEN LeaveDefer(1) ELSE q[i + 1]
      OBVIOUS
    <2>3. q[i + 1].do = "undefer" => ~Consumes(q[i + 1]) /\ Effort(q[i + 1]) = 1
      BY DEF Consumes, Effort
    <2>4. QED
      BY <1>2, <2>1, <2>2, <2>3
  <1>6. Alike(Tail(q), r)
    BY <1>1, <1>4, <1>5 DEF Alike
  <1>7. Cost[Tail(q)] = Cost[r]
    BY <1>1, <1>4, <1>6, AlikeCost
  <1>8. ~Consumes(Head(q))
    BY DEF Consumes
  <1>9. QED
    BY <1>7, <1>8, TailLess

-----------------------------------------------------------------------------
(* The text.                                                               *)

LEMMA RemainingType == text \in TextType => Remaining \in Nat
  BY DEF TextType, Remaining

LEMMA SeenIsThere ==
  ASSUME text \in TextType, PeekedIsThere, NEW t \in Peeked, t # "END"
  PROVE  Remaining > 0
  <1>1. Len(text.script) \in Nat /\ text.left \in Nat /\ text.script \in Seq(Tokens \ {"END"})
    BY DEF TextType
  <1>2. CASE peeked # None
    BY <1>2 DEF Peeked, PeekedIsThere
  <1>3. CASE peeked = None /\ text.script # <<>>
    <2>1. Len(text.script) > 0
      BY <1>1, <1>3
    <2>2. QED
      BY <1>1, <2>1 DEF Remaining
  <1>4. CASE peeked = None /\ text.script = <<>>
    <2>1. text.left > 0
      BY <1>1, <1>4 DEF Peeked
    <2>2. QED
      BY <1>1, <2>1 DEF Remaining
  <1>5. QED
    BY <1>2, <1>3, <1>4

LEMMA BehindLess ==
  ASSUME text \in TextType, Remaining > 0, text' = Behind
  PROVE  Remaining' < Remaining
  <1>1. Len(text.script) \in Nat /\ text.left \in Nat /\ text.script \in Seq(Tokens \ {"END"})
    BY DEF TextType
  <1>2. CASE text.script # <<>>
    <2>1. text'.script = Tail(text.script) /\ text'.left = text.left
      BY <1>2 DEF Behind, TextType
    <2>2. Len(Tail(text.script)) = Len(text.script) - 1
      BY <1>1, <1>2
    <2>3. QED
      BY <1>1, <2>1, <2>2 DEF Remaining
  <1>3. CASE text.script = <<>>
    <2>1. text'.script = text.script
      BY <1>3 DEF Behind, TextType
    <2>2. text'.left < text.left
      <3>1. Len(text.script) = 0
        BY <1>3
      <3>2. text.left > 0
        BY <1>1, <3>1 DEF Remaining
      <3>3. CASE text.left > 1
        <4>1. text'.left = text.left - 1
          BY <1>3, <3>3 DEF Behind, TextType
        <4>2. QED
          BY <1>1, <4>1
      <3>4. CASE ~(text.left > 1)
        <4>1. text'.left = 0
          BY <1>3, <3>4 DEF Behind, TextType
        <4>2. QED
          BY <3>2, <4>1
      <3>5. QED
        BY <3>3, <3>4
    <2>3. text'.left \in Nat
      <3>1. text' \in TextType
        BY BehindType
      <3>2. QED
        BY <3>1 DEF TextType
    <2>4. QED
      BY <1>1, <2>1, <2>2, <2>3 DEF Remaining
  <1>4. QED
    BY <1>2, <1>3

-----------------------------------------------------------------------------
(* Steps.                                                                  *)

\* A step that leaves the text alone and takes off an item that consumes nothing.
LEMMA PopShrinks ==
  ASSUME todo \in Seq(Items), todo # <<>>, result = None,
         Head(todo).do \notin {"call", "take", "fail", "list", "comma"},
         todo' = Tail(todo), text' = text, peeked' = peeked, PeekedIsThere
  PROVE  Shrinks /\ PeekedIsThere'
  <1>1. ~Consumes(Head(todo))
    BY DEF Consumes
  <1>2. Cost[Tail(todo)] < Cost[todo]
    BY <1>1, TailLess
  <1>3. Remaining' = Remaining
    BY DEF Remaining
  <1>4. QED
    BY <1>2, <1>3 DEF Shrinks, PeekedIsThere

LEMMA BackShrinks ==
  ASSUME NEW how, how # None, Unwind(how)
  PROVE  result' # None /\ PeekedIsThere'
  BY DEF Unwind, PeekedIsThere

LEMMA ExpandShrinks ==
  ASSUME DeferInv, PeekedIsThere, Expand
  PROVE  result = None /\ Shrinks /\ PeekedIsThere'
  <1>1. PICK t \in Peeked : peeked' = t /\ todo' = Expansion(Head(todo), t) \o Tail(todo)
    BY DEF Expand
  <1>2. /\ result = None /\ todo # <<>> /\ todo \in Seq(Items) /\ text \in TextType
        /\ Head(todo).do \in Looks /\ text' = text
    BY DEF Expand, DeferInv, Looks
  <1>3. t \in Tokens
    BY PeekedType DEF DeferInv
  <1>4. Cost[todo'] < Cost[todo]
    BY <1>1, <1>2, <1>3, ExpansionLess
  <1>5. Remaining' = Remaining
    BY <1>2 DEF Remaining
  <1>6. t # "END" => Remaining > 0
    BY <1>2, SeenIsThere
  <1>7. PeekedIsThere'
    BY <1>1, <1>5, <1>6 DEF PeekedIsThere
  <1>8. QED
    BY <1>2, <1>4, <1>5, <1>7 DEF Shrinks

LEMMA ConsumeShrinks ==
  ASSUME DeferInv, PeekedIsThere, Consume, Head(todo).what # "END"
  PROVE  result = None /\ (result' # None \/ Shrinks) /\ PeekedIsThere'
  <1>1. result = None /\ text \in TextType
    BY DEF Consume, At, DeferInv
  <1>2. CASE Unwind("diagnosed")
    BY <1>1, <1>2, BackShrinks DEF None
  <1>3. CASE ~Unwind("diagnosed")
    <2>1. PICK t \in Peeked : t = Head(todo).what /\ peeked' = None /\ text' = Behind
      BY <1>3 DEF Consume
    <2>2. Remaining > 0
      BY <1>1, <2>1, SeenIsThere
    <2>3. Remaining' < Remaining
      BY <1>1, <2>1, <2>2, BehindLess
    <2>4. QED
      BY <1>1, <2>1, <2>3 DEF Shrinks, PeekedIsThere
  <1>4. QED
    BY <1>2, <1>3

LEMMA StepShrinks ==
  ASSUME DeferInv, PeekedIsThere, At("take") => Head(todo).what # "END", Next
  PROVE  result = None /\ (result' # None \/ Shrinks) /\ PeekedIsThere'
  <1> DEFINE back == result = None /\ (Unwind("diagnosed") \/ Unwind("silent"))
             pop == /\ result = None /\ todo # <<>>
                    /\ Head(todo).do \notin {"call", "take", "fail", "list", "comma"}
                    /\ todo' = Tail(todo) /\ text' = text /\ peeked' = peeked
             goal == result = None /\ (result' # None \/ Shrinks) /\ PeekedIsThere'
  <1>1. back => goal
    BY BackShrinks DEF None
  <1>2. pop => goal
    <2>1. todo \in Seq(Items)
      BY DEF DeferInv
    <2>2. QED
      BY <2>1, PopShrinks
  <1>3. Expand => goal
    BY ExpandShrinks
  <1>4. Consume => goal
    BY ConsumeShrinks DEF Consume
  <1>5. /\ Refuse => back
        /\ NewNode \/ NewBinary \/ DropNode => pop
        /\ HoldAttrs \/ KeepAttrs \/ GiveAttrs \/ ReleaseAttrs => pop
    BY DEF Refuse, NewNode, NewBinary, DropNode, HoldAttrs, KeepAttrs, GiveAttrs, ReleaseAttrs, At
  <1>6. AttrName \/ AttrArgs => pop \/ back
    BY DEF AttrName, AttrArgs, Step, At
  <1>7. IntLiteral \/ FltLiteral => pop \/ back
    BY DEF IntLiteral, FltLiteral, Step, At
  <1>8. AssignModule \/ AddImport => pop \/ back
    BY DEF AssignModule, AddImport, Step, At
  <1>9. BeginDefer => goal
    <2> SUFFICES ASSUME BeginDefer PROVE goal
      OBVIOUS
    <2>1. /\ result = None /\ todo # <<>> /\ Head(todo).do = "do" /\ todo \in Seq(Items)
          /\ todo' = <<Call("stmt"), LeaveDefer(0)>> \o Tail(todo)
          /\ text' = text /\ peeked' = peeked
      BY DEF BeginDefer, Step, At, DeferInv
    <2>2. Cost[todo'] < Cost[todo]
      BY <2>1, DeferredLess
    <2>3. QED
      BY <2>1, <2>2 DEF Shrinks, Remaining, PeekedIsThere
  <1>10. EndDefer => goal
    <2> SUFFICES ASSUME EndDefer PROVE goal
      OBVIOUS
    <2>1. /\ result = None /\ todo # <<>> /\ Head(todo).do = "undefer" /\ todo \in Seq(Items)
          /\ todo' = [i \in 1..Len(todo) - 1 |->
                        IF todo[i + 1].do = "undefer" THEN LeaveDefer(1) ELSE todo[i + 1]]
          /\ text' = text /\ peeked' = peeked
      BY DEF EndDefer, At, DeferInv
    <2> DEFINE r == todo'
    <2>2. r = [i \in 1..Len(todo) - 1 |->
                 IF todo[i + 1].do = "undefer" THEN LeaveDefer(1) ELSE todo[i + 1]]
      BY <2>1
    <2> HIDE DEF r
    <2>3. Cost[r] < Cost[todo]
      BY <2>1, <2>2, MarkedLess
    <2>4. Cost[todo'] < Cost[todo]
      BY <2>3 DEF r
    <2>5. QED
      BY <2>1, <2>4 DEF Shrinks, Remaining, PeekedIsThere
  <1>11. Finish => goal
    BY DEF Finish, None, PeekedIsThere, Remaining
  <1> HIDE DEF back, pop, goal
  <1>12. goal
    BY <1>1, <1>2, <1>3, <1>4, <1>5, <1>6, <1>7, <1>8, <1>9, <1>10, <1>11 DEF Next
  <1>13. QED
    BY <1>12 DEF goal

\* The end of the text is not asked for (parse() looks for it, and for nothing behind it).
LEMMA EndIsNotTaken == TreeInv /\ At("take") => Head(todo).what # "END"
  <1> SUFFICES ASSUME TreeInv, At("take") PROVE Head(todo).what # "END"
    OBVIOUS
  <1>1. result = None /\ todo # <<>> /\ Head(todo).do = "take"
    BY DEF At
  <1>2. PICK s \in Shapes, q \in Shapes : Fits(s) /\ Does(Head(todo), s, q)
    BY <1>1, StepAhead
  <1>3. TakeDoes(Head(todo).what, s, q)
    BY <1>1, <1>2 DEF Does
  <1>4. QED
    BY <1>3 DEF TakeDoes

(* Whatever the text, and however long, each step before parse() returns   *)
(* consumes a token or brings the next one closer: `Remaining` and `Cost`, *)
(* in that order, shrink, and both are numbers.  No loop of the parser     *)
(* comes round without having consumed a token (stmts, postfix_loop,       *)
(* parse_binop_rhs, the lists, the alternatives of a union, parse), and no *)
(* function calls itself before it has; once it returned, nothing follows. *)
THEOREM ParserEnds == Spec => AlwaysShrinks
  <1> DEFINE shrinks == result = None /\ (result' # None \/ Shrinks)
             inv == TreeInv /\ PeekedIsThere
  <1>1. Init => inv
    <2>1. Init => PeekedIsThere
      BY DEF Init, PeekedIsThere
    <2>2. QED
      BY <2>1, InitTree
  <1>2. inv /\ [Next]_vars => inv' /\ [shrinks]_vars
    <2>1. ASSUME inv, Next PROVE inv' /\ shrinks
      <3>1. DeferInv /\ (At("take") => Head(todo).what # "END")
        BY <2>1, EndIsNotTaken DEF TreeInv
      <3>2. shrinks /\ PeekedIsThere'
        BY <2>1, <3>1, StepShrinks
      <3>3. TreeInv'
        BY <2>1, NextTree
      <3>4. QED
        BY <3>2, <3>3
    <2>2. ASSUME inv, UNCHANGED vars PROVE inv'
      <3>1. TreeInv'
        BY <2>2, NextTree
      <3>2. PeekedIsThere'
        BY <2>2 DEF vars, PeekedIsThere, Remaining
      <3>3. QED
        BY <3>1, <3>2
    <2>3. QED
      BY <2>1, <2>2
  <1>3. QED
    BY <1>1, <1>2, PTL DEF Spec, AlwaysShrinks

(* What shrinks are numbers, so it shrinks only so often.                  *)
THEOREM MeasureIsANumber == Spec => [](Remaining \in Nat /\ Cost[todo] \in Nat)
  <1>1. TreeInv => Remaining \in Nat /\ Cost[todo] \in Nat
    <2> SUFFICES ASSUME TreeInv PROVE Remaining \in Nat /\ Cost[todo] \in Nat
      OBVIOUS
    <2>1. text \in TextType /\ todo \in Seq(Items)
      BY DEF TreeInv, DeferInv
    <2>2. QED
      BY <2>1, RemainingType, CostIs
  <1>2. QED
    BY <1>1, TreeAlways, PTL


=============================================================================
