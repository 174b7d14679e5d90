--------------------------- MODULE MCExprCodegen ---------------------------
(***************************************************************************)
(* A small unit for TLC: a variable of every kind of type, functions of    *)
(* every shape of parameters, and the expressions that can be written with *)
(* them to a small depth.                                                  *)
(***************************************************************************)
EXTENDS ExprMeaning, TLC

MCBits == 1 :> 2 @@ 4 :> 2 @@ 8 :> 3

-----------------------------------------------------------------------------
(* The unit                                                                *)

Pair == [MakeTuple(<<U8, U64>>, <<"x", "y">>) EXCEPT !.named = TRUE]
Either == MakeUnion(<<U8, S8>>)
Row == MakeArray(U8, 3)
F32 == Scalar("real", 4)

OneByte == MakeFn(Unit, MakeTuple(<<U8>>, <<>>), Unit, U8)

MCFns ==
  LET effect == [MakeTuple(<<U8>>, <<"Alloc">>) EXCEPT !.named = TRUE]
  IN  [f |-> OneByte,
       g |-> MakeFn(Unit, Unit, Unit, B32),
       h |-> MakeFn(Unit, MakeTuple(<<U8, S8>>, <<>>), Unit, MakeTuple(<<U8>>, <<>>)),
       m |-> MakeFn(MakeTuple(<<addrof(Pair)>>, <<>>), MakeTuple(<<U8>>, <<>>), Unit, U8),
       n |-> MakeFn(Unit, MakeTuple(<<U8>>, <<>>), effect, U8),
       o |-> MakeFn(Unit, MakeTuple(<<addrof(U8)>>, <<>>), Unit, U64)]

MCVars ==
  LET enum == [Scalar("enum", 8) EXCEPT !.names = <<"A", "B">>, !.inits = <<1, 2>>]
  IN  [a |-> U8, s |-> S8, b |-> B32, c |-> B8, z |-> U64, k |-> U64, r |-> F32,
       p |-> addrof(U8), q |-> addrof(Pair), t |-> Pair, u |-> Either, v |-> Row,
       e |-> enum, fp |-> addrof(OneByte), d |-> MakeTuple(<<U8, S8>>, <<>>)]

MCGlobals == [k |-> [type |-> U64, value |-> AstConst("uint", 8, 1, NoType)],
              l |-> [type |-> U8, value |-> AstConst("uint", 1, 2, NoType)]]
MCUsings == [Alloc |-> U8]
MCTypedefs == [Pair |-> Pair, Row |-> Row]

ElemOf(name, i) == [Root("var", 0, name) EXCEPT !.path = <<i>>]

Memory(a, s, b, z, tag) ==
  LET locals == [a |-> a, s |-> s, b |-> b, c |-> 1 - b, z |-> z, k |-> 2, r |-> 2,
               p |-> ElemOf("v", 1), q |-> Root("var", 0, "t"),
               t |-> Packed(Pair, <<2, 5>>), u |-> <<a, tag>>, v |-> <<1, 2, 3>>,
               e |-> 1, fp |-> Root("fn", 0, "f"), d |-> <<a, s>>]
  IN  [x \in {Root("var", 0, n).root : n \in DOMAIN locals} |-> locals[x[3]]]
      @@ Root("global", 0, "k").root :> 1 @@ Root("global", 0, "l").root :> 2
      @@ Root("using", 0, "Alloc").root :> 3 @@ Root("text", 0, "hi").root :> <<2, 1>>

MCMemories == {Memory(1, 3, 0, 2, 0), Memory(2, 1, 1, 1, 1), Memory(3, 3, 0, 3, 1)}

MCAnswers(type) ==
  CASE type.kind = "bool" -> {0, 1} [] type.kind = "tuple" -> {Filled(type, 1)}
    [] OTHER -> {1, 2^Width(type) - 1}

-----------------------------------------------------------------------------
(* Expressions                                                             *)

Var(name) == [n |-> "Var", name |-> name]
Num(v) == [n |-> "Int", kind |-> "", size |-> 0, v |-> v]
Suffixed(kind, v) == [n |-> "Int", kind |-> kind, size |-> 1, v |-> v]
Bin(op, l, r) == [n |-> "Bin", op |-> op, l |-> l, r |-> r]
LBin(op, l, r) == [n |-> "LBin", op |-> op, l |-> l, r |-> r]
Unary(op, e) == [n |-> "Unary", op |-> op, e |-> e]
Index(e, i) == [n |-> "Index", e |-> e, i |-> i]
Access(l, r) == [n |-> "Access", l |-> l, r |-> r]
Tuple(es) == [n |-> "Tuple", es |-> es]
Agg(type, es) == [n |-> "Agg", type |-> type, es |-> es]
Cast(e, type) == [n |-> "Cast", e |-> e, type |-> type]
Test(e, type) == [n |-> "Test", e |-> e, type |-> type]
Prop(prop, e) == [n |-> "Prop", prop |-> prop, e |-> e]
CallOf(callee, args) == [n |-> "Call", callee |-> callee, args |-> args, c |-> FALSE]
Explode(e) == [n |-> "Explode", e |-> e]
Eff(name) == [n |-> "Eff", name |-> name]
Flt(size, v) == [n |-> "Flt", size |-> size, v |-> v]

F == CallOf(Var("f"), <<Var("a")>>)
G == CallOf(Var("g"), <<>>)

Numbers == {Var("a"), Var("s"), Num(1), Num(2), Suffixed("uint", 3), Suffixed("sint", 1),
            F, Access(Var("t"), Var("x")), Index(Var("v"), Var("z")), Unary("deref", Var("p"))}

Conditions == {Var("b"), Var("c"), G, Bin("lt", Var("a"), Num(2)), Test(Var("u"), U8),
               Bin("eq", Var("s"), Num(1)), [n |-> "Bool", v |-> 1]}

Tests == {Test(Var("u"), U8), Test(Var("u"), S8), Test(Tuple(<<Var("u")>>), S8)}

\* One condition under another, with parentheses where they are needed.
Joined(es) == {LBin(op, l, r) : op \in {"lor", "land"}, l \in es, r \in es}

Wants(es, ws) == {[place |-> "value", want |-> w, expr |-> e] : w \in ws, e \in es}

Arithmetics ==
  Wants({Bin(op, l, r) : op \in Arithmetic \cup Selects \cup Compares \cup {"or", "and", "shl", "shr"},
                         l \in Numbers, r \in Numbers}, {NoType, U8})

Logic ==
  Wants(Joined(Conditions) \cup {LBin(op, l, r) : op \in {"lor", "land"},
           l \in Joined({G, Var("c")}), r \in Joined({G, Var("b")})}, {NoType, B32})

Aliases ==
  Wants({LBin("land", t, Bin("lt", Var("u"), x)) :
           t \in Tests \cup {LBin("land", G, y) : y \in Tests}
                   \cup {LBin("land", y, G) : y \in Tests},
           x \in {Suffixed("uint", 2), Suffixed("sint", 1)}}, {NoType})

Conditional ==
  {[place |-> "if", expr |-> e, name |-> "u", want |-> B32] :
     e \in Tests \cup {G, Var("a")} \cup {LBin(op, l, r) : op \in {"lor", "land"},
                                 l \in Tests \cup {G}, r \in Tests \cup {G}}
           \cup {Unary("not", t) : t \in Tests}}

Aggregates ==
  Wants({Tuple(<<x, y>>) : x \in {Var("a"), F, Suffixed("uint", 1), Num(1)},
                           y \in {Var("z"), G, Var("s"), Var("v"), Var("t")}}
        \cup {Tuple(<<>>)}, {NoType, Pair})
  \cup Wants({Agg(Row, es) : es \in {<<>>, <<Var("a")>>, <<F, Num(1)>>, <<F, Var("a"), F>>,
                                     <<Num(1), Num(2), Num(3), Num(1)>>}}
             \cup {Agg([Row EXCEPT !.extent = -1], <<Var("a"), F>>)}
             \cup {Agg(Pair, es) : es \in {<<>>, <<F>>, <<F, Var("z")>>, <<Num(1), Num(2)>>,
                                           <<Var("a"), Var("a")>>}}
             \cup {Agg(Either, <<x>>) : x \in {Var("a"), Var("s"), F, Var("z"), Var("u")}}
             \cup {Agg(Either, <<>>), Agg(NoType, <<Num(1), Num(2)>>),
                   Agg(MakeArray(Either, 2), <<Var("a"), Var("s")>>)}, {NoType, Row})

Elements ==
  Wants({Index(x, i) : x \in {Var("v"), Tuple(<<Var("v")>>), Var("p"), Agg(Row, <<F, Num(2)>>),
                              [n |-> "Str", text |-> "hi"], Var("t")},
                       i \in {Num(0), Num(2), Num(3), Var("z"), Var("a"), Var("s"), Var("k"), Var("l"),
                              Bin("add", Num(1), Num(1)), Bin("add", Suffixed("uint", 3), Suffixed("uint", 1)), Var("b"), [n |-> "Bool", v |-> 1], Prop("count", Var("Row"))}}
        \cup {Access(l, r) : l \in {Var("t"), Var("q"), Var("d"), Tuple(<<Var("a"), Var("s")>>), Var("a"), Agg(Pair, <<F>>)},
                             r \in {Var("x"), Var("y"), Var("w"), Num(0), Num(1), Num(2)}},
        {NoType})

Singles ==
  Wants(UNION {{Unary("neg", x), Unary("not", x), Unary("deref", Unary("addrof", x)), Unary("addrof", x)} \cup
               {Cast(x, type) : type \in {U8, S8, U64, S64, B8, F32, addrof(U8)}} :
                 x \in Numbers \cup {Var("b"), Var("c"), Var("r"), Var("p"), Var("t"), Index(Var("v"), Num(1)), Num(3)}}
        \cup {Prop(prop, x) : prop \in {"size", "align", "count", "type", "name"},
                              x \in {Var("Row"), Var("Pair"), Var("v"), Access(Var("t"), Var("x")), Agg(Row, <<F>>)}}
        \cup {Eff("Alloc"), Eff("Other"), [n |-> "Bool", v |-> 1], Var("l"), Var("k"), Var("zz"),
              [n |-> "Str", text |-> "hi"], Var("e"),
              Tuple(<<Var("a")>>), Flt(4, 2), Flt(0, 2), Bin("add", Var("r"), Flt(0, 1)), Bin("lt", Flt(4, 1), Var("r")), 
              Bin("eq", Var("r"), Flt(0, 2)), Bin("add", Var("v"), Var("v")), Bin("mul", Var("v"), Agg(Row, <<F, Num(2)>>)),
              Bin("min", Var("v"), Var("v"))}
        \cup {Bin(op, Var("e"), [n |-> "Selector", name |-> x]) : op \in {"eq", "ne"}, x \in {"A", "B", "C"}}
        \cup {Bin(op, x, y) : op \in {"eq", "ne"}, 
                x \in {Var("b"), Var("c"), Var("t"), Var("d"), Tuple(<<Var("a"), Var("s")>>), G},
                y \in {Var("b"), Var("c"), Var("t"), Var("d"), Tuple(<<F, Var("s")>>), G, Bin("lt", Var("a"), Num(2))}},
        {NoType, U8, U64, B32})

Calls ==
  Wants({CallOf(Var("f"), <<x>>) : x \in {Var("a"), Var("s"), Num(1), F, Explode(Tuple(<<Var("a")>>))}}
        \cup {CallOf(Var("fp"), <<x>>) : x \in {F, Num(1)}}
        \cup {CallOf(Var("h"), es) : es \in {<<F, Var("s")>>, <<Explode(Var("d"))>>, <<Num(1), Num(1)>>, <<>>, <<F>>,
                 <<Explode(Tuple(<<F, Var("s")>>))>>}}
        \cup {CallOf(Access(l, Var("m")), <<x>>) : l \in {Var("t"), Var("q")}, x \in {F, Num(2)}}
        \cup {CallOf(Var("n"), <<F>>), CallOf(Var("g"), <<Num(1)>>), CallOf(Var("o"), <<Var("p")>>),
              CallOf(Var("o"), <<Unary("addrof", Index(Var("v"), Var("z")))>>),
              CallOf(Var("o"), <<Unary("addrof", Access(Var("t"), Var("x")))>>),
              [CallOf(Var("o"), <<[n |-> "Str", text |-> "hi"]>>) EXCEPT !.c = TRUE],
              Access(CallOf(Var("h"), <<F, Var("s")>>), Num(0))},
        {NoType})

Initial ==
  {[place |-> "global", want |-> NoType, expr |-> e] :
     e \in {Num(1), Suffixed("uint", 2), Suffixed("sint", 3), [n |-> "Bool", v |-> 0], Var("k"), Flt(4, 2),
            Tuple(<<>>), F, Prop("size", Var("Pair")), [n |-> "Str", text |-> "hi"],
            Tuple(<<Suffixed("uint", 1), Suffixed("sint", 2)>>),
            Tuple(<<Suffixed("uint", 1), Var("k")>>), 
            Agg(Row, <<Suffixed("uint", 1), Num(2)>>),
            Agg(Row, <<Suffixed("uint", 1), Num(2), Num(0)>>),
            Agg(Pair, <<Num(1), Num(2)>>), Agg(Pair, <<Suffixed("uint", 1)>>), Index(Tuple(<<Suffixed("uint", 1)>>), Num(0))}
           \cup {Bin(op, l, r) : op \in Arithmetic \cup Compares \cup {"or", "and", "shl", "shr"},
                   l \in {Suffixed("uint", 1), Suffixed("sint", 2), Suffixed("sint", 3), Var("l"), Num(1)},
                   r \in {Suffixed("uint", 1), Suffixed("sint", 1), Num(1), Var("l")}}
           \cup {Bin(op, Bin("add", Suffixed("uint", 3), Suffixed("uint", 1)), Suffixed("uint", 1)) :
                   op \in {"shr", "and"}}
           \cup Joined({[n |-> "Bool", v |-> 0], [n |-> "Bool", v |-> 1]})
           \cup {Cast(x, type) : x \in {Suffixed("uint", 1), Suffixed("sint", 3)}, type \in {U64, U8}}}

MCUses == Arithmetics \cup Logic \cup Aliases \cup Conditional \cup Aggregates \cup Elements
          \cup Singles \cup Calls \cup Initial
=============================================================================
