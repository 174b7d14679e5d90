---------------------------- MODULE ParserProofs ----------------------------
(***************************************************************************)
(* The defer flag of the parser, for texts of any length: m_in_defer is    *)
(* set by parse_defer_stmt and by nothing else, so it is known from the    *)
(* calls that are active.                                                  *)
(***************************************************************************)
EXTENDS Parser, SequenceTheorems, TLAPS

(* What every rule but parse_defer_stmt puts in the place of its call.     *)
Plain == {item \in Items : item.do # "undefer"}

InDefer(stack) == \E i \in DOMAIN stack : stack[i] = LeaveDefer(0)

(* What the flag rests on: the items of todo are items, the text is made   *)
(* of tokens.                                                              *)
DeferInv ==
  /\ todo \in Seq(Items)
  /\ peeked \in Tokens \union {None}
  /\ text \in TextType
  /\ inDefer \in BOOLEAN
  /\ DeferFlagIsRight

-----------------------------------------------------------------------------
(* Items.                                                                  *)

LEMMA WhatsAre ==
  /\ Tokens \subseteq Whats /\ NodeKinds \subseteq Whats /\ Functions \subseteq Whats
  /\ Lists \subseteq Whats /\ Steps \subseteq Whats /\ "" \in Whats
  BY DEF Whats

LEMMA PrecType == \A t : Prec(t) \in -1..12
  BY DEF Prec

LEMMA PlainItem ==
  ASSUME NEW d \in {"call", "list", "comma", "rhs", "tighter", "take", "make", "binary", "drop",
                    "fail", "hold", "keep", "give", "release", "do"},
         NEW w \in Whats, NEW n \in Nat
  PROVE  Item(d, w, n) \in Plain
  BY DEF Item, Plain, Items

LEMMA PlainItems ==
  /\ Drop \in Plain /\ Fail \in Plain /\ Hold \in Plain /\ Keep \in Plain /\ Release \in Plain
  /\ \A w \in Whats :
       /\ Call(w) \in Plain /\ Take(w) \in Plain /\ Give(w) \in Plain
       /\ Do(w) \in Plain /\ List(w) \in Plain
       /\ \A n \in Nat : Go(w, n) \in Plain /\ Make(w, n) \in Plain
  BY PlainItem, WhatsAre DEF Drop, Fail, Hold, Keep, Release, Call, Take, Give, Do, List, Go, Make

LEMMA Undefer ==
  \A n \in Nat : /\ LeaveDefer(n) \in Items
                 /\ LeaveDefer(n).do = "undefer"
                 /\ LeaveDefer(n).n = n
  BY WhatsAre DEF LeaveDefer, Item, Items

LEMMA Names ==
  /\ "AT" \in Whats /\ "BOR" \in Whats /\ "COMMA" \in Whats /\ "DOT" \in Whats
  /\ "GT" \in Whats /\ "IDENT" \in Whats /\ "KW_NEW" \in Whats /\ "QUESTION" \in Whats
  /\ "RBRACE" \in Whats /\ "RBRACKET" \in Whats /\ "RPAREN" \in Whats /\ "SEMI" \in Whats
  /\ "add_import" \in Whats /\ "agg_expr" \in Whats /\ "alternative" \in Whats
  /\ "assign_module" \in Whats /\ "at_type" \in Whats /\ "atom_type" \in Whats
  /\ "attr_args" \in Whats /\ "attr_name" \in Whats /\ "attrs" \in Whats
  /\ "block_stmt" \in Whats /\ "bool_expr" \in Whats /\ "bracket_type" \in Whats
  /\ "break_stmt" \in Whats /\ "call_expr" \in Whats /\ "chr_expr" \in Whats
  /\ "continue_stmt" \in Whats /\ "defer_stmt" \in Whats /\ "effect" \in Whats
  /\ "enum_init" \in Whats /\ "enums" \in Whats /\ "expr" \in Whats
  /\ "expr_stmt" \in Whats /\ "flt_expr" \in Whats /\ "fn" \in Whats /\ "fn_type" \in Whats
  /\ "for_stmt" \in Whats /\ "group_type" \in Whats /\ "ident_type" \in Whats
  /\ "if_stmt" \in Whats /\ "import" \in Whats /\ "index_expr" \in Whats
  /\ "int_expr" \in Whats /\ "let_stmt" \in Whats /\ "module" \in Whats
  /\ "name_or_elem" \in Whats /\ "no_trailing_comma" \in Whats /\ "only_let" \in Whats
  /\ "postfix" \in Whats /\ "postfix_expr" \in Whats /\ "postfix_loop" \in Whats
  /\ "primary_expr" \in Whats /\ "ptr_type" \in Whats /\ "return_stmt" \in Whats
  /\ "selector_expr" \in Whats /\ "stmt" \in Whats /\ "stmts" \in Whats
  /\ "str_expr" \in Whats /\ "tuple" \in Whats /\ "tuple1" \in Whats
  /\ "tuple_expr" \in Whats /\ "tuple_type" \in Whats /\ "type" \in Whats
  /\ "type_expr" \in Whats /\ "typedef" \in Whats /\ "unary" \in Whats
  /\ "unary_expr" \in Whats /\ "union" \in Whats /\ "unit" \in Whats
  /\ "using_stmt" \in Whats /\ "var_expr" \in Whats /\ "varargs_type" \in Whats
  BY DEF Whats, Tokens, NodeKinds, Functions, Lists, Steps

LEMMA Alternatives ==
  ASSUME NEW n \in Nat
  PROVE  /\ Go("union", n + 1) \in Plain
         /\ Go("alternative", n) \in Plain
         /\ Go("at_type", n) \in Plain
  <1> DEFINE m == n + 1
  <1>1. m \in Nat
    OBVIOUS
  <1> HIDE DEF m
  <1>2. Item("call", "union", m) \in Plain
    BY <1>1, PlainItem, Names
  <1>3. QED
    BY <1>2, PlainItem, Names DEF Go, m

LEMMA Few ==
  ASSUME NEW a \in Plain, NEW b \in Plain, NEW c \in Plain, NEW d \in Plain
  PROVE  /\ <<>> \in Seq(Plain)
         /\ <<a>> \in Seq(Plain)
         /\ <<a, b>> \in Seq(Plain)
         /\ <<a, b, c>> \in Seq(Plain)
         /\ <<a, b, c, d>> \in Seq(Plain)
  OBVIOUS

LEMMA Many ==
  ASSUME NEW a \in Plain, NEW b \in Plain, NEW c \in Plain, NEW d \in Plain,
         NEW e \in Plain, NEW f \in Plain, NEW g \in Plain
  PROVE  /\ <<a, b, c, d, e>> \in Seq(Plain)
         /\ <<a, b, c, d, e, f>> \in Seq(Plain)
         /\ <<a, b, c, d, e, f, g>> \in Seq(Plain)
  OBVIOUS

LEMMA PlainOpt ==
  ASSUME NEW t, NEW k, NEW s \in Seq(Plain)
  PROVE  Opt(t, k, s) \in Seq(Plain)
  BY Few DEF Opt

-----------------------------------------------------------------------------
(* Rules: what each puts in the place of its call.                         *)

LEMMA ExprRules ==
  ASSUME NEW t \in Tokens, NEW n \in Nat
  PROVE  /\ parse_index_expr \in Seq(Plain)
         /\ parse_call_expr \in Seq(Plain)
         /\ parse_postfix_expr \in Seq(Plain)
         /\ effect_ref(t) \in Seq(Plain)
         /\ postfix_loop(t) \in Seq(Plain)
         /\ parse_unary_expr(t) \in Seq(Plain)
         /\ parse_expr \in Seq(Plain)
         /\ parse_primary_expr(t) \in Seq(Plain)
         /\ parse_agg_expr(n) \in Seq(Plain)
  <1> USE PlainItems, WhatsAre, Few, Many
  <1>1. parse_index_expr \in Seq(Plain)
    BY DEF parse_index_expr, Opt, Tokens, NodeKinds, Functions, Lists, Steps
  <1>2. parse_call_expr \in Seq(Plain)
    BY DEF parse_call_expr, Opt, Tokens, NodeKinds, Functions, Lists, Steps
  <1>3. parse_postfix_expr \in Seq(Plain)
    BY DEF parse_postfix_expr, Opt, Tokens, NodeKinds, Functions, Lists, Steps
  <1>4. effect_ref(t) \in Seq(Plain)
    BY DEF effect_ref, Opt, Tokens, NodeKinds, Functions, Lists, Steps
  <1>5. postfix_loop(t) \in Seq(Plain)
    BY Names DEF postfix_loop, Opt
  <1>6. parse_unary_expr(t) \in Seq(Plain)
    BY Names DEF parse_unary_expr, Opt
  <1>7. parse_expr \in Seq(Plain)
    BY PlainItem, Names DEF parse_expr, Opt
  <1>8. parse_primary_expr(t) \in Seq(Plain)
    BY Names DEF parse_primary_expr, Opt
  <1>9. parse_agg_expr(n) \in Seq(Plain)
    BY DEF parse_agg_expr, Opt, Tokens, NodeKinds, Functions, Lists, Steps
  <1>10. QED
    BY <1>1, <1>2, <1>3, <1>4, <1>5, <1>6, <1>7, <1>8, <1>9

LEMMA LeafRules ==
  ASSUME NEW t \in Tokens, NEW n \in Nat
  PROVE  /\ parse_type_expr \in Seq(Plain)
         /\ parse_var_expr \in Seq(Plain)
         /\ parse_selector_expr \in Seq(Plain)
         /\ parse_int_expr \in Seq(Plain)
         /\ parse_flt_expr \in Seq(Plain)
         /\ parse_str_expr \in Seq(Plain)
         /\ parse_chr_expr \in Seq(Plain)
         /\ parse_bool_expr(t) \in Seq(Plain)
         /\ parse_tuple_expr \in Seq(Plain)
         /\ no_trailing_comma(t) \in Seq(Plain)
  <1> USE PlainItems, WhatsAre, Few, Many
  <1>1. parse_type_expr \in Seq(Plain)
    BY DEF parse_type_expr, Opt, Tokens, NodeKinds, Functions, Lists, Steps
  <1>2. parse_var_expr \in Seq(Plain)
    BY DEF parse_var_expr, Opt, Tokens, NodeKinds, Functions, Lists, Steps
  <1>3. parse_selector_expr \in Seq(Plain)
    BY DEF parse_selector_expr, Opt, Tokens, NodeKinds, Functions, Lists, Steps
  <1>4. parse_int_expr \in Seq(Plain)
    BY DEF parse_int_expr, Opt, Tokens, NodeKinds, Functions, Lists, Steps
  <1>5. parse_flt_expr \in Seq(Plain)
    BY DEF parse_flt_expr, Opt, Tokens, NodeKinds, Functions, Lists, Steps
  <1>6. parse_str_expr \in Seq(Plain)
    BY DEF parse_str_expr, Opt, Tokens, NodeKinds, Functions, Lists, Steps
  <1>7. parse_chr_expr \in Seq(Plain)
    BY DEF parse_chr_expr, Opt, Tokens, NodeKinds, Functions, Lists, Steps
  <1>8. parse_bool_expr(t) \in Seq(Plain)
    BY Names DEF parse_bool_expr, Opt
  <1>9. parse_tuple_expr \in Seq(Plain)
    BY DEF parse_tuple_expr, Opt, Tokens, NodeKinds, Functions, Lists, Steps
  <1>10. no_trailing_comma(t) \in Seq(Plain)
    BY DEF no_trailing_comma, Opt, Tokens, NodeKinds, Functions, Lists, Steps
  <1>11. QED
    BY <1>1, <1>2, <1>3, <1>4, <1>5, <1>6, <1>7, <1>8, <1>9, <1>10

LEMMA TypeRules ==
  ASSUME NEW t \in Tokens, NEW n \in Nat
  PROVE  /\ parse_type \in Seq(Plain)
         /\ alternative(n, t) \in Seq(Plain)
         /\ at_type(n, t) \in Seq(Plain)
         /\ union_type(n, t) \in Seq(Plain)
         /\ parse_ident_type \in Seq(Plain)
         /\ parse_tuple_type \in Seq(Plain)
         /\ parse_args_type \in Seq(Plain)
         /\ name_or_elem(t) \in Seq(Plain)
         /\ parse_group_type \in Seq(Plain)
         /\ parse_varargs_type \in Seq(Plain)
         /\ parse_ptr_type \in Seq(Plain)
         /\ parse_atom_type \in Seq(Plain)
  <1> USE PlainItems, WhatsAre, Few, Many
  <1>1. parse_type \in Seq(Plain)
    BY DEF parse_type, Opt, Tokens, NodeKinds, Functions, Lists, Steps
  <1>2. alternative(n, t) \in Seq(Plain)
    BY Names, Alternatives DEF alternative
  <1>3. at_type(n, t) \in Seq(Plain)
    BY Names, Alternatives DEF at_type
  <1>4. union_type(n, t) \in Seq(Plain)
    BY Names DEF union_type, Opt
  <1>5. parse_ident_type \in Seq(Plain)
    BY DEF parse_ident_type, Opt, Tokens, NodeKinds, Functions, Lists, Steps
  <1>6. parse_tuple_type \in Seq(Plain)
    BY DEF parse_tuple_type, Opt, Tokens, NodeKinds, Functions, Lists, Steps
  <1>7. parse_args_type \in Seq(Plain)
    BY DEF parse_args_type, Opt, Tokens, NodeKinds, Functions, Lists, Steps
  <1>8. name_or_elem(t) \in Seq(Plain)
    BY DEF name_or_elem, Opt, Tokens, NodeKinds, Functions, Lists, Steps
  <1>9. parse_group_type \in Seq(Plain)
    BY DEF parse_group_type, Opt, Tokens, NodeKinds, Functions, Lists, Steps
  <1>10. parse_varargs_type \in Seq(Plain)
    BY DEF parse_varargs_type, Opt, Tokens, NodeKinds, Functions, Lists, Steps
  <1>11. parse_ptr_type \in Seq(Plain)
    BY DEF parse_ptr_type, Opt, Tokens, NodeKinds, Functions, Lists, Steps
  <1>12. parse_atom_type \in Seq(Plain)
    BY DEF parse_atom_type, Opt, Tokens, NodeKinds, Functions, Lists, Steps
  <1>13. QED
    BY <1>1, <1>2, <1>3, <1>4, <1>5, <1>6, <1>7, <1>8, <1>9, <1>10, <1>11, <1>12

LEMMA MoreTypeRules ==
  ASSUME NEW t \in Tokens, NEW n \in Nat
  PROVE  /\ parse_bracket_type \in Seq(Plain)
         /\ in_brackets(t) \in Seq(Plain)
         /\ enum_init(t) \in Seq(Plain)
         /\ parse_fn_type \in Seq(Plain)
         /\ more_args(t) \in Seq(Plain)
         /\ effects(t) \in Seq(Plain)
         /\ ret(t) \in Seq(Plain)
  <1> USE PlainItems, WhatsAre, Few, Many
  <1>1. parse_bracket_type \in Seq(Plain)
    BY DEF parse_bracket_type, Opt, Tokens, NodeKinds, Functions, Lists, Steps
  <1>2. in_brackets(t) \in Seq(Plain)
    BY Names DEF in_brackets, Opt
  <1>3. enum_init(t) \in Seq(Plain)
    BY DEF enum_init, Opt, Tokens, NodeKinds, Functions, Lists, Steps
  <1>4. parse_fn_type \in Seq(Plain)
    BY DEF parse_fn_type, Opt, Tokens, NodeKinds, Functions, Lists, Steps
  <1>5. more_args(t) \in Seq(Plain)
    BY DEF more_args, Opt, Tokens, NodeKinds, Functions, Lists, Steps
  <1>6. effects(t) \in Seq(Plain)
    BY DEF effects, Opt, Tokens, NodeKinds, Functions, Lists, Steps
  <1>7. ret(t) \in Seq(Plain)
    BY DEF ret, Opt, Tokens, NodeKinds, Functions, Lists, Steps
  <1>8. QED
    BY <1>1, <1>2, <1>3, <1>4, <1>5, <1>6, <1>7

LEMMA StmtRules ==
  ASSUME NEW t \in Tokens, NEW n \in Nat
  PROVE  /\ parse_stmt(t) \in Seq(Plain)
         /\ only_let(t) \in Seq(Plain)
         /\ parse_block_stmt \in Seq(Plain)
         /\ stmts(t) \in Seq(Plain)
         /\ parse_return_stmt \in Seq(Plain)
         /\ return_value(t) \in Seq(Plain)
         /\ parse_defer_stmt \in Seq(Plain)
         /\ parse_break_stmt \in Seq(Plain)
         /\ parse_continue_stmt \in Seq(Plain)
         /\ parse_if_stmt \in Seq(Plain)
         /\ init(t) \in Seq(Plain)
         /\ else_if(t) \in Seq(Plain)
         /\ else_arm(t) \in Seq(Plain)
  <1> USE PlainItems, WhatsAre, Few, Many
  <1>1. parse_stmt(t) \in Seq(Plain)
    BY Names DEF parse_stmt, Opt
  <1>2. only_let(t) \in Seq(Plain)
    BY DEF only_let, Opt, Tokens, NodeKinds, Functions, Lists, Steps
  <1>3. parse_block_stmt \in Seq(Plain)
    BY DEF parse_block_stmt, Opt, Tokens, NodeKinds, Functions, Lists, Steps
  <1>4. stmts(t) \in Seq(Plain)
    BY Names DEF stmts, Opt
  <1>5. parse_return_stmt \in Seq(Plain)
    BY DEF parse_return_stmt, Opt, Tokens, NodeKinds, Functions, Lists, Steps
  <1>6. return_value(t) \in Seq(Plain)
    BY Names DEF return_value, Opt
  <1>7. parse_defer_stmt \in Seq(Plain)
    BY DEF parse_defer_stmt, Opt, Tokens, NodeKinds, Functions, Lists, Steps
  <1>8. parse_break_stmt \in Seq(Plain)
    BY DEF parse_break_stmt, Opt, Tokens, NodeKinds, Functions, Lists, Steps
  <1>9. parse_continue_stmt \in Seq(Plain)
    BY DEF parse_continue_stmt, Opt, Tokens, NodeKinds, Functions, Lists, Steps
  <1>10. parse_if_stmt \in Seq(Plain)
    BY DEF parse_if_stmt, Opt, Tokens, NodeKinds, Functions, Lists, Steps
  <1>11. init(t) \in Seq(Plain)
    BY DEF init, Opt, Tokens, NodeKinds, Functions, Lists, Steps
  <1>12. else_if(t) \in Seq(Plain)
    BY DEF else_if, Opt, Tokens, NodeKinds, Functions, Lists, Steps
  <1>13. else_arm(t) \in Seq(Plain)
    BY Names DEF else_arm, Opt
  <1>14. QED
    BY <1>1, <1>2, <1>3, <1>4, <1>5, <1>6, <1>7, <1>8, <1>9, <1>10, <1>11, <1>12, <1>13

LEMMA MoreStmtRules ==
  ASSUME NEW t \in Tokens, NEW n \in Nat
  PROVE  /\ parse_let_stmt \in Seq(Plain)
         /\ parse_using_stmt \in Seq(Plain)
         /\ parse_for_stmt \in Seq(Plain)
         /\ for_expr(t) \in Seq(Plain)
         /\ for_post(t) \in Seq(Plain)
         /\ post_stmt(t) \in Seq(Plain)
         /\ for_else(t) \in Seq(Plain)
         /\ parse_expr_stmt \in Seq(Plain)
         /\ assignment(t) \in Seq(Plain)
  <1> USE PlainItems, WhatsAre, Few, Many
  <1>1. parse_let_stmt \in Seq(Plain)
    BY DEF parse_let_stmt, Opt, Tokens, NodeKinds, Functions, Lists, Steps
  <1>2. parse_using_stmt \in Seq(Plain)
    BY DEF parse_using_stmt, Opt, Tokens, NodeKinds, Functions, Lists, Steps
  <1>3. parse_for_stmt \in Seq(Plain)
    BY DEF parse_for_stmt, Opt, Tokens, NodeKinds, Functions, Lists, Steps
  <1>4. for_expr(t) \in Seq(Plain)
    BY Names DEF for_expr, Opt
  <1>5. for_post(t) \in Seq(Plain)
    BY DEF for_post, Opt, Tokens, NodeKinds, Functions, Lists, Steps
  <1>6. post_stmt(t) \in Seq(Plain)
    BY DEF post_stmt, Opt, Tokens, NodeKinds, Functions, Lists, Steps
  <1>7. for_else(t) \in Seq(Plain)
    BY DEF for_else, Opt, Tokens, NodeKinds, Functions, Lists, Steps
  <1>8. parse_expr_stmt \in Seq(Plain)
    BY DEF parse_expr_stmt, Opt, Tokens, NodeKinds, Functions, Lists, Steps
  <1>9. assignment(t) \in Seq(Plain)
    BY Names DEF assignment, Opt
  <1>10. QED
    BY <1>1, <1>2, <1>3, <1>4, <1>5, <1>6, <1>7, <1>8, <1>9

LEMMA DeclRules ==
  ASSUME NEW t \in Tokens, NEW n \in Nat
  PROVE  /\ parse_fn \in Seq(Plain)
         /\ parse_typedef \in Seq(Plain)
         /\ parse_module \in Seq(Plain)
         /\ parse_import \in Seq(Plain)
         /\ parse_effect \in Seq(Plain)
         /\ parse_attrs \in Seq(Plain)
         /\ parse(t) \in Seq(Plain)
  <1> USE PlainItems, WhatsAre, Few, Many
  <1>1. parse_fn \in Seq(Plain)
    BY DEF parse_fn, Opt, Tokens, NodeKinds, Functions, Lists, Steps
  <1>2. parse_typedef \in Seq(Plain)
    BY DEF parse_typedef, Opt, Tokens, NodeKinds, Functions, Lists, Steps
  <1>3. parse_module \in Seq(Plain)
    BY DEF parse_module, Opt, Tokens, NodeKinds, Functions, Lists, Steps
  <1>4. parse_import \in Seq(Plain)
    BY DEF parse_import, Opt, Tokens, NodeKinds, Functions, Lists, Steps
  <1>5. parse_effect \in Seq(Plain)
    BY DEF parse_effect, Opt, Tokens, NodeKinds, Functions, Lists, Steps
  <1>6. parse_attrs \in Seq(Plain)
    BY DEF parse_attrs, Opt, Tokens, NodeKinds, Functions, Lists, Steps
  <1>7. parse(t) \in Seq(Plain)
    BY Names DEF parse, Opt
  <1>8. QED
    BY <1>1, <1>2, <1>3, <1>4, <1>5, <1>6, <1>7

LEMMA ItemsAreASeq ==
  ASSUME NEW S, NEW n \in Nat, NEW s \in [1..n -> S]
  PROVE  s \in Seq(S)
  OBVIOUS

LEMMA SecondOf ==
  ASSUME NEW S, NEW s \in Seq(S), NEW r \in Seq(S), Len(s) = 2
  PROVE  s \o r \in Seq(S) /\ 2 \in DOMAIN (s \o r) /\ (s \o r)[2] = s[2]
  OBVIOUS

LEMMA Joined ==
  ASSUME NEW a \in Seq(Plain), NEW b \in Seq(Plain)
  PROVE  a \o b \in Seq(Plain)
  OBVIOUS

LEMMA ListRules ==
  ASSUME NEW list \in Whats, NEW n \in Nat, NEW t \in Tokens
  PROVE  /\ Elements(list, n, t) \in Seq(Plain)
         /\ AfterElement(list, n, t) \in Seq(Plain)
  <1>1. Closer(list) \in Whats
    BY Names DEF Closer
  <1>2. list \in Whats
    OBVIOUS
  <1>3. Closed(list, n) \in Seq(Plain)
    <2>1. <<Take(Closer(list))>> \in Seq(Plain)
      BY <1>1, PlainItems, Few
    <2>2. Make(IF n = 1 THEN "tuple1" ELSE "tuple", 0) \in Plain
      BY Names, PlainItems
    <2>3. /\ <<Make(IF n = 1 THEN "tuple1" ELSE "tuple", 0)>> \in Seq(Plain)
          /\ <<>> \in Seq(Plain)
      BY <2>2, Few
    <2>4. QED
      BY <2>1, <2>3, Joined DEF Closed
  <1>4. Element(list) \in Seq(Plain)
    <2>1. /\ <<Call("expr"), Drop>> \in Seq(Plain)
          /\ <<Call("type"), Call("name_or_elem")>> \in Seq(Plain)
          /\ <<Call("ident_type"), Drop>> \in Seq(Plain)
          /\ <<Take("DOT"), Take("IDENT"), Call("enum_init")>> \in Seq(Plain)
          /\ <<Take("IDENT"), Do("attr_name"), Call("tuple_expr"), Do("attr_args")>> \in Seq(Plain)
      BY Names, PlainItems, Few
    <2>2. QED
      BY <2>1 DEF Element
  <1>5. Elements(list, n, t) \in Seq(Plain)
    <2>1. Item("comma", list, IF n = 0 THEN 1 ELSE 2) \in Plain
      BY <1>2, PlainItem
    <2>2. <<Item("comma", list, IF n = 0 THEN 1 ELSE 2)>> \in Seq(Plain)
      BY <2>1, Few
    <2>3. QED
      BY <1>3, <1>4, <2>2, Joined DEF Elements
  <1>6. AfterElement(list, n, t) \in Seq(Plain)
    <2>1. /\ <<Take("COMMA")>> \in Seq(Plain)
          /\ <<Call("no_trailing_comma")>> \in Seq(Plain)
          /\ <<>> \in Seq(Plain)
      BY Names, PlainItems, Few
    <2>2. <<Item("list", list, n)>> \in Seq(Plain)
      BY <1>2, PlainItem, Few
    <2> DEFINE more == IF list = "tuple_expr" THEN <<Call("no_trailing_comma")>> ELSE <<>>
    <2>3. more \in Seq(Plain)
      BY <2>1
    <2>4. <<Take("COMMA")>> \o more \o <<Item("list", list, n)>> \in Seq(Plain)
      BY <2>1, <2>2, <2>3, Joined
    <2>5. QED
      BY <1>3, <2>4 DEF AfterElement
  <1>7. QED
    BY <1>5, <1>6

LEMMA OperatorRules ==
  ASSUME NEW t \in Tokens, NEW op, NEW n \in Nat
  PROVE  /\ parse_binop_rhs(n, t) \in Seq(Plain)
         /\ tighter(op, t) \in Seq(Plain)
  <1>1. parse_binop_rhs(n, t) \in Seq(Plain)
    <2>1. CASE Prec(t) < n
      BY <2>1, Few, PlainItems DEF parse_binop_rhs
    <2>2. CASE ~(Prec(t) < n)
      <3>1. Prec(t) \in Nat
        BY <2>2, PrecType
      <3>2. /\ Take(t) \in Plain
            /\ Call(IF t \in {"KW_AS", "KW_IS"} THEN "type_expr" ELSE "unary_expr") \in Plain
            /\ Item("tighter", t, 0) \in Plain
            /\ Item("binary", t, Prec(t)) \in Plain
            /\ Item("rhs", "", n) \in Plain
        BY <3>1, PlainItems, PlainItem, WhatsAre, Names
      <3>3. QED
        BY <2>2, <3>2, Many DEF parse_binop_rhs
    <2>3. QED
      BY <2>1, <2>2
  <1>2. tighter(op, t) \in Seq(Plain)
    <2> DEFINE m == Prec(op) + 1
    <2>1. m \in Nat
      BY PrecType
    <2> HIDE DEF m
    <2>2. Item("rhs", "", m) \in Plain
      BY <2>1, PlainItem, WhatsAre
    <2>3. <<Item("rhs", "", m)>> \in Seq(Plain) /\ <<>> \in Seq(Plain)
      BY <2>2, Few
    <2>4. QED
      BY <2>3 DEF tighter, m
  <1>3. QED
    BY <1>1, <1>2

LEMMA BodyRule ==
  ASSUME NEW f, NEW n \in Nat, NEW t \in Tokens
  PROVE  Body(f, n, t) \in Seq(Plain)
  BY ExprRules, LeafRules, TypeRules, MoreTypeRules, StmtRules, MoreStmtRules, DeclRules DEF Body

LEMMA ExpansionRule ==
  ASSUME NEW item \in Items, NEW t \in Tokens
  PROVE  Expansion(item, t) \in Seq(Plain)
  <1>1. item.what \in Whats /\ item.n \in Nat
    BY DEF Items
  <1>2. QED
    BY <1>1, BodyRule, ListRules, OperatorRules DEF Expansion

-----------------------------------------------------------------------------
(* The calls that are active.                                              *)

LEMMA Expanded ==
  ASSUME NEW s \in Seq(Items), s # <<>>, Head(s).do # "undefer", NEW e \in Seq(Plain)
  PROVE  /\ e \o Tail(s) \in Seq(Items)
         /\ InDefer(e \o Tail(s)) <=> InDefer(s)
  <1> DEFINE r == e \o Tail(s)
  <1>1. /\ e \in Seq(Items)
        /\ \A i \in 1..Len(e) : e[i].do # "undefer"
    BY DEF Plain
  <1>2. /\ Tail(s) \in Seq(Items)
        /\ Len(Tail(s)) = Len(s) - 1
        /\ \A i \in 1..Len(s) - 1 : Tail(s)[i] = s[i + 1]
        /\ s[1] = Head(s)
        /\ Len(s) \in Nat /\ Len(s) >= 1
    OBVIOUS
  <1>3. /\ r \in Seq(Items)
        /\ Len(r) = Len(e) + Len(s) - 1
        /\ Len(e) \in Nat
        /\ \A i \in 1..Len(e) : r[i] = e[i]
        /\ \A i \in Len(e) + 1..Len(r) : r[i] = Tail(s)[i - Len(e)]
    BY <1>1, <1>2
  <1> HIDE DEF r
  <1>4. ASSUME NEW i \in 2..Len(s) PROVE r[i - 1 + Len(e)] = s[i] /\ i - 1 + Len(e) \in 1..Len(r)
    <2>1. /\ i - 1 + Len(e) \in Len(e) + 1..Len(r)
          /\ i - 1 \in 1..Len(s) - 1
          /\ i - 1 + Len(e) \in 1..Len(r)
          /\ (i - 1 + Len(e)) - Len(e) = i - 1 /\ (i - 1) + 1 = i
      BY <1>2, <1>3
    <2>2. QED
      BY <1>2, <1>3, <2>1
  <1>5. ASSUME NEW i \in 1..Len(r), i > Len(e)
        PROVE  i - Len(e) + 1 \in 2..Len(s) /\ r[i] = s[i - Len(e) + 1]
    <2>1. /\ i \in Len(e) + 1..Len(r)
          /\ i - Len(e) \in 1..Len(s) - 1
          /\ i - Len(e) + 1 \in 2..Len(s)
      BY <1>2, <1>3, <1>5
    <2>2. QED
      BY <1>2, <1>3, <2>1
  <1>6. /\ DOMAIN s = 1..Len(s) /\ DOMAIN r = 1..Len(r)
        /\ LeaveDefer(0).do = "undefer"
    BY <1>3, Undefer
  <1>7. InDefer(s) => InDefer(r)
    <2>1. SUFFICES ASSUME NEW i \in 1..Len(s), s[i] = LeaveDefer(0) PROVE InDefer(r)
      BY <1>6 DEF InDefer
    <2>2. i # 1
      BY <2>1, <1>2, <1>6
    <2>3. i \in 2..Len(s)
      BY <2>2, <1>2
    <2>4. QED
      BY <2>1, <2>3, <1>4, <1>6 DEF InDefer
  <1>8. InDefer(r) => InDefer(s)
    <2>1. SUFFICES ASSUME NEW i \in 1..Len(r), r[i] = LeaveDefer(0) PROVE InDefer(s)
      BY <1>6 DEF InDefer
    <2>2. i > Len(e)
      BY <2>1, <1>1, <1>3, <1>6
    <2>3. i - Len(e) + 1 \in 1..Len(s) /\ s[i - Len(e) + 1] = LeaveDefer(0)
      BY <2>1, <2>2, <1>5, <1>2, <1>3
    <2>4. QED
      BY <2>3, <1>6 DEF InDefer
  <1>9. QED
    BY <1>3, <1>7, <1>8 DEF r

LEMMA Done ==
  ASSUME NEW s \in Seq(Items), s # <<>>, Head(s).do # "undefer"
  PROVE  /\ Tail(s) \in Seq(Items)
         /\ InDefer(Tail(s)) <=> InDefer(s)
  <1> DEFINE e == <<>>
             r == e \o Tail(s)
  <1>1. e \in Seq(Plain) /\ r = Tail(s)
    OBVIOUS
  <1>2. r \in Seq(Items) /\ (InDefer(r) <=> InDefer(s))
    <2> HIDE DEF e
    <2>1. QED
      BY <1>1, Expanded
  <1> HIDE DEF r
  <1>3. QED
    BY <1>1, <1>2

-----------------------------------------------------------------------------
(* The text.                                                               *)

LEMMA PeekedType ==
  ASSUME text \in TextType, peeked \in Tokens \union {None}
  PROVE  Peeked \subseteq Tokens
  <1>1. /\ text.script \in Seq(Tokens \ {"END"})
        /\ text.kinds \in SUBSET (Tokens \ {"END"})
    BY DEF TextType
  <1>2. "END" \in Tokens
    BY DEF Tokens
  <1>3. text.script # <<>> => Head(text.script) \in Tokens
    BY <1>1
  <1>4. text.kinds \union {"END"} \subseteq Tokens
    BY <1>1, <1>2
  <1>5. QED
    BY <1>2, <1>3, <1>4 DEF Peeked

LEMMA BehindType ==
  ASSUME text \in TextType
  PROVE  Behind \in TextType
  <1>1. CASE text.script # <<>>
    <2>1. Tail(text.script) \in Seq(Tokens \ {"END"})
      BY <1>1 DEF TextType
    <2>2. QED
      BY <1>1, <2>1 DEF Behind, TextType
  <1>2. CASE text.script = <<>> /\ text.left > 1
    <2>1. text.left - 1 \in Nat
      BY <1>2 DEF TextType
    <2>2. QED
      BY <1>2, <2>1 DEF Behind, TextType
  <1>3. CASE text.script = <<>> /\ ~(text.left > 1)
    BY <1>3 DEF Behind, TextType
  <1>4. QED
    BY <1>1, <1>2, <1>3

-----------------------------------------------------------------------------
(* Steps.                                                                  *)

LEMMA InitDefer == Init => DeferInv
  <1> SUFFICES ASSUME Init PROVE DeferInv
    OBVIOUS
  <1>1. todo \in Seq(Items)
    <2>1. Call("unit") \in Items
      BY PlainItem, Names DEF Call, Plain
    <2>2. QED
      BY <2>1 DEF Init
  <1>2. ~InDefer(todo)
    <2>1. DOMAIN todo = {1} /\ todo[1] = Call("unit")
      BY DEF Init
    <2>2. Call("unit").do = "call" /\ LeaveDefer(0).do = "undefer"
      BY Undefer DEF Call, Item
    <2>3. QED
      BY <2>1, <2>2 DEF InDefer
  <1>3. /\ peeked \in Tokens \union {None}
        /\ text \in TextType
        /\ inDefer = FALSE
    BY ParserAssumption DEF Init
  <1>4. QED
    BY <1>1, <1>2, <1>3 DEF DeferInv, DeferFlagIsRight, InDefer

(* Steps that take the innermost item off, or put rules in its place.      *)
LEMMA Kept ==
  ASSUME DeferInv, todo # <<>>, result = None, Head(todo).do # "undefer",
         NEW e \in Seq(Plain), todo' = e \o Tail(todo),
         text' \in TextType, peeked' \in Tokens \union {None}, inDefer' = inDefer
  PROVE  DeferInv'
  <1>1. /\ todo' \in Seq(Items)
        /\ InDefer(todo') <=> InDefer(todo)
    BY Expanded DEF DeferInv
  <1>2. inDefer <=> InDefer(todo)
    BY DEF DeferInv, DeferFlagIsRight, InDefer
  <1>3. inDefer' <=> InDefer(todo')
    BY <1>1, <1>2
  <1>4. DeferFlagIsRight'
    BY <1>3 DEF DeferFlagIsRight, InDefer
  <1>5. QED
    BY <1>1, <1>4 DEF DeferInv

LEMMA Popped ==
  ASSUME DeferInv, todo # <<>>, result = None, Head(todo).do # "undefer", todo' = Tail(todo),
         text' = text, peeked' = peeked, inDefer' = inDefer
  PROVE  DeferInv'
  <1>1. /\ todo' \in Seq(Items)
        /\ InDefer(todo') <=> InDefer(todo)
    BY Done DEF DeferInv
  <1>2. inDefer <=> InDefer(todo)
    BY DEF DeferInv, DeferFlagIsRight, InDefer
  <1>3. inDefer' <=> InDefer(todo')
    BY <1>1, <1>2
  <1>4. DeferFlagIsRight'
    BY <1>3 DEF DeferFlagIsRight, InDefer
  <1>5. QED
    BY <1>1, <1>4 DEF DeferInv

LEMMA Unwound ==
  ASSUME DeferInv, NEW how, how # None, Unwind(how)
  PROVE  DeferInv'
  <1>1. text' \in TextType
    <2>1. <<>> \in Seq(Tokens \ {"END"})
      OBVIOUS
    <2>2. QED
      BY <2>1 DEF DeferInv, Unwind, TextType
  <1>2. DeferFlagIsRight'
    BY DEF Unwind, DeferFlagIsRight
  <1>3. /\ todo' \in Seq(Items)
        /\ peeked' \in Tokens \union {None}
        /\ inDefer' = inDefer
    BY DEF Unwind
  <1>4. QED
    BY <1>1, <1>2, <1>3 DEF DeferInv

(* m_in_defer changes only where parse_defer_stmt sets and clears it.      *)
LEMMA NextDefer == DeferInv /\ [Next]_vars => DeferInv'
  <1> SUFFICES ASSUME DeferInv, [Next]_vars PROVE DeferInv'
    OBVIOUS
  <1> DEFINE same == text' = text /\ peeked' = peeked /\ inDefer' = inDefer
  <1>1. CASE Expand
    <2>1. PICK t \in Peeked : peeked' = t /\ todo' = Expansion(Head(todo), t) \o Tail(todo)
      BY <1>1 DEF Expand
    <2>2. t \in Tokens
      BY PeekedType DEF DeferInv
    <2>3. todo # <<>> /\ result = None /\ Head(todo) \in Items /\ Head(todo).do # "undefer"
      BY <1>1 DEF Expand, DeferInv
    <2>4. Expansion(Head(todo), t) \in Seq(Plain)
      BY <2>2, <2>3, ExpansionRule
    <2>5. text' \in TextType /\ peeked' \in Tokens \union {None} /\ inDefer' = inDefer
      BY <1>1, <2>1, <2>2 DEF Expand, DeferInv
    <2>6. QED
      BY <2>1, <2>3, <2>4, <2>5, Kept
  <1>2. CASE Consume
    <2>1. CASE Unwind("diagnosed")
      BY <2>1, Unwound DEF None
    <2>2. CASE peeked' = None /\ text' = Behind /\ todo' = Tail(todo) /\ inDefer' = inDefer
      <3>1. todo # <<>> /\ result = None /\ Head(todo).do # "undefer"
        BY <1>2 DEF Consume, At
      <3>2. text' \in TextType
        BY <2>2, BehindType DEF DeferInv
      <3> DEFINE e == <<>>
      <3>3. e \in Seq(Plain) /\ todo' = e \o Tail(todo)
        <4>1. Tail(todo) \in Seq(Items)
          BY <3>1 DEF DeferInv
        <4>2. QED
          BY <4>1, <2>2
      <3> HIDE DEF e
      <3>4. QED
        BY <3>1, <3>2, <3>3, <2>2, Kept
    <2>3. QED
      BY <1>2, <2>1, <2>2 DEF Consume
  <1>3. CASE Refuse
    BY <1>3, Unwound DEF Refuse, None
  <1>4. CASE NewNode
    BY <1>4, Popped DEF NewNode, At
  <1>5. CASE NewBinary
    BY <1>5, Popped DEF NewBinary, At
  <1>6. CASE DropNode
    BY <1>6, Popped DEF DropNode, At
  <1>7. CASE HoldAttrs
    BY <1>7, Popped DEF HoldAttrs, At
  <1>8. CASE KeepAttrs
    BY <1>8, Popped DEF KeepAttrs, At
  <1>9. CASE GiveAttrs
    BY <1>9, Popped DEF GiveAttrs, At
  <1>10. CASE ReleaseAttrs
    BY <1>10, Popped DEF ReleaseAttrs, At
  <1>11. CASE AttrName
    <2>1. CASE Unwind("diagnosed")
      BY <2>1, Unwound DEF None
    <2>2. CASE todo' = Tail(todo) /\ same
      BY <1>11, <2>2, Popped DEF AttrName, Step, At
    <2>3. QED
      BY <1>11, <2>1, <2>2 DEF AttrName
  <1>12. CASE AttrArgs
    <2>1. CASE Unwind("silent")
      BY <2>1, Unwound DEF None
    <2>2. CASE todo' = Tail(todo) /\ same
      BY <1>12, <2>2, Popped DEF AttrArgs, Step, At
    <2>3. QED
      BY <1>12, <2>1, <2>2 DEF AttrArgs
  <1>13. CASE IntLiteral
    <2>1. CASE Unwind("diagnosed")
      BY <2>1, Unwound DEF None
    <2>2. CASE todo' = Tail(todo) /\ same
      BY <1>13, <2>2, Popped DEF IntLiteral, Step, At
    <2>3. QED
      BY <1>13, <2>1, <2>2 DEF IntLiteral
  <1>14. CASE FltLiteral
    <2>1. CASE Unwind("diagnosed")
      BY <2>1, Unwound DEF None
    <2>2. CASE todo' = Tail(todo) /\ same
      BY <1>14, <2>2, Popped DEF FltLiteral, Step, At
    <2>3. QED
      BY <1>14, <2>1, <2>2 DEF FltLiteral
  <1>15. CASE AssignModule
    <2>1. CASE Unwind("diagnosed")
      BY <2>1, Unwound DEF None
    <2>2. CASE todo' = Tail(todo) /\ same
      BY <1>15, <2>2, Popped DEF AssignModule, Step, At
    <2>3. QED
      BY <1>15, <2>1, <2>2 DEF AssignModule
  <1>16. CASE AddImport
    <2>1. CASE Unwind("diagnosed")
      BY <2>1, Unwound DEF None
    <2>2. CASE todo' = Tail(todo) /\ same
      BY <1>16, <2>2, Popped DEF AddImport, Step, At
    <2>3. QED
      BY <1>16, <2>1, <2>2 DEF AddImport
  <1>17. CASE BeginDefer
    <2> DEFINE e == <<Call("stmt"), LeaveDefer(0)>>
    <2>1. todo # <<>> /\ Tail(todo) \in Seq(Items)
      BY <1>17 DEF BeginDefer, Step, At, DeferInv
    <2>2. Call("stmt") \in Items /\ LeaveDefer(0) \in Items
      BY PlainItems, Undefer, Names DEF Plain
    <2>3. todo' \in Seq(Items) /\ 2 \in DOMAIN todo' /\ todo'[2] = LeaveDefer(0)
      <3>1. todo' = e \o Tail(todo)
        BY <1>17 DEF BeginDefer
      <3>2. e \in Seq(Items) /\ Len(e) = 2 /\ e[2] = LeaveDefer(0)
        BY <2>2
      <3> HIDE DEF e
      <3>3. QED
        BY <2>1, <3>1, <3>2, SecondOf
    <2>4. inDefer' = TRUE
      BY <1>17 DEF BeginDefer
    <2>5. DeferFlagIsRight'
      BY <2>3, <2>4 DEF DeferFlagIsRight
    <2>6. QED
      BY <1>17, <2>3, <2>4, <2>5 DEF DeferInv, BeginDefer
  <1>18. CASE EndDefer
    <2>1. todo # <<>> /\ Len(todo) \in Nat /\ Len(todo) - 1 \in Nat
      BY <1>18 DEF EndDefer, At, DeferInv
    <2>2. todo' = [i \in 1..Len(todo) - 1 |->
                     IF todo[i + 1].do = "undefer" THEN LeaveDefer(1) ELSE todo[i + 1]]
      BY <1>18 DEF EndDefer
    <2>3. \A i \in 1..Len(todo) - 1 : i + 1 \in 1..Len(todo) /\ todo[i + 1] \in Items
      BY <2>1 DEF DeferInv
    <2>4. \A i \in 1..Len(todo) - 1 : todo'[i] \in Items /\ todo'[i] # LeaveDefer(0)
      BY <2>2, <2>3, Undefer
    <2>5. DOMAIN todo' = 1..Len(todo) - 1 /\ todo' \in [1..Len(todo) - 1 -> Items]
      BY <2>2, <2>4
    <2>6. todo' \in Seq(Items)
      BY <2>1, <2>5, ItemsAreASeq
    <2>7. inDefer' = FALSE
      BY <1>18 DEF EndDefer
    <2>8. DeferFlagIsRight'
      BY <2>4, <2>5, <2>7 DEF DeferFlagIsRight
    <2>9. QED
      BY <1>18, <2>6, <2>7, <2>8 DEF DeferInv, EndDefer
  <1>19. CASE Finish
    BY <1>19 DEF Finish, DeferInv, DeferFlagIsRight, None
  <1>20. CASE UNCHANGED vars
    BY <1>20 DEF vars, DeferInv, DeferFlagIsRight
  <1>21. QED
    BY <1>1, <1>2, <1>3, <1>4, <1>5, <1>6, <1>7, <1>8, <1>9, <1>10, <1>11, <1>12,
       <1>13, <1>14, <1>15, <1>16, <1>17, <1>18, <1>19, <1>20 DEF Next

(* The defer flag: a return outside deferred statements is never refused,  *)
(* and one inside is accepted only behind a nested defer that has ended    *)
(* (parse_return_stmt, parse_defer_stmt), whatever the text.               *)
THEOREM DeferFlag == Spec => []DeferFlagIsRight
  <1>1. DeferInv => DeferFlagIsRight
    BY DEF DeferInv
  <1>2. QED
    BY <1>1, InitDefer, NextDefer, PTL DEF Spec

=============================================================================
