------------------------------- MODULE Parser -------------------------------
(***************************************************************************)
(* Parser: recursive descent with one token of lookahead (parser.cpp,      *)
(* parser.h).                                                              *)
(*                                                                         *)
(* The C++ call stack is `todo`, what the active calls have still to do,   *)
(* innermost first.  Each parse function is an operator: the items it puts *)
(* in the place of its call, given the peeked token t.  Nodes wait on      *)
(* `nodes` until the node they become part of is made.  The text is chosen *)
(* token by token as it is peeked.                                         *)
(*                                                                         *)
(* A node keeps its kind, where parsing depends on it, and how tightly it  *)
(* and its operands bind.  Running out of memory, ranges, names and what   *)
(* literals are worth are left out.                                        *)
(***************************************************************************)
EXTENDS Integers, Sequences, FiniteSets, SequencesExt

CONSTANTS
  Texts,      (* How texts may go: [script |-> tokens it begins with,      *)
              (* kinds |-> tokens that may follow, left |-> how many].     *)
  Literals    (* What integer literals there are: [typed |-> has a suffix, *)
              (* over |-> more than 64 bits, fits |-> its type holds it].  *)

None == "none"
Tokens == {"END", "AT", "COMMA", "COLON", "SEMI", "LPAREN", "RPAREN", "LBRACKET",
  "RBRACKET", "LBRACE", "RBRACE", "PLUS", "MINUS", "STAR", "FSLASH", "PERCENT", "NOT",
  "DOLLAR", "QUESTION", "BOR", "LOR", "BAND", "LAND", "DOT", "SEQUENCE", "ELLIPSIS", "EQ",
  "EQEQ", "NEQ", "LT", "MIN", "LTE", "LSHIFT", "GT", "MAX", "GTE", "RSHIFT", "ARROW",
  "IDENT", "PLUSEQ", "MINUSEQ", "STAREQ", "FSLASHEQ", "KW_TRUE", "KW_FALSE", "KW_FN",
  "KW_IF", "KW_AS", "KW_OF", "KW_IS", "KW_LET", "KW_NEW", "KW_FOR", "KW_ELSE", "KW_TYPE",
  "KW_DEFER", "KW_BREAK", "KW_USING", "KW_RETURN", "KW_EFFECT", "KW_MODULE", "KW_IMPORT",
  "KW_CONTINUE", "LIT_INT", "LIT_FLT", "LIT_STR", "LIT_CHR", "UNKNOWN"}

TextType == [script : Seq(Tokens \ {"END"}), kinds : SUBSET (Tokens \ {"END"}), left : Nat]
LiteralType == [typed : BOOLEAN, over : BOOLEAN, fits : BOOLEAN]

ASSUME ParserAssumption == Texts \subseteq TextType /\ Literals \subseteq LiteralType

VARIABLES
  text,       (* What m_lexer has not handed out yet.                      *)
  peeked,     (* m_peek_token, or None.                                    *)
  todo,       (* What the active calls have still to do, innermost first.  *)
  nodes,      (* Nodes made that are not yet part of another, newest last. *)
  attrs,      (* The attribute list in each active `attrs` array: 0 for an *)
              (* empty one, else the number of the list it holds.          *)
  fate,       (* Ghost: what became of each attribute list parsed.         *)
  before,     (* Ghost: the token behind each attribute list.              *)
  open,       (* Ghost: the brackets consumed that are not closed yet.     *)
  inDefer,    (* m_in_defer.                                               *)
  errno,      (* errno = ERANGE.                                           *)
  unit,       (* The AstUnit: m_module is set; how many m_imports.         *)
  result      (* None | unit | diagnosed | silent: what parse() returned.  *)

vars == <<text, peeked, todo, nodes, attrs, fate, before, open, inDefer, errno, unit, result>>

-----------------------------------------------------------------------------
(* Binding strength.                                                       *)

\* binary_prec(): 16 less the level of binary_prec_(), -1 for what is no operator.
Prec(t) ==
  CASE t \in {"KW_OF", "KW_IS", "KW_AS"} -> 12
    [] t \in {"STAR", "FSLASH"} -> 11
    [] t \in {"PLUS", "MINUS"} -> 10
    [] t \in {"LSHIFT", "RSHIFT"} -> 9
    [] t \in {"LT", "LTE", "GT", "GTE", "MIN", "MAX"} -> 7
    [] t \in {"EQEQ", "NEQ"} -> 6
    [] t = "BAND" -> 5
    [] t = "BOR" -> 3
    [] t = "LAND" -> 2
    [] t = "LOR" -> 1
    [] OTHER -> -1

Unary == 13     (* A node binds as its operator does; unary operators,     *)
Postfix == 14   (* postfix ones and what needs no operator bind tighter    *)
Primary == 15   (* than any binary one.                                    *)

NodeKinds == {"expr", "typeexpr", "tuple", "tuple1", "type", "ident",
              "binary", "unary", "postfix"}
Nodes == [kind : NodeKinds, prec : Nat, left : Nat, right : Nat]

\* new_node: the node made of the nodes `parts`.
Node(kind, parts) ==
  CASE kind = "postfix" ->
         [kind |-> kind, prec |-> Postfix, left |-> parts[1].prec, right |-> Primary]
    [] kind = "unary" ->
         [kind |-> kind, prec |-> Unary, left |-> Primary, right |-> parts[1].prec]
    [] OTHER -> [kind |-> kind, prec |-> Primary, left |-> Primary, right |-> Primary]

-----------------------------------------------------------------------------
(* Items of todo.                                                          *)

\* What can be called: the functions parse_* and parts of them, their loops and branches.
Functions ==
  {"index_expr", "call_expr", "postfix_expr", "effect_ref", "postfix_loop", "unary_expr",
   "expr", "primary_expr", "agg_expr", "type_expr", "var_expr", "selector_expr",
   "int_expr", "flt_expr", "str_expr", "chr_expr", "bool_expr", "tuple_expr",
   "no_trailing_comma", "type", "alternative", "at_type", "union", "ident_type",
   "tuple_type", "args_type", "name_or_elem", "group_type", "varargs_type", "ptr_type",
   "atom_type", "bracket_type", "in_brackets", "enum_init", "fn_type", "more_args",
   "effects", "ret", "stmt", "only_let", "block_stmt", "stmts", "return_stmt",
   "return_value", "defer_stmt", "break_stmt", "continue_stmt", "if_stmt", "init",
   "else_if", "else_arm", "let_stmt", "using_stmt", "for_stmt", "for_expr", "for_post",
   "post_stmt", "for_else", "expr_stmt", "assignment", "fn", "typedef", "module", "import",
   "effect", "attrs", "unit"}
Lists == {"agg_expr", "tuple_expr", "tuple_type", "args_type", "attrs", "effects", "enums"}
Steps == {"defer", "attr_name", "attr_args", "strtoull", "strtod", "assign_module", "add_import"}

Whats == Tokens \union NodeKinds \union Functions \union Lists \union Steps \union {""}

Item(do, what, n) == [do |-> do, what |-> what, n |-> n]
Items == [do : {"call", "list", "comma", "rhs", "tighter", "take", "make", "binary", "drop",
                "fail", "hold", "keep", "give", "release", "undefer", "do"},
          what : Whats,
          n : Nat]

Call(f) == Item("call", f, 0)        (* parse_f()                          *)
Go(f, n) == Item("call", f, n)       (* the same, having counted to n      *)
Take(t) == Item("take", t, 0)        (* peek().kind must be t; next()      *)
Make(kind, n) == Item("make", kind, n)  (* new_node of the n newest nodes  *)
Drop == Item("drop", "", 0)          (* the newest node goes to its parent *)
Fail == Item("fail", "", 0)          (* return ERROR(...)                  *)
Hold == Item("hold", "", 0)          (* a local, empty `attrs`             *)
Keep == Item("keep", "", 0)          (* attrs = what parse_attrs returned  *)
Give(node) == Item("give", node, 0)  (* the node is given move(attrs)      *)
Release == Item("release", "", 0)    (* attrs goes out of scope            *)
LeaveDefer(n) == Item("undefer", "", n)  (* m_in_defer = false; ghost n:   *)
                                     (* whether a defer in this one ended  *)
Do(what) == Item("do", what, 0)      (* a step of a function of its own    *)

Opt(t, kind, items) == IF t = kind THEN items ELSE <<>>

-----------------------------------------------------------------------------
(* Comma separated lists, which all loop alike:                            *)
(*   while (peek != closer) { element; if (peek == COMMA) next; else break }*)
(*   if (peek != closer) return ERROR; next();                             *)

Closer(list) ==
  CASE list \in {"agg_expr", "tuple_type"} -> "RBRACE"
    [] list \in {"tuple_expr", "args_type", "attrs"} -> "RPAREN"
    [] list = "effects" -> "GT"
    [] OTHER -> "RBRACKET"

Element(list) ==
  CASE list \in {"agg_expr", "tuple_expr"} -> <<Call("expr"), Drop>>
    [] list \in {"tuple_type", "args_type"} -> <<Call("type"), Call("name_or_elem")>>
    [] list = "effects" -> <<Call("ident_type"), Drop>>
    [] list = "enums" -> <<Take("DOT"), Take("IDENT"), Call("enum_init")>>
    [] OTHER -> <<Take("IDENT"), Do("attr_name"), Call("tuple_expr"), Do("attr_args")>>

List(list) == Item("list", list, 0)

\* The length of a tuple expression is asked for by parse_attrs: is it one?
Closed(list, n) ==
  <<Take(Closer(list))>> \o
  (IF list = "tuple_expr" THEN <<Make(IF n = 1 THEN "tuple1" ELSE "tuple", 0)>> ELSE <<>>)

Elements(list, n, t) ==
  IF t = Closer(list) THEN Closed(list, n)
  ELSE Element(list) \o <<Item("comma", list, IF n = 0 THEN 1 ELSE 2)>>

AfterElement(list, n, t) ==
  IF t # "COMMA" THEN Closed(list, n)
  ELSE <<Take("COMMA")>>
       \o (IF list = "tuple_expr" THEN <<Call("no_trailing_comma")>> ELSE <<>>)
       \o <<Item("list", list, n)>>

-----------------------------------------------------------------------------
(* Expressions.                                                            *)

parse_index_expr == <<Take("LBRACKET"), Call("expr"), Take("RBRACKET"), Make("postfix", 2)>>
parse_call_expr == <<Call("tuple_expr"), Make("postfix", 2)>>

\* The loop of parse_binop_rhs(expr_prec, lhs): an operand of an operator that binds
\* at least so tightly, or the end.
parse_binop_rhs(expr_prec, t) ==
  IF Prec(t) < expr_prec THEN <<>>
  ELSE <<Take(t),
         Call(IF t \in {"KW_AS", "KW_IS"} THEN "type_expr" ELSE "unary_expr"),
         Item("tighter", t, 0),
         Item("binary", t, Prec(t)),
         Item("rhs", "", expr_prec)>>

\* Mutant: an operator that binds alike takes the operand too.
tighter_Mutant(op, t) == IF Prec(op) <= Prec(t) THEN <<Item("rhs", "", Prec(op))>> ELSE <<>>

\* "Handle less-tight binding for non-unary".
tighter(op, t) == IF Prec(op) < Prec(t) THEN <<Item("rhs", "", Prec(op) + 1)>> ELSE <<>>

parse_postfix_expr == <<Call("primary_expr"), Call("effect_ref"), Call("postfix_loop")>>
effect_ref(t) == Opt(t, "NOT", <<Take("NOT"), Make("postfix", 1)>>)
postfix_loop(t) ==
  CASE t = "DOT" -> <<Take("DOT"), Call("primary_expr"), Make("postfix", 2), Call("postfix_loop")>>
    [] t = "LBRACKET" -> <<Call("index_expr"), Call("postfix_loop")>>
    [] t = "LPAREN" -> <<Call("call_expr"), Call("postfix_loop")>>
    [] t = "LBRACE" -> IF Last(nodes).kind = "typeexpr"
                       THEN <<Go("agg_expr", 1), Call("postfix_loop")>>
                       ELSE <<>>
    [] OTHER -> <<>>

parse_unary_expr(t) ==
  CASE t \in {"NOT", "MINUS", "STAR", "BAND", "ELLIPSIS"} ->
         <<Take(t), Call("unary_expr"), Make("unary", 1)>>
    [] t = "PLUS" -> <<Take(t), Call("unary_expr")>>
    [] OTHER -> <<Call("postfix_expr")>>

parse_expr == <<Call("unary_expr"), Item("rhs", "", 0)>>

parse_primary_expr(t) ==
  CASE t = "DOT" -> <<Call("selector_expr")>>
    [] t \in {"KW_TYPE", "IDENT"} -> <<Call("var_expr")>>
    [] t \in {"KW_TRUE", "KW_FALSE"} -> <<Call("bool_expr")>>
    [] t = "LIT_INT" -> <<Call("int_expr")>>
    [] t = "LIT_FLT" -> <<Call("flt_expr")>>
    [] t = "LIT_STR" -> <<Call("str_expr")>>
    [] t = "LIT_CHR" -> <<Call("chr_expr")>>
    [] t = "LPAREN" -> <<Call("tuple_expr")>>
    [] t = "KW_NEW" -> <<Take("KW_NEW"), Call("type_expr")>>
    [] t = "LBRACE" -> <<Go("agg_expr", 0)>>
    [] OTHER -> <<Fail>>

\* n is 1 if the aggregate has the type before it, which becomes part of it.
parse_agg_expr(n) == <<Take("LBRACE"), List("agg_expr"), Make("expr", n)>>
parse_type_expr == <<Call("type"), Make("typeexpr", 1)>>
parse_var_expr == <<Take("IDENT"), Make("expr", 0)>>
parse_selector_expr == <<Take("DOT"), Take("IDENT"), Make("expr", 0)>>
parse_int_expr == <<Take("LIT_INT"), Do("strtoull"), Make("expr", 0)>>
parse_flt_expr == <<Take("LIT_FLT"), Do("strtod"), Make("expr", 0)>>
parse_str_expr == <<Take("LIT_STR"), Make("expr", 0)>>
parse_chr_expr == <<Take("LIT_CHR"), Make("expr", 0)>>
parse_bool_expr(t) == <<Take(t), Make("expr", 0)>>
parse_tuple_expr == <<Take("LPAREN"), List("tuple_expr")>>
no_trailing_comma(t) == Opt(t, "RPAREN", <<Fail>>)

-----------------------------------------------------------------------------
(* Types.                                                                  *)

parse_type == <<Hold, Go("alternative", 0)>>

\* Mutant: a named type does not take its attributes.
alternative_Mutant(n, t) ==
  LET next == Go("union", n + 1) IN
  CASE t = "IDENT" -> <<Call("ident_type"), next>>
    [] t = "STAR" -> <<Call("ptr_type"), Give(t), next>>
    [] t = "AT" -> <<Take("AT"), Go("at_type", n)>>
    [] OTHER -> <<Fail>>

\* The switch in the loop of parse_type, n alternatives of a union having been read.
alternative(n, t) ==
  LET next == Go("union", n + 1) IN
  CASE t = "IDENT" -> <<Call("ident_type"), Give(t), next>>
    [] t = "LBRACE" -> <<Call("tuple_type"), Give(t), next>>
    [] t = "LPAREN" -> <<Call("group_type"), next>>
    [] t = "STAR" -> <<Call("ptr_type"), Give(t), next>>
    [] t = "AT" -> <<Take("AT"), Go("at_type", n)>>
    [] t = "LBRACKET" -> <<Call("bracket_type"), Give(t), next>>
    [] t = "KW_FN" -> <<Call("fn_type"), Give(t), next>>
    [] t = "ELLIPSIS" -> <<Call("varargs_type"), Give(t), next>>
    [] OTHER -> <<Fail>>

at_type(n, t) ==
  IF t = "LPAREN" THEN <<Call("attrs"), Keep, Go("alternative", n)>>
  ELSE <<Call("atom_type"), Give("AT"), Go("union", n + 1)>>

union_type(n, t) ==
  CASE t = "BOR" -> <<Take("BOR"), Go("alternative", n)>>
    [] t # "BOR" /\ n = 1 -> <<Release>>
    [] OTHER -> <<Give("union"), Release, Make("type", n)>>

parse_ident_type == <<Take("IDENT"), Make("ident", 0)>>
parse_tuple_type == <<Take("LBRACE"), List("tuple_type"), Make("type", 0)>>
parse_args_type == <<Take("LPAREN"), List("args_type")>>
\* (Ident ':')? Type: what was parsed as a type is a name if a colon follows.
name_or_elem(t) ==
  CASE t # "COLON" -> <<Drop>>
    [] t = "COLON" /\ Last(nodes).kind = "ident" -> <<Drop, Take("COLON"), Call("type"), Drop>>
    [] OTHER -> <<Fail>>
\* Mutant: a group is left open.
parse_group_type_Mutant == <<Take("LPAREN"), Call("type"), Make("type", 1)>>

parse_group_type == <<Take("LPAREN"), Call("type"), Take("RPAREN"), Make("type", 1)>>
parse_varargs_type == <<Take("ELLIPSIS"), Make("type", 0)>>
parse_ptr_type == <<Take("STAR"), Call("type"), Make("type", 1)>>
parse_atom_type == <<Call("type"), Make("type", 1)>>

parse_bracket_type == <<Take("LBRACKET"), Call("in_brackets")>>
in_brackets(t) ==
  CASE t = "DOT" -> <<List("enums"), Make("type", 0)>>
    [] t = "QUESTION" -> <<Take("QUESTION"), Take("RBRACKET"), Call("type"), Make("type", 1)>>
    [] OTHER -> <<Call("expr"), Take("RBRACKET"), Call("type"), Make("type", 2)>>
enum_init(t) == Opt(t, "EQ", <<Take("EQ"), Call("expr"), Drop>>)

parse_fn_type ==
  <<Take("KW_FN"), Call("args_type"), Call("more_args"), Call("effects"), Call("ret"),
    Make("type", 0)>>
more_args(t) == Opt(t, "LPAREN", <<Call("args_type")>>)
effects(t) == Opt(t, "LT", <<Take("LT"), List("effects")>>)
ret(t) == Opt(t, "ARROW", <<Take("ARROW"), Call("type"), Drop>>)

-----------------------------------------------------------------------------
(* Statements.                                                             *)

parse_stmt(t) ==
  CASE t = "LBRACE" -> <<Call("block_stmt")>>
    [] t = "KW_RETURN" -> <<Call("return_stmt")>>
    [] t = "KW_DEFER" -> <<Call("defer_stmt")>>
    [] t = "KW_BREAK" -> <<Call("break_stmt")>>
    [] t = "KW_CONTINUE" -> <<Call("continue_stmt")>>
    [] t = "KW_IF" -> <<Call("if_stmt")>>
    [] t = "KW_LET" -> <<Call("let_stmt")>>
    [] t = "KW_USING" -> <<Call("using_stmt")>>
    [] t = "KW_FOR" -> <<Call("for_stmt")>>
    [] t = "AT" -> <<Take("AT"), Hold, Call("attrs"), Keep, Call("only_let")>>
    [] OTHER -> <<Call("expr_stmt"), Take("SEMI")>>
only_let(t) ==
  IF t = "KW_LET" THEN <<Call("let_stmt"), Give("KW_LET"), Release>> ELSE <<Fail>>

parse_block_stmt == <<Take("LBRACE"), Call("stmts"), Take("RBRACE")>>

\* Mutant: a stray semicolon is skipped and not consumed.
stmts_Mutant(t) == CASE t = "RBRACE" -> <<>>
                     [] t = "SEMI" -> <<Call("stmts")>>
                     [] OTHER -> <<Call("stmt"), Call("stmts")>>

stmts(t) == IF t = "RBRACE" THEN <<>> ELSE <<Call("stmt"), Call("stmts")>>

parse_return_stmt ==
  IF inDefer THEN <<Fail>> ELSE <<Take("KW_RETURN"), Call("return_value"), Take("SEMI")>>
return_value(t) == IF t = "SEMI" THEN <<>> ELSE <<Call("expr"), Drop>>

parse_defer_stmt == <<Take("KW_DEFER"), Do("defer")>>
parse_break_stmt == <<Take("KW_BREAK"), Take("SEMI")>>
parse_continue_stmt == <<Take("KW_CONTINUE"), Take("SEMI")>>

parse_if_stmt ==
  <<Take("KW_IF"), Call("init"), Call("expr"), Drop, Call("block_stmt"), Call("else_if")>>
init(t) == Opt(t, "KW_LET", <<Call("let_stmt")>>)
else_if(t) == Opt(t, "KW_ELSE", <<Take("KW_ELSE"), Call("else_arm")>>)
else_arm(t) == <<Call(IF t = "KW_IF" THEN "if_stmt" ELSE "block_stmt")>>

parse_let_stmt ==
  <<Take("KW_LET"), Take("IDENT"), Take("EQ"), Call("expr"), Drop, Take("SEMI")>>
parse_using_stmt ==
  <<Take("KW_USING"), Take("IDENT"), Take("EQ"), Call("expr"), Drop, Take("SEMI")>>

parse_for_stmt ==
  <<Take("KW_FOR"), Call("init"), Call("for_expr"), Call("for_post"), Call("block_stmt"),
    Call("for_else")>>
for_expr(t) == IF t = "LBRACE" THEN <<>> ELSE <<Call("expr"), Drop>>
for_post(t) == Opt(t, "SEMI", <<Take("SEMI"), Call("post_stmt")>>)
post_stmt(t) == IF t = "LBRACE" THEN <<Fail>> ELSE <<Call("expr_stmt")>>
for_else(t) == Opt(t, "KW_ELSE", <<Take("KW_ELSE"), Call("block_stmt")>>)

\* The semicolon, which not every caller asks for, is put behind by the caller.
parse_expr_stmt == <<Call("expr"), Drop, Call("assignment")>>
assignment(t) ==
  IF t \in {"EQ", "PLUSEQ", "MINUSEQ", "STAREQ", "FSLASHEQ"}
  THEN <<Take(t), Call("expr"), Drop>> ELSE <<>>

-----------------------------------------------------------------------------
(* Declarations.                                                           *)

parse_fn ==
  <<Take("KW_FN"), Call("more_args"), Take("IDENT"), Call("args_type"), Call("effects"),
    Call("ret"), Call("block_stmt")>>
parse_typedef ==
  <<Take("KW_TYPE"), Take("IDENT"), Take("EQ"), Call("type"), Drop, Take("SEMI")>>
parse_module == <<Take("KW_MODULE"), Take("IDENT"), Take("SEMI")>>
parse_import == <<Take("KW_IMPORT"), Take("IDENT"), Take("SEMI")>>
parse_effect ==
  <<Take("KW_EFFECT"), Take("IDENT"), Take("EQ"), Call("type"), Drop, Take("SEMI")>>
parse_attrs == <<Take("LPAREN"), List("attrs")>>

\* The switch in the loop of parse().
parse(t) ==
  CASE t = "AT" -> <<Take("AT"), Call("attrs"), Keep, Call("unit")>>
    [] t = "KW_FN" -> <<Call("fn"), Give(t), Call("unit")>>
    [] t = "KW_TYPE" -> <<Call("typedef"), Give(t), Call("unit")>>
    [] t = "KW_LET" -> <<Call("let_stmt"), Give(t), Call("unit")>>
    [] t = "KW_MODULE" -> <<Call("module"), Do("assign_module"), Call("unit")>>
    [] t = "KW_IMPORT" -> <<Call("import"), Do("add_import"), Call("unit")>>
    [] t = "KW_EFFECT" -> <<Call("effect"), Call("unit")>>
    [] t = "END" -> <<Release>>
    [] OTHER -> <<Fail>>

-----------------------------------------------------------------------------
(* What a call expands to.                                                 *)

Body(f, n, t) ==
  CASE f = "index_expr" -> parse_index_expr
    [] f = "call_expr" -> parse_call_expr
    [] f = "postfix_expr" -> parse_postfix_expr
    [] f = "effect_ref" -> effect_ref(t)
    [] f = "postfix_loop" -> postfix_loop(t)
    [] f = "unary_expr" -> parse_unary_expr(t)
    [] f = "expr" -> parse_expr
    [] f = "primary_expr" -> parse_primary_expr(t)
    [] f = "agg_expr" -> parse_agg_expr(n)
    [] f = "type_expr" -> parse_type_expr
    [] f = "var_expr" -> parse_var_expr
    [] f = "selector_expr" -> parse_selector_expr
    [] f = "int_expr" -> parse_int_expr
    [] f = "flt_expr" -> parse_flt_expr
    [] f = "str_expr" -> parse_str_expr
    [] f = "chr_expr" -> parse_chr_expr
    [] f = "bool_expr" -> parse_bool_expr(t)
    [] f = "tuple_expr" -> parse_tuple_expr
    [] f = "no_trailing_comma" -> no_trailing_comma(t)
    [] f = "type" -> parse_type
    [] f = "alternative" -> alternative(n, t)
    [] f = "at_type" -> at_type(n, t)
    [] f = "union" -> union_type(n, t)
    [] f = "ident_type" -> parse_ident_type
    [] f = "tuple_type" -> parse_tuple_type
    [] f = "args_type" -> parse_args_type
    [] f = "name_or_elem" -> name_or_elem(t)
    [] f = "group_type" -> parse_group_type
    [] f = "varargs_type" -> parse_varargs_type
    [] f = "ptr_type" -> parse_ptr_type
    [] f = "atom_type" -> parse_atom_type
    [] f = "bracket_type" -> parse_bracket_type
    [] f = "in_brackets" -> in_brackets(t)
    [] f = "enum_init" -> enum_init(t)
    [] f = "fn_type" -> parse_fn_type
    [] f = "more_args" -> more_args(t)
    [] f = "effects" -> effects(t)
    [] f = "ret" -> ret(t)
    [] f = "stmt" -> parse_stmt(t)
    [] f = "only_let" -> only_let(t)
    [] f = "block_stmt" -> parse_block_stmt
    [] f = "stmts" -> stmts(t)
    [] f = "return_stmt" -> parse_return_stmt
    [] f = "return_value" -> return_value(t)
    [] f = "defer_stmt" -> parse_defer_stmt
    [] f = "break_stmt" -> parse_break_stmt
    [] f = "continue_stmt" -> parse_continue_stmt
    [] f = "if_stmt" -> parse_if_stmt
    [] f = "init" -> init(t)
    [] f = "else_if" -> else_if(t)
    [] f = "else_arm" -> else_arm(t)
    [] f = "let_stmt" -> parse_let_stmt
    [] f = "using_stmt" -> parse_using_stmt
    [] f = "for_stmt" -> parse_for_stmt
    [] f = "for_expr" -> for_expr(t)
    [] f = "for_post" -> for_post(t)
    [] f = "post_stmt" -> post_stmt(t)
    [] f = "for_else" -> for_else(t)
    [] f = "expr_stmt" -> parse_expr_stmt
    [] f = "assignment" -> assignment(t)
    [] f = "fn" -> parse_fn
    [] f = "typedef" -> parse_typedef
    [] f = "module" -> parse_module
    [] f = "import" -> parse_import
    [] f = "effect" -> parse_effect
    [] f = "attrs" -> parse_attrs
    [] OTHER -> parse(t)

\* What the calls and loops that look at the peeked token put in their place.
Expansion(item, t) ==
  CASE item.do = "call" -> Body(item.what, item.n, t)
    [] item.do = "list" -> Elements(item.what, item.n, t)
    [] item.do = "comma" -> AfterElement(item.what, item.n, t)
    [] item.do = "rhs" -> parse_binop_rhs(item.n, t)
    [] OTHER -> tighter(item.what, t)

-----------------------------------------------------------------------------
Init ==
  /\ text \in Texts
  /\ peeked = None
  /\ todo = <<Call("unit")>>
  /\ nodes = <<>>
  /\ attrs = <<0>>
  /\ fate = <<>>
  /\ before = <<>>
  /\ open = <<>>
  /\ inDefer = FALSE
  /\ errno = FALSE
  /\ unit = [module |-> FALSE, imports |-> 0]
  /\ result = None

(* What peek() may answer.                                                 *)
Peeked ==
  CASE peeked # None -> {peeked}
    [] peeked = None /\ text.script # <<>> -> {Head(text.script)}
    [] peeked = None /\ text.script = <<>> /\ text.left > 0 -> text.kinds \union {"END"}
    [] OTHER -> {"END"}

\* The text behind its first token.
Behind ==
  CASE text.script # <<>> -> [text EXCEPT !.script = Tail(@)]
    [] text.script = <<>> /\ text.left > 1 -> [text EXCEPT !.left = @ - 1]
    [] OTHER -> [text EXCEPT !.left = 0, !.kinds = {}]

At(do) == result = None /\ todo # <<>> /\ Head(todo).do = do
Step(what) == At("do") /\ Head(todo).what = what

\* Every caller returns what it was returned, and parse() returns None.
Unwind(how) ==
  /\ result' = how
  /\ todo' = <<>> /\ nodes' = <<>> /\ attrs' = <<>>
  /\ text' = [text EXCEPT !.script = <<>>, !.kinds = {}, !.left = 0]
  /\ peeked' = None
  /\ UNCHANGED <<fate, before, open, inDefer, unit>>

\* A call begins, or a loop comes round: it looks at the next token.
Expand ==
  /\ result = None
  /\ todo # <<>>
  /\ Head(todo).do \in {"call", "list", "comma", "rhs", "tighter"}
  /\ \E t \in Peeked :
       /\ peeked' = t
       /\ todo' = Expansion(Head(todo), t) \o Tail(todo)
       /\ before' = IF Len(before) < Len(fate) THEN Append(before, t) ELSE before
  /\ UNCHANGED <<text, nodes, attrs, fate, open, inDefer, errno, unit, result>>

Match == [RPAREN |-> "LPAREN", RBRACKET |-> "LBRACKET", RBRACE |-> "LBRACE"]
Brackets(stack, t) ==
  CASE t \in {Match[c] : c \in DOMAIN Match} -> Append(stack, t)
    [] t \in DOMAIN Match -> Front(stack)
    [] OTHER -> stack

\* next(), after peek() found the token that must be there.
Consume ==
  /\ At("take")
  /\ \E t \in Peeked :
       \/ /\ t = Head(todo).what
          /\ peeked' = None
          /\ text' = Behind
          /\ open' = Brackets(open, t)
          /\ todo' = Tail(todo)
          /\ UNCHANGED <<nodes, attrs, fate, before, inDefer, errno, unit, result>>
       \/ t # Head(todo).what /\ Unwind("diagnosed") /\ UNCHANGED errno

Refuse == At("fail") /\ Unwind("diagnosed") /\ UNCHANGED errno

NewNode ==
  /\ At("make")
  /\ LET kept == Len(nodes) - Head(todo).n
     IN nodes' = SubSeq(nodes, 1, kept)
                 \o <<Node(Head(todo).what, SubSeq(nodes, kept + 1, Len(nodes)))>>
  /\ todo' = Tail(todo)
  /\ UNCHANGED <<text, peeked, attrs, fate, before, open, inDefer, errno, unit, result>>

\* The switch at the end of parse_binop_rhs: a cast, a test, a property or an AstBinExpr.
NewBinary ==
  /\ At("binary")
  /\ LET kept == Len(nodes) - 2
     IN nodes' = Append(SubSeq(nodes, 1, kept),
                        [kind |-> "binary", prec |-> Head(todo).n,
                         left |-> nodes[kept + 1].prec, right |-> nodes[kept + 2].prec])
  /\ todo' = Tail(todo)
  /\ UNCHANGED <<text, peeked, attrs, fate, before, open, inDefer, errno, unit, result>>

DropNode ==
  /\ At("drop")
  /\ nodes' = Front(nodes)
  /\ todo' = Tail(todo)
  /\ UNCHANGED <<text, peeked, attrs, fate, before, open, inDefer, errno, unit, result>>

\* parse_defer_stmt from m_in_defer = true on.
BeginDefer ==
  /\ Step("defer")
  /\ inDefer' = TRUE
  /\ todo' = <<Call("stmt"), LeaveDefer(0)>> \o Tail(todo)
  /\ UNCHANGED <<text, peeked, nodes, attrs, fate, before, open, errno, unit, result>>

\* Mutant: the flag is not cleared.
EndDefer_Mutant ==
  /\ At("undefer")
  /\ todo' = [i \in 1..Len(todo) - 1 |->
                IF todo[i + 1].do = "undefer" THEN LeaveDefer(1) ELSE todo[i + 1]]
  /\ UNCHANGED <<text, peeked, nodes, attrs, fate, before, open, inDefer, errno, unit, result>>

\* The ghost marks the defers this one was nested in.
EndDefer ==
  /\ At("undefer")
  /\ inDefer' = FALSE
  /\ todo' = [i \in 1..Len(todo) - 1 |->
                IF todo[i + 1].do = "undefer" THEN LeaveDefer(1) ELSE todo[i + 1]]
  /\ UNCHANGED <<text, peeked, nodes, attrs, fate, before, open, errno, unit, result>>

-----------------------------------------------------------------------------
(* Attributes.                                                             *)

Told(list, what) == IF list = 0 THEN fate ELSE [fate EXCEPT ![list] = what]

HoldAttrs ==
  /\ At("hold")
  /\ attrs' = Append(attrs, 0)
  /\ todo' = Tail(todo)
  /\ UNCHANGED <<text, peeked, nodes, fate, before, open, inDefer, errno, unit, result>>

\* Mutant: the list is not counted as parsed.
KeepAttrs_Mutant ==
  /\ At("keep")
  /\ fate' = Told(Last(attrs), "dropped")
  /\ attrs' = Append(Front(attrs), Len(fate) + 1)
  /\ todo' = Tail(todo)
  /\ UNCHANGED <<text, peeked, nodes, before, open, inDefer, errno, unit, result>>

\* attrs = move(at): a list the array held before is gone.
KeepAttrs ==
  /\ At("keep")
  /\ fate' = Append(Told(Last(attrs), "dropped"), "held")
  /\ attrs' = Append(Front(attrs), Len(fate) + 1)
  /\ todo' = Tail(todo)
  /\ UNCHANGED <<text, peeked, nodes, before, open, inDefer, errno, unit, result>>

\* Mutant: the array is copied.
GiveAttrs_Mutant ==
  /\ At("give")
  /\ fate' = Told(Last(attrs), Head(todo).what)
  /\ todo' = Tail(todo)
  /\ UNCHANGED <<text, peeked, nodes, attrs, before, open, inDefer, errno, unit, result>>

GiveAttrs ==
  /\ At("give")
  /\ fate' = Told(Last(attrs), Head(todo).what)
  /\ attrs' = Append(Front(attrs), 0)
  /\ todo' = Tail(todo)
  /\ UNCHANGED <<text, peeked, nodes, before, open, inDefer, errno, unit, result>>

ReleaseAttrs ==
  /\ At("release")
  /\ fate' = Told(Last(attrs), "dropped")
  /\ attrs' = Front(attrs)
  /\ todo' = Tail(todo)
  /\ UNCHANGED <<text, peeked, nodes, before, open, inDefer, errno, unit, result>>

\* The name of an attribute is one of those known, or not.
AttrName ==
  /\ Step("attr_name")
  /\ \/ todo' = Tail(todo)
        /\ UNCHANGED <<text, peeked, nodes, attrs, fate, before, open, inDefer, errno, unit, result>>
     \/ Unwind("diagnosed") /\ UNCHANGED errno

\* An attribute has one argument: anything else is refused without a word.
AttrArgs ==
  /\ Step("attr_args")
  /\ \/ /\ Last(nodes).kind = "tuple1"
        /\ nodes' = Front(nodes)
        /\ todo' = Tail(todo)
        /\ UNCHANGED <<text, peeked, attrs, fate, before, open, inDefer, errno, unit, result>>
     \/ Last(nodes).kind # "tuple1" /\ Unwind("silent") /\ UNCHANGED errno

-----------------------------------------------------------------------------
(* Literals and the unit.                                                  *)

\* strtoull sets errno when there are more than 64 bits and never clears it; the table of
\* suffixes asks for it, an untyped literal does not.  The first case is a separator at the end.
IntLiteral ==
  /\ Step("strtoull")
  /\ \/ Unwind("diagnosed") /\ UNCHANGED errno
     \/ \E l \in Literals :
          /\ errno' = (errno \/ l.over)
          /\ \/ /\ ~l.typed \/ (l.fits /\ ~errno')
                /\ todo' = Tail(todo)
                /\ UNCHANGED <<text, peeked, nodes, attrs, fate, before, open, inDefer, unit, result>>
             \/ l.typed /\ (~l.fits \/ errno') /\ Unwind("diagnosed")

\* strtod sets errno as well, when there is no such float.
FltLiteral ==
  /\ Step("strtod")
  /\ \/ Unwind("diagnosed") /\ UNCHANGED errno
     \/ /\ errno' \in {errno, TRUE}
        /\ todo' = Tail(todo)
        /\ UNCHANGED <<text, peeked, nodes, attrs, fate, before, open, inDefer, unit, result>>

\* unit.assign_module(): "Duplicate 'module' in file".
AssignModule ==
  /\ Step("assign_module")
  /\ \/ /\ ~unit.module
        /\ unit' = [unit EXCEPT !.module = TRUE]
        /\ todo' = Tail(todo)
        /\ UNCHANGED <<text, peeked, nodes, attrs, fate, before, open, inDefer, errno, result>>
     \/ unit.module /\ Unwind("diagnosed") /\ UNCHANGED errno

\* unit.add_import(): the module imported is new, or one of those imported before.
AddImport ==
  /\ Step("add_import")
  /\ \/ /\ unit' = [unit EXCEPT !.imports = @ + 1]
        /\ todo' = Tail(todo)
        /\ UNCHANGED <<text, peeked, nodes, attrs, fate, before, open, inDefer, errno, result>>
     \/ unit.imports > 0 /\ Unwind("diagnosed") /\ UNCHANGED errno

\* parse() returns the unit.
Finish ==
  /\ result = None
  /\ todo = <<>>
  /\ result' = "unit"
  /\ UNCHANGED <<text, peeked, todo, nodes, attrs, fate, before, open, inDefer, errno, unit>>

Next ==
  \/ Expand \/ Consume \/ Refuse \/ NewNode \/ NewBinary \/ DropNode
  \/ BeginDefer \/ EndDefer \/ HoldAttrs \/ KeepAttrs \/ GiveAttrs \/ ReleaseAttrs
  \/ AttrName \/ AttrArgs \/ IntLiteral \/ FltLiteral \/ AssignModule \/ AddImport
  \/ Finish

Spec == Init /\ [][Next]_vars

\* The parser is called and runs: it waits for nothing.
FairSpec == Spec /\ WF_vars(Next)

-----------------------------------------------------------------------------
(* Properties.                                                             *)

Fates == Tokens \union {"held", "union", "dropped"}
Unit == [module : BOOLEAN, imports : Nat]

\* Types.
TypeOK ==
  /\ text \in TextType
  /\ peeked \in Tokens \union {None}
  /\ todo \in Seq(Items)
  /\ nodes \in Seq(Nodes)
  /\ attrs \in Seq(0..Len(fate))
  /\ fate \in Seq(Fates)
  /\ before \in Seq(Tokens)
  /\ open \in Seq(Tokens)
  /\ {inDefer, errno} \subseteq BOOLEAN
  /\ unit \in Unit
  /\ result \in {None, "unit", "diagnosed", "silent"}

\* The tree groups operators as their table says, those that bind alike from the left: what
\* stands left of an operator binds at least as tightly, what stands right more tightly.  With
\* the order of the operands this leaves one tree (parse_binop_rhs, its recursion and its loop).
GroupsByPrecedence ==
  \A i \in DOMAIN nodes :
    LET node == nodes[i] IN
    /\ node.left >= node.prec
    /\ IF node.kind = "binary" THEN node.right > node.prec ELSE node.right >= Unary

\* m_in_defer is set exactly while a deferred statement is being parsed in which no nested
\* defer has ended: a return outside is never refused, one inside is accepted only behind
\* such a defer (parse_defer_stmt clears what it did not set, parser.cpp:1072).
DeferFlagIsRight ==
  result = None => (inDefer <=> \E i \in DOMAIN todo : todo[i] = LeaveDefer(0))

\* No attribute list is in two arrays, and none is in an array once a node has it or it is
\* gone: attributes that are moved are not applied again to what follows.
AttrsHeldOnce ==
  /\ \A i \in DOMAIN attrs : attrs[i] # 0 =>
       /\ fate[attrs[i]] = "held"
       /\ \A j \in DOMAIN attrs : attrs[j] = attrs[i] => j = i
  /\ result = "unit" => \A l \in DOMAIN fate : fate[l] # "held"

\* Attributes go to what they stand before, unless that takes none: those before a group, a
\* module, an import or an effect stay in the array and go to what comes later (the LPAREN
\* case of parse_type, and parse()).
AttrsReachWhatFollows ==
  \A l \in DOMAIN before :
    \/ fate[l] \in {"held", "dropped", before[l]}
    \/ before[l] \in {"LPAREN", "KW_MODULE", "KW_IMPORT", "KW_EFFECT"}

\* The functions that share brackets agree: each closing one consumed closes the newest that
\* is open, and in a text that is accepted none is left open.
BracketsMatch ==
  [][/\ At("take") /\ result' = None /\ Head(todo).what \in DOMAIN Match =>
          open # <<>> /\ Last(open) = Match[Head(todo).what]
     /\ result' = "unit" => open = <<>>]_vars

\* Whatever the text, parse() returns: every loop consumes a token or gives up.
Terminates == <>(result # None)

=============================================================================
