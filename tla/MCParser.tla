------------------------------ MODULE MCParser ------------------------------
(***************************************************************************)
(* Texts for TLC: every text that begins as a declaration of one kind or   *)
(* another and goes on with the tokens that exercise one part of the       *)
(* grammar, in any order.                                                  *)
(***************************************************************************)
EXTENDS Parser

T(script, kinds, left) == [script |-> script, kinds |-> kinds, left |-> left]
Constant == <<"KW_LET", "IDENT", "EQ">>
Function == <<"KW_FN", "IDENT", "LPAREN", "RPAREN", "LBRACE">>
Alias == <<"KW_TYPE", "IDENT", "EQ">>

MCTexts == {
  \* Operators of all levels and both kinds of right operand.
  T(Constant, {"IDENT", "STAR", "PLUS", "LT", "LAND", "KW_AS", "SEMI"}, 7),
  \* Postfix operators, calls, aggregates, tuples.
  T(Constant, {"IDENT", "LPAREN", "RPAREN", "LBRACE", "RBRACE", "LBRACKET", "RBRACKET",
               "COMMA", "DOT", "KW_NEW", "NOT", "MINUS"}, 6),
  \* Literals.
  T(Constant, {"LIT_INT", "LIT_FLT", "LIT_STR", "LIT_CHR", "KW_TRUE", "PLUS", "SEMI",
               "KW_TYPE"}, 5),
  \* Types.
  T(Alias, {"IDENT", "LBRACE", "RBRACE", "LBRACKET", "RBRACKET", "COMMA", "COLON", "STAR",
            "BOR", "SEMI"}, 6),
  T(Alias \o <<"AT", "LPAREN", "IDENT">>,
    {"LPAREN", "RPAREN", "IDENT", "BOR", "AT", "SEMI", "ELLIPSIS"}, 8),
  T(Alias \o <<"LBRACKET">>, {"DOT", "IDENT", "EQ", "COMMA", "QUESTION", "RBRACKET", "SEMI"}, 8),
  T(Alias \o <<"KW_FN", "LPAREN">>, {"LPAREN", "RPAREN", "IDENT", "LT", "GT", "COMMA", "ARROW", "SEMI"}, 8),
  \* Statements.
  T(Function, {"KW_DEFER", "KW_RETURN", "LBRACE", "RBRACE", "SEMI", "IDENT"}, 11),
  T(Function, {"KW_IF", "KW_ELSE", "IDENT", "LBRACE", "RBRACE", "KW_DEFER", "KW_BREAK", "SEMI"}, 9),
  T(Function \o <<"KW_FOR">>,
    {"KW_LET", "IDENT", "EQ", "LIT_INT", "SEMI", "LBRACE", "RBRACE", "KW_ELSE", "PLUSEQ"}, 11),
  T(Function, {"KW_USING", "KW_LET", "IDENT", "EQ", "SEMI", "AT", "LPAREN", "RPAREN", "RBRACE",
               "KW_CONTINUE"}, 7),
  \* Declarations and their attributes.
  T(<<"AT", "LPAREN", "IDENT", "LPAREN", "IDENT", "RPAREN", "RPAREN">>,
    {"AT", "LPAREN", "RPAREN", "IDENT", "KW_MODULE", "KW_IMPORT", "KW_EFFECT", "KW_TYPE",
     "EQ", "SEMI"}, 10),
  T(<<>>, {"KW_MODULE", "KW_IMPORT", "IDENT", "SEMI", "KW_FN", "LPAREN", "RPAREN", "LBRACE",
           "RBRACE", "AT"}, 9)}

MCLiterals == {[typed |-> t, over |-> FALSE, fits |-> f] : t, f \in BOOLEAN}
              \union {[typed |-> t, over |-> TRUE, fits |-> TRUE] : t \in BOOLEAN}
=============================================================================
