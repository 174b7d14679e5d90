---------------------------- MODULE ExprCodegen ----------------------------
(***************************************************************************)
(* The lowering of expressions, cg_expr.cpp: for every class of expression *)
(* its gen_type, gen_value, gen_addr and eval_value, and the lowering of   *)
(* constants, cg_const.cpp.                                                *)
(*                                                                         *)
(* An expression is a record whose n is the class.  want is the type the   *)
(* context hopes for, NoType if none.  gen_type emits nothing, and is      *)
(* asked again and again on the way down; gen_value and gen_addr emit.     *)
(* Diagnostics are not modelled: a failure is None, said or not.           *)
(***************************************************************************)
EXTENDS CgEmit, Bitwise

CONSTANTS
  Vars,      (* The variables in scope, name -> type.                      *)
  Fns,       (* The functions of the unit, name -> type.                   *)
  Globals,   (* The constants of the unit, name -> [type, value].          *)
  Usings,    (* The effects in use, name -> type.                          *)
  Typedefs,  (* The types of the unit, name -> type.                       *)
  Wide       (* Bound: the bits of a constant being folded, 128.           *)

\* The virtual functions of AstExpr, which call each other.
RECURSIVE Virtual(_, _, _, _)

gen_type(cg, e, want) == Virtual("gen_type", cg, e, want)
gen_value(cg, e, want) == Virtual("gen_value", cg, e, want)
gen_addr(cg, e, want) == Virtual("gen_addr", cg, e, want)
eval_value(cg, e) == Virtual("eval_value", cg, e, NoType)

\* A tuple of one stands for parentheses.
detuple(e) == IF e.n = "Tuple" /\ Len(e.es) = 1 THEN e.es[1] ELSE e

\* A value that has no address gets one: the gen_addr of several classes.
Spill(cg, e, want) ==
  Then(gen_value(cg, e, IF IsMissing(want) THEN NoType ELSE deref(want)),
       LAMBDA v : LET dst == emit_alloca(v.cg, v.type)
                  IN  [dst EXCEPT !.cg = store(dst.cg, dst, v)])

\* An address whose value is wanted: the gen_value of several classes.
LoadFrom(cg, e, want) ==
  Then(gen_addr(cg, e, IF IsMissing(want) THEN NoType ELSE addrof(want)),
       LAMBDA addr : load(addr.cg, addr))

-----------------------------------------------------------------------------
(* Constants                                                               *)

\* AstConst.  The bits of a number, 0 or 1 for a boolean, the constants of a
\* tuple or an array, whose type is the one that was written, if any.
AstConst(kind, size, v, type) ==
  [kind |-> kind, size |-> size, v |-> v, type |-> type]

NoConst == AstConst("none", 0, 0, NoType)

\* What cannot be said: C++ leaves it undefined.
StuckConst == AstConst("stuck", 0, 0, NoType)

IsIntegral(c) == c.kind \in {"uint", "sint", "untyped"}

\* The sign bit of w bits.
Signed(n, w) == IF n >= 2^(w - 1) THEN n - 2^w ELSE n

\* AstConst::to<Uint64>, given a constant it accepts.
ToUint64(c) == c.v % 2^Bits[8]

\* AstConst::codegen.  The elements of a tuple are asked for with the type
\* at their own index, and placed past the paddings.
RECURSIVE const_codegen(_, _, _)
const_codegen(cg, c, type) ==
  LET literal(t) == Value(cg, t, Const(Wrap(t, c.v)))
      elem(i) == IF c.kind = "tuple" THEN TypeAt(type, i - 1)
                 ELSE deref(IF IsMissing(c.type) THEN type ELSE c.type)
      before(i) == Cardinality({k \in 1..(i - 1) : ~IsPadding(type.types[k])})
      placed(vs) == [i \in DOMAIN type.types |->
                       IF IsPadding(type.types[i]) \/ before(i) >= Len(vs)
                       THEN Filled(type.types[i], 0) ELSE vs[before(i) + 1]]
      whole(parts) ==
        With([i \in DOMAIN parts.out |-> parts.out[i].ref.v], LAMBDA vs :
          IF parts.ok
          THEN Value(parts.cg, type, Const(IF c.kind = "tuple" THEN placed(vs) ELSE vs))
          ELSE None(parts.cg))
  IN  CASE c.kind = "uint" -> literal(Scalar("uint", c.size))
        [] c.kind = "sint" -> literal(Scalar(IF c.size = 1 THEN "uint" ELSE "sint",
                                             c.size))
        [] c.kind = "bool" -> literal(B8)
        [] c.kind = "real" -> Value(cg, Scalar("real", c.size), Const(c.v))
        [] c.kind = "untyped" /\ IsInteger(type) -> literal(type)
        [] c.kind = "untyped real" /\ type.kind = "real" ->
             Value(cg, type, Const(c.v))
        [] c.kind \in {"tuple", "array"} ->
             whole(Each(cg, Len(c.v), LAMBDA x, i : const_codegen(x, c.v[i], elem(i))))
        [] c.kind = "stuck" -> unreachable(cg)
        [] OTHER -> None(cg)

\* The constants of a list of expressions, or the first that is none.
Constants(cg, es, F(_)) ==
  LET cs == [i \in DOMAIN es |-> eval_value(cg, es[i])]
      bad == {i \in DOMAIN es : cs[i].kind \in {"none", "stuck"}}
  IN  IF bad # {} THEN cs[CHOOSE i \in bad : \A j \in bad : i <= j] ELSE F(cs)

-----------------------------------------------------------------------------
(* Literals                                                                *)

\* AstIntExpr.  kind is that of its suffix, "" for none.
IntType(e, want) ==
  CASE e.kind # "" -> Scalar(e.kind, e.size)
    [] e.kind = "" /\ IsInteger(want) -> want
    [] OTHER -> NoType

IntValue(cg, e, want) ==
  LET base == IF want.kind = "atomic" THEN deref(want) ELSE want
  IN  Typed(cg, IntType(e, base),
            LAMBDA t : Value(cg, t, Const(Wrap(t, e.v))))

\* Mutant: the sign is not spread.
IntEval_Mutant(e) ==
  AstConst(IF e.kind = "" THEN "untyped" ELSE e.kind, e.size,
           IF e.kind = "" THEN e.v ELSE Wrap(Scalar(e.kind, e.size), e.v), NoType)

\* A suffix narrows the literal, the sign spreads it again.
IntEval(e) ==
  LET t == Scalar(e.kind, e.size)
  IN  CASE e.kind = "" -> AstConst("untyped", 0, e.v, NoType)
        [] e.kind = "uint" -> AstConst("uint", e.size, Wrap(t, e.v), NoType)
        [] e.kind = "sint" ->
             AstConst("sint", e.size, Signed(Wrap(t, e.v), Width(t)) % 2^Wide, NoType)

\* AstFltExpr.  gen_value reads want without a look at it, but gen_type has
\* failed by then if there is none.
FltType(e, want) ==
  CASE e.size # 0 -> Scalar("real", e.size)
    [] e.size = 0 /\ want.kind = "real" -> want
    [] OTHER -> NoType

FltEval(e) ==
  IF e.size = 0 THEN AstConst("untyped real", 0, e.v, NoType)
  ELSE AstConst("real", e.size, e.v, NoType)

\* AstStrExpr: the address of its first byte and its length.  The escapes in
\* the text are left out.
StrValue(cg, e) ==
  Value(cg, StringType,
        Const(<<[Root("text", 0, e.text) EXCEPT !.path = <<0>>], Len(e.text)>>))

\* AstBoolExpr: a Bool8 in a body, a Bool32 when folded.
BoolValue(cg, e) == Value(cg, B8, Const(e.v))
BoolEval(e) == AstConst("bool", 4, e.v, NoType)

-----------------------------------------------------------------------------
(* Names                                                                   *)

\* lookup_let: the newest alias of that name, then the variable.
LookupLet(cg, name) ==
  LET tests == SelectSeq(cg.tests, LAMBDA t : t.name = name)
  IN  CASE tests # <<>> -> Value(cg, Last(tests).type, Last(tests).ref)
        [] tests = <<>> /\ name \in DOMAIN Vars ->
             Value(cg, addrof(Vars[name]), Root("var", 0, name))
        [] OTHER -> None(cg)

LookupFn(cg, name) ==
  IF name \in DOMAIN Fns
  THEN Value(cg, addrof(Fns[name]), Root("fn", 0, name)) ELSE None(cg)

LookupUsing(cg, name) ==
  IF name \in DOMAIN Usings
  THEN Value(cg, addrof(Usings[name]), Root("using", 0, name)) ELSE None(cg)

\* AstVarExpr.
VarAddr(cg, e) ==
  With(LookupLet(cg, e.name), LAMBDA let :
    With(LookupFn(cg, e.name), LAMBDA fn :
      CASE let.ok -> let
        [] ~let.ok /\ fn.ok -> fn
        [] ~let.ok /\ ~fn.ok /\ e.name \in DOMAIN Globals ->
             Value(cg, addrof(Globals[e.name].type), Root("global", 0, e.name))
        [] OTHER -> None(cg)))

VarType(cg, e) ==
  With(VarAddr(cg, e), LAMBDA addr :
    CASE ~addr.ok -> NoType
      [] addr.ok /\ deref(addr.type).kind = "fn" -> addr.type
      [] OTHER -> deref(addr.type))

VarValue(cg, e) ==
  Typed(cg, VarType(cg, e), LAMBDA t :
    Then(VarAddr(cg, e), LAMBDA addr : load(addr.cg, addr)))

\* Only globals are known here, whatever hides them in a body.
VarEval(e) ==
  IF e.name \in DOMAIN Globals THEN Globals[e.name].value ELSE NoConst

\* AstEffExpr.
EffType(cg, e) ==
  With(LookupUsing(cg, e.name), LAMBDA addr : IF addr.ok THEN deref(addr.type) ELSE NoType)

\* AstSelectorExpr: the enum that has the name, in a union the only one.
SelectorType(e, want) ==
  LET having == {i \in DOMAIN want.types :
                   /\ want.types[i].kind = "enum"
                   /\ \E k \in DOMAIN want.types[i].names :
                        want.types[i].names[k] = e.name}
  IN  CASE want.kind = "enum" -> want
        [] want.kind = "union" /\ Cardinality(having) = 1 ->
             want.types[CHOOSE i \in having : TRUE]
        [] OTHER -> NoType

SelectorValue(cg, e, want) ==
  Typed(cg, SelectorType(e, want), LAMBDA type :
    LET at == {k \in DOMAIN type.names : type.names[k] = e.name}
        k == CHOOSE k \in at : \A j \in at : k <= j
    IN  IF at = {} THEN None(cg)
        ELSE With(const_codegen(cg, AstConst("sint", 8, type.inits[k], NoType), type),
                  LAMBDA v : Value(v.cg, type, v.ref)))

-----------------------------------------------------------------------------
(* Tuples and aggregates                                                   *)

\* AstTupleExpr.  What is hoped for each element is at its own index in the
\* tuple hoped for, paddings counted.
TupleType(cg, e, want) ==
  LET base == IF want.kind = "pointer" THEN deref(want) ELSE want
  IN  With([i \in DOMAIN e.es |->
              gen_type(cg, e.es[i], IF base.kind = "tuple" THEN TypeAt(base, i - 1)
                                    ELSE NoType)], LAMBDA types :
        LET bad == {i \in DOMAIN e.es : IsMissing(types[i])}
        IN  CASE e.es = <<>> -> Unit
              [] bad # {} -> types[CHOOSE i \in bad : \A j \in bad : i <= j]
              [] OTHER -> MakeTuple(types, <<>>))

\* The places of an aggregate filled in turn: the next value, or zeroes for a
\* padding and for what has no value.
Fill(cg, dsts, values) ==
  LET pads(n) == Cardinality({k \in 1..n : IsPadding(deref(dsts[k].type))})
      value(c, i) == IF IsPadding(deref(dsts[i].type)) \/ i - pads(i) > Len(values)
                     THEN Zero(c, deref(dsts[i].type)) ELSE values[i - pads(i)]
  IN  FoldLeft(LAMBDA c, i : store(c, dsts[i], value(c, i)), cg, [i \in DOMAIN dsts |-> i])

TupleAddr(cg, e, want) ==
  Typed(cg, TupleType(cg, e, IF IsMissing(want) THEN NoType ELSE deref(want)), LAMBDA type :
    ThenAll(Each(cg, Len(e.es), LAMBDA c, i :
              Typed(c, TypeAt(type, i - 1), LAMBDA infer : gen_value(c, e.es[i], infer))),
      LAMBDA values :
        With(emit_alloca(values.cg, type), LAMBDA addr :
          With(Each(addr.cg, Len(type.types), LAMBDA c, i : addr_at(c, addr, i - 1)),
            LAMBDA dsts : [addr EXCEPT !.cg = Fill(dsts.cg, dsts.out, values.out)]))))

TupleValue(cg, e, want) ==
  Typed(cg, TupleType(cg, e, want), LAMBDA type : LoadFrom(cg, e, type))

TupleEval(cg, e) ==
  IF e.es = <<>> THEN StuckConst
  ELSE Constants(cg, e.es, LAMBDA cs : AstConst("tuple", 0, cs, NoType))

\* AstAggExpr.  type is the one written before the braces, its extent -1 if
\* it is to be counted; NoType if none is written.
AggType(e, want) ==
  CASE e.type.kind = "none" -> want
    [] e.type.kind = "array" /\ e.type.extent = -1 ->
         MakeArray(deref(e.type), Len(e.es))
    [] OTHER -> e.type

\* The value of an element fits its place: the type is the same, or one of
\* those of the union there.
Fits(value, type) ==
  Same(value.type, type) \/ (type.kind = "union" /\ HasVariant(type, value.type))

AggStore(v, dst) ==
  IF Fits(v, deref(dst.type)) THEN [dst EXCEPT !.cg = store(v.cg, dst, v)] ELSE None(v.cg)

\* One place of an aggregate: the value of the next element, or zeroes.
AggPart(cg, e, type, dst, i) ==
  LET pads == Cardinality({k \in 1..i : type.kind = "tuple" /\ IsPadding(type.types[k])})
      infer == TypeAt(type, IF type.kind = "array" THEN 0 ELSE i - 1)
  IN  IF IsPadding(infer) \/ i - pads > Len(e.es) THEN [dst EXCEPT !.cg = zero(cg, dst)]
      ELSE Then(gen_value(cg, e.es[i - pads], infer), LAMBDA v : AggStore(v, dst))

AggParts(e, type, addr, n) ==
  With(Each(addr.cg, n, LAMBDA c, i : addr_at(c, addr, i - 1)), LAMBDA dsts :
    ThenAll(Each(dsts.cg, n, LAMBDA c, i : AggPart(c, e, type, dsts.out[i], i)),
            LAMBDA all : [addr EXCEPT !.cg = all.cg]))

AggAddr(cg, e, want) ==
  Typed(cg, AggType(e, IF IsMissing(want) THEN NoType ELSE deref(want)), LAMBDA type :
    With(emit_alloca(cg, type), LAMBDA addr :
      LET n == IF IsAggregate(type) THEN Parts(type) ELSE 1
      IN  CASE Len(e.es) > n -> None(addr.cg)
            [] e.es = <<>> -> [addr EXCEPT !.cg = zero(addr.cg, addr)]
            [] Len(e.es) \in 1..n /\ ~IsAggregate(type) ->
                 Then(gen_value(addr.cg, e.es[1], type), LAMBDA v : AggStore(v, addr))
            [] OTHER -> AggParts(e, type, addr, n)))

AggValue(cg, e, want) ==
  Typed(cg, AggType(e, want), LAMBDA type : LoadFrom(cg, e, type))

AggEval(cg, e) ==
  LET kind == IF e.type.kind \in {"none", "array"} THEN "array" ELSE "tuple"
      type == IF e.type.kind = "none" THEN NoType ELSE AggType(e, NoType)
  IN  IF e.es = <<>> THEN StuckConst
      ELSE Constants(cg, e.es, LAMBDA cs : AstConst(kind, 0, cs, type))

-----------------------------------------------------------------------------
(* Parts of aggregates                                                     *)

\* The first field of that name, counted from 0, or -1.
FieldOf(type, name) ==
  LET at == {i \in DOMAIN type.names : type.names[i] = name}
  IN  IF at = {} THEN -1 ELSE (CHOOSE i \in at : \A j \in at : i <= j) - 1

\* AstAccessExpr.  On the right a name, which is a method before it is a
\* field, or the number of an element.
AccessType(cg, e, want) ==
  With(gen_type(cg, e.l, NoType), LAMBDA whole :
    With(IF whole.kind = "pointer" THEN deref(whole) ELSE whole, LAMBDA lhs :
      CASE IsMissing(whole) -> whole
        [] lhs.kind # "tuple" -> NoType
        [] lhs.kind = "tuple" /\ e.r.n = "Call" -> gen_type(cg, e.r, want)
        [] lhs.kind = "tuple" /\ e.r.n = "Var" ->
             CASE e.r.name \in DOMAIN Fns -> addrof(Fns[e.r.name])
               [] FieldOf(lhs, e.r.name) = -1 -> NoType
               [] OTHER -> TypeAt(lhs, FieldOf(lhs, e.r.name))
        [] lhs.kind = "tuple" /\ e.r.n = "Int" -> TypeAtVirt(lhs, ToUint64(IntEval(e.r)))
        [] OTHER -> NoType))

\* A method and what it is called on: their two addresses, in a tuple.
MethodAddr(lhs, name) ==
  With(LookupFn(lhs.cg, name), LAMBDA fn :
    With(emit_alloca(lhs.cg, MakeTuple(<<fn.type, lhs.type>>, <<>>)), LAMBDA dst :
      With(addr_at(dst.cg, dst, 0), LAMBDA first :
        With(addr_at(first.cg, dst, 1), LAMBDA second :
          [dst EXCEPT !.cg = store(store(second.cg, first, fn), second, lhs)]))))

AccessAddr(cg, e, want) ==
  Then(gen_addr(cg, e.l, want), LAMBDA whole :
    With(IF deref(whole.type).kind = "pointer" THEN load(whole.cg, whole) ELSE whole,
      LAMBDA lhs :
        LET field == FieldOf(deref(lhs.type), e.r.name)
            isTuple == deref(lhs.type).kind = "tuple"
        IN  CASE e.r.n = "Var" /\ e.r.name \in DOMAIN Fns -> MethodAddr(lhs, e.r.name)
              [] e.r.n = "Var" /\ e.r.name \notin DOMAIN Fns /\ isTuple ->
                   IF field = -1 THEN None(lhs.cg) ELSE addr_at(lhs.cg, lhs, field)
              [] e.r.n = "Int" -> addr_at_virt(lhs.cg, lhs, ToUint64(IntEval(e.r)))
              [] OTHER -> None(lhs.cg)))

AccessValue(cg, e, want) ==
  IF e.r.n \in {"Var", "Int"} THEN LoadFrom(cg, e, want) ELSE None(cg)

\* AstIndexExpr.
IndexType(cg, e, want) ==
  LET type == gen_type(cg, detuple(e.e), want)
  IN  CASE IsMissing(type) -> type
        [] type.kind \in {"pointer", "array", "slice", "string"} -> deref(type)
        [] OTHER -> NoType

IndexAddr(cg, e) ==
  Then(gen_addr(cg, detuple(e.e), NoType), LAMBDA whole :
    LET operand == IF deref(whole.type).kind = "string"
                   THEN addr_at(whole.cg, whole, 0) ELSE whole
        c == eval_value(cg, e.i)
    IN  CASE c.kind = "stuck" -> unreachable(operand.cg)
          [] IsIntegral(c) -> addr_at(operand.cg, operand, ToUint64(c))
          [] c.kind = "none" ->
               Then(gen_value(operand.cg, e.i, U64), LAMBDA index :
                 IF IsInteger(index.type) THEN addr_at_value(index.cg, operand, index)
                 ELSE None(index.cg))
          [] OTHER -> None(operand.cg))

\* A constant index takes the element out of the whole value, asked of the
\* operand with its parentheses.
IndexValue(cg, e, want) ==
  Typed(cg, IndexType(cg, e, want), LAMBDA type :
    LET c == eval_value(cg, e.i)
    IN  CASE type.kind \in {"pointer", "slice", "string"} -> LoadFrom(cg, e, type)
          [] type.kind \notin {"pointer", "slice", "string"} /\ c.kind = "none" ->
               LoadFrom(cg, e, type)
          [] type.kind \notin {"pointer", "slice", "string"} /\ IsIntegral(c) ->
               Then(gen_value(cg, e.e, type), LAMBDA operand :
                 IF IsAggregate(operand.type) /\ ToUint64(c) >= Parts(operand.type)
                 THEN unreachable(operand.cg)
                 ELSE value_at(operand.cg, operand, ToUint64(c)))
          [] type.kind \notin {"pointer", "slice", "string"} /\ c.kind = "stuck" ->
               unreachable(cg)
          [] OTHER -> None(cg))

\* An array is looked for in the constant that is the index, which is none.
IndexEval(cg, e) ==
  LET operand == eval_value(cg, detuple(e.e))
      index == eval_value(cg, e.i)
      i == ToUint64(index) + 1
  IN  CASE operand.kind \in {"none", "stuck"} -> operand
        [] operand.kind \notin {"none", "stuck"} /\ ~IsIntegral(index) ->
             IF index.kind = "stuck" THEN index ELSE NoConst
        [] operand.kind = "tuple" /\ IsIntegral(index) ->
             IF i \in DOMAIN operand.v THEN operand.v[i] ELSE NoConst
        [] operand.kind = "array" /\ IsIntegral(index) -> StuckConst
        [] OTHER -> NoConst

-----------------------------------------------------------------------------
(* Operators                                                               *)

Compares == {"eq", "ne", "lt", "le", "gt", "ge"}
Arithmetic == {"add", "sub", "mul", "div"}
Selects == {"min", "max"}

\* AstBinExpr::gen_type: that of an operand, whatever the operator.
BinType(cg, e, want) ==
  LET lhs == gen_type(cg, detuple(e.l), want)
  IN  IF lhs.kind = "none" THEN gen_type(cg, detuple(e.r), want) ELSE lhs

\* The comparison of what is no number by the bytes at two addresses, each
\* operand being generated again for it.
CompareBytes(cg, e, type) ==
  LET want == IF e.op = "eq" THEN addrof(type) ELSE NoType
  IN  With(gen_addr(cg, e.l, want), LAMBDA lhs :
        With(gen_addr(lhs.cg, e.r, want), LAMBDA rhs :
          IF ~lhs.ok \/ ~rhs.ok THEN unreachable(rhs.cg)
          ELSE Build(rhs.cg, "bytes " \o e.op, B32, <<lhs, rhs>>)))

BinEmit(cg, e, type, lhs, rhs) ==
  LET numeric == IsInteger(type) \/ type.kind = "pointer"
      shift == IF type.kind = "sint" THEN "ashr" ELSE "lshr"
  IN  CASE e.op \in Arithmetic -> emit_arith(cg, e.op, lhs, rhs)
        [] e.op \in Selects -> emit_select(cg, e.op, lhs, rhs)
        [] e.op \in {"eq", "ne"} /\ numeric -> Build(cg, e.op, B32, <<lhs, rhs>>)
        [] e.op \in {"eq", "ne"} /\ type.kind = "real" ->
             Build(cg, "o" \o e.op, B32, <<lhs, rhs>>)
        [] e.op \in {"eq", "ne"} /\ ~numeric /\ type.kind # "real" ->
             CompareBytes(cg, e, type)
        [] e.op \in {"lt", "le", "gt", "ge"} -> emit_compare(cg, e.op, lhs, rhs)
        [] e.op \in {"or", "and"} /\ (IsInteger(type) \/ type.kind = "bool") ->
             Build(cg, e.op, type, <<lhs, rhs>>)
        [] e.op = "shl" /\ IsInteger(type) -> Build(cg, "shl", type, <<lhs, rhs>>)
        [] e.op = "shr" /\ IsInteger(type) -> Build(cg, shift, type, <<lhs, rhs>>)
        [] OTHER -> None(cg)

\* Both operands have the type of the left one, or of the right one where
\* the left has none of its own.
BinValue(cg, e, want) ==
  With(gen_type(cg, detuple(e.l), want), LAMBDA left :
    With(gen_type(cg, detuple(e.r), IF left.kind = "none" THEN want ELSE left), LAMBDA right :
      With(IF left.kind = "none" THEN gen_type(cg, detuple(e.l), right) ELSE left, LAMBDA type :
        CASE "stuck" \in {type.kind, right.kind} -> unreachable(cg)
          [] "none" \in {type.kind, right.kind} -> None(cg)
          [] ~IsMissing(type) /\ ~IsMissing(right) /\ ~Same(type, right) -> None(cg)
          [] OTHER ->
               With(gen_value(cg, detuple(e.l), type), LAMBDA lhs :
                 With(gen_value(lhs.cg, detuple(e.r), type), LAMBDA rhs :
                   IF lhs.ok /\ rhs.ok THEN BinEmit(rhs.cg, e, type, lhs, rhs)
                   ELSE None(rhs.cg))))))

\* The folding of two numbers of Wide bits.
BinFold(op, sign, l, r) ==
  LET x == IF sign THEN Signed(l, Wide) ELSE l
      y == IF sign THEN Signed(r, Wide) ELSE r
      bool(b) == IF b THEN 1 ELSE 0
      n == CASE op = "add" -> x + y
             [] op = "sub" -> x - y
             [] op = "mul" -> x * y
             [] op = "eq" -> bool(x = y)
             [] op = "ne" -> bool(x # y)
             [] op = "lt" -> bool(x < y)
             [] op = "le" -> bool(x <= y)
             [] op = "gt" -> bool(x > y)
             [] op = "ge" -> bool(x >= y)
             [] op = "or" -> l | r
             [] op = "and" -> l & r
             [] op = "shl" -> x * 2^y
             [] op = "shr" -> x \div 2^y
  IN  n % 2^Wide

\* AstBinExpr::eval_value.  The result has the kind of the operands, and
\* their width is not looked at.
BinEval(cg, e) ==
  With(eval_value(cg, e.l), LAMBDA l :
    With(eval_value(cg, e.r), LAMBDA r :
      LET foldable == {"add", "sub", "mul", "or", "and", "shl", "shr"} \cup Compares
      IN  CASE l.kind \in {"none", "stuck"} -> l
            [] l.kind \notin {"none", "stuck"} /\ r.kind \in {"none", "stuck"} -> r
            [] l.kind # r.kind \/ l.size # r.size \/ e.op \notin foldable -> NoConst
            [] e.op \in {"shl", "shr"} /\ IsIntegral(l) /\ r.v >= Wide -> StuckConst
            [] IsIntegral(l) \/ (l.kind = "bool" /\ e.op \in {"eq", "ne"}) ->
                 [l EXCEPT !.v = BinFold(e.op, l.kind = "sint", l.v, r.v)]
            [] OTHER -> NoConst))

\* Mutant: on_lhs_true, whatever the operator.
Settled_Mutant(op, onLhsTrue, onLhsFalse) == onLhsTrue

\* The block that knows the answer from the left operand alone.
Settled(op, onLhsTrue, onLhsFalse) == IF op = "lor" THEN onLhsTrue ELSE onLhsFalse

LBinType(want) == IF IsMissing(want) THEN B32 ELSE want

\* AstLBinExpr::gen_value: on_lhs_true, on_lhs_false, on_rhs_true,
\* on_rhs_false and on_exit, and a phi of three constants.
LBinValue(cg, e, want) ==
  LET n == Len(cg.blocks)
      onLhsTrue == n + 1
      onLhsFalse == n + 2
      onRhsTrue == n + 3
      onRhsFalse == n + 4
      onExit == n + 5
      lor == e.op = "lor"
      known == Settled(e.op, onLhsTrue, onLhsFalse)
      open == IF lor THEN onLhsFalse ELSE onLhsTrue
      settled(lhs) ==
        BuildBr(PositionAtEnd(BuildCondBr(lhs.cg, lhs, onLhsTrue, onLhsFalse), known), onExit)
      tested(rhs) == BuildCondBr(rhs.cg, rhs, onRhsTrue, onRhsFalse)
      yes(rhs) == BuildBr(PositionAtEnd(tested(rhs), onRhsTrue), onExit)
      no(rhs) == BuildBr(PositionAtEnd(yes(rhs), onRhsFalse), onExit)
      phi(rhs) ==
        Value(Emit(PositionAtEnd(no(rhs), onExit), "phi", B32,
                   <<ConstInt(B32, IF lor THEN 1 ELSE 0), ConstInt(B32, 1), ConstInt(B32, 0)>>,
                   <<known, onRhsTrue, onRhsFalse>>),
              B32, Result(onExit, 1))
  IN  With(gen_value(CreateBlocks(cg, 5), e.l, LBinType(want)), LAMBDA lhs :
        CASE ~lhs.ok -> unreachable(lhs.cg)
          [] lhs.ok /\ lhs.type.kind # "bool" -> None(lhs.cg)
          [] OTHER ->
               With(gen_value(PositionAtEnd(settled(lhs), open), e.r, B32), LAMBDA rhs :
                 IF rhs.ok /\ rhs.type.kind = "bool" THEN phi(rhs) ELSE None(rhs.cg)))

LBinEval(cg, e) ==
  LET l == eval_value(cg, e.l)
      r == eval_value(cg, e.r)
      v == IF e.op = "lor" THEN (IF l.v + r.v > 0 THEN 1 ELSE 0) ELSE l.v * r.v
  IN  CASE l.kind \in {"none", "stuck"} -> l
        [] l.kind \notin {"none", "stuck"} /\ r.kind \in {"none", "stuck"} -> r
        [] l.kind = "bool" /\ r.kind = "bool" -> [l EXCEPT !.v = v]
        [] OTHER -> NoConst

\* Mutant: the address of a value has the type of the value.
UnaryType_Mutant(cg, e, want) ==
  LET type == gen_type(cg, detuple(e.e), IF e.op \in {"neg", "not"} THEN want ELSE NoType)
  IN  IF ~IsMissing(type) /\ e.op = "deref"
      THEN (IF type.kind = "pointer" THEN deref(type) ELSE NoType) ELSE type

\* AstUnaryExpr.
UnaryType(cg, e, want) ==
  LET type == gen_type(cg, detuple(e.e), IF e.op \in {"neg", "not"} THEN want ELSE NoType)
  IN  CASE IsMissing(type) \/ e.op \in {"neg", "not"} -> type
        [] ~IsMissing(type) /\ e.op = "deref" ->
             IF type.kind = "pointer" THEN deref(type) ELSE NoType
        [] ~IsMissing(type) /\ e.op = "addrof" -> addrof(type)

UnaryAddr(cg, e, want) ==
  LET to == gen_value(cg, detuple(e.e), IF IsMissing(want) THEN NoType ELSE deref(want))
  IN  CASE e.op # "deref" -> None(cg)
        [] e.op = "deref" /\ ~to.ok -> unreachable(to.cg)
        [] e.op = "deref" /\ to.ok /\ to.type.kind # "pointer" -> None(to.cg)
        [] OTHER -> to

UnaryValue(cg, e, want) ==
  Typed(cg, UnaryType(cg, e, want), LAMBDA type :
    LET operand == detuple(e.e)
        inverted(v) == Build(v.cg, "not", v.type, <<v>>)
        negated(v) == Build(v.cg, IF v.type.kind = "real" THEN "fneg" ELSE "neg", v.type, <<v>>)
    IN  CASE e.op = "neg" -> Then(gen_value(cg, operand, type), negated)
          [] e.op = "not" -> Then(gen_value(cg, operand, type), inverted)
          [] e.op = "deref" -> LoadFrom(cg, e, type)
          [] e.op = "addrof" -> gen_addr(cg, operand, addrof(type)))

\* AstCastExpr.  The operand is generated before the type is looked at.
CastValue(cg, e) ==
  Then(gen_value(cg, detuple(e.e), NoType), LAMBDA src :
    IF src.type.kind \in {"tuple", "array", "union", "string"} THEN unreachable(src.cg)
    ELSE LET real == {t \in {src.type, e.type} : t.kind = "real"}
             wider == Width(e.type) > Width(src.type)
             narrower == Width(e.type) < Width(src.type)
             op == CASE src.type.kind = "pointer" /\ e.type.kind # "pointer" -> "from pointer"
                     [] src.type.kind # "pointer" /\ e.type.kind = "pointer" -> "to pointer"
                     [] src.type.kind = "pointer" /\ e.type.kind = "pointer" -> "bitcast"
                     [] real = {src.type} /\ e.type # src.type -> "from real"
                     [] real = {e.type} /\ e.type # src.type -> "to real"
                     [] wider /\ src.type.kind = "sint" -> "sext"
                     [] wider /\ src.type.kind # "sint" -> "zext"
                     [] narrower -> "trunc"
                     [] OTHER -> "bitcast"
         IN  Build(src.cg, op, e.type, <<src>>))

CastAddr(cg, e, want) ==
  IF e.type.kind = "pointer" THEN Spill(cg, e, want) ELSE None(CastValue(cg, e).cg)

\* Every constant becomes a Uint64.
CastEval(cg, e) ==
  LET c == eval_value(cg, detuple(e.e))
  IN  CASE IsIntegral(c) \/ c.kind = "bool" -> AstConst("uint", 8, ToUint64(c), NoType)
        [] c.kind = "none" -> NoConst
        [] OTHER -> StuckConst

\* AstTestExpr: does the tag say so?  If what is tested is a variable, its
\* name means the variant from here on.
TestValue(cg, e) ==
  Then(gen_addr(cg, detuple(e.e), NoType), LAMBDA whole :
    LET union == deref(whole.type)
        alias(inner) == [name |-> detuple(e.e).name, type |-> addrof(e.type),
                         ref |-> inner.ref]
        named(test) ==
          With(Build(test.cg, "gep", addrof(e.type), <<whole, Number(0)>>), LAMBDA inner :
            [test EXCEPT !.cg = [inner.cg EXCEPT !.tests = Append(@, alias(inner))]])
    IN  IF union.kind # "union" \/ ~HasVariant(union, e.type) THEN None(whole.cg)
        ELSE With(load(whole.cg, whole), LAMBDA loaded :
               With(Build(loaded.cg, "extract", U8, <<loaded, Number(1)>>), LAMBDA have :
                 With(Build(have.cg, "eq", B32,
                            <<have, ConstInt(U8, VariantOf(union, e.type) - 1)>>), LAMBDA test :
                   IF detuple(e.e).n = "Var" THEN named(test) ELSE test))))

\* AstPropExpr.  A name is that of a type, whatever variable has it too.
PropEval(cg, e) ==
  LET known == {"size", "align", "count"}
      type == CASE e.e.n = "Var" /\ e.e.name \in DOMAIN Typedefs -> Typedefs[e.e.name]
                [] e.e.n = "Var" /\ e.e.name \notin DOMAIN Typedefs -> NoType
                [] OTHER -> gen_type(cg, e.e, NoType)
      n == CASE e.prop = "size" -> type.size
             [] e.prop = "align" -> type.align
             [] e.prop = "count" -> type.extent
  IN  CASE type.kind = "stuck" -> StuckConst
        [] type.kind = "none" \/ e.prop \notin known -> NoConst
        [] OTHER -> AstConst("uint", 8, n, NoType)

PropType(cg, e, want) ==
  CASE e.prop = "type" -> gen_type(cg, e.e, want)
    [] e.prop # "type" /\ IsMissing(want) -> U64
    [] OTHER -> want

PropValue(cg, e, want) ==
  const_codegen(cg, PropEval(cg, e), IF IsMissing(want) THEN U64 ELSE want)

-----------------------------------------------------------------------------
(* Calls                                                                   *)

\* AstCallExpr::gen_type.  A callee is a function, a pointer to one, or a
\* method with what it is called on.
CallType(cg, e) ==
  With(gen_type(cg, e.callee, NoType), LAMBDA callee :
    With(CASE deref(callee).kind = "tuple" -> deref(deref(deref(callee)))
           [] deref(callee).kind = "pointer" -> deref(deref(callee))
           [] OTHER -> deref(callee), LAMBDA fn :
      CASE IsMissing(callee) -> callee
        [] fn.kind = "stuck" -> fn
        [] fn.kind = "fn" -> TypeAt(fn, 3)
        [] OTHER -> NoType))

\* The effects a function requires, packed in a tuple: nothing, or its address.
EffectPacket(cg, effects, usings) ==
  With(emit_alloca(cg, effects), LAMBDA dst :
    With(Each(dst.cg, Len(usings), LAMBDA c, i : addr_at_virt(c, dst, i - 1)), LAMBDA dsts :
      IF ~dsts.ok THEN dsts
      ELSE [ok |-> TRUE, out |-> <<dst>>,
            cg |-> FoldLeft(LAMBDA c, i : With(load(c, usings[i]), LAMBDA v :
                                            store(v.cg, dsts.out[i], v)),
                            dsts.cg, [i \in DOMAIN usings |-> i])]))

EffectArgs(cg, effects) ==
  With(SelectSeq(effects.names, LAMBDA name : name # ""), LAMBDA wanted :
    With([i \in DOMAIN wanted |-> LookupUsing(cg, wanted[i])], LAMBDA usings :
      CASE effects = Unit -> [ok |-> TRUE, cg |-> cg, out |-> <<>>]
        [] \E i \in DOMAIN usings : ~usings[i].ok -> [ok |-> FALSE, cg |-> cg, out |-> <<>>]
        [] OTHER -> EffectPacket(cg, effects, usings)))

\* What a method is called on: its elements if it is a tuple without a name,
\* paddings and all, its address otherwise.
ObjectArgs(cg, callee, objs) ==
  IF objs = Unit THEN [ok |-> TRUE, cg |-> cg, out |-> <<>>]
  ELSE With(addr_at(cg, callee, 1), LAMBDA at :
         IF ~at.ok THEN [ok |-> FALSE, cg |-> at.cg, out |-> <<>>]
         ELSE With(load(at.cg, at), LAMBDA packet :
                IF deref(packet.type).kind = "tuple" /\ ~deref(packet.type).named
                THEN Each(packet.cg, Len(deref(packet.type).types), LAMBDA c, i :
                       With(addr_at(c, packet, i - 1), LAMBDA elem : load(elem.cg, elem)))
                ELSE [ok |-> TRUE, cg |-> packet.cg, out |-> <<packet>>]))

\* One more argument of those expected.  Past their end the last is asked
\* for, again and again.
PlainArg(done, e, arg, expected) ==
  LET k == Len(done.out)
      want == TypeAt(expected, IF k < Len(expected.types) THEN k
                               ELSE Len(expected.types) - 1)
  IN  Typed(done.cg, want, LAMBDA t :
        Then(gen_value(done.cg, arg, t), LAMBDA v :
          Then(IF e.c /\ v.type.kind = "string" THEN value_at(v.cg, v, 0) ELSE v,
               LAMBDA x : IF t.kind = "va" \/ Same(x.type, t) THEN x ELSE None(x.cg))))

\* The elements of a tuple as arguments, each against the type at its place.
ExplodedArgs(done, arg, expected) ==
  With(gen_value(done.cg, arg.e, expected), LAMBDA args :
    IF ~args.ok THEN [done EXCEPT !.ok = FALSE]
    ELSE With(Each(args.cg, Len(args.type.types), LAMBDA c, i :
                Then(value_at(c, args, i - 1), LAMBDA v :
                  Typed(v.cg, TypeAt(expected, Len(done.out) + i - 1), LAMBDA want :
                    IF Same(v.type, want) THEN v ELSE None(v.cg)))), LAMBDA all :
           [all EXCEPT !.out = done.out \o @]))

NextArg(done, e, arg, expected) ==
  CASE ~done.ok -> done
    [] done.ok /\ arg.n = "Explode" -> ExplodedArgs(done, arg, expected)
    [] OTHER -> With(PlainArg(done, e, arg, expected), LAMBDA v :
                  [ok |-> v.ok, cg |-> v.cg, out |-> Append(done.out, v)])

Args(cg, e, expected) ==
  FoldLeft(LAMBDA done, arg : NextArg(done, e, arg, expected),
           [ok |-> TRUE, cg |-> cg, out |-> <<>>], e.args)

\* The function that is called: of a method the first part, of a pointer what
\* it points to.
FnCalled(callee) ==
  CASE deref(callee.type).kind = "tuple" ->
         With(addr_at(callee.cg, callee, 0), LAMBDA method : load(method.cg, method))
    [] deref(callee.type).kind = "pointer" -> load(callee.cg, callee)
    [] OTHER -> callee

\* The call.  A function that returns a tuple of one returns its element,
\* which is put back into one.
Returned(cg, ret, operands) ==
  IF ~(ret.kind = "tuple" /\ Len(ret.types) = 1) THEN Build(cg, "call", ret, operands)
  ELSE With(Build(cg, "call", deref(ret), operands), LAMBDA value :
         With(emit_alloca(value.cg, ret), LAMBDA dst :
           With(addr_at(dst.cg, dst, 0), LAMBDA at : load(store(at.cg, at, value), dst))))

\* AstCallExpr::gen_value: the callee, the effects, the objects, then the
\* arguments.
CallValue(cg, e) ==
  Typed(cg, CallType(cg, e), LAMBDA known :
    Then(gen_addr(cg, e.callee, NoType), LAMBDA callee :
      With(FnCalled(callee), LAMBDA call :
        LET fn == deref(call.type)
        IN  ThenAll(EffectArgs(call.cg, TypeAt(fn, 2)), LAMBDA effects :
              ThenAll(ObjectArgs(effects.cg, callee, TypeAt(fn, 0)), LAMBDA objs :
                ThenAll(Args(objs.cg, e, TypeAt(fn, 1)), LAMBDA args :
                  Returned(args.cg, TypeAt(fn, 3),
                           <<call>> \o effects.out \o objs.out \o args.out)))))))

-----------------------------------------------------------------------------
(* What the virtual functions are in each class                            *)

TypeIn(cg, e, want) ==
  CASE e.n = "Tuple"    -> TupleType(cg, e, want)
    [] e.n = "Call"     -> CallType(cg, e)
    [] e.n = "Var"      -> VarType(cg, e)
    [] e.n = "Selector" -> SelectorType(e, want)
    [] e.n = "Int"      -> IntType(e, want)
    [] e.n = "Flt"      -> FltType(e, want)
    [] e.n = "Str"      -> StringType
    [] e.n = "Bool"     -> B8
    [] e.n = "Agg"      -> AggType(e, want)
    [] e.n = "Access"   -> AccessType(cg, e, want)
    [] e.n = "Bin"      -> BinType(cg, e, want)
    [] e.n = "LBin"     -> LBinType(want)
    [] e.n = "Unary"    -> UnaryType(cg, e, want)
    [] e.n = "Index"    -> IndexType(cg, e, want)
    [] e.n = "Eff"      -> EffType(cg, e)
    [] e.n \in {"Cast", "Test"} -> e.type
    [] e.n = "Prop"     -> PropType(cg, e, want)
    [] OTHER            -> NoType

ValueIn(cg, e, want) ==
  CASE e.n = "Tuple"    -> TupleValue(cg, e, want)
    [] e.n = "Call"     -> CallValue(cg, e)
    [] e.n = "Var"      -> VarValue(cg, e)
    [] e.n = "Selector" -> SelectorValue(cg, e, want)
    [] e.n = "Int"      -> IntValue(cg, e, want)
    [] e.n = "Flt"      -> Typed(cg, FltType(e, want), LAMBDA t : Value(cg, t, Const(e.v)))
    [] e.n = "Str"      -> StrValue(cg, e)
    [] e.n = "Bool"     -> BoolValue(cg, e)
    [] e.n = "Agg"      -> AggValue(cg, e, want)
    [] e.n = "Access"   -> AccessValue(cg, e, want)
    [] e.n = "Bin"      -> BinValue(cg, e, want)
    [] e.n = "LBin"     -> LBinValue(cg, e, want)
    [] e.n = "Unary"    -> UnaryValue(cg, e, want)
    [] e.n = "Index"    -> IndexValue(cg, e, want)
    [] e.n = "Explode"  -> gen_value(cg, e.e, want)
    [] e.n = "Eff"      -> LoadFrom(cg, e, want)
    [] e.n = "Cast"     -> CastValue(cg, e)
    [] e.n = "Test"     -> TestValue(cg, e)
    [] e.n = "Prop"     -> PropValue(cg, e, want)
    [] OTHER            -> None(cg)

AddrIn(cg, e, want) ==
  CASE e.n = "Tuple"    -> TupleAddr(cg, e, want)
    [] e.n = "Var"      -> VarAddr(cg, e)
    [] e.n = "Agg"      -> AggAddr(cg, e, want)
    [] e.n = "Access"   -> AccessAddr(cg, e, want)
    [] e.n \in {"Selector", "Bin", "LBin"} -> Spill(cg, e, want)
    [] e.n = "Unary"    -> UnaryAddr(cg, e, want)
    [] e.n = "Index"    -> IndexAddr(cg, e)
    [] e.n = "Eff"      -> LookupUsing(cg, e.name)
    [] e.n = "Cast"     -> CastAddr(cg, e, want)
    [] OTHER            -> None(cg)

EvalIn(cg, e) ==
  CASE e.n = "Tuple" -> TupleEval(cg, e)
    [] e.n = "Var"   -> VarEval(e)
    [] e.n = "Int"   -> IntEval(e)
    [] e.n = "Flt"   -> FltEval(e)
    [] e.n = "Str"   -> AstConst("string", 0, e.text, NoType)
    [] e.n = "Bool"  -> BoolEval(e)
    [] e.n = "Agg"   -> AggEval(cg, e)
    [] e.n = "Bin"   -> BinEval(cg, e)
    [] e.n = "LBin"  -> LBinEval(cg, e)
    [] e.n = "Index" -> IndexEval(cg, e)
    [] e.n = "Cast"  -> CastEval(cg, e)
    [] e.n = "Prop"  -> PropEval(cg, e)
    [] OTHER         -> NoConst

Virtual(f, cg, e, want) ==
  CASE f = "gen_type"   -> TypeIn(cg, e, want)
    [] f = "gen_value"  -> ValueIn(cg, e, want)
    [] f = "gen_addr"   -> AddrIn(cg, e, want)
    [] f = "eval_value" -> EvalIn(cg, e)

=============================================================================
