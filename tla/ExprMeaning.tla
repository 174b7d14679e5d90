----------------------------- MODULE ExprMeaning -----------------------------
(***************************************************************************)
(* What an expression says, and what the code generated for it must do.    *)
(*                                                                         *)
(* Meaning reads the expression from left to right, on mathematical        *)
(* integers that wrap at the width of their type, with the memory the run  *)
(* began with and the answers the calls gave, in order.  It owes nothing   *)
(* to the lowering but the layout of tuples.                               *)
(***************************************************************************)
EXTENDS ExprExec

-----------------------------------------------------------------------------
(* The reference                                                           *)

\* A value, Poison where the expression has none; its type; and the call that
\* comes next, 0 once a call was not the one the expression makes.
Means(v, type, k) == [v |-> v, type |-> type, k |-> k]

\* An expression that takes its type from where it stands.
RECURSIVE Untyped(_)
Untyped(e) ==
  CASE e.n = "Int" -> e.kind = ""
    [] e.n = "Flt" -> e.size = 0
    [] e.n = "Tuple" -> Len(e.es) = 1 /\ Untyped(e.es[1])
    [] e.n = "Unary" -> e.op \in {"neg", "not"} /\ Untyped(e.e)
    [] e.n = "Bin" -> Untyped(e.l) /\ Untyped(e.r)
    [] OTHER -> FALSE

\* The operators, given the type of both operands.
RECURSIVE Operate(_, _, _, _)
Operate(op, type, x, y) ==
  LET w == Width(type)
      read(n) == IF type.kind = "sint" THEN Signed(n, w) ELSE n
      wrap(n) == IF Real(type) THEN n ELSE Wrap(type, n)
      a == read(x)
      b == read(y)
      least == type.kind = "sint" /\ a = -(2^(w - 1))
  IN  CASE type.kind = "array" ->
             [i \in 1..type.extent |-> Operate(op, deref(type), x[i], y[i])]
        [] op = "eq" -> Bit(x = y)
        [] op = "ne" -> Bit(x # y)
        [] op = "add" -> wrap(a + b)
        [] op = "sub" -> wrap(a - b)
        [] op = "mul" -> wrap(a * b)
        [] op = "div" -> IF b = 0 \/ (least /\ b = -1) THEN Poison ELSE wrap(Quotient(a, b))
        [] op = "min" -> IF a < b THEN x ELSE y
        [] op = "max" -> IF a > b THEN x ELSE y
        [] op = "lt" -> Bit(a < b)
        [] op = "le" -> Bit(a <= b)
        [] op = "gt" -> Bit(a > b)
        [] op = "ge" -> Bit(a >= b)
        [] op = "or" -> x | y
        [] op = "and" -> x & y
        [] op = "shl" -> IF y >= w THEN Poison ELSE wrap(a * 2^y)
        [] op = "shr" -> IF y >= w THEN Poison ELSE wrap(a \div 2^y)

\* The value of a type given to another: an integer keeps its number.
Converted(from, to, n) ==
  CASE from.kind = "pointer" /\ to.kind = "pointer" -> n
    [] (from.kind = "pointer") # (to.kind = "pointer") -> Poison
    [] from.kind = "sint" /\ ~Real(to) -> Wrap(to, Signed(n, Width(from)))
    [] from.kind = "sint" /\ Real(to) -> Signed(n, Width(from))
    [] from.kind # "sint" /\ Real(to) -> n
    [] OTHER -> Wrap(to, n)

\* Where the elements that are no padding stand.
Places(type) ==
  SelectSeq([i \in DOMAIN type.types |-> i], LAMBDA i : ~IsPadding(type.types[i]))

\* A value of an aggregate from those of its elements, the rest zeroes.
Packed(type, vs) ==
  IF type.kind = "array"
  THEN [i \in 1..type.extent |-> IF i \in DOMAIN vs THEN vs[i] ELSE Filled(deref(type), 0)]
  ELSE [i \in DOMAIN type.types |->
          LET before == {j \in DOMAIN vs : Places(type)[j] = i}
          IN  IF before = {} THEN Filled(type.types[i], 0)
              ELSE vs[CHOOSE j \in before : TRUE]]

\* A value of one type where another is wanted: a union takes its variants.
Fitted(m, type) ==
  IF type.kind = "union" /\ m.type.kind # "union"
  THEN <<m.v, (CHOOSE i \in DOMAIN type.types : Same(type.types[i], m.type)) - 1>>
  ELSE m.v

\* The field an access names, by its name or by its number.
Field(type, r) ==
  IF r.n = "Var" THEN CHOOSE i \in DOMAIN type.names : type.names[i] = r.name
  ELSE Places(type)[r.v + 1]

\* The names a condition gives a variant to, where it holds.
RECURSIVE Tested(_)
Tested(e) ==
  CASE e.n = "Test" /\ detuple(e.e).n = "Var" ->
         <<[name |-> detuple(e.e).name, type |-> e.type]>>
    [] e.n = "Tuple" /\ Len(e.es) = 1 -> Tested(e.es[1])
    [] e.n = "LBin" /\ e.op = "land" -> Tested(e.l) \o Tested(e.r)
    [] OTHER -> <<>>

\* The next call, if it is the one that is made here.
Called(fn, args, type, k) ==
  IF k \in DOMAIN calls /\ calls[k].fn = fn /\ calls[k].args = args
  THEN Means(calls[k].answer, type, k + 1)
  ELSE Means(Filled(type, 0), type, 0)

\* Values in order, stopped by none: what each means, and what comes next.
InOrder(es, k, F(_, _, _)) ==
  FoldLeft(LAMBDA done, i : LET m == F(done.out, i, done.k)
                            IN  [out |-> Append(done.out, m), k |-> m.k],
           [out |-> <<>>, k |-> k], [i \in DOMAIN es |-> i])

Values(ms) == [i \in DOMAIN ms |-> ms[i].v]
AnyPoison(ms) == \E i \in DOMAIN ms : ms[i].v = Poison

RECURSIVE Meaning(_, _, _, _)

MeaningOfName(e, as, k) ==
  LET mine == SelectSeq(as, LAMBDA t : t.name = e.name)
      type == Vars[e.name]
      v == mem[Root("var", 0, e.name).root]
      global == mem[Root("global", 0, e.name).root]
      isVar == e.name \in DOMAIN Vars /\ use.place # "global"
  IN  CASE mine # <<>> -> Means(v[1], Last(mine).type, k)
        [] mine = <<>> /\ isVar -> Means(v, type, k)
        [] OTHER -> Means(global, Globals[e.name].type, k)

\* A pointer names what it points to.
Through(m) ==
  IF m.type.kind = "pointer" THEN Means(Read(mem, m.v), deref(m.type), m.k) ELSE m

\* A pointer to what an expression names.
RECURSIVE Place(_, _, _)
Place(e, as, k) ==
  LET whole == Place(detuple(e.e), as, k)
      index == Meaning(e.i, U64, as, whole.k)
      to == Meaning(detuple(e.e), NoType, as, k)
      tuple == Through(Place(e.l, as, k))
      part(m, i, type) == Means(IF m.v = Poison THEN Poison
                                ELSE [m.v EXCEPT !.path = Append(@, i)], type, m.k)
  IN  CASE e.n = "Var" -> Means(Root("var", 0, e.name), Vars[e.name], k)
        [] e.n = "Index" ->
             IF index.v = Poison \/ index.v >= whole.type.extent
             THEN Means(Poison, deref(whole.type), index.k)
             ELSE part([whole EXCEPT !.k = index.k], index.v, deref(whole.type))
        [] e.n = "Unary" /\ e.op = "deref" -> Means(to.v, deref(to.type), to.k)
        [] e.n = "Access" -> LET i == Field(tuple.type, e.r)
                             IN  part(tuple, i - 1, tuple.type.types[i])

\* The part of an aggregate an index takes.
Element(m, i) ==
  LET ptr == IF m.type.kind = "string" THEN m.v[1] ELSE m.v
      far == IF ptr.path = <<>> THEN ptr ELSE [ptr EXCEPT !.path[Len(ptr.path)] = @ + i]
  IN  CASE m.type.kind = "array" -> PartAt(m.v, <<i>>)
        [] m.type.kind \in {"string", "pointer"} ->
             IF (ptr.path = <<>> /\ i # 0) \/ ~CanReach(mem, far) THEN Poison
             ELSE Read(mem, far)

MeaningOfBin(e, want, as, k) ==
  LET x == detuple(e.l)
      y == detuple(e.r)
      l == Meaning(x, IF Untyped(x) /\ ~Untyped(y) THEN Meaning(y, want, as, k).type
                      ELSE want, as, k)
      r == Meaning(y, l.type, as, l.k)
      type == IF e.op \in Compares THEN B32 ELSE l.type
  IN  Means(IF Poison \in {l.v} \cup {r.v} THEN Poison ELSE Operate(e.op, l.type, l.v, r.v),
            type, r.k)

\* The right operand is read only where the left one leaves it open.
MeaningOfLBin(e, as, k) ==
  LET l == Meaning(e.l, B32, as, k)
      open == IF e.op = "land" THEN 1 ELSE 0
      r == Meaning(e.r, B32, IF e.op = "land" THEN as \o Tested(e.l) ELSE as, l.k)
  IN  IF l.v = open THEN r ELSE Means(l.v, B32, l.k)

\* The arguments, what the function works on and the effects it needs.
MeaningOfCall(e, as, k) ==
  LET method == e.callee.n = "Access"
      name == IF method THEN e.callee.r.name ELSE e.callee.name
      indirect == ~method /\ name \in DOMAIN Vars
      fn == IF indirect THEN deref(Vars[name]) ELSE Fns[name]
      fnName == IF indirect THEN mem[Root("var", 0, name).root].root[3] ELSE name
      effects == TypeAt(fn, 2)
      wanted == SelectSeq(effects.names, LAMBDA n : n # "")
      packed == Packed(effects, [i \in DOMAIN wanted |-> mem[Root("using", 0, wanted[i]).root]])
      obj == Through(Place(e.callee.l, as, k))
      objs == IF ~method THEN <<>>
              ELSE IF obj.type.named THEN <<obj.v>> ELSE Read(mem, obj.v)
      wantOf(ms) == TypeAt(TypeAt(fn, 1), IF Len(ms) < Len(TypeAt(fn, 1).types)
                                          THEN Len(ms) ELSE Len(TypeAt(fn, 1).types) - 1)
      one(ms, i, n) ==
        IF e.args[i].n = "Explode" THEN Meaning(e.args[i].e, TypeAt(fn, 1), as, n)
        ELSE LET m == Meaning(e.args[i], wantOf(ms), as, n)
             IN  IF e.c /\ m.type.kind = "string" THEN [m EXCEPT !.v = @[1]] ELSE m
      args == InOrder(e.args, k, one)
      flat == FoldLeft(LAMBDA vs, i : IF e.args[i].n = "Explode" THEN vs \o args.out[i].v
                                      ELSE Append(vs, args.out[i].v),
                       <<>>, [i \in DOMAIN e.args |-> i])
      ret == TypeAt(fn, 3)
      passed == (IF effects = Unit THEN <<>> ELSE <<<<"alloca", packed>>>>) \o objs \o flat
      answer == Called(fnName, passed, ret, args.k)
  IN  CASE AnyPoison(args.out) -> Means(Poison, ret, args.k)
        [] ret.kind = "tuple" /\ Len(ret.types) = 1 /\ answer.k # 0 ->
             [answer EXCEPT !.v = <<@>>]
        [] OTHER -> answer

\* want is the type the place of the expression has, NoType if none.
Meaning(e, want, as, k) ==
  LET on == Meaning(detuple(e.e), IF e.n = "Unary" THEN want ELSE NoType, as, k)
      lhs == Meaning(e.l, NoType, as, k)
      tuple == Through(lhs)
      index == Meaning(e.i, U64, as, on.k)
      agg == AggType(e, want)
      whole == IF e.n = "Agg" THEN agg ELSE want
      wantOf(i) == CASE whole.kind = "array" -> deref(whole)
                     [] whole.kind = "tuple" /\ i \in DOMAIN Places(whole) ->
                          whole.types[Places(whole)[i]]
                     [] e.n = "Agg" /\ ~IsAggregate(whole) -> whole
                     [] OTHER -> NoType
      elems == InOrder(e.es, k, LAMBDA ms, i, n : Meaning(e.es[i], wantOf(i), as, n))
      made == MakeTuple([i \in DOMAIN e.es |-> elems.out[i].type], <<>>)
      strict(v, m, type) == Means(IF m.v = Poison THEN Poison ELSE v, type, m.k)
      fields(ms) == [i \in DOMAIN ms |->
                       Fitted(ms[i], IF agg.kind = "array" THEN deref(agg)
                                     ELSE agg.types[Places(agg)[i]])]
  IN  CASE e.n = "Int" ->
             LET t == IF e.kind # "" THEN Scalar(e.kind, e.size) ELSE want
             IN  Means(Wrap(t, e.v), t, k)
        [] e.n = "Flt" -> Means(e.v, IF e.size = 0 THEN want ELSE Scalar("real", e.size), k)
        [] e.n = "Bool" -> Means(e.v, B8, k)
        [] e.n = "Str" -> Means(<<[Root("text", 0, e.text) EXCEPT !.path = <<0>>],
                                  Len(e.text)>>, StringType, k)
        [] e.n = "Var" -> MeaningOfName(e, as, k)
        [] e.n = "Eff" -> Means(mem[Root("using", 0, e.name).root], Usings[e.name], k)
        [] e.n = "Selector" ->
             LET t == SelectorType(e, want)
             IN  Means(t.inits[CHOOSE i \in DOMAIN t.names : t.names[i] = e.name], t, k)
        [] e.n = "Tuple" ->
             Means(IF AnyPoison(elems.out) THEN Poison ELSE Packed(made, Values(elems.out)),
                   made, elems.k)
        [] e.n = "Access" ->
             LET i == Field(tuple.type, e.r)
             IN  strict(tuple.v[i], tuple, tuple.type.types[i])
        [] e.n = "Index" ->
             Means(IF on.v = Poison \/ index.v = Poison THEN Poison ELSE Element(on, index.v),
                   deref(on.type), index.k)
        [] e.n = "Agg" ->
             Means(CASE AnyPoison(elems.out) -> Poison
                     [] ~AnyPoison(elems.out) /\ ~IsAggregate(agg) /\ e.es = <<>> -> Filled(agg, 0)
                     [] ~AnyPoison(elems.out) /\ ~IsAggregate(agg) /\ e.es # <<>> ->
                          Fitted(elems.out[1], agg)
                     [] OTHER -> Packed(agg, fields(elems.out)),
                   agg, elems.k)
        [] e.n = "Bin" -> MeaningOfBin(e, want, as, k)
        [] e.n = "LBin" -> MeaningOfLBin(e, as, k)
        [] e.n = "Unary" /\ e.op \in {"neg", "not"} ->
             strict(CASE Real(on.type) /\ e.op = "neg" -> -on.v
                      [] Takes(e.op, on.type) ->
                           Wrap(on.type, IF e.op = "neg" THEN -on.v ELSE -on.v - 1)
                      [] OTHER -> Poison, on, on.type)
        [] e.n = "Unary" /\ e.op = "deref" -> strict(Read(mem, on.v), on, deref(on.type))
        [] e.n = "Unary" /\ e.op = "addrof" ->
             LET p == Place(detuple(e.e), as, k) IN Means(p.v, addrof(p.type), p.k)
        [] e.n = "Cast" -> strict(Converted(on.type, e.type, on.v), on, e.type)
        [] e.n = "Test" ->
             Means(Bit(Same(on.type.types[on.v[2] + 1], e.type)), B32, on.k)
        [] e.n = "Prop" ->
             LET t == IF e.e.n = "Var" THEN Typedefs[e.e.name] ELSE on.type
             IN  Means(Wrap(U64, CASE e.prop = "size" -> t.size
                                   [] e.prop = "align" -> t.align
                                   [] e.prop = "count" -> t.extent), U64, k)
        [] e.n = "Call" -> MeaningOfCall(e, as, k)
-----------------------------------------------------------------------------
(* What the compiler gets wrong, or lets pass                              *)

\* The expressions an expression is made of, itself included.
RECURSIVE Subs(_)
Subs(e) ==
  <<e>> \o CASE e.n \in {"Bin", "LBin"} -> Subs(e.l) \o Subs(e.r)
             [] e.n = "Access" -> Subs(e.l)
             [] e.n = "Index" -> Subs(e.e) \o Subs(e.i)
             [] e.n \in {"Tuple", "Agg"} -> FlattenSeq([i \in DOMAIN e.es |-> Subs(e.es[i])])
             [] e.n \in {"Unary", "Cast", "Test", "Explode"} -> Subs(e.e)
             [] e.n = "Call" -> FlattenSeq([i \in DOMAIN e.args |-> Subs(e.args[i])])
             [] OTHER -> <<>>

Some(e, P(_)) == \E i \in DOMAIN Subs(e) : P(Subs(e)[i])

\* An index computed at run time from an unsigned type of fewer than 64 bits,
\* which LLVM takes for signed.
NarrowIndex(e) ==
  /\ e.n = "Index" /\ eval_value(Start, e.i).kind = "none"
  /\ With(gen_type(Start, e.i, U64), LAMBDA type : type.kind = "uint" /\ type.size < 8)

\* A variable with the name of a constant of the unit, which is folded.
Hidden(e) == e.n = "Var" /\ e.name \in DOMAIN Vars \cap DOMAIN Globals

\* A constant index of what stands in parentheses: of the tuple they are.
IndexOfOne(e) ==
  e.n = "Index" /\ detuple(e.e) # e.e /\ IsIntegral(eval_value(Start, e.i))

\* Operands that are generated twice, to be compared by their bytes.
ComparedTwice(e) ==
  /\ e.n = "Bin" /\ e.op \in {"eq", "ne"}
  /\ gen_type(Start, e.l, NoType).kind \in {"bool", "tuple", "array", "union", "enum"}

\* The negation of what is no number, which nothing refuses.
NoNumber(e) ==
  /\ e.n = "Unary" /\ e.op \in {"neg", "not"}
  /\ With(gen_type(Start, e.e, NoType), LAMBDA type :
       ~Takes(e.op, type) /\ ~(e.op = "neg" /\ Real(type)))

\* A test that may fail where the condition holds: its alias is kept.
LooseTest(e) ==
  /\ (e.n = "LBin" /\ e.op = "lor") \/ (e.n = "Unary" /\ e.op = "not")
  /\ Some(e, LAMBDA x : x.n = "Test")

\* A test in the right operand, and its alias used after the operator: the
\* block the alias is computed in does not dominate what comes after.
LateTest(e) == e.n = "LBin" /\ Some(e.r, LAMBDA x : x.n = "Test")

LateAlias(u) ==
  \/ u.place = "if" /\ Some(u.expr, LateTest)
  \/ Some(u.expr, LAMBDA e : e.n = "LBin" /\ Some(e.l, LateTest))

\* A condition of an if that is no boolean, which nothing refuses.
NoCondition(u) ==
  u.place = "if" /\ \E b \in DOMAIN cg.blocks :
    /\ cg.blocks[b] # <<>> /\ Last(cg.blocks[b]).op = "condbr"
    /\ Last(cg.blocks[b]).args[1].type.kind # "bool"

\* A constant too large for its type, which is cut only when it is placed.
TooLarge(e) ==
  /\ e.n = "Bin"
  /\ With(eval_value(Start, e), LAMBDA c :
       LET w == Bits[c.size]
       IN  CASE c.kind = "sint" -> Signed(c.v, Wide) \notin (-(2^(w - 1)))..(2^(w - 1) - 1)
             [] c.kind = "uint" -> c.v \notin 0..(2^w - 1)
             [] OTHER -> FALSE)

\* A constant made a Uint64 although another type is asked for.
CastAway(e) == e.n = "Cast" /\ ~Same(e.type, U64)

\* A constant array with fewer elements than its type, and with no more bytes.
ShortArray(e) ==
  e.n = "Agg" /\ (e.type.kind = "none" \/ (e.type.kind = "array" /\ Len(e.es) < e.type.extent))

-----------------------------------------------------------------------------
(* Properties                                                              *)

\* The builder always stands in a block, the code that is run has an
\* instruction to run next, and an integer has no more bits than its type.
TypeOK ==
  /\ phase \in {"generate", "run"} \cup Ends
  /\ cg.cur \in DOMAIN cg.blocks
  /\ cg.stuck => phase = "stuck"
  /\ phase = "run" => at[1] \in DOMAIN cg.blocks /\ at[2] \in DOMAIN cg.blocks[at[1]]
  /\ \A r \in DOMAIN regs :
       LET type == cg.blocks[r[1]][r[2]].type
       IN  IsInteger(type) /\ regs[r] # Poison => regs[r] \in 0..(2^Width(type) - 1)
  /\ result.side \in {0, 1}

Terminators == {"br", "condbr", "ret"}

Succ(b) == Range(Last(cg.blocks[b]).to)

Preds(b) == {c \in DOMAIN cg.blocks : Last(cg.blocks[c]).op # "ret" /\ b \in Succ(c)}

\* The blocks control reaches without coming through block b.
RECURSIVE ReachedWithout(_, _)
ReachedWithout(b, seen) ==
  LET more == {c \in DOMAIN cg.blocks : Preds(c) \cap seen # {}} \ (seen \cup {b})
  IN  IF more = {} THEN seen ELSE ReachedWithout(b, seen \cup more)

Dominates(b, c) == b = 1 \/ c \notin ReachedWithout(b, {1})

\* The code has just been generated.
Freshly == phase = "run" /\ at = <<1, 1>> /\ calls = <<>>

\* What the LLVM verifier asks for: every block ends with its only
\* terminator, a phi has a value for each block control comes from and for
\* no other, a value is used only where it has been computed, and operands
\* are of a kind their instruction takes.  The nesting of short-circuit
\* operators in operands of each other is where AstLBinExpr::gen_value could
\* go wrong: the block the operand ends in is not the one it began in.
BlocksVerify ==
  (Freshly /\ ~Some(use.expr, NoNumber) /\ ~NoCondition(use) /\ ~LateAlias(use)) =>
    \A b \in DOMAIN cg.blocks :
      LET block == cg.blocks[b]
      IN  /\ block # <<>>
          /\ \A i \in DOMAIN block :
               /\ block[i].op \in Terminators <=> i = Len(block)
               /\ block[i].op = "phi" => Range(block[i].to) = Preds(b)
               /\ block[i].args # <<>> => Takes(block[i].op, block[i].args[1].type)
               /\ \A j \in DOMAIN block[i].args :
                    LET ref == block[i].args[j].ref
                    IN  ref.at = "result" =>
                          IF ref.b = b THEN ref.i < i ELSE Dominates(ref.b, b)

\* The code does what the expression says: it returns the value, it makes the
\* calls the expression makes, each once, in the order they are written, with
\* the arguments they are given and only where short-circuit operators let
\* them be made, and it does nothing LLVM leaves undefined.
RunsAsWritten ==
  (/\ use.place = "value" /\ phase \in {"done", "undefined"}
   /\ ~Some(use.expr, LAMBDA e : NarrowIndex(e) \/ IndexOfOne(e) \/ ComparedTwice(e)
                                 \/ (e.n = "Index" /\ Some(e.i, Hidden)))) =>
    With(Meaning(use.expr, use.want, <<>>, 1), LAMBDA m :
      m.v # Poison => /\ phase = "done"
                      /\ m.k = Len(calls) + 1
                      /\ result.v = m.v)

\* A constant that eval_value folds has the value the expression has when it
\* is run: as the index of an array, where one replaces the other, and as the
\* initial value of a constant of the unit.
FoldAgrees ==
  (/\ use.place \in {"value", "global"} /\ phase = "done"
   /\ ~Some(use.expr, LAMBDA e : TooLarge(e) \/ CastAway(e) \/ ShortArray(e)
                                 \/ (Hidden(e) /\ use.place = "value"))) =>
    With(Meaning(use.expr, use.want, <<>>, 1), LAMBDA m :
      With(eval_value(Start, use.expr), LAMBDA c :
        With(const_codegen(Start, c, m.type), LAMBDA v :
          c.kind \notin {"none", "stuck"} /\ v.ok /\ m.v # Poison =>
            /\ v.ref.v = m.v
            /\ use.place = "global" => result.v = m.v)))

\* gen_value keeps what gen_type promised: the layout of a tuple, the
\* operands of an operator and the arguments of a call are chosen by the
\* promise before the value is there.  A comparison promises the type of its
\* operands, and a property of a type the one that is hoped for.
TypeAsPromised ==
  (/\ use.place = "value" /\ Freshly
   /\ ~Some(use.expr, LAMBDA e : (e.n = "Bin" /\ e.op \in Compares) \/ e.n = "Prop"
                                 \/ IndexOfOne(e))) =>
    LET last == Last(cg.blocks[cg.cur])
    IN  /\ last.op = "ret"
        /\ Same(last.args[1].type, gen_type(Start, use.expr, use.want))

\* In the block of an if whose condition tests a union, joined by && with
\* whatever else, the name of the union means the variant and reads its
\* value; after the block it means the whole union again.
AliasWhereTested ==
  (/\ use.place = "if" /\ phase \in {"done", "undefined"}
   /\ ~NoCondition(use) /\ ~Some(use.expr, LooseTest)) =>
    With(Meaning(use.expr, B32, <<>>, 1), LAMBDA cond :
      LET var == [n |-> "Var", name |-> use.name]
          names == IF cond.v = 1 THEN Tested(use.expr) ELSE <<>>
      IN  /\ phase = "done"
          /\ result = [side |-> cond.v, v |-> MeaningOfName(var, names, cond.k).v])

=============================================================================
