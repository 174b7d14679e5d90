------------------------------- MODULE CgEmit -------------------------------
(***************************************************************************)
(* What expressions are lowered to: the values and addresses of            *)
(* cg_value.cpp and the emit functions of cg.cpp, over the code that the   *)
(* LLVM builder collects.                                                  *)
(*                                                                         *)
(* The code generator is a record cg: the blocks of the function that is   *)
(* being generated, the block the builder stands at, the allocas at the    *)
(* entry, and the aliases of the innermost scope.  Every operator takes a  *)
(* cg and returns a Maybe: a record with ok, the type and the reference of *)
(* a value (or of an address, whose type is then a pointer) and the cg     *)
(* with what was emitted.  A cg is stuck once the compiler has done what   *)
(* C++ leaves undefined: nothing is said of what comes after.              *)
(*                                                                         *)
(* An integer is its bit pattern, as it is to LLVM, and only an operation  *)
(* reads it as signed.  Indices count from 0 as in the code.               *)
(***************************************************************************)
EXTENDS Integers, Sequences, FiniteSets, SequencesExt

CONSTANT Bits  (* Bound: the bits of an integer of 1, 2, 4 or 8 bytes.     *)

-----------------------------------------------------------------------------
(* Types                                                                   *)

\* CgType.  inits are the values of the enumerators of an enum.
MakeType(kind, size, align, types, names) ==
  [kind |-> kind, size |-> size, align |-> align, types |-> types,
   extent |-> 0, names |-> names, inits |-> <<>>, named |-> FALSE]

Scalar(kind, size) == MakeType(kind, size, size, <<>>, <<>>)

NoType    == Scalar("none", 0)    \* nullptr
StuckType == Scalar("stuck", 0)   \* read past the end of a list of types

U8 == Scalar("uint", 1)
U64 == Scalar("uint", 8)
S8 == Scalar("sint", 1)
S64 == Scalar("sint", 8)
B8 == Scalar("bool", 1)
B32 == Scalar("bool", 4)
Unit == Scalar("tuple", 0)

addrof(type) == MakeType("pointer", 8, 8, <<type>>, <<>>)

StringType == MakeType("string", 16, 8, <<addrof(U8), U64>>, <<>>)

MakeArray(base, extent) ==
  [MakeType("array", base.size * extent, base.align, <<base>>, <<>>)
     EXCEPT !.extent = extent]

IsMissing(type) == type.kind \in {"none", "stuck"}
IsPadding(type) == type.kind = "padding"
IsInteger(type) == type.kind \in {"uint", "sint"}

\* CgType::at and deref.
TypeAt(type, i) ==
  IF i + 1 \in DOMAIN type.types THEN type.types[i + 1] ELSE StuckType

deref(type) == TypeAt(type, 0)

\* CgType::at_virt.
TypeAtVirt(type, v) ==
  LET plain == SelectSeq(type.types, LAMBDA t : ~IsPadding(t))
  IN  IF v + 1 \in DOMAIN plain THEN plain[v + 1] ELSE NoType

\* make(TupleInfo): the elements with the paddings they need.  Names stand
\* beside the elements, "" beside a padding; without names the list is empty.
MakeTuple(types, names) ==
  LET padded(t, size, align) ==
        LET gap == (align - (size % align)) % align
        IN  IF gap = 0 THEN t
            ELSE [t EXCEPT !.size = size + gap,
                           !.types = Append(@, Scalar("padding", gap)),
                           !.names = IF names = <<>> THEN @ ELSE Append(@, "")]
      put(t, i) ==
        LET p == padded(t, t.size, types[i].align)
        IN  [p EXCEPT !.size = @ + types[i].size,
                      !.align = IF types[i].align > @ THEN types[i].align ELSE @,
                      !.types = Append(@, types[i]),
                      !.names = IF names = <<>> THEN @ ELSE Append(@, names[i])]
      all == FoldLeft(put, MakeType("tuple", 0, 1, <<>>, <<>>),
                      [i \in DOMAIN types |-> i])
  IN  padded(all, all.size, all.align)

\* make(UnionInfo), as far as expressions see it.
MakeUnion(types) == MakeType("union", 16, 8, types, <<>>)

\* make(FnInfo): 0 = objs, 1 = args, 2 = effects, 3 = ret.
MakeFn(objs, args, effects, ret) ==
  MakeType("fn", 8, 8, <<objs, args, effects, ret>>, <<>>)

\* CgType::operator==.
RECURSIVE Same(_, _)
Same(a, b) ==
  /\ a.kind = b.kind /\ a.size = b.size /\ a.align = b.align
  /\ a.extent = b.extent
  /\ Len(a.types) = Len(b.types)
  /\ \A i \in DOMAIN a.types : Same(a.types[i], b.types[i])

\* CgType::contains.
HasVariant(type, find) == \E i \in DOMAIN type.types : Same(type.types[i], find)

\* The bits of the LLVM type: every boolean is an i1.
Width(type) == IF type.kind = "bool" THEN 1 ELSE Bits[type.size]

\* Mutant: one bit too many.
Wrap_Mutant(type, n) == n % 2^(Width(type) + 1)

\* The bits an integer keeps.
Wrap(type, n) == n % 2^Width(type)

\* How many parts LLVM sees in a value.
Parts(type) == IF type.kind = "array" THEN type.extent ELSE Len(type.types)

IsAggregate(type) == type.kind \in {"tuple", "array"}

\* Zeroes of a type, or any filling.
RECURSIVE Filled(_, _)
Filled(type, n) ==
  CASE type.kind = "tuple" -> [i \in 1..Parts(type) |-> Filled(type.types[i], n)]
    [] type.kind = "array" -> [i \in 1..Parts(type) |-> Filled(deref(type), n)]
    [] type.kind \in {"union", "string"} -> <<n, n>>
    [] OTHER -> n

-----------------------------------------------------------------------------
(* The builder                                                             *)

\* References to values: constants, results of instructions, and the address
\* of a variable, a function, a literal or an alloca.  path leads to a part.
Const(v)     == [at |-> "const", v |-> v]
Result(b, i) == [at |-> "result", b |-> b, i |-> i]
Root(of, n, name) == [at |-> "root", root |-> <<of, n, name>>, path |-> <<>>]

Maybe(ok, cg, type, ref) == [ok |-> ok, cg |-> cg, type |-> type, ref |-> ref]

Value(cg, type, ref) == Maybe(TRUE, cg, type, ref)
None(cg) == Maybe(FALSE, cg, NoType, Const(0))
unreachable(cg) == None([cg EXCEPT !.stuck = TRUE])

\* What is done with what was emitted before it.
With(x, F(_)) == F(x)

\* What follows a value that is not None.
Then(maybe, F(_)) == IF maybe.ok THEN F(maybe) ELSE maybe

\* What follows a list of values none of which is None.
ThenAll(all, F(_)) == IF all.ok THEN F(all) ELSE None(all.cg)

\* What follows a type that is not nullptr.
Typed(cg, type, F(_)) ==
  CASE type.kind = "none"  -> None(cg)
    [] type.kind = "stuck" -> unreachable(cg)
    [] OTHER -> F(type)

Operand(value) == [type |-> value.type, ref |-> value.ref]

Operands(values) == [i \in DOMAIN values |-> Operand(values[i])]

\* A constant operand.
ConstInt(type, n) == [type |-> type, ref |-> Const(Wrap(type, n))]
Number(n) == [type |-> U64, ref |-> Const(n)]

Emit(cg, op, type, args, to) ==
  [cg EXCEPT !.blocks[cg.cur] =
     Append(@, [op |-> op, type |-> type, args |-> Operands(args), to |-> to])]

Build(cg, op, type, args) ==
  Value(Emit(cg, op, type, args, <<>>), type,
        Result(cg.cur, Len(cg.blocks[cg.cur]) + 1))

BuildBr(cg, block) == Emit(cg, "br", NoType, <<>>, <<block>>)

BuildCondBr(cg, value, yes, no) ==
  Emit(cg, "condbr", NoType, <<value>>, <<yes, no>>)

PositionAtEnd(cg, block) == [cg EXCEPT !.cur = block]

CreateBlocks(cg, n) == [cg EXCEPT !.blocks = @ \o [i \in 1..n |-> <<>>]]

\* One step for each of 1..n until one fails: what they returned, in order.
Each(cg, n, F(_, _)) ==
  FoldLeft(LAMBDA done, i :
             IF ~done.ok THEN done
             ELSE LET next == F(done.cg, i)
                  IN  [ok |-> next.ok, cg |-> next.cg,
                       out |-> Append(done.out, next)],
           [ok |-> TRUE, cg |-> cg, out |-> <<>>], [i \in 1..n |-> i])

-----------------------------------------------------------------------------
(* CgAddr and CgValue                                                      *)

\* Cg::emit_alloca.
emit_alloca(cg, type) ==
  Value([cg EXCEPT !.allocas = Append(@, type)], addrof(type),
        Root("alloca", Len(cg.allocas) + 1, ""))

load(cg, addr) == Build(cg, "load", deref(addr.type), <<addr>>)

\* The address of an element: of a pointer, the pointer is loaded and counts
\* from there.
ElemAddr(cg, addr, elem, index) ==
  CASE elem.kind = "stuck" -> unreachable(cg)
    [] elem.kind # "stuck" /\ deref(addr.type).kind = "pointer" ->
         With(load(cg, addr), LAMBDA to :
           Build(to.cg, "offset", addrof(elem), <<to, index>>))
    [] OTHER -> Build(cg, "gep", addrof(elem), <<addr, index>>)

\* CgAddr::at.
addr_at(cg, addr, i) ==
  With(deref(addr.type), LAMBDA type :
    ElemAddr(cg, addr, TypeAt(type, IF type.kind \in {"array", "pointer"} THEN 0 ELSE i),
             Number(i)))

\* CgAddr::at with an index computed at run time.
addr_at_value(cg, addr, index) ==
  ElemAddr(cg, addr, deref(deref(addr.type)), index)

\* CgAddr::at_virt.  The loop counts the types of the pointer, which is one.
addr_at_virt(cg, addr, v) ==
  With(SelectSeq([i \in 1..Len(addr.type.types) |-> i - 1],
                 LAMBDA i : ~IsPadding(TypeAt(deref(addr.type), i))), LAMBDA places :
    IF v + 1 \in DOMAIN places THEN addr_at(cg, addr, places[v + 1])
    ELSE unreachable(cg))

\* CgValue::at.
value_at(cg, value, i) ==
  CASE value.type.kind \in {"array", "string", "tuple", "union"} ->
         Typed(cg, TypeAt(value.type, IF value.type.kind \in {"array", "string"} THEN 0 ELSE i),
               LAMBDA t : Build(cg, "extract", t, <<value, Number(i)>>))
    [] OTHER -> None(cg)

Zero(cg, type) == Value(cg, type, Const(Filled(type, 0)))

\* The number of the variant of a union that is a type, counted from 1.
VariantOf(to, type) ==
  CHOOSE i \in DOMAIN to.types :
    Same(to.types[i], type) /\ \A j \in 1..(i - 1) : ~Same(to.types[j], type)

Put(cg, addr, value) == Emit(cg, "store", NoType, <<value, addr>>, <<>>)

\* A variant is stored in a union with its tag.
StoreVariant(cg, addr, value, to) ==
  With(Build(cg, "gep", addrof(to.types[1]), <<addr, Number(0)>>), LAMBDA inner :
    With(Build(inner.cg, "gep", addrof(U8), <<addr, Number(1)>>), LAMBDA tag :
      Put(Put(tag.cg, inner, value), tag, ConstInt(U8, VariantOf(to, value.type) - 1))))

\* CgAddr::store: what was emitted.
RECURSIVE store(_, _, _)

\* The address of every part and every part of the value come before the
\* first store.
PartOf(cg, value, i) ==
  IF value.type.kind = "tuple" /\ IsPadding(value.type.types[i])
  THEN Zero(cg, value.type.types[i]) ELSE value_at(cg, value, i - 1)

StoreParts(cg, addr, value, n) ==
  With(Each(cg, n, LAMBDA c, i : addr_at(c, addr, i - 1)), LAMBDA dsts :
    With(Each(dsts.cg, n, LAMBDA c, i : PartOf(c, value, i)), LAMBDA parts :
      IF ~parts.ok THEN [parts.cg EXCEPT !.stuck = TRUE]
      ELSE FoldLeft(LAMBDA c, i : store(c, dsts.out[i], parts.out[i]), parts.cg,
                    [i \in 1..n |-> i])))

store(cg, addr, value) ==
  CASE IsAggregate(value.type) -> StoreParts(cg, addr, value, Parts(value.type))
    [] ~IsAggregate(value.type) /\ HasVariant(deref(addr.type), value.type)
         /\ deref(addr.type).kind = "union" ->
         StoreVariant(cg, addr, value, deref(addr.type))
    [] OTHER -> Put(cg, addr, value)

zero(cg, addr) == store(cg, addr, Zero(cg, deref(addr.type)))

-----------------------------------------------------------------------------
(* The emit functions of Cg                                                *)

\* Mutant: the predicate does not look at the sign.
Predicate_Mutant(op, type) ==
  CASE IsInteger(type) -> "u" \o op
    [] type.kind = "real" -> "o" \o op
    [] OTHER -> ""

\* The LLVM predicate for an operator on operands of a type, "" if none.
Predicate(op, type) ==
  CASE type.kind = "sint" -> "s" \o op
    [] type.kind = "uint" -> "u" \o op
    [] type.kind = "real" -> "o" \o op
    [] OTHER -> ""

\* emit_lt, emit_le, emit_gt, emit_ge.
emit_compare(cg, op, lhs, rhs) ==
  With(Predicate(op, lhs.type), LAMBDA predicate :
    IF predicate = "" THEN None(cg) ELSE Build(cg, predicate, B32, <<lhs, rhs>>))

\* emit_add, emit_sub, emit_mul and emit_div, and emit_for_array, which
\* applies them to the elements of arrays.
RECURSIVE emit_arith(_, _, _, _)

ElementArith(cg, op, lhs, rhs, i) ==
  With(value_at(cg, lhs, i - 1), LAMBDA l :
    With(value_at(l.cg, rhs, i - 1), LAMBDA r :
      IF l.ok /\ r.ok THEN emit_arith(r.cg, op, l, r) ELSE None(r.cg)))

Collected(cg, type, values) ==
  With(emit_alloca(cg, type), LAMBDA dst :
    load(FoldLeft(LAMBDA c, i : With(addr_at(c, dst, i - 1), LAMBDA at :
                                  store(at.cg, at, values[i])),
                  dst.cg, [i \in DOMAIN values |-> i]),
         dst))

emit_arith(cg, op, lhs, rhs) ==
  LET type == lhs.type
  IN  CASE IsInteger(type) ->
             Build(cg, IF op = "div" THEN Predicate(op, type) ELSE op, type, <<lhs, rhs>>)
        [] type.kind = "real" -> Build(cg, op, type, <<lhs, rhs>>)
        [] type.kind = "array" ->
             ThenAll(Each(cg, type.extent, LAMBDA c, i : ElementArith(c, op, lhs, rhs, i)),
                     LAMBDA each : Collected(each.cg, type, each.out))
        [] OTHER -> None(cg)

\* emit_min and emit_max: lhs < rhs ? lhs : rhs and lhs > rhs ? lhs : rhs.
emit_select(cg, op, lhs, rhs) ==
  Then(emit_compare(cg, IF op = "min" THEN "lt" ELSE "gt", lhs, rhs),
       LAMBDA cmp : Build(cmp.cg, "select", lhs.type, <<cmp, lhs, rhs>>))

=============================================================================
