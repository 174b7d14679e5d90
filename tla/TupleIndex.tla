----------------------------- MODULE TupleIndex -----------------------------
(***************************************************************************)
(* How the code generator finds its way in a type laid out by TypeLayout.  *)
(* The program counts the elements it declared (virtual indices); the      *)
(* types, and LLVM, count the paddings between them too (physical indices).*)
(* Every function of cg_type.h, cg_value.cpp, cg_expr.cpp and cg_const.cpp *)
(* that goes from one to the other is an operator here.  Virtual indices   *)
(* start from 0 as in the code, places in a sequence from 1.               *)
(***************************************************************************)
EXTENDS TypeLayout

Tuples == {t \in DOMAIN types : types[t].kind = "tuple"}

\* How many elements, not counting paddings, come before place i.
Taken(t, i) == Cardinality({k \in 1..(i - 1) : ~IsPadding(types[t].elems[k])})

\* The place up to length of the element that v others come before, or 0.
PlaceOf(t, v, length) ==
  LET at == {i \in 1..length : /\ ~IsPadding(types[t].elems[i])
                               /\ Taken(t, i) = v}
  IN  IF at = {} THEN 0 ELSE CHOOSE i \in at : TRUE

Length(t) == Len(types[t].elems)

\* Mutant: the physical index.
AtVirt_Mutant(t, v) == IF v < Length(t) THEN types[t].elems[v + 1] ELSE 0

\* CgType::at_virt: the type of the element, or 0 (nullptr).
AtVirt(t, v) ==
  LET i == PlaceOf(t, v, Length(t))
  IN  IF i = 0 THEN 0 ELSE types[t].elems[i]

\* CgAddr::at_virt on an address of type p: the place of the element, or 0
\* where the code holds itself to be unreachable.  The length is that of the
\* pointer's own list of types.
AddrAtVirt(p, v) == PlaceOf(types[p].elems[1], v, Length(p))

\* AstAccessExpr::gen_type and gen_addr: the place of the field of that name.
FieldPlace(t, name) ==
  LET with == {i \in DOMAIN types[t].fields : types[t].fields[i] = name}
  IN  IF with = {} THEN 0 ELSE CHOOSE i \in with : \A j \in with : i <= j

\* Mutant: a padding takes a value too.
Stored_Mutant(t, n) ==
  [i \in 1..Length(t) |->
     IF IsPadding(types[t].elems[i]) \/ i > n THEN 0 ELSE i]

\* AstTupleExpr::gen_addr, AstAggExpr::gen_addr and AstConst::codegen, given
\* n values: which of them each place gets, 0 for zeroes.
Stored(t, n) ==
  [i \in 1..Length(t) |->
     IF IsPadding(types[t].elems[i]) \/ Taken(t, i) >= n THEN 0
     ELSE Taken(t, i) + 1]

\* Mutant: the paddings become parameters.
Params_Mutant(t) == types[t].elems

\* make(FnInfo): the LLVM parameters for a tuple of receivers or arguments,
\* up to the ... that ends those of a C function.
Params(t) ==
  LET real == [v \in 1..Taken(t, Length(t) + 1) |-> AtVirt(t, v - 1)]
      va == {i \in DOMAIN real : types[real[i]].kind = "va"}
  IN  IF va = {} THEN real
      ELSE SubSeq(real, 1, (CHOOSE i \in va : \A j \in va : i <= j) - 1)

\* Mutant: the elements are compared by address.
Same_Mutant(a, b) ==
  /\ types[a].kind = types[b].kind
  /\ types[a].size = types[b].size
  /\ types[a].elems = types[b].elems

\* CgType::operator!=, negated: the right ones that the left one matches, when
\* alike says so of their elements.  A right one without types matches any
\* left one of its kind and layout.
AlikeIn(alike, x) ==
  {y \in DOMAIN types :
     /\ types[x].kind = types[y].kind
     /\ types[x].size = types[y].size
     /\ types[x].align = types[y].align
     /\ types[x].extent = types[y].extent
     /\ Length(y) # 0 \/ types[y].kind = "tuple" =>
          /\ Length(x) = Length(y)
          /\ \A i \in 1..Length(x) : types[y].elems[i] \in alike[types[x].elems[i]]}

Alike[x \in DOMAIN types] == AlikeIn(Alike, x)

Same(a, b) == b \in Alike[a]

-----------------------------------------------------------------------------
(* x.0, x.1, ... have the types declared, wherever the paddings are, and   *)
(* one index more has none.                                                *)
VirtualIndexIsDeclared ==
  \A t \in Tuples : \A v \in 0..MaxElems :
    AtVirt(t, v) = IF v < Len(types[t].declared)
                   THEN types[t].declared[v + 1] ELSE 0

(* A field's name leads to the element declared with it, although the list *)
(* of fields is built beside the list of elements and its paddings.        *)
FieldNamesElement ==
  \A t \in Tuples :
    types[t].fields # <<>> /\ types[t].fields[1] # 0 =>
      \A v \in 1..Len(types[t].declared) :
        /\ FieldPlace(t, v) # 0
        /\ types[t].elems[FieldPlace(t, v)] = types[t].declared[v]

(* When a tuple is built from values, each value lands on the element it   *)
(* was given for, every other byte is cleared, and none is dropped.        *)
ValuesLandWhereDeclared ==
  \A t \in Tuples : \A n \in 0..Len(types[t].declared) :
    LET landed == {v \in 1..n : \E i \in 1..Length(t) :
                     /\ Stored(t, n)[i] = v
                     /\ types[t].elems[i] = types[t].declared[v]}
    IN  /\ landed = 1..n
        /\ \A i \in 1..Length(t) : Stored(t, n)[i] \in 0..n

(* A function takes what it declares, one LLVM parameter each, however its *)
(* tuple of arguments had to be padded.                                    *)
ParamsAreDeclared ==
  \A t \in Tuples :
    (\A i \in DOMAIN types[t].declared : types[types[t].declared[i]].kind # "va")
      => Params(t) = types[t].declared

(* "Aggregate types of the same layout are the same type" (README.md):     *)
(* tuples declared alike are the same type, even when the padding between  *)
(* their elements was made anew because the cache had shrunk.              *)
SameDeclarationSameType ==
  \A s, t \in Tuples :
    types[s].declared = types[t].declared => Same(s, t)

(* "An array of the union type will be correctly aligned" (comment in      *)
(* make(UnionInfo)): the stride of such an array is a multiple of the      *)
(* alignment of every variant.                                             *)
UnionArrayIsAligned ==
  \A t \in DOMAIN types : types[t].kind = "union" =>
    \A i \in DOMAIN types[t].declared :
      LET variant == types[types[t].declared[i]]
      IN  variant.plain => Multiple(types[t].bytes, variant.align)

(* CgAddr::at_virt ends in BIRON_UNREACHABLE: an element that exists is    *)
(* found.                                                                  *)
ElementIsReached ==
  \A p \in DOMAIN types :
    types[p].kind = "pointer" /\ types[p].elems # <<>> =>
      LET base == types[p].elems[1]
      IN  types[base].kind = "tuple" =>
            \A v \in 0..(Len(types[base].declared) - 1) : AddrAtVirt(p, v) # 0

=============================================================================
