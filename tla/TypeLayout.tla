----------------------------- MODULE TypeLayout -----------------------------
(***************************************************************************)
(* The cache of types, CgTypeCache of cg_type.cpp: every make() function   *)
(* that lays a type out, and the cache of paddings they share.             *)
(*                                                                         *)
(* The compiler computes a size and an alignment for each type, and inserts*)
(* padding elements into tuples and unions.  LLVM is told that the structs *)
(* are packed and counts bytes for itself.  The fields bytes, at, declared *)
(* and plain of a type are ghosts that no code computes: what LLVM counts, *)
(* what the program declared, and whether nothing in the type is known to  *)
(* be counted differently by the two.                                      *)
(***************************************************************************)
EXTENDS Integers, Sequences, FiniteSets, SequencesExt

CONSTANTS
  Word,         (* The number of values of Ulen, 2^64.                     *)
  Usable,       (* Bound: the builtin types that programs use.             *)
  Extents,      (* Bound: the extents of arrays.                           *)
  MaxPadding,   (* The largest padding cache that memory can hold.         *)
  MaxElems,     (* Bound: elements of a tuple, variants of a union.        *)
  MaxTypes      (* Bound: the types made beyond the builtin ones.          *)

VARIABLES
  types,     (* m_cache: the types made so far.                            *)
  padding,   (* m_padding_cache: entry p + 1 is a type of p bytes, or 0.   *)
  job        (* The call of make() whose loop is running; or the one that  *)
             (* is stuck, having asked ensure_padding for what no memory   *)
             (* holds: the loop of Array::reserve need not even end.       *)

vars == <<types, padding, job>>

-----------------------------------------------------------------------------
(* Types                                                                   *)

Larger(a, b) == IF a > b THEN a ELSE b

\* A type that has no elements worth counting.
Basic(kind, size, align, bytes) ==
  [kind |-> kind, size |-> size, align |-> align, bytes |-> bytes,
   extent |-> 0, elems |-> <<>>, at |-> <<>>, fields |-> <<>>,
   declared |-> <<>>, plain |-> size = bytes /\ align # 0]

\* Every boolean is an i1 to LLVM, whatever its size.
Builtin ==
  <<Basic("uint", 1, 1, 1), Basic("uint", 2, 2, 2),
    Basic("uint", 4, 4, 4), Basic("uint", 8, 8, 8),
    Basic("sint", 1, 1, 1), Basic("sint", 2, 2, 2),
    Basic("sint", 4, 4, 4), Basic("sint", 8, 8, 8),
    Basic("bool", 1, 1, 1), Basic("bool", 2, 2, 1),
    Basic("bool", 4, 4, 1), Basic("bool", 8, 8, 1),
    Basic("real", 4, 4, 4), Basic("real", 8, 8, 8),
    Basic("pointer", 8, 8, 8), Basic("string", 16, 8, 16),
    Basic("tuple", 0, 0, 0), Basic("va", 0, 0, 0)>>

U8 == 1
U64 == 4
Unit == 17

\* The types a program can name: every type but the paddings.
Nameable == {t \in DOMAIN types : /\ types[t].kind # "padding"
                                  /\ t \in Usable \/ t > Len(Builtin)}

\* The ... of the C functions the compiler declares stands in tuples only.
Sized == {t \in Nameable : types[t].kind # "va"}

IsPadding(t) == types[t].kind = "padding"

PowersOfTwo == {1, 2, 4, 8, 16}

ASSUME LayoutAssumption ==
  /\ Word \in Nat
  /\ \A a \in PowersOfTwo : Word % a = 0
  /\ Word > 16
  /\ Usable \subseteq DOMAIN Builtin
  /\ Extents \subseteq Nat
  /\ MaxPadding \in 16..(Word - 1)
  /\ MaxElems \in Nat
  /\ MaxTypes \in Nat

-----------------------------------------------------------------------------
(* Alignment: (offset + mask) & ~mask with mask = align - 1, in Ulen.      *)

\* The bits that a and b have in common.
Bits[a \in Nat] ==
  [b \in Nat |-> IF a = 0 \/ b = 0 THEN 0
                 ELSE (a % 2) * (b % 2) + 2 * Bits[a \div 2][b \div 2]]

BitAnd(x, y) == Bits[x][y]

\* Mutant: the mask is the alignment itself.
AlignUp_Mutant(offset, align) ==
  (offset + align) - BitAnd(offset + align, align)

\* The common case needs no bits.
AlignUp(offset, align) ==
  IF align \in PowersOfTwo
    THEN (((offset + align - 1) \div align) * align) % Word
    ELSE LET mask == (align - 1) % Word
             sum == (offset + mask) % Word
         IN  sum - BitAnd(sum, mask)

\* Mutant: the difference taken the wrong way round.
Gap_Mutant(offset, align) == (offset - AlignUp(offset, align)) % Word

\* The padding in front of the next multiple of align.
Gap(offset, align) == (AlignUp(offset, align) - offset) % Word

-----------------------------------------------------------------------------
(* CgTypeCache::ensure_padding                                             *)

Cached(n) == n + 1 \in DOMAIN padding /\ padding[n + 1] # 0

\* Array::resize, which also shrinks.
Resized(n) == [i \in 1..n |-> IF i \in DOMAIN padding THEN padding[i] ELSE 0]

\* Mutant: the new padding is filed under the size before.
WithPadding_Mutant(n) ==
  IF Cached(n) THEN padding
  ELSE [Resized(n + 1) EXCEPT ![n] = Len(types) + 1]

PaddingId(n) == IF Cached(n) THEN padding[n + 1] ELSE Len(types) + 1

\* Mutant: the padding is filed before it is made, and never made.
TypesWithPadding_Mutant(n) == types

TypesWithPadding(n) ==
  IF Cached(n) THEN types ELSE Append(types, Basic("padding", n, 1, n))

WithPadding(n) ==
  IF Cached(n) THEN padding
  ELSE [Resized(n + 1) EXCEPT ![n + 1] = Len(types) + 1]

\* What a call that needs n bytes of padding does to the caches.
EnsurePadding(n) ==
  IF n = 0 THEN UNCHANGED padding ELSE padding' = WithPadding(n)

TypesWithGap(n) == IF n = 0 THEN types ELSE TypesWithPadding(n)

GetStuck(align) ==
  /\ job' = [op |-> "stuck", align |-> align]
  /\ UNCHANGED <<types, padding>>

-----------------------------------------------------------------------------
Idle == [op |-> "none"]

Init ==
  /\ types = Builtin
  /\ padding = <<>>
  /\ job = Idle

\* No make() is running, and the bound admits another type.
MayBegin ==
  /\ job.op = "none"
  /\ Cardinality({t \in DOMAIN types : ~IsPadding(t)}) < Len(Builtin) + MaxTypes

\* A type made without a loop.
Make(type) ==
  /\ MayBegin
  /\ types' = Append(types, type)
  /\ UNCHANGED <<padding, job>>

MakePointer(t) == Make([Basic("pointer", 8, 8, 8) EXCEPT !.elems = <<t>>])

MakeSlice(t) == Make([Basic("slice", 16, 8, 16) EXCEPT !.elems = <<t, U64>>])

MakeArray(t, n) ==
  LET base == types[t]
  IN  Make([Basic("array", (base.size * n) % Word, base.align, base.bytes * n)
              EXCEPT !.extent = n, !.elems = <<t>>,
                     !.plain = base.plain /\ base.size * n < Word])

\* An atomic integer or pointer, or an enumeration: laid out as its base.
MakeAtomic(t) ==
  /\ types[t].kind \in {"uint", "sint", "pointer"}
  /\ Make([types[t] EXCEPT !.kind = "atomic", !.extent = 0, !.elems = <<t>>])

MakeEnum == Make([types[U64] EXCEPT !.kind = "enum", !.elems = <<U64>>])

-----------------------------------------------------------------------------
(* make(TupleInfo).  named: info.fields is given.                          *)

BeginTuple(named) ==
  /\ MayBegin
  /\ job' = [op |-> "tuple", named |-> named, declared |-> <<>>, elems |-> <<>>,
             at |-> <<>>, fields |-> <<>>, offset |-> 0, align |-> 0,
             bytes |-> 0, plain |-> TRUE]
  /\ UNCHANGED <<types, padding>>

\* Mutant: no unnamed field stands for the padding.
Padded_Mutant(j, n, named) ==
  IF n = 0 THEN j
  ELSE [j EXCEPT !.elems = Append(@, PaddingId(n)), !.at = Append(@, j.bytes),
                 !.bytes = @ + n, !.offset = (@ + n) % Word]

\* n bytes of padding, with an unnamed field if named.
Padded(j, n, named) ==
  IF n = 0 THEN j
  ELSE [j EXCEPT !.elems = Append(@, PaddingId(n)), !.at = Append(@, j.bytes),
                 !.bytes = @ + n, !.offset = (@ + n) % Word,
                 !.fields = IF named THEN Append(@, 0) ELSE @]

\* Element t, whose name is its place in the declaration.
Placed(j, t) ==
  [j EXCEPT !.elems = Append(@, t), !.at = Append(@, j.bytes),
            !.bytes = @ + types[t].bytes,
            !.offset = (@ + types[t].size) % Word,
            !.align = Larger(@, types[t].align),
            !.declared = Append(@, t),
            !.fields = IF j.named THEN Append(@, Len(j.declared) + 1) ELSE @,
            !.plain = @ /\ types[t].plain /\ j.bytes + types[t].bytes < Word]

AddElement(t) ==
  /\ job.op = "tuple"
  /\ Len(job.declared) < MaxElems
  /\ LET gap == IF types[t].kind = "va" THEN 0
                ELSE Gap(job.offset, types[t].align)
     IN  IF gap \in 0..MaxPadding
         THEN /\ EnsurePadding(gap)
              /\ types' = TypesWithGap(gap)
              /\ job' = Placed(Padded(job, gap, job.named), t)
         ELSE GetStuck(types[t].align)

\* The padding at the end has a field whether or not the others have one.
EndTuple ==
  /\ job.op = "tuple"
  /\ job.declared # <<>>
  /\ LET gap == Gap(job.offset, job.align)
         j == Padded(job, gap, TRUE)
     IN  IF gap \in 0..MaxPadding
         THEN /\ EnsurePadding(gap)
              /\ types' = Append(TypesWithGap(gap),
                   [kind |-> "tuple", size |-> j.offset, align |-> j.align,
                    bytes |-> j.bytes, extent |-> 0, elems |-> j.elems,
                    at |-> j.at, fields |-> j.fields,
                    declared |-> j.declared,
                    plain |-> j.plain /\ j.bytes < Word])
              /\ job' = Idle
         ELSE GetStuck(job.align)

-----------------------------------------------------------------------------
(* make(UnionInfo): the largest variant, a tag of one byte, padding.       *)

BeginUnion ==
  /\ MayBegin
  /\ job' = [op |-> "union", declared |-> <<>>, size |-> 0, align |-> 0]
  /\ UNCHANGED <<types, padding>>

\* The alignment is the larger of the size so far and this alignment.
AddVariant(t) ==
  /\ job.op = "union"
  /\ Len(job.declared) < MaxElems
  /\ LET size == Larger(job.size, types[t].size)
     IN  job' = [job EXCEPT !.declared = Append(@, t), !.size = size,
                            !.align = Larger(size, types[t].align)]
  /\ UNCHANGED <<types, padding>>

\* The size recorded does not count the padding, the LLVM struct has it.
EndUnion ==
  /\ job.op = "union"
  /\ job.declared # <<>>
  /\ LET offset == (job.size + 1) % Word
         gap == Gap(offset, job.align)
     IN  IF gap \in 0..MaxPadding
         THEN /\ EnsurePadding(gap)
              /\ types' = Append(TypesWithGap(gap),
                   [Basic("union", offset, job.align, job.size + 1 + gap)
                      EXCEPT !.elems = job.declared,
                             !.declared = job.declared,
                             !.plain = FALSE])
              /\ job' = Idle
         ELSE GetStuck(job.align)

-----------------------------------------------------------------------------
Next ==
  \/ \E t \in Nameable : AddElement(t)
  \/ \E t \in Sized :
       \/ MakePointer(t) \/ MakeSlice(t) \/ MakeAtomic(t)
       \/ \E n \in Extents : MakeArray(t, n)
       \/ AddVariant(t)
  \/ MakeEnum
  \/ \E named \in BOOLEAN : BeginTuple(named)
  \/ EndTuple
  \/ BeginUnion \/ EndUnion

Spec == Init /\ [][Next]_vars

-----------------------------------------------------------------------------
(* The type invariant: types are laid out in Ulens and made of types that  *)
(* exist; so are the tuple or union in the making and the padding cache.   *)

Ulen == 0..(Word - 1)

\* Of types numbered up to n.
TypeRecord(n) ==
  [kind : {"uint", "sint", "bool", "real", "pointer", "string", "tuple", "va",
           "slice", "array", "atomic", "enum", "union", "padding"},
   size : Ulen, align : Ulen, bytes : Nat, extent : Nat,
   elems : Seq(1..n), at : Seq(Nat), fields : Seq(Nat),
   declared : Seq(1..n), plain : BOOLEAN]

JobRecord(n) ==
  [op : {"none"}]
    \union [op : {"tuple"}, named : BOOLEAN, declared : Seq(1..n),
            elems : Seq(1..n), at : Seq(Nat), fields : Seq(Nat),
            offset : Ulen, align : Ulen, bytes : Nat, plain : BOOLEAN]
    \union [op : {"union"}, declared : Seq(1..n), size : Ulen, align : Ulen]
    \union [op : {"stuck"}, align : Ulen]

TypeOK ==
  /\ types \in Seq(TypeRecord(Len(types)))
  /\ Len(types) >= Len(Builtin)
  /\ padding \in Seq(0..Len(types))
  /\ job \in JobRecord(Len(types))

(* The layouts the compiler computes are those LLVM uses: of every type    *)
(* that holds no union, no boolean wider than a byte, nothing of size      *)
(* 2^64, the size is LLVM's and a multiple of the alignment, so arrays of  *)
(* it are aligned, and the elements of a tuple lie at multiples of their   *)
(* alignment.  Loads and stores are emitted with these alignments, and     *)
(* large values cleared by this size.                                      *)
Multiple(n, a) == n % a = 0

ElementsAligned(r) ==
  \A i \in DOMAIN r.at : Multiple(r.at[i], types[r.elems[i]].align)

LayoutIsLLVMs ==
  \A t \in DOMAIN types :
    types[t].plain =>
      /\ types[t].bytes = types[t].size
      /\ types[t].align \in PowersOfTwo
      /\ Multiple(types[t].size, types[t].align)
      /\ types[t].kind = "tuple" => ElementsAligned(types[t])

(* make() gets stuck for one reason: an element of alignment 0, one that   *)
(* holds nothing but (), behind something of any size.  Otherwise a padding*)
(* is smaller than the alignment it serves; only a union, aligned to its   *)
(* largest variant, can ask for more than there is memory.                 *)
StuckOnlyOnUnit ==
  job.op = "stuck" => job.align = 0 \/ job.align > MaxPadding

(* The cache of paddings, shrunk and grown as sizes come, never hands out  *)
(* a padding of another size.                                              *)
PaddingCacheIsSound ==
  \A i \in DOMAIN padding :
    padding[i] # 0 => /\ types[padding[i]].kind = "padding"
                      /\ types[padding[i]].size = i - 1

=============================================================================
