-------------------------- MODULE TypeLayoutProofs --------------------------
(***************************************************************************)
(* Theorems about TypeLayout and TupleIndex, for every word size, extent,  *)
(* memory and number of types, of elements and of variants.                *)
(*                                                                         *)
(* LayoutIsLLVMs is not inductive: a type is laid out element by element,  *)
(* so the same must be known of the tuple in the making (SoundTuple).  A   *)
(* padding is an element like another, taken from the cache: that it has   *)
(* the size asked for is PaddingCacheIsSound.  Beyond IInv, OInv says how  *)
(* elements and paddings follow from what was declared, which the indices  *)
(* of TupleIndex rest on, and LInv that they are determined by it, which   *)
(* the equality of types rests on.                                         *)
(***************************************************************************)
EXTENDS TupleIndex, TLAPS, FiniteSetTheorems, WellFoundedInduction,
        NaturalsInduction

-----------------------------------------------------------------------------
(* The inductive invariant                                                 *)

\* Type r, made of types in ts, is laid out as LLVM lays it out.
SoundType(ts, r) ==
  /\ r.kind = "tuple" => Len(r.at) = Len(r.elems)
  /\ r.kind = "padding" => r.align = 1
  /\ r.kind = "va" => ~r.plain
  /\ r.plain =>
       /\ r.bytes = r.size
       /\ r.align \in PowersOfTwo
       /\ Multiple(r.size, r.align)
       /\ r.kind = "tuple" =>
            \A i \in DOMAIN r.at : Multiple(r.at[i], ts[r.elems[i]].align)

SoundTypes(ts) ==
  /\ ts \in Seq(TypeRecord(Len(ts)))
  /\ Len(ts) >= Len(Builtin)
  /\ \A t \in DOMAIN ts : SoundType(ts, ts[t])

SoundCache(ts, p) ==
  /\ p \in Seq(0..Len(ts))
  /\ \A i \in DOMAIN p :
       p[i] # 0 => ts[p[i]].kind = "padding" /\ ts[p[i]].size = i - 1

\* The tuple in the making, so far.
SoundTuple(ts, j) ==
  /\ Len(j.at) = Len(j.elems)
  /\ j.plain =>
       /\ j.bytes = j.offset
       /\ j.align \in PowersOfTwo \union {0}
       /\ j.declared # <<>> => j.align # 0
       /\ \A i \in DOMAIN j.at : Multiple(j.at[i], ts[j.elems[i]].align)

SoundJob(ts, j) ==
  /\ j \in JobRecord(Len(ts))
  /\ j.op = "tuple" => SoundTuple(ts, j)

IInv == SoundTypes(types) /\ SoundCache(types, padding) /\ SoundJob(types, job)

-----------------------------------------------------------------------------
(* Alignment                                                               *)

\* Rounding up to a power of two.
LEMMA RoundUp ==
  ASSUME NEW o \in Nat, NEW a \in PowersOfTwo,
         NEW u, u = ((o + a - 1) \div a) * a
  PROVE  u \in Nat /\ u >= o /\ u < o + a /\ u % a = 0
<1>1. CASE a = 1  BY <1>1
<1>2. CASE a = 2  BY <1>2
<1>3. CASE a = 4  BY <1>3
<1>4. CASE a = 8  BY <1>4
<1>5. CASE a = 16  BY <1>5
<1> QED  BY <1>1, <1>2, <1>3, <1>4, <1>5 DEF PowersOfTwo

\* A word is a multiple of every alignment, so no rounding up passes it.
LEMMA RoundUpFits ==
  ASSUME NEW a \in PowersOfTwo, NEW o \in Ulen, NEW u \in Nat,
         u % a = 0, u < o + a
  PROVE  u <= Word
<1>0. Word \in Nat /\ Word % a = 0 /\ o < Word
  BY LayoutAssumption DEF Ulen
<1>1. CASE a = 1  BY <1>0, <1>1 DEF Ulen
<1>2. CASE a = 2  BY <1>0, <1>2 DEF Ulen
<1>3. CASE a = 4  BY <1>0, <1>3 DEF Ulen
<1>4. CASE a = 8  BY <1>0, <1>4 DEF Ulen
<1>5. CASE a = 16  BY <1>0, <1>5 DEF Ulen
<1> QED  BY <1>1, <1>2, <1>3, <1>4, <1>5 DEF PowersOfTwo

\* The gap in front of the next multiple of a power of two is smaller than
\* it, and reaches it, be it the end of the word.
LEMMA GapAligns ==
  ASSUME NEW o \in Ulen, NEW a \in PowersOfTwo
  PROVE  /\ Gap(o, a) \in 0..15
         /\ Gap(o, a) < a
         /\ (o + Gap(o, a)) % a = 0
         /\ o + Gap(o, a) <= Word
<1> DEFINE u == ((o + a - 1) \div a) * a
<1>0. Word \in Nat /\ Word > 16 /\ o \in Nat /\ o < Word
  BY LayoutAssumption DEF Ulen
<1>1. u \in Nat /\ u >= o /\ u < o + a /\ u % a = 0
  BY <1>0, RoundUp
<1>2. u <= Word
  BY <1>1, RoundUpFits
<1>3. Gap(o, a) = ((u % Word) - o) % Word
  BY DEF Gap, AlignUp
<1> HIDE DEF u
<1>4. a \in 1..16
  BY DEF PowersOfTwo
<1>5. Gap(o, a) = u - o
  <2>1. CASE u < Word
    <3>1. u % Word = u  BY <2>1, <1>0, <1>1
    <3>2. u - o \in 0..(Word - 1)  BY <2>1, <1>0, <1>1
    <3>3. (u - o) % Word = u - o  BY <3>2, <1>0
    <3> QED  BY <3>1, <3>3, <1>3
  <2>2. CASE u = Word
    <3>1. u % Word = 0  BY <2>2, <1>0
    <3>2. o > 0  BY <1>0, <1>1, <1>4, <2>2
    <3>3. (0 - o) % Word = Word - o  BY <3>2, <1>0
    <3> QED  BY <3>1, <3>3, <2>2, <1>3
  <2> QED  BY <2>1, <2>2, <1>0, <1>1, <1>2
<1> QED  BY <1>0, <1>1, <1>2, <1>4, <1>5

\* Arithmetic in Ulen.
LEMMA Wraps ==
  ASSUME NEW x \in Nat
  PROVE  x % Word \in Ulen /\ (x < Word => x % Word = x)
<1>1. Word \in Nat /\ Word > 16
  BY LayoutAssumption
<1> QED  BY <1>1 DEF Ulen

-----------------------------------------------------------------------------
(* More types                                                              *)

LEMMA Retyped ==
  ASSUME NEW S, NEW T, NEW s \in Seq(S), \A i \in DOMAIN s : s[i] \in T
  PROVE  s \in Seq(T)
OBVIOUS

LEMMA WidenSeq ==
  ASSUME NEW m \in Nat, NEW n \in Nat, m <= n, NEW s \in Seq(1..m)
  PROVE  s \in Seq(1..n)
OBVIOUS

LEMMA WidenType ==
  ASSUME NEW m \in Nat, NEW n \in Nat, m <= n, NEW r \in TypeRecord(m)
  PROVE  r \in TypeRecord(n)
<1>1. r.elems \in Seq(1..n) /\ r.declared \in Seq(1..n)
  BY WidenSeq DEF TypeRecord
<1> QED  BY <1>1 DEF TypeRecord

LEMMA WidenJob ==
  ASSUME NEW m \in Nat, NEW n \in Nat, m <= n, NEW j \in JobRecord(m)
  PROVE  j \in JobRecord(n)
<1>1. CASE j.op = "tuple"
  <2>1. j.elems \in Seq(1..n) /\ j.declared \in Seq(1..n)
    BY <1>1, WidenSeq DEF JobRecord
  <2> QED  BY <1>1, <2>1 DEF JobRecord
<1>2. CASE j.op = "union"
  <2>1. j.declared \in Seq(1..n)
    BY <1>2, WidenSeq DEF JobRecord
  <2> QED  BY <1>2, <2>1 DEF JobRecord
<1>3. CASE j.op \in {"none", "stuck"}
  BY <1>3 DEF JobRecord
<1> QED  BY <1>1, <1>2, <1>3 DEF JobRecord

\* What is said of a type, of the cache and of a job holds with more types.
LEMMA ExtendType ==
  ASSUME NEW ts, SoundTypes(ts), NEW q \in TypeRecord(Len(ts)),
         SoundType(ts, q), NEW r
  PROVE  SoundType(Append(ts, r), q)
<1>1. \A t \in 1..Len(ts) : Append(ts, r)[t] = ts[t]
  BY DEF SoundTypes
<1>2. ASSUME q.kind = "tuple", NEW i \in DOMAIN q.at
      PROVE  q.elems[i] \in 1..Len(ts)
  BY <1>2 DEF SoundType, TypeRecord
<1> QED  BY <1>1, <1>2 DEF SoundType

LEMMA ExtendTypes ==
  ASSUME NEW ts, SoundTypes(ts), NEW r \in TypeRecord(Len(ts)),
         SoundType(ts, r)
  PROVE  SoundTypes(Append(ts, r))
<1> DEFINE us == Append(ts, r)
<1>1. Len(ts) \in Nat /\ Len(us) = Len(ts) + 1 /\ DOMAIN us = 1..Len(us)
  BY DEF SoundTypes
<1>2. \A t \in DOMAIN us : us[t] \in TypeRecord(Len(ts)) /\ SoundType(ts, us[t])
  BY <1>1 DEF SoundTypes
<1>3. \A t \in DOMAIN us : us[t] \in TypeRecord(Len(us))
  BY <1>1, <1>2, WidenType
<1>4. us \in Seq(TypeRecord(Len(us)))
  <2>1. us \in Seq(TypeRecord(Len(ts)))  BY DEF SoundTypes
  <2> QED  BY <1>3, <2>1, Retyped
<1>5. \A t \in DOMAIN us : SoundType(us, us[t])
  BY <1>2, ExtendType
<1>6. Len(us) >= Len(Builtin)
  BY <1>1 DEF SoundTypes, Builtin
<1> QED  BY <1>4, <1>5, <1>6 DEF SoundTypes

LEMMA ExtendCache ==
  ASSUME NEW ts, SoundTypes(ts), NEW p, SoundCache(ts, p), NEW r
  PROVE  SoundCache(Append(ts, r), p)
<1>1. Len(ts) \in Nat /\ Len(Append(ts, r)) = Len(ts) + 1
  BY DEF SoundTypes
<1>2. \A t \in 1..Len(ts) : Append(ts, r)[t] = ts[t]
  BY DEF SoundTypes
<1>3. p \in Seq(0..Len(Append(ts, r)))
  BY <1>1 DEF SoundCache
<1>4. \A i \in DOMAIN p : p[i] # 0 => p[i] \in 1..Len(ts)
  BY <1>1 DEF SoundCache
<1> QED  BY <1>2, <1>3, <1>4 DEF SoundCache

LEMMA ExtendJob ==
  ASSUME NEW ts, SoundTypes(ts), NEW j, SoundJob(ts, j), NEW r
  PROVE  SoundJob(Append(ts, r), j)
<1>1. Len(ts) \in Nat /\ Len(Append(ts, r)) = Len(ts) + 1
  BY DEF SoundTypes
<1>2. \A t \in 1..Len(ts) : Append(ts, r)[t] = ts[t]
  BY DEF SoundTypes
<1>3. j \in JobRecord(Len(Append(ts, r)))
  BY <1>1, WidenJob DEF SoundJob
<1>4. ASSUME j.op = "tuple", NEW i \in DOMAIN j.at
      PROVE  j.elems[i] \in 1..Len(ts)
  BY <1>4 DEF SoundJob, SoundTuple, JobRecord
<1> QED  BY <1>2, <1>3, <1>4 DEF SoundJob, SoundTuple

-----------------------------------------------------------------------------
(* A padding from the cache                                                *)

\* The records of tuples in the making, of types numbered up to n.
TupleRecord(n) ==
  [op : {"tuple"}, named : BOOLEAN, declared : Seq(1..n),
   elems : Seq(1..n), at : Seq(Nat), fields : Seq(Nat),
   offset : Ulen, align : Ulen, bytes : Nat, plain : BOOLEAN]

\* ts is what types become when n bytes of padding are asked for.
Gapped(n, ts) ==
  /\ SoundTypes(ts)
  /\ SoundJob(ts, job)
  /\ Len(types) <= Len(ts)
  /\ \A t \in DOMAIN types : t \in DOMAIN ts /\ ts[t] = types[t]
  /\ n # 0 => /\ PaddingId(n) \in DOMAIN ts
              /\ ts[PaddingId(n)].align = 1

\* A padding is made or found, and all that was sound stays so.
LEMMA GapMade ==
  ASSUME IInv, NEW n \in 0..MaxPadding, EnsurePadding(n),
         NEW ts, ts = TypesWithGap(n)
  PROVE  Gapped(n, ts) /\ SoundCache(ts, padding')
<1>0. /\ MaxPadding \in Nat /\ MaxPadding < Word /\ Word \in Nat /\ Word > 16
      /\ n \in Nat
  BY LayoutAssumption
<1>1. /\ SoundTypes(types) /\ SoundCache(types, padding) /\ SoundJob(types, job)
      /\ Len(types) \in Nat /\ DOMAIN types = 1..Len(types)
  BY DEF IInv, SoundTypes
<1>2. CASE n = 0
  BY <1>1, <1>2 DEF Gapped, EnsurePadding, TypesWithGap
<1>3. CASE n # 0 /\ Cached(n)
  <2>1. ts = types /\ padding' = padding /\ PaddingId(n) = padding[n + 1]
    BY <1>3 DEF TypesWithGap, TypesWithPadding, EnsurePadding, WithPadding, PaddingId
  <2>2. padding[n + 1] \in DOMAIN types /\ types[padding[n + 1]].kind = "padding"
    BY <1>0, <1>1, <1>3 DEF Cached, SoundCache
  <2>3. types[padding[n + 1]].align = 1
    BY <1>1, <2>2 DEF SoundTypes, SoundType
  <2> QED  BY <1>1, <2>1, <2>2, <2>3 DEF Gapped
<1>4. CASE n # 0 /\ ~Cached(n)
  <2> DEFINE r == Basic("padding", n, 1, n)
             p == [Resized(n + 1) EXCEPT ![n + 1] = Len(types) + 1]
  <2>1. ts = Append(types, r) /\ padding' = p /\ PaddingId(n) = Len(types) + 1
    BY <1>4 DEF TypesWithGap, TypesWithPadding, EnsurePadding, WithPadding, PaddingId
  <2>2. r \in TypeRecord(Len(types))
    <3>1. n \in Ulen /\ 1 \in Ulen
      BY <1>0 DEF Ulen
    <3>2. <<>> \in Seq(1..Len(types)) /\ <<>> \in Seq(Nat)
      OBVIOUS
    <3> QED  BY <1>0, <3>1, <3>2 DEF Basic, TypeRecord
  <2>3. /\ r.kind = "padding" /\ r.size = n /\ r.align = 1 /\ r.bytes = n
        /\ Multiple(n, 1)
    BY <1>0 DEF Basic, Multiple
  <2>4. SoundType(types, r)
    BY <2>3 DEF SoundType, PowersOfTwo
  <2>5. SoundTypes(ts) /\ SoundJob(ts, job) /\ SoundCache(ts, padding)
    BY <1>1, <2>1, <2>2, <2>4, ExtendTypes, ExtendJob, ExtendCache
  <2>6. /\ Len(ts) = Len(types) + 1 /\ DOMAIN ts = 1..Len(ts)
        /\ ts[Len(types) + 1] = r
        /\ \A t \in DOMAIN types : t \in DOMAIN ts /\ ts[t] = types[t]
    BY <1>1, <2>1, <2>2 DEF SoundTypes
  <2> HIDE DEF r
  <2>7. Gapped(n, ts)
    BY <1>1, <2>1, <2>3, <2>5, <2>6 DEF Gapped
  <2>8. SoundCache(ts, p)
    <3>1. /\ Resized(n + 1) = [i \in 1..(n + 1) |->
                                 IF i \in DOMAIN padding THEN padding[i] ELSE 0]
          /\ \A i \in DOMAIN padding : padding[i] \in 0..Len(types)
      BY <1>1 DEF Resized, SoundCache
    <3>2. /\ DOMAIN p = 1..(n + 1)
          /\ p[n + 1] = Len(types) + 1
          /\ \A i \in 1..n : p[i] = IF i \in DOMAIN padding THEN padding[i] ELSE 0
      BY <1>0, <3>1
    <3>3. p \in Seq(0..Len(ts))
      <4>1. p = [i \in 1..(n + 1) |-> p[i]]
        BY <3>1, <3>2
      <4>2. \A i \in 1..(n + 1) : p[i] \in 0..Len(ts)
        BY <1>0, <1>1, <2>6, <3>1, <3>2
      <4> HIDE DEF p
      <4>3. [i \in 1..(n + 1) |-> p[i]] \in Seq(0..Len(ts))
        BY <1>0, <4>2
      <4> QED  BY <4>1, <4>3
    <3>4. ASSUME NEW i \in DOMAIN p, p[i] # 0
          PROVE  ts[p[i]].kind = "padding" /\ ts[p[i]].size = i - 1
      <4>1. CASE i = n + 1  BY <1>0, <2>3, <2>6, <3>2, <4>1
      <4>2. CASE i # n + 1
        <5>1. i \in DOMAIN padding /\ p[i] = padding[i]
          BY <1>0, <3>2, <3>4, <4>2
        <5> QED  BY <2>5, <3>4, <5>1 DEF SoundCache
      <4> QED  BY <4>1, <4>2
    <3> QED  BY <3>3, <3>4 DEF SoundCache
  <2> QED  BY <2>1, <2>7, <2>8
<1> QED  BY <1>2, <1>3, <1>4

-----------------------------------------------------------------------------
(* The elements of a tuple                                                 *)

\* j is the running tuple with a gap of n bytes behind it.
Behind(n, ts, j) ==
  /\ j \in TupleRecord(Len(ts))
  /\ Len(j.at) = Len(j.elems)
  /\ j.bytes = job.bytes + n
  /\ j.offset = (job.offset + n) % Word
  /\ j.align = job.align
  /\ j.declared = job.declared
  /\ j.plain = job.plain
  /\ j.plain =>
       \A i \in DOMAIN j.at : Multiple(j.at[i], ts[j.elems[i]].align)

LEMMA Appended ==
  ASSUME NEW S, NEW s \in Seq(S), NEW e \in S
  PROVE  /\ Append(s, e) \in Seq(S) /\ Len(s) \in Nat
         /\ Len(Append(s, e)) = Len(s) + 1 /\ Append(s, e)[Len(s) + 1] = e
         /\ \A i \in 1..Len(s) : Append(s, e)[i] = s[i]
OBVIOUS

\* A padding may lie anywhere.
LEMMA PaddedSound ==
  ASSUME IInv, job.op = "tuple", NEW n \in 0..MaxPadding,
         NEW named \in BOOLEAN, NEW ts, Gapped(n, ts),
         NEW j, j = Padded(job, n, named)
  PROVE  Behind(n, ts, j)
<1>0. /\ Word \in Nat /\ Word > 16 /\ n \in Nat
  BY LayoutAssumption
<1>1. job \in TupleRecord(Len(ts)) /\ SoundTuple(ts, job)
  BY DEF Gapped, SoundJob, JobRecord, TupleRecord
<1>2. /\ Len(ts) \in Nat /\ DOMAIN ts = 1..Len(ts)
  BY DEF Gapped, SoundTypes
<1>3. /\ job.bytes \in Nat /\ job.offset \in Nat /\ job.offset < Word
      /\ Len(job.at) = Len(job.elems)
      /\ job.at \in Seq(Nat) /\ job.elems \in Seq(1..Len(ts))
  BY <1>0, <1>1 DEF TupleRecord, SoundTuple, Ulen
<1>4. CASE n = 0
  <2>1. j = job  BY <1>4 DEF Padded
  <2>2. job.bytes + n = job.bytes /\ (job.offset + n) % Word = job.offset
    <3>1. job.bytes + n = job.bytes /\ job.offset + n = job.offset
      BY <1>3, <1>4
    <3> QED  BY <1>3, <3>1, Wraps
  <2> QED  BY <1>1, <2>1, <2>2 DEF Behind, SoundTuple
<1>5. CASE n # 0
  <2> DEFINE e == PaddingId(n)
  <2>1. e \in 1..Len(ts) /\ ts[e].align = 1
    BY <1>2, <1>5 DEF Gapped
  <2> HIDE DEF e
  <2>2. j = [job EXCEPT !.elems = Append(@, e), !.at = Append(@, job.bytes),
                        !.bytes = @ + n, !.offset = (@ + n) % Word,
                        !.fields = IF named THEN Append(@, 0) ELSE @]
    BY <1>5 DEF Padded, e
  <2>3. /\ j.elems = Append(job.elems, e) /\ j.at = Append(job.at, job.bytes)
        /\ j.bytes = job.bytes + n /\ j.offset = (job.offset + n) % Word
        /\ j.align = job.align /\ j.declared = job.declared
        /\ j.plain = job.plain
    BY <1>1, <2>2 DEF TupleRecord
  <2>4. j \in TupleRecord(Len(ts))
    <3>1. Append(job.elems, e) \in Seq(1..Len(ts)) /\ Append(job.at, job.bytes) \in Seq(Nat)
      BY <1>3, <2>1
    <3>2. job.bytes + n \in Nat /\ (job.offset + n) % Word \in Ulen
      <4>1. job.bytes + n \in Nat /\ job.offset + n \in Nat
        BY <1>0, <1>3
      <4> QED  BY <4>1, Wraps
    <3>3. (IF named THEN Append(job.fields, 0) ELSE job.fields) \in Seq(Nat)
      BY <1>1 DEF TupleRecord
    <3> QED  BY <1>1, <2>2, <3>1, <3>2, <3>3 DEF TupleRecord
  <2>5. Len(j.at) = Len(j.elems) /\ Len(j.at) = Len(job.at) + 1
    BY <1>3, <2>1, <2>3
  <2>7. /\ \A i \in 1..Len(job.at) : j.at[i] = job.at[i]
        /\ j.at[Len(job.at) + 1] = job.bytes
        /\ \A i \in 1..Len(job.elems) : j.elems[i] = job.elems[i]
        /\ j.elems[Len(job.elems) + 1] = e
    <3>1. /\ Append(job.at, job.bytes)[Len(job.at) + 1] = job.bytes
          /\ \A i \in 1..Len(job.at) : Append(job.at, job.bytes)[i] = job.at[i]
      BY <1>3, Appended
    <3>2. /\ Append(job.elems, e)[Len(job.elems) + 1] = e
          /\ \A i \in 1..Len(job.elems) : Append(job.elems, e)[i] = job.elems[i]
      BY <1>3, <2>1, Appended
    <3> QED  BY <2>3, <3>1, <3>2
  <2>6. ASSUME j.plain, NEW i \in DOMAIN j.at
        PROVE  Multiple(j.at[i], ts[j.elems[i]].align)
    <3>1. CASE i \in DOMAIN job.at
      <4>1. i \in 1..Len(job.at) /\ i \in 1..Len(job.elems)
        BY <1>3, <3>1
      <4>2. j.at[i] = job.at[i] /\ j.elems[i] = job.elems[i]
        BY <2>7, <4>1
      <4>3. Multiple(job.at[i], ts[job.elems[i]].align)
        BY <1>1, <2>3, <2>6, <3>1 DEF SoundTuple
      <4> QED  BY <4>2, <4>3
    <3>2. CASE i \notin DOMAIN job.at
      <4>1. i = Len(job.at) + 1 /\ i = Len(job.elems) + 1
        BY <1>3, <2>3, <2>5, <2>6, <3>2
      <4>2. j.at[i] = job.bytes /\ j.elems[i] = e
        BY <2>7, <4>1
      <4> QED  BY <1>3, <2>1, <4>2 DEF Multiple
    <3> QED  BY <3>1, <3>2
  <2> QED  BY <2>3, <2>4, <2>5, <2>6 DEF Behind
<1> QED  BY <1>4, <1>5

\* An element that is put at a multiple of its alignment, where LLVM counts
\* as many bytes as the compiler.
LEMMA PlacedSound ==
  ASSUME NEW ts, SoundTypes(ts), NEW t \in DOMAIN ts, ts[t] = types[t],
         NEW j \in TupleRecord(Len(ts)), Len(j.at) = Len(j.elems),
         j.plain =>
           /\ j.align \in PowersOfTwo \union {0}
           /\ \A i \in DOMAIN j.at : Multiple(j.at[i], ts[j.elems[i]].align),
         j.plain /\ ts[t].plain =>
           /\ Multiple(j.bytes, ts[t].align)
           /\ j.bytes < Word => j.bytes = j.offset
  PROVE  SoundJob(ts, Placed(j, t))
<1> DEFINE r == ts[t]
           k == Placed(j, t)
<1>0. Word \in Nat /\ Word > 16
  BY LayoutAssumption
<1>1. Len(ts) \in Nat /\ t \in 1..Len(ts) /\ r \in TypeRecord(Len(ts)) /\ SoundType(ts, r)
  BY DEF SoundTypes
<1>2. r.size \in Ulen /\ r.align \in Ulen /\ r.bytes \in Nat /\ r.plain \in BOOLEAN
  BY <1>1 DEF TypeRecord
<1>3. /\ j.bytes \in Nat /\ j.offset \in Ulen /\ j.align \in Ulen
      /\ j.plain \in BOOLEAN /\ j.named \in BOOLEAN
      /\ j.at \in Seq(Nat) /\ j.elems \in Seq(1..Len(ts))
      /\ j.declared \in Seq(1..Len(ts)) /\ j.fields \in Seq(Nat)
  BY DEF TupleRecord
<1>4. Ulen \subseteq Nat  BY DEF Ulen
<1> HIDE DEF r
<1>5. k = [j EXCEPT !.elems = Append(@, t), !.at = Append(@, j.bytes),
                    !.bytes = @ + r.bytes, !.offset = (@ + r.size) % Word,
                    !.align = Larger(@, r.align), !.declared = Append(@, t),
                    !.fields = IF j.named THEN Append(@, Len(j.declared) + 1) ELSE @,
                    !.plain = @ /\ r.plain /\ j.bytes + r.bytes < Word]
  BY DEF Placed, r
<1> HIDE DEF k
<1>6. /\ k.elems = Append(j.elems, t) /\ k.at = Append(j.at, j.bytes)
      /\ k.bytes = j.bytes + r.bytes /\ k.offset = (j.offset + r.size) % Word
      /\ k.align = Larger(j.align, r.align) /\ k.op = "tuple"
  BY <1>5 DEF TupleRecord
<1>7. k.plain = (j.plain /\ r.plain /\ j.bytes + r.bytes < Word)
  BY <1>5 DEF TupleRecord
<1>8. k \in TupleRecord(Len(ts))
  <2>1. /\ Append(j.elems, t) \in Seq(1..Len(ts)) /\ Append(j.at, j.bytes) \in Seq(Nat)
        /\ Append(j.declared, t) \in Seq(1..Len(ts))
        /\ (IF j.named THEN Append(j.fields, Len(j.declared) + 1) ELSE j.fields)
             \in Seq(Nat)
    BY <1>1, <1>3
  <2>2. /\ j.bytes + r.bytes \in Nat /\ (j.offset + r.size) % Word \in Ulen
        /\ Larger(j.align, r.align) \in Ulen
    <3>1. j.bytes + r.bytes \in Nat /\ j.offset + r.size \in Nat
      <4>1. /\ r.bytes \in Nat /\ r.size \in Nat
            /\ j.bytes \in Nat /\ j.offset \in Nat
        BY <1>2, <1>3, <1>4
      <4> QED  BY <4>1
    <3>2. Larger(j.align, r.align) \in Ulen
      BY <1>2, <1>3 DEF Larger
    <3> QED  BY <3>1, <3>2, Wraps
  <2>3. (j.plain /\ r.plain /\ j.bytes + r.bytes < Word) \in BOOLEAN
    OBVIOUS
  <2> QED  BY <1>5, <2>1, <2>2, <2>3 DEF TupleRecord
<1>9. Len(k.at) = Len(k.elems) /\ Len(k.at) = Len(j.at) + 1
  BY <1>1, <1>3, <1>6
<1>10. ASSUME k.plain  PROVE  k.bytes = k.offset
  <2>1. j.plain /\ r.plain /\ j.bytes + r.bytes < Word  BY <1>7, <1>10
  <2>2. r.bytes = r.size  BY <1>1, <2>1 DEF SoundType
  <2> DEFINE b == j.bytes
             c == r.bytes
  <2>3. b \in Nat /\ c \in Nat /\ b + c < Word  BY <1>2, <1>3, <2>1
  <2> HIDE DEF b, c
  <2>4. b < Word  BY <1>0, <2>3
  <2>5. j.bytes = j.offset  BY <2>1, <2>4 DEF b, r
  <2>6. (b + c) % Word = b + c  BY <2>3, Wraps
  <2> QED  BY <1>6, <2>2, <2>5, <2>6 DEF b, c
<1>11. ASSUME k.plain  PROVE  k.align \in PowersOfTwo
  <2>1. r.align \in PowersOfTwo /\ j.align \in PowersOfTwo \union {0}
    BY <1>1, <1>7, <1>11 DEF SoundType
  <2> QED  BY <1>6, <2>1 DEF Larger, PowersOfTwo
<1>12. ASSUME k.plain, NEW i \in DOMAIN k.at
       PROVE  Multiple(k.at[i], ts[k.elems[i]].align)
  <2>0. j.plain /\ r.plain  BY <1>7, <1>12
  <2>3. /\ \A x \in 1..Len(j.at) : k.at[x] = j.at[x]
        /\ k.at[Len(j.at) + 1] = j.bytes
        /\ \A x \in 1..Len(j.elems) : k.elems[x] = j.elems[x]
        /\ k.elems[Len(j.elems) + 1] = t
    <3>1. /\ Append(j.at, j.bytes)[Len(j.at) + 1] = j.bytes
          /\ \A x \in 1..Len(j.at) : Append(j.at, j.bytes)[x] = j.at[x]
      BY <1>3, Appended
    <3>2. /\ Append(j.elems, t)[Len(j.elems) + 1] = t
          /\ \A x \in 1..Len(j.elems) : Append(j.elems, t)[x] = j.elems[x]
      BY <1>1, <1>3, Appended
    <3> QED  BY <1>6, <3>1, <3>2
  <2>1. CASE i \in DOMAIN j.at
    <3>1. k.at[i] = j.at[i] /\ k.elems[i] = j.elems[i]
      <4>1. i \in 1..Len(j.at) /\ i \in 1..Len(j.elems)
        BY <1>3, <2>1
      <4> QED  BY <2>3, <4>1
    <3>2. Multiple(j.at[i], ts[j.elems[i]].align)
      BY <2>0, <2>1
    <3> QED  BY <3>1, <3>2
  <2>2. CASE i \notin DOMAIN j.at
    <3>1. k.at[i] = j.bytes /\ k.elems[i] = t
      <4>1. i = Len(j.at) + 1 /\ i = Len(j.elems) + 1
        BY <1>1, <1>3, <1>6, <1>9, <1>12, <2>2
      <4> QED  BY <2>3, <4>1
    <3>2. Multiple(j.bytes, ts[t].align)
      BY <2>0 DEF r
    <3> QED  BY <3>1, <3>2
  <2> QED  BY <2>1, <2>2
<1>13. ASSUME k.plain  PROVE  k.align \in PowersOfTwo \union {0} /\ k.align # 0
  BY <1>11, <1>13 DEF PowersOfTwo
<1>14. SoundTuple(ts, k)
  BY <1>9, <1>10, <1>12, <1>13 DEF SoundTuple
<1>15. k \in JobRecord(Len(ts))
  BY <1>8 DEF JobRecord, TupleRecord
<1> QED  BY <1>14, <1>15 DEF SoundJob, k

-----------------------------------------------------------------------------
(* The types made without a loop                                           *)

Kinds == {"uint", "sint", "bool", "real", "pointer", "string", "slice", "array"}

LEMMA BasicSound ==
  ASSUME NEW ts, NEW n \in Nat, NEW kind \in Kinds,
         NEW size \in 0..16, NEW align \in PowersOfTwo, NEW bytes \in 0..16,
         Multiple(size, align)
  PROVE  /\ Basic(kind, size, align, bytes) \in TypeRecord(n)
         /\ SoundType(ts, Basic(kind, size, align, bytes))
<1> DEFINE b == Basic(kind, size, align, bytes)
<1>1. size \in Ulen /\ align \in Ulen /\ bytes \in Nat
  BY LayoutAssumption DEF Ulen, PowersOfTwo
<1>2. <<>> \in Seq(1..n) /\ <<>> \in Seq(Nat)
  OBVIOUS
<1>3. b \in TypeRecord(n)
  <2>1. (size = bytes /\ align # 0) \in BOOLEAN
    OBVIOUS
  <2> QED  BY <1>1, <1>2, <2>1 DEF Basic, TypeRecord, Kinds
<1>4. SoundType(ts, b)
  <2>1. b.kind = kind /\ b.size = size /\ b.align = align /\ b.bytes = bytes
    BY DEF Basic
  <2>2. b.plain = (size = bytes /\ align # 0)
    BY DEF Basic
  <2> HIDE DEF b
  <2>3. kind \notin {"tuple", "padding", "va"}
    BY DEF Kinds
  <2>4. b.plain => size = bytes
    BY <2>2
  <2> QED  BY <2>1, <2>3, <2>4 DEF SoundType
<1> QED  BY <1>3, <1>4

\* () and ...: nothing is known of their layout.
LEMMA EmptySound ==
  ASSUME NEW ts, NEW n \in Nat, NEW kind \in {"tuple", "va"}
  PROVE  /\ Basic(kind, 0, 0, 0) \in TypeRecord(n)
         /\ SoundType(ts, Basic(kind, 0, 0, 0))
<1> DEFINE b == Basic(kind, 0, 0, 0)
<1>1. 0 \in Ulen /\ 0 \in Nat
  BY LayoutAssumption DEF Ulen
<1>2. <<>> \in Seq(1..n) /\ <<>> \in Seq(Nat)
  OBVIOUS
<1>3. b \in TypeRecord(n)
  <2>1. (0 = 0 /\ 0 # 0) \in BOOLEAN
    OBVIOUS
  <2> QED  BY <1>1, <1>2, <2>1 DEF Basic, TypeRecord
<1>4. SoundType(ts, b)
  <2>1. b.kind = kind /\ b.at = <<>> /\ b.elems = <<>>
    BY DEF Basic
  <2>2. b.plain = (0 = 0 /\ 0 # 0)
    BY DEF Basic
  <2> HIDE DEF b
  <2>3. ~b.plain
    BY <2>2
  <2> QED  BY <2>1, <2>3 DEF SoundType
<1> QED  BY <1>3, <1>4

LEMMA InitSound ==
  ASSUME Init
  PROVE  IInv
<1>1. Len(Builtin) = 18 /\ DOMAIN Builtin = 1..18
  BY DEF Builtin
<1>2. 18 \in Nat /\ 1 \in 0..16 /\ 8 \in 0..16 /\ 16 \in 0..16 /\ 8 \in PowersOfTwo
  BY DEF PowersOfTwo
<1>3. ASSUME NEW t \in DOMAIN Builtin
      PROVE  Builtin[t] \in TypeRecord(18) /\ SoundType(Builtin, Builtin[t])
  <2>0. /\ \A a \in {1, 2, 4, 8} :
              a \in 0..16 /\ a \in PowersOfTwo /\ Multiple(a, a)
        /\ Multiple(16, 8)
    BY DEF Multiple, PowersOfTwo
  <2>1. CASE t \in {1, 2, 3, 4}
    <3>1. PICK a \in {1, 2, 4, 8} : Builtin[t] = Basic("uint", a, a, a)
      BY <2>1 DEF Builtin
    <3>2. "uint" \in Kinds  BY DEF Kinds
    <3>3. a \in 0..16 /\ a \in PowersOfTwo /\ Multiple(a, a)
      BY <2>0
    <3>4. /\ Basic("uint", a, a, a) \in TypeRecord(18)
          /\ SoundType(Builtin, Basic("uint", a, a, a))
      BY <1>2, <3>2, <3>3, BasicSound
    <3> QED  BY <3>1, <3>4
  <2>8. CASE t \in {5, 6, 7, 8}
    <3>1. PICK a \in {1, 2, 4, 8} : Builtin[t] = Basic("sint", a, a, a)
      BY <2>8 DEF Builtin
    <3>2. "sint" \in Kinds  BY DEF Kinds
    <3>3. a \in 0..16 /\ a \in PowersOfTwo /\ Multiple(a, a)
      BY <2>0
    <3>4. /\ Basic("sint", a, a, a) \in TypeRecord(18)
          /\ SoundType(Builtin, Basic("sint", a, a, a))
      BY <1>2, <3>2, <3>3, BasicSound
    <3> QED  BY <3>1, <3>4
  <2>2. CASE t \in {9, 10, 11, 12}
    <3>1. PICK a \in {1, 2, 4, 8} : Builtin[t] = Basic("bool", a, a, 1)
      BY <2>2 DEF Builtin
    <3>2. "bool" \in Kinds  BY DEF Kinds
    <3>3. a \in 0..16 /\ a \in PowersOfTwo /\ Multiple(a, a)
      BY <2>0
    <3>4. /\ Basic("bool", a, a, 1) \in TypeRecord(18)
          /\ SoundType(Builtin, Basic("bool", a, a, 1))
      BY <1>2, <3>2, <3>3, BasicSound
    <3> QED  BY <3>1, <3>4
  <2>3. CASE t \in {13, 14}
    <3>1. PICK a \in {1, 2, 4, 8} : Builtin[t] = Basic("real", a, a, a)
      BY <2>3 DEF Builtin
    <3>2. "real" \in Kinds  BY DEF Kinds
    <3>3. a \in 0..16 /\ a \in PowersOfTwo /\ Multiple(a, a)
      BY <2>0
    <3>4. /\ Basic("real", a, a, a) \in TypeRecord(18)
          /\ SoundType(Builtin, Basic("real", a, a, a))
      BY <1>2, <3>2, <3>3, BasicSound
    <3> QED  BY <3>1, <3>4
  <2>4. CASE t = 15
    <3>1. Builtin[t] = Basic("pointer", 8, 8, 8)  BY <2>4 DEF Builtin
    <3>2. "pointer" \in Kinds  BY DEF Kinds
    <3>3. Multiple(8, 8)  BY <2>0
    <3>4. /\ Basic("pointer", 8, 8, 8) \in TypeRecord(18)
          /\ SoundType(Builtin, Basic("pointer", 8, 8, 8))
      BY <1>2, <3>2, <3>3, BasicSound
    <3> QED  BY <3>1, <3>4
  <2>5. CASE t = 16
    <3>1. Builtin[t] = Basic("string", 16, 8, 16)  BY <2>5 DEF Builtin
    <3>2. "string" \in Kinds  BY DEF Kinds
    <3>3. Multiple(16, 8)  BY <2>0
    <3>4. /\ Basic("string", 16, 8, 16) \in TypeRecord(18)
          /\ SoundType(Builtin, Basic("string", 16, 8, 16))
      BY <1>2, <3>2, <3>3, BasicSound
    <3> QED  BY <3>1, <3>4
  <2>6. CASE t = 17
    <3>1. Builtin[t] = Basic("tuple", 0, 0, 0)  BY <2>6 DEF Builtin
    <3> QED  BY <1>2, <3>1, EmptySound
  <2>7. CASE t = 18
    <3>1. Builtin[t] = Basic("va", 0, 0, 0)  BY <2>7 DEF Builtin
    <3> QED  BY <1>2, <3>1, EmptySound
  <2> QED  BY <1>1, <2>1, <2>2, <2>3, <2>4, <2>5, <2>6, <2>7, <2>8
<1>4. Builtin \in Seq(TypeRecord(18))
  <2>1. Builtin = [t \in 1..18 |-> Builtin[t]]  BY DEF Builtin
  <2> HIDE DEF Builtin
  <2>2. [t \in 1..18 |-> Builtin[t]] \in Seq(TypeRecord(18))
    BY <1>1, <1>3
  <2> QED  BY <2>1, <2>2
<1>5. SoundTypes(types)
  BY <1>1, <1>3, <1>4 DEF Init, SoundTypes
<1>6. SoundCache(types, padding)
  BY <1>1 DEF Init, SoundCache
<1>7. SoundJob(types, job)
  BY DEF Init, Idle, SoundJob, JobRecord
<1> QED  BY <1>5, <1>6, <1>7 DEF IInv

LEMMA MadeSound ==
  ASSUME IInv, NEW r \in TypeRecord(Len(types)), SoundType(types, r), Make(r)
  PROVE  IInv'
<1>1. types' = Append(types, r) /\ padding' = padding /\ job' = job
  BY DEF Make
<1>2. SoundTypes(types') /\ SoundCache(types', padding') /\ SoundJob(types', job')
  BY <1>1, ExtendTypes, ExtendCache, ExtendJob DEF IInv
<1> QED  BY <1>2 DEF IInv, SoundTypes, SoundCache, SoundJob

LEMMA MakePointerSound ==
  ASSUME IInv, NEW t \in DOMAIN types, MakePointer(t)
  PROVE  IInv'
<1> DEFINE b == Basic("pointer", 8, 8, 8)
           r == [b EXCEPT !.elems = <<t>>]
<1>1. Len(types) \in Nat /\ t \in 1..Len(types)
  BY DEF IInv, SoundTypes
<1>2. b \in TypeRecord(Len(types)) /\ SoundType(types, b)
  <2>1. /\ "pointer" \in Kinds /\ 8 \in PowersOfTwo
        /\ 8 \in 0..16 /\ Multiple(8, 8)
    BY DEF Kinds, PowersOfTwo, Multiple
  <2> QED  BY <1>1, <2>1, BasicSound
<1>3. b.kind = "pointer"  BY DEF Basic
<1> HIDE DEF b
<1>4. <<t>> \in Seq(1..Len(types))  BY <1>1
<1>5. r \in TypeRecord(Len(types))  BY <1>2, <1>4 DEF TypeRecord
<1>6. SoundType(types, r)  BY <1>2, <1>3 DEF SoundType, TypeRecord
<1>7. Make(r)  BY DEF MakePointer, b
<1> QED  BY <1>5, <1>6, <1>7, MadeSound

LEMMA MakeSliceSound ==
  ASSUME IInv, NEW t \in DOMAIN types, MakeSlice(t)
  PROVE  IInv'
<1> DEFINE b == Basic("slice", 16, 8, 16)
           r == [b EXCEPT !.elems = <<t, U64>>]
<1>1. Len(types) \in Nat /\ t \in 1..Len(types) /\ U64 \in 1..Len(types)
  BY DEF IInv, SoundTypes, Builtin, U64
<1>2. b \in TypeRecord(Len(types)) /\ SoundType(types, b)
  <2>1. /\ "slice" \in Kinds /\ 8 \in PowersOfTwo
        /\ 16 \in 0..16 /\ Multiple(16, 8)
    BY DEF Kinds, PowersOfTwo, Multiple
  <2> QED  BY <1>1, <2>1, BasicSound
<1>3. b.kind = "slice"  BY DEF Basic
<1> HIDE DEF b
<1>4. <<t, U64>> \in Seq(1..Len(types))  BY <1>1
<1>5. r \in TypeRecord(Len(types))  BY <1>2, <1>4 DEF TypeRecord
<1>6. SoundType(types, r)  BY <1>2, <1>3 DEF SoundType, TypeRecord
<1>7. Make(r)  BY DEF MakeSlice, b
<1> QED  BY <1>5, <1>6, <1>7, MadeSound

LEMMA MakeAtomicSound ==
  ASSUME IInv, NEW t \in DOMAIN types, MakeAtomic(t)
  PROVE  IInv'
<1> DEFINE b == types[t]
           r == [b EXCEPT !.kind = "atomic", !.extent = 0, !.elems = <<t>>]
<1>1. Len(types) \in Nat /\ t \in 1..Len(types)
  BY DEF IInv, SoundTypes
<1>2. b \in TypeRecord(Len(types)) /\ SoundType(types, b)
  BY DEF IInv, SoundTypes
<1>3. b.kind \in {"uint", "sint", "pointer"}  BY DEF MakeAtomic
<1> HIDE DEF b
<1>4. <<t>> \in Seq(1..Len(types))  BY <1>1
<1>5. r \in TypeRecord(Len(types))  BY <1>2, <1>4 DEF TypeRecord
<1>6. SoundType(types, r)  BY <1>2, <1>3 DEF SoundType, TypeRecord
<1>7. Make(r)  BY DEF MakeAtomic, b
<1> QED  BY <1>5, <1>6, <1>7, MadeSound

LEMMA MakeEnumSound ==
  ASSUME IInv, MakeEnum
  PROVE  IInv'
<1> DEFINE b == types[U64]
           r == [b EXCEPT !.kind = "enum", !.elems = <<U64>>]
<1>1. Len(types) \in Nat /\ U64 \in 1..Len(types) /\ U64 \in DOMAIN types
  BY DEF IInv, SoundTypes, Builtin, U64
<1>2. b \in TypeRecord(Len(types)) /\ SoundType(types, b)
  BY <1>1 DEF IInv, SoundTypes
<1> HIDE DEF b
<1>4. <<U64>> \in Seq(1..Len(types))  BY <1>1
<1>5. r \in TypeRecord(Len(types))  BY <1>2, <1>4 DEF TypeRecord
<1>6. SoundType(types, r)  BY <1>2 DEF SoundType, TypeRecord
<1>7. Make(r)  BY DEF MakeEnum, b
<1> QED  BY <1>5, <1>6, <1>7, MadeSound

\* The size of an array keeps the alignment of its elements.
LEMMA Times ==
  ASSUME NEW a \in PowersOfTwo, NEW s \in Nat, NEW n \in Nat, Multiple(s, a)
  PROVE  Multiple(s * n, a)
<1>1. s = a * (s \div a) /\ s \div a \in Nat /\ a \in Nat
  BY DEF PowersOfTwo, Multiple
<1> DEFINE q == (s \div a) * n
<1>2. s * n = a * q /\ q \in Nat
  BY <1>1
<1> HIDE DEF q
<1>3. (a * q) % a = 0
  BY <1>2 DEF PowersOfTwo
<1> QED  BY <1>2, <1>3 DEF Multiple

LEMMA MakeArraySound ==
  ASSUME IInv, NEW t \in DOMAIN types, NEW n \in Extents, MakeArray(t, n)
  PROVE  IInv'
<1> DEFINE b == types[t]
           p == b.plain /\ b.size * n < Word
           r == [Basic("array", (b.size * n) % Word, b.align, b.bytes * n)
                   EXCEPT !.extent = n, !.elems = <<t>>, !.plain = p]
<1>1. Len(types) \in Nat /\ t \in 1..Len(types) /\ n \in Nat
  BY LayoutAssumption DEF IInv, SoundTypes
<1>2. b \in TypeRecord(Len(types)) /\ SoundType(types, b)
  BY DEF IInv, SoundTypes
<1>3. b.size \in Nat /\ b.align \in Ulen /\ b.bytes \in Nat
  BY <1>2 DEF TypeRecord, Ulen
<1>4. Make(r)  BY DEF MakeArray
<1> HIDE DEF b
<1>5. b.size * n \in Nat /\ b.bytes * n \in Nat
  BY <1>1, <1>3
<1>6. r = [kind |-> "array", size |-> (b.size * n) % Word, align |-> b.align,
           bytes |-> b.bytes * n, extent |-> n, elems |-> <<t>>, at |-> <<>>,
           fields |-> <<>>, declared |-> <<>>,
           plain |-> p]
  <2> DEFINE s == (b.size * n) % Word
             w == b.bytes * n
             c == Basic("array", s, b.align, w)
             q == s = w /\ b.align # 0
  <2>1. c = [kind |-> "array", size |-> s, align |-> b.align, bytes |-> w,
             extent |-> 0, elems |-> <<>>, at |-> <<>>, fields |-> <<>>,
             declared |-> <<>>, plain |-> q]
    BY DEF Basic
  <2>2. r = [c EXCEPT !.extent = n, !.elems = <<t>>, !.plain = p]
    OBVIOUS
  <2> HIDE DEF c, p, q, s, w, r
  <2>3. r = [kind |-> "array", size |-> s, align |-> b.align, bytes |-> w,
             extent |-> n, elems |-> <<t>>, at |-> <<>>, fields |-> <<>>,
             declared |-> <<>>, plain |-> p]
    BY <2>1, <2>2
  <2> QED  BY <2>3 DEF s, w
<1> HIDE DEF r
<1>7. r \in TypeRecord(Len(types))
  <2>1. (b.size * n) % Word \in Ulen
    BY <1>5, Wraps
  <2>2. <<t>> \in Seq(1..Len(types)) /\ <<>> \in Seq(Nat) /\ <<>> \in Seq(1..Len(types))
    BY <1>1
  <2>3. (b.plain /\ b.size * n < Word) \in BOOLEAN
    OBVIOUS
  <2> QED  BY <1>1, <1>3, <1>5, <1>6, <2>1, <2>2, <2>3 DEF TypeRecord
<1>8. ASSUME r.plain
      PROVE  /\ r.bytes = r.size
             /\ r.align \in PowersOfTwo
             /\ Multiple(r.size, r.align)
  <2>1. b.plain /\ b.size * n < Word  BY <1>6, <1>8
  <2>2. b.bytes = b.size /\ b.align \in PowersOfTwo /\ Multiple(b.size, b.align)
    BY <1>2, <2>1 DEF SoundType
  <2>3. Multiple(b.size * n, b.align)
    BY <1>1, <1>3, <2>2, Times
  <2>4. (b.size * n) % Word = b.size * n
    BY <1>5, <2>1, Wraps
  <2> QED  BY <1>6, <2>2, <2>3, <2>4
<1>9. SoundType(types, r)
  <2>1. r.kind = "array"  BY <1>6
  <2> QED  BY <1>8, <2>1 DEF SoundType
<1> QED  BY <1>4, <1>7, <1>9, MadeSound

-----------------------------------------------------------------------------
(* Tuples                                                                  *)

\* Nothing changes but the job.
LEMMA JobChanged ==
  ASSUME IInv, UNCHANGED <<types, padding>>, SoundJob(types, job')
  PROVE  IInv'
<1>1. types' = types /\ padding' = padding
  OBVIOUS
<1>2. SoundTypes(types') /\ SoundCache(types', padding') /\ SoundJob(types', job')
  BY <1>1 DEF IInv
<1> QED  BY <1>2 DEF IInv, SoundTypes, SoundCache, SoundJob

LEMMA GetStuckSound ==
  ASSUME IInv, NEW align \in Ulen, GetStuck(align)
  PROVE  IInv'
<1>1. SoundJob(types, job')
  BY DEF GetStuck, SoundJob, JobRecord
<1> QED  BY <1>1, JobChanged DEF GetStuck

LEMMA BeginTupleSound ==
  ASSUME IInv, NEW named \in BOOLEAN, BeginTuple(named)
  PROVE  IInv'
<1>1. job' = [op |-> "tuple", named |-> named, declared |-> <<>>, elems |-> <<>>,
              at |-> <<>>, fields |-> <<>>, offset |-> 0, align |-> 0,
              bytes |-> 0, plain |-> TRUE]
  BY DEF BeginTuple
<1>2. 0 \in Ulen /\ 0 \in Nat
  BY LayoutAssumption DEF Ulen
<1>3. job' \in JobRecord(Len(types))
  <2>1. <<>> \in Seq(1..Len(types)) /\ <<>> \in Seq(Nat)
    OBVIOUS
  <2> QED  BY <1>1, <1>2, <2>1 DEF JobRecord
<1>4. SoundTuple(types, job')
  BY <1>1 DEF SoundTuple
<1>5. SoundJob(types, job')
  BY <1>3, <1>4 DEF SoundJob
<1> QED  BY <1>5, JobChanged DEF BeginTuple

LEMMA AddElementSound ==
  ASSUME IInv, NEW t \in DOMAIN types, AddElement(t)
  PROVE  IInv'
<1> DEFINE gap == IF types[t].kind = "va" THEN 0 ELSE Gap(job.offset, types[t].align)
           j == Padded(job, gap, job.named)
<1>0. Word \in Nat /\ Word > 16
  BY LayoutAssumption
<1>1. job.op = "tuple" /\ job \in TupleRecord(Len(types)) /\ SoundTuple(types, job)
  BY DEF AddElement, IInv, SoundJob, JobRecord, TupleRecord
<1>2. types[t] \in TypeRecord(Len(types)) /\ SoundType(types, types[t])
  BY DEF IInv, SoundTypes
<1>3. job.offset \in Ulen /\ job.named \in BOOLEAN /\ types[t].align \in Ulen
  BY <1>1, <1>2 DEF TupleRecord, TypeRecord
<1>4. CASE gap \in 0..MaxPadding
  <2>1. EnsurePadding(gap) /\ types' = TypesWithGap(gap) /\ job' = Placed(j, t)
    BY <1>4 DEF AddElement
  <2>2. Gapped(gap, types') /\ SoundCache(types', padding')
    BY <1>4, <2>1, GapMade
  <2>3. Behind(gap, types', j)
    BY <1>1, <1>3, <1>4, <2>2, PaddedSound
  <2>4. SoundTypes(types') /\ t \in DOMAIN types' /\ types'[t] = types[t]
    BY <2>2 DEF Gapped
  <2>5. ASSUME j.plain, types[t].plain
        PROVE  /\ Multiple(j.bytes, types[t].align)
               /\ j.bytes < Word => j.bytes = j.offset
    <3>1. types[t].kind # "va" /\ types[t].align \in PowersOfTwo
      BY <1>2, <2>5 DEF SoundType
    <3>2. job.plain /\ j.bytes = job.bytes + gap /\ j.offset = (job.offset + gap) % Word
      BY <2>3, <2>5 DEF Behind
    <3>3. job.bytes = job.offset
      BY <1>1, <3>2 DEF SoundTuple
    <3>4. gap = Gap(job.offset, types[t].align)
      BY <3>1
    <3> HIDE DEF gap, j
    <3>5. (job.offset + gap) % types[t].align = 0
      BY <1>3, <3>1, <3>4, GapAligns
    <3>6. job.offset + gap \in Nat
      BY <1>3, <1>4 DEF Ulen
    <3> QED  BY <3>2, <3>3, <3>5, <3>6, Wraps DEF Multiple
  <2>6. j \in TupleRecord(Len(types')) /\ Len(j.at) = Len(j.elems)
    BY <2>3 DEF Behind
  <2>7. ASSUME j.plain
        PROVE  /\ j.align \in PowersOfTwo \union {0}
               /\ \A i \in DOMAIN j.at : Multiple(j.at[i], types'[j.elems[i]].align)
    BY <1>1, <2>3, <2>7 DEF Behind, SoundTuple
  <2> HIDE DEF j, gap
  <2>8. SoundJob(types', Placed(j, t))
    BY <2>4, <2>5, <2>6, <2>7, PlacedSound
  <2> QED  BY <2>1, <2>2, <2>4, <2>8 DEF IInv, SoundTypes, SoundCache, SoundJob
<1>5. CASE gap \notin 0..MaxPadding
  <2>1. GetStuck(types[t].align)
    BY <1>5 DEF AddElement
  <2> QED  BY <1>3, <2>1, GetStuckSound
<1> QED  BY <1>4, <1>5

LEMMA EndTupleSound ==
  ASSUME IInv, EndTuple
  PROVE  IInv'
<1> DEFINE gap == Gap(job.offset, job.align)
           j == Padded(job, gap, TRUE)
           ts == TypesWithGap(gap)
           p == j.plain /\ j.bytes < Word
           r == [kind |-> "tuple", size |-> j.offset, align |-> j.align,
                 bytes |-> j.bytes, extent |-> 0, elems |-> j.elems,
                 at |-> j.at, fields |-> j.fields,
                 declared |-> j.declared, plain |-> p]
<1>1. /\ job.op = "tuple" /\ job.declared # <<>>
      /\ job \in TupleRecord(Len(types)) /\ SoundTuple(types, job)
  BY DEF EndTuple, IInv, SoundJob, JobRecord, TupleRecord
<1>2. job.offset \in Ulen /\ job.align \in Ulen
  BY <1>1 DEF TupleRecord
<1>3. CASE gap \in 0..MaxPadding
  <2>1. EnsurePadding(gap) /\ types' = Append(ts, r) /\ job' = Idle
    BY <1>3 DEF EndTuple
  <2>2. Gapped(gap, ts) /\ SoundCache(ts, padding')
    BY <1>3, <2>1, GapMade
  <2>3. Behind(gap, ts, j)
    BY <1>1, <1>3, <2>2, PaddedSound
  <2>4. job.offset + gap \in Nat
    BY <1>2, <1>3 DEF Ulen
  <2>5. ASSUME p
        PROVE  /\ j.bytes = j.offset
               /\ j.align \in PowersOfTwo
               /\ Multiple(j.offset, j.align)
               /\ \A i \in DOMAIN j.at : Multiple(j.at[i], ts[j.elems[i]].align)
    <3>1. /\ j.plain /\ job.plain /\ j.bytes < Word
          /\ j.bytes = job.bytes + gap
          /\ j.offset = (job.offset + gap) % Word
          /\ j.align = job.align
      BY <2>3, <2>5 DEF Behind
    <3>2. /\ job.bytes = job.offset /\ job.align \in PowersOfTwo
      BY <1>1, <3>1 DEF SoundTuple
    <3>3. (job.offset + gap) % job.align = 0
      BY <1>2, <3>2, GapAligns
    <3>4. \A i \in DOMAIN j.at : Multiple(j.at[i], ts[j.elems[i]].align)
      BY <2>3, <3>1 DEF Behind
    <3> HIDE DEF gap, j
    <3>5. (job.offset + gap) % Word = job.offset + gap
      BY <2>4, <3>1, <3>2, Wraps
    <3> QED  BY <3>1, <3>2, <3>3, <3>4, <3>5 DEF Multiple
  <2>6. j \in TupleRecord(Len(ts)) /\ Len(j.at) = Len(j.elems)
    BY <2>3 DEF Behind
  <2>7. SoundTypes(ts)
    BY <2>2 DEF Gapped
  <2>8. p \in BOOLEAN
    OBVIOUS
  <2> HIDE DEF gap, j, ts, p
  <2>9. r \in TypeRecord(Len(ts))
    BY <2>6, <2>8 DEF TypeRecord, TupleRecord
  <2>10. SoundType(ts, r)
    BY <2>5, <2>6 DEF SoundType
  <2> HIDE DEF r
  <2>11. SoundTypes(types') /\ SoundCache(types', padding')
    BY <2>1, <2>2, <2>7, <2>9, <2>10, ExtendTypes, ExtendCache
  <2>12. SoundJob(types', job')
    BY <2>1 DEF Idle, SoundJob, JobRecord
  <2> QED  BY <2>11, <2>12 DEF IInv, SoundTypes, SoundCache, SoundJob
<1>4. CASE gap \notin 0..MaxPadding
  <2>1. GetStuck(job.align)
    BY <1>4 DEF EndTuple
  <2> QED  BY <1>2, <2>1, GetStuckSound
<1> QED  BY <1>3, <1>4

-----------------------------------------------------------------------------
(* Unions                                                                  *)

LEMMA BeginUnionSound ==
  ASSUME IInv, BeginUnion
  PROVE  IInv'
<1>1. 0 \in Ulen
  BY LayoutAssumption DEF Ulen
<1>2. <<>> \in Seq(1..Len(types))
  OBVIOUS
<1>3. SoundJob(types, job')
  BY <1>1, <1>2 DEF BeginUnion, SoundJob, JobRecord
<1> QED  BY <1>3, JobChanged DEF BeginUnion

LEMMA AddVariantSound ==
  ASSUME IInv, NEW t \in DOMAIN types, AddVariant(t)
  PROVE  IInv'
<1> DEFINE size == Larger(job.size, types[t].size)
           align == Larger(size, types[t].align)
<1>1. /\ job.op = "union" /\ job.size \in Ulen /\ job.align \in Ulen
      /\ job.declared \in Seq(1..Len(types))
      /\ job = [op |-> "union", declared |-> job.declared, size |-> job.size,
                align |-> job.align]
  BY DEF AddVariant, IInv, SoundJob, JobRecord
<1>2. types[t].size \in Ulen /\ types[t].align \in Ulen /\ t \in 1..Len(types)
  <2>1. types[t] \in TypeRecord(Len(types)) /\ t \in 1..Len(types)
    BY DEF IInv, SoundTypes
  <2> QED  BY <2>1 DEF TypeRecord
<1>3. job' = [job EXCEPT !.declared = Append(@, t), !.size = size, !.align = align]
  BY DEF AddVariant
<1>4. size \in Ulen /\ align \in Ulen
  BY <1>1, <1>2 DEF Larger
<1> HIDE DEF size, align
<1>5. Append(job.declared, t) \in Seq(1..Len(types))
  BY <1>1, <1>2
<1>6. job' = [op |-> "union", declared |-> Append(job.declared, t),
              size |-> size, align |-> align]
  BY <1>1, <1>3
<1>7. SoundJob(types, job')
  BY <1>4, <1>5, <1>6 DEF SoundJob, JobRecord
<1> QED  BY <1>7, JobChanged DEF AddVariant

LEMMA EndUnionSound ==
  ASSUME IInv, EndUnion
  PROVE  IInv'
<1> DEFINE offset == (job.size + 1) % Word
           gap == Gap(offset, job.align)
           ts == TypesWithGap(gap)
           bytes == job.size + 1 + gap
           q == offset = bytes /\ job.align # 0
           r == [kind |-> "union", size |-> offset, align |-> job.align,
                 bytes |-> bytes, extent |-> 0, elems |-> job.declared,
                 at |-> <<>>, fields |-> <<>>, declared |-> job.declared,
                 plain |-> FALSE]
<1>1. /\ job.size \in Ulen /\ job.align \in Ulen
      /\ job.declared \in Seq(1..Len(types))
  BY DEF EndUnion, IInv, SoundJob, JobRecord
<1>2. job.size \in Nat
  BY <1>1 DEF Ulen
<1>3. offset \in Ulen
  BY <1>2, Wraps
<1>4. CASE gap \in 0..MaxPadding
  <2>1. /\ EnsurePadding(gap) /\ job' = Idle
        /\ types' = Append(ts,
             [Basic("union", offset, job.align, bytes)
                EXCEPT !.elems = job.declared, !.declared = job.declared,
                       !.plain = FALSE])
    BY <1>4 DEF EndUnion
  <2>2. Basic("union", offset, job.align, bytes) =
          [kind |-> "union", size |-> offset, align |-> job.align, bytes |-> bytes,
           extent |-> 0, elems |-> <<>>, at |-> <<>>, fields |-> <<>>,
           declared |-> <<>>, plain |-> q]
    BY DEF Basic
  <2>3. Gapped(gap, ts) /\ SoundCache(ts, padding')
    BY <1>4, <2>1, GapMade
  <2>4. bytes \in Nat
    BY <1>2, <1>4
  <2>5. SoundTypes(ts) /\ job.declared \in Seq(1..Len(ts))
    BY <2>3 DEF Gapped, SoundJob, JobRecord, EndUnion
  <2> HIDE DEF offset, gap, ts, bytes, q
  <2>6. types' = Append(ts, r)
    <3> DEFINE b == Basic("union", offset, job.align, bytes)
    <3>1. /\ b = [kind |-> "union", size |-> offset, align |-> job.align,
                  bytes |-> bytes, extent |-> 0, elems |-> <<>>, at |-> <<>>,
                  fields |-> <<>>, declared |-> <<>>, plain |-> q]
          /\ types' = Append(ts, [b EXCEPT !.elems = job.declared,
                                           !.declared = job.declared,
                                           !.plain = FALSE])
      BY <2>1, <2>2
    <3> DEFINE d == job.declared
               f == FALSE
               u == [b EXCEPT !.elems = d, !.declared = d, !.plain = f]
    <3>2. u = [b EXCEPT !.elems = d, !.declared = d, !.plain = f]
      OBVIOUS
    <3>3. types' = Append(ts, u)
      BY <3>1
    <3> HIDE DEF b, d, f, u
    <3>4. b = [kind |-> "union", size |-> offset, align |-> job.align,
               bytes |-> bytes, extent |-> 0, elems |-> <<>>, at |-> <<>>,
               fields |-> <<>>, declared |-> <<>>, plain |-> q]
      BY <3>1
    <3>5. u = [kind |-> "union", size |-> offset, align |-> job.align,
               bytes |-> bytes, extent |-> 0, elems |-> d,
               at |-> <<>>, fields |-> <<>>, declared |-> d, plain |-> f]
      BY <3>2, <3>4
    <3> QED  BY <3>3, <3>5 DEF d, f
  <2>7. r \in TypeRecord(Len(ts))
    <3>1. <<>> \in Seq(Nat)
      OBVIOUS
    <3> QED  BY <1>1, <1>3, <2>4, <2>5, <3>1 DEF TypeRecord
  <2>8. SoundType(ts, r)
    BY DEF SoundType
  <2> HIDE DEF r
  <2>9. SoundTypes(types') /\ SoundCache(types', padding')
    BY <2>3, <2>5, <2>6, <2>7, <2>8, ExtendTypes, ExtendCache
  <2>10. SoundJob(types', job')
    BY <2>1 DEF Idle, SoundJob, JobRecord
  <2> QED  BY <2>9, <2>10 DEF IInv, SoundTypes, SoundCache, SoundJob
<1>5. CASE gap \notin 0..MaxPadding
  <2>1. GetStuck(job.align)
    BY <1>5 DEF EndUnion
  <2> QED  BY <1>1, <2>1, GetStuckSound
<1> QED  BY <1>4, <1>5

-----------------------------------------------------------------------------
(* The theorems                                                            *)

LEMMA NextSound ==
  ASSUME IInv, [Next]_vars
  PROVE  IInv'
<1>1. CASE Next
  <2>1. CASE \E t \in Nameable : AddElement(t)
    BY <2>1, AddElementSound DEF Nameable
  <2>2. ASSUME NEW t \in Sized,
               \/ MakePointer(t) \/ MakeSlice(t) \/ MakeAtomic(t)
               \/ \E n \in Extents : MakeArray(t, n)
               \/ AddVariant(t)
        PROVE  IInv'
    <3>1. t \in DOMAIN types
      BY DEF Sized, Nameable
    <3>2. CASE MakePointer(t)  BY <3>1, <3>2, MakePointerSound
    <3>3. CASE MakeSlice(t)  BY <3>1, <3>3, MakeSliceSound
    <3>4. CASE MakeAtomic(t)  BY <3>1, <3>4, MakeAtomicSound
    <3>5. CASE \E n \in Extents : MakeArray(t, n)  BY <3>1, <3>5, MakeArraySound
    <3>6. CASE AddVariant(t)  BY <3>1, <3>6, AddVariantSound
    <3> QED  BY <2>2, <3>2, <3>3, <3>4, <3>5, <3>6
  <2>3. CASE MakeEnum  BY <2>3, MakeEnumSound
  <2>4. CASE \E named \in BOOLEAN : BeginTuple(named)  BY <2>4, BeginTupleSound
  <2>5. CASE EndTuple  BY <2>5, EndTupleSound
  <2>6. CASE BeginUnion  BY <2>6, BeginUnionSound
  <2>7. CASE EndUnion  BY <2>7, EndUnionSound
  <2> QED  BY <1>1, <2>1, <2>2, <2>3, <2>4, <2>5, <2>6, <2>7 DEF Next
<1>2. CASE UNCHANGED vars
  BY <1>2 DEF vars, IInv, SoundTypes, SoundType, SoundCache, SoundJob, SoundTuple
<1> QED  BY <1>1, <1>2

\* The inductive invariant is one: what make() has laid out stays laid out,
\* and the tuple whose loop runs is laid out as far as the loop has come.
THEOREM LayoutInvariant == Spec => []IInv
<1>1. Init => IInv
  BY InitSound
<1>2. IInv /\ [Next]_vars => IInv'
  BY NextSound
<1> QED  BY <1>1, <1>2, PTL DEF Spec

\* Types and the caches are what the code's declarations say they are; the
\* elements of every type are types already made.
THEOREM TypeCorrect == Spec => []TypeOK
<1>1. IInv => TypeOK
  BY DEF IInv, SoundTypes, SoundCache, SoundJob, TypeOK
<1> QED  BY <1>1, LayoutInvariant, PTL

\* CgTypeCache::make computes the sizes and places elements at the offsets
\* that LLVM uses, for every type without a union, a wide boolean or a size
\* that does not fit in a word.
THEOREM LayoutSound == Spec => []LayoutIsLLVMs
<1>1. IInv => LayoutIsLLVMs
  BY DEF IInv, SoundTypes, SoundType, LayoutIsLLVMs, ElementsAligned
<1> QED  BY <1>1, LayoutInvariant, PTL

\* ensure_padding never hands out a padding of another size, whatever sizes
\* were asked for before and however often the cache has shrunk.
THEOREM PaddingSound == Spec => []PaddingCacheIsSound
<1>1. IInv => PaddingCacheIsSound
  BY DEF IInv, SoundCache, PaddingCacheIsSound
<1> QED  BY <1>1, LayoutInvariant, PTL

-----------------------------------------------------------------------------
(* Tuples and what they were declared to hold                              *)
(*                                                                         *)
(* TupleIndex goes from the one to the other by counting.  That it arrives *)
(* needs a map that nobody stores: place, from the declaration of a tuple  *)
(* to the places of its elements, the paddings left out.                   *)

\* place leads from each declared type, in order, to every element that is
\* not a padding.
Follows(ts, elems, declared, place) ==
  /\ \A v, w \in 1..Len(declared) : v < w => place[v] < place[w]
  /\ \A v \in 1..Len(declared) : /\ elems[place[v]] = declared[v]
                                 /\ ts[declared[v]].kind # "padding"
  /\ \A i \in 1..Len(elems) :
       ts[elems[i]].kind = "padding" \/ \E v \in 1..Len(declared) : place[v] = i

PlaceMaps(elems, declared) == [1..Len(declared) -> 1..Len(elems)]

\* The fields name the elements by their place in the declaration, and leave
\* the paddings unnamed.
Names(fields, elems, declared, place) ==
  /\ Len(fields) = Len(elems)
  /\ \A v \in 1..Len(declared) : fields[place[v]] = v
  /\ \A i \in 1..Len(elems) :
       fields[i] = 0 \/ \E v \in 1..Len(declared) : place[v] = i

OrderedType(ts, r) ==
  r.kind = "tuple" =>
    \E place \in PlaceMaps(r.elems, r.declared) :
      /\ Follows(ts, r.elems, r.declared, place)
      /\ \/ Names(r.fields, r.elems, r.declared, place)
         \/ r.fields \in {<<>>, <<0>>}

OrderedJob(ts, j) ==
  j.op = "tuple" =>
    \E place \in PlaceMaps(j.elems, j.declared) :
      /\ Follows(ts, j.elems, j.declared, place)
      /\ IF j.named THEN Names(j.fields, j.elems, j.declared, place)
         ELSE j.fields = <<>>

OrderedTypes(ts) == \A t \in DOMAIN ts : OrderedType(ts, ts[t])

OInv == OrderedTypes(types) /\ OrderedJob(types, job)

-----------------------------------------------------------------------------
(* One element more                                                        *)

\* us has the first n types of ts, and maybe more.
SameUpTo(n, ts, us) == \A t \in 1..n : us[t] = ts[t]

LEMMA FollowsGrows ==
  ASSUME NEW n \in Nat, NEW ts, NEW us, SameUpTo(n, ts, us),
         NEW elems \in Seq(1..n), NEW declared \in Seq(1..n),
         NEW place, Follows(ts, elems, declared, place)
  PROVE  Follows(us, elems, declared, place)
<1>0. /\ \A i \in 1..Len(elems) : elems[i] \in 1..n
      /\ \A v \in 1..Len(declared) : declared[v] \in 1..n
  OBVIOUS
<1>1. \A i \in 1..Len(elems) : us[elems[i]] = ts[elems[i]]
  BY <1>0 DEF SameUpTo
<1>2. \A v \in 1..Len(declared) : us[declared[v]] = ts[declared[v]]
  BY <1>0 DEF SameUpTo
<1> QED  BY <1>1, <1>2 DEF Follows

LEMMA TypeGrows ==
  ASSUME NEW n \in Nat, NEW ts, NEW us, SameUpTo(n, ts, us),
         NEW r \in TypeRecord(n), OrderedType(ts, r)
  PROVE  OrderedType(us, r)
<1>1. r.elems \in Seq(1..n) /\ r.declared \in Seq(1..n)
  BY DEF TypeRecord
<1> QED  BY <1>1, FollowsGrows DEF OrderedType

LEMMA JobGrows ==
  ASSUME NEW n \in Nat, NEW ts, NEW us, SameUpTo(n, ts, us),
         NEW j \in JobRecord(n), OrderedJob(ts, j)
  PROVE  OrderedJob(us, j)
<1>1. ASSUME j.op = "tuple"  PROVE  j.elems \in Seq(1..n) /\ j.declared \in Seq(1..n)
  BY <1>1 DEF JobRecord
<1> QED  BY <1>1, FollowsGrows DEF OrderedJob

\* A padding behind.
LEMMA FollowsPadding ==
  ASSUME NEW n \in Nat, NEW ts, NEW elems \in Seq(1..n), NEW declared \in Seq(1..n),
         NEW place \in PlaceMaps(elems, declared), Follows(ts, elems, declared, place),
         NEW e \in 1..n, ts[e].kind = "padding"
  PROVE  /\ place \in PlaceMaps(Append(elems, e), declared)
         /\ Follows(ts, Append(elems, e), declared, place)
         /\ \A fields \in Seq(Nat) :
              Names(fields, elems, declared, place) =>
                Names(Append(fields, 0), Append(elems, e), declared, place)
<1> DEFINE l == Len(elems)
           es == Append(elems, e)
           m == Len(declared)
<1>1. /\ l \in Nat /\ m \in Nat /\ Len(es) = l + 1 /\ es[l + 1] = e
      /\ \A i \in 1..l : es[i] = elems[i]
  OBVIOUS
<1>2. place \in [1..m -> 1..l]
  BY DEF PlaceMaps
<1>3. \A i \in 1..(l + 1) : i \in 1..l \/ i = l + 1
  BY <1>1
<1>4. place \in [1..m -> 1..Len(es)]
  BY <1>1, <1>2
<1>5. Follows(ts, es, declared, place)
  <2>1. \A v \in 1..m : es[place[v]] = declared[v]
    BY <1>1, <1>2 DEF Follows
  <2>2. \A i \in 1..Len(es) :
          ts[es[i]].kind = "padding" \/ \E v \in 1..m : place[v] = i
    BY <1>1, <1>3 DEF Follows
  <2> QED  BY <2>1, <2>2 DEF Follows
<1>6. ASSUME NEW fields \in Seq(Nat), Names(fields, elems, declared, place)
      PROVE  Names(Append(fields, 0), es, declared, place)
  <2> DEFINE fs == Append(fields, 0)
  <2>1. /\ Len(fields) = l /\ Len(fs) = l + 1 /\ fs[l + 1] = 0
        /\ \A i \in 1..l : fs[i] = fields[i]
    BY <1>6 DEF Names
  <2> HIDE DEF fs
  <2>2. \A v \in 1..m : fs[place[v]] = v
    BY <1>2, <1>6, <2>1 DEF Names
  <2>3. \A i \in 1..Len(es) : fs[i] = 0 \/ \E v \in 1..m : place[v] = i
    BY <1>1, <1>3, <1>6, <2>1 DEF Names
  <2>4. Len(fs) = Len(es)
    BY <1>1, <2>1
  <2> QED  BY <2>2, <2>3, <2>4 DEF Names, fs
<1> QED  BY <1>4, <1>5, <1>6 DEF PlaceMaps

\* A declared element behind.
LEMMA FollowsElement ==
  ASSUME NEW n \in Nat, NEW ts, NEW elems \in Seq(1..n), NEW declared \in Seq(1..n),
         NEW place \in PlaceMaps(elems, declared), Follows(ts, elems, declared, place),
         NEW e \in 1..n, ts[e].kind # "padding"
  PROVE  \E map \in PlaceMaps(Append(elems, e), Append(declared, e)) :
           /\ Follows(ts, Append(elems, e), Append(declared, e), map)
           /\ \A fields \in Seq(Nat) :
                Names(fields, elems, declared, place) =>
                  Names(Append(fields, Len(declared) + 1), Append(elems, e),
                        Append(declared, e), map)
<1> DEFINE l == Len(elems)
           es == Append(elems, e)
           m == Len(declared)
           ds == Append(declared, e)
           map == [v \in 1..(m + 1) |-> IF v = m + 1 THEN l + 1 ELSE place[v]]
<1>1. /\ l \in Nat /\ m \in Nat /\ Len(es) = l + 1 /\ es[l + 1] = e
      /\ \A i \in 1..l : es[i] = elems[i]
      /\ Len(ds) = m + 1 /\ ds[m + 1] = e
      /\ \A v \in 1..m : ds[v] = declared[v]
  OBVIOUS
<1>2. place \in [1..m -> 1..l]
  BY DEF PlaceMaps
<1> HIDE DEF es, ds, l, m
<1>3. /\ \A i \in 1..(l + 1) : i \in 1..l \/ i = l + 1
      /\ \A v \in 1..(m + 1) : v \in 1..m \/ v = m + 1
      /\ \A v \in 1..m : v \in 1..(m + 1) /\ v # m + 1 /\ v < m + 1
      /\ \A i \in 1..l : i \in 1..(l + 1) /\ i < l + 1
      /\ m + 1 \in 1..(m + 1) /\ l + 1 \in 1..(l + 1)
  BY <1>1
<1>4. /\ map \in [1..(m + 1) -> 1..(l + 1)] /\ map[m + 1] = l + 1
      /\ \A v \in 1..m : map[v] = place[v] /\ map[v] \in 1..l
  BY <1>2, <1>3
<1> HIDE DEF map
<1>a. /\ \A v, w \in 1..m : v < w => place[v] < place[w]
      /\ \A v \in 1..m : elems[place[v]] = declared[v] /\ ts[declared[v]].kind # "padding"
      /\ \A i \in 1..l :
           ts[elems[i]].kind = "padding" \/ \E v \in 1..m : place[v] = i
  BY DEF Follows, l, m
<1>5. Follows(ts, es, ds, map)
  <2>1. ASSUME NEW v \in 1..(m + 1), NEW w \in 1..(m + 1), v < w
        PROVE  map[v] < map[w]
    <3>1. v \in 1..m
      BY <1>1, <1>3, <2>1
    <3>2. CASE w = m + 1
      BY <1>3, <1>4, <3>1, <3>2
    <3>3. CASE w \in 1..m
      BY <1>4, <1>a, <2>1, <3>1, <3>3
    <3> QED  BY <1>3, <3>2, <3>3
  <2>2. ASSUME NEW v \in 1..(m + 1)
        PROVE  es[map[v]] = ds[v] /\ ts[ds[v]].kind # "padding"
    <3>1. CASE v = m + 1
      BY <1>1, <1>4, <3>1
    <3>2. CASE v \in 1..m
      <4>1. map[v] = place[v] /\ map[v] \in 1..l /\ ds[v] = declared[v]
        BY <1>1, <1>4, <3>2
      <4>2. elems[place[v]] = declared[v] /\ ts[declared[v]].kind # "padding"
        BY <1>a, <3>2
      <4>3. es[map[v]] = elems[map[v]]
        BY <1>1, <4>1
      <4> QED  BY <4>1, <4>2, <4>3
    <3> QED  BY <1>3, <3>1, <3>2
  <2>3. ASSUME NEW i \in 1..(l + 1)
        PROVE  ts[es[i]].kind = "padding" \/ \E v \in 1..(m + 1) : map[v] = i
    <3>1. CASE i = l + 1
      BY <1>3, <1>4, <3>1
    <3>2. CASE i \in 1..l
      <4>1. es[i] = elems[i]
        BY <1>1, <3>2
      <4>2. \A v \in 1..m : v \in 1..(m + 1) /\ map[v] = place[v]
        BY <1>3, <1>4
      <4> QED  BY <1>a, <3>2, <4>1, <4>2
    <3> QED  BY <1>3, <3>1, <3>2
  <2> QED  BY <1>1, <2>1, <2>2, <2>3 DEF Follows
<1>6. ASSUME NEW fields \in Seq(Nat), Names(fields, elems, declared, place)
      PROVE  Names(Append(fields, m + 1), es, ds, map)
  <2> DEFINE fs == Append(fields, m + 1)
  <2>1. Len(fields) = l /\ (\A v \in 1..m : fields[place[v]] = v)
        /\ \A i \in 1..l : fields[i] = 0 \/ \E v \in 1..m : place[v] = i
    BY <1>6 DEF Names, l, m
  <2>2. /\ Len(fs) = l + 1 /\ fs[l + 1] = m + 1
        /\ \A i \in 1..l : fs[i] = fields[i]
    <3>1. PICK q, fq : q = m + 1 /\ fq = Append(fields, q)
      OBVIOUS
    <3>2. q \in Nat /\ Len(fields) = l
      BY <1>1, <2>1, <3>1
    <3>3. /\ Len(fq) = l + 1 /\ fq[l + 1] = q
          /\ \A i \in 1..l : fq[i] = fields[i]
      BY <3>1, <3>2, Appended
    <3> QED  BY <3>1, <3>3
  <2> HIDE DEF fs
  <2>3. \A v \in 1..(m + 1) : fs[map[v]] = v
    <3> TAKE v \in 1..(m + 1)
    <3>1. CASE v = m + 1
      BY <1>4, <2>2, <3>1
    <3>2. CASE v \in 1..m
      <4>1. map[v] \in 1..l /\ map[v] = place[v]
        BY <1>4, <3>2
      <4>2. fs[map[v]] = fields[place[v]]
        BY <2>2, <4>1
      <4> QED  BY <2>1, <3>2, <4>2
    <3> QED  BY <1>3, <3>1, <3>2
  <2>4. \A i \in 1..(l + 1) : fs[i] = 0 \/ \E v \in 1..(m + 1) : map[v] = i
    <3> TAKE i \in 1..(l + 1)
    <3>1. CASE i = l + 1
      BY <1>3, <1>4, <3>1
    <3>2. CASE i \in 1..l
      <4>1. \A v \in 1..m : v \in 1..(m + 1) /\ map[v] = place[v]
        BY <1>3, <1>4
      <4> QED  BY <2>1, <2>2, <3>2, <4>1
    <3> QED  BY <1>3, <3>1, <3>2
  <2> QED  BY <1>1, <2>2, <2>3, <2>4 DEF Names, fs
<1>7. map \in PlaceMaps(es, ds)
  BY <1>1, <1>4 DEF PlaceMaps
<1> QED  BY <1>5, <1>6, <1>7 DEF es, ds, m

-----------------------------------------------------------------------------
(* Every step keeps the order                                              *)

\* What ensure_padding files under a size is a padding.
LEMMA PaddingKind ==
  ASSUME IInv, NEW n \in 0..MaxPadding, n # 0, NEW ts, ts = TypesWithGap(n)
  PROVE  /\ SameUpTo(Len(types), types, ts)
         /\ ts[PaddingId(n)].kind = "padding"
<1>0. n \in Nat /\ MaxPadding \in Nat
  BY LayoutAssumption
<1>1. /\ SoundTypes(types) /\ SoundCache(types, padding)
      /\ Len(types) \in Nat /\ DOMAIN types = 1..Len(types)
  BY DEF IInv, SoundTypes
<1>2. CASE Cached(n)
  <2>1. ts = types /\ PaddingId(n) = padding[n + 1]
    BY <1>2 DEF TypesWithGap, TypesWithPadding, PaddingId
  <2>2. types[padding[n + 1]].kind = "padding"
    BY <1>1, <1>2 DEF Cached, SoundCache
  <2> QED  BY <2>1, <2>2 DEF SameUpTo
<1>3. CASE ~Cached(n)
  <2> DEFINE r == Basic("padding", n, 1, n)
  <2>1. ts = Append(types, r) /\ PaddingId(n) = Len(types) + 1
    BY <1>3 DEF TypesWithGap, TypesWithPadding, PaddingId
  <2>2. r.kind = "padding"
    BY DEF Basic
  <2> HIDE DEF r
  <2>3. ts[Len(types) + 1] = r /\ \A t \in 1..Len(types) : ts[t] = types[t]
    BY <1>1, <2>1 DEF SoundTypes
  <2> QED  BY <2>1, <2>2, <2>3 DEF SameUpTo
<1> QED  BY <1>2, <1>3

\* The running tuple with a gap of n bytes behind it.
OrderedBehind(ts, j, named) ==
  \E place \in PlaceMaps(j.elems, j.declared) :
    /\ Follows(ts, j.elems, j.declared, place)
    /\ IF job.named THEN Names(j.fields, j.elems, j.declared, place)
       ELSE j.fields = <<>> \/ (named /\ j.fields = <<0>>)

LEMMA PaddedOrdered ==
  ASSUME IInv, OInv, job.op = "tuple", NEW n \in 0..MaxPadding,
         NEW named \in BOOLEAN, job.named => named,
         NEW ts, ts = TypesWithGap(n), Gapped(n, ts),
         NEW j, j = Padded(job, n, named)
  PROVE  /\ OrderedBehind(ts, j, named)
         /\ j.declared = job.declared /\ j.named = job.named
<1>1. /\ job \in TupleRecord(Len(types)) /\ OrderedJob(types, job)
      /\ Len(types) \in Nat
  BY DEF IInv, OInv, SoundTypes, SoundJob, JobRecord, TupleRecord
<1>2. /\ job.elems \in Seq(1..Len(types)) /\ job.declared \in Seq(1..Len(types))
      /\ job.fields \in Seq(Nat) /\ job.named \in BOOLEAN
  BY <1>1 DEF TupleRecord
<1>3. PICK place \in PlaceMaps(job.elems, job.declared) :
        /\ Follows(types, job.elems, job.declared, place)
        /\ IF job.named THEN Names(job.fields, job.elems, job.declared, place)
           ELSE job.fields = <<>>
  BY <1>1 DEF OrderedJob
<1>4. CASE n = 0
  <2>1. j = job /\ ts = types
    BY <1>4 DEF Padded, TypesWithGap
  <2> QED  BY <1>3, <2>1 DEF OrderedBehind
<1>5. CASE n # 0
  <2> DEFINE e == PaddingId(n)
  <2>1. SameUpTo(Len(types), types, ts) /\ ts[e].kind = "padding"
    BY <1>5, PaddingKind
  <2>2. e \in 1..Len(ts) /\ Len(types) <= Len(ts) /\ Len(ts) \in Nat
    BY <1>5 DEF Gapped, SoundTypes
  <2>3. j = [job EXCEPT !.elems = Append(@, e), !.at = Append(@, job.bytes),
                        !.bytes = @ + n, !.offset = (@ + n) % Word,
                        !.fields = IF named THEN Append(@, 0) ELSE @]
    BY <1>5 DEF Padded
  <2> HIDE DEF e
  <2>4. /\ j.elems = Append(job.elems, e) /\ j.declared = job.declared
        /\ j.named = job.named
        /\ j.fields = (IF named THEN Append(job.fields, 0) ELSE job.fields)
    BY <1>1, <2>3 DEF TupleRecord
  <2>5. Follows(ts, job.elems, job.declared, place)
    BY <1>1, <1>2, <1>3, <2>1, FollowsGrows
  <2>6. job.elems \in Seq(1..Len(ts)) /\ job.declared \in Seq(1..Len(ts))
    BY <1>1, <1>2, <2>2, WidenSeq
  <2>7. /\ place \in PlaceMaps(j.elems, j.declared)
        /\ Follows(ts, j.elems, j.declared, place)
        /\ \A fields \in Seq(Nat) :
             Names(fields, job.elems, job.declared, place) =>
               Names(Append(fields, 0), j.elems, j.declared, place)
    BY <1>3, <2>1, <2>2, <2>4, <2>5, <2>6, FollowsPadding
  <2>8. IF job.named THEN Names(j.fields, j.elems, j.declared, place)
        ELSE j.fields = <<>> \/ (named /\ j.fields = <<0>>)
    <3>1. CASE job.named
      BY <1>2, <1>3, <2>4, <2>7, <3>1
    <3>2. CASE ~job.named
      <4>1. Append(<<>>, 0) = <<0>>
        OBVIOUS
      <4> QED  BY <1>3, <2>4, <3>2, <4>1
    <3> QED  BY <3>1, <3>2
  <2> QED  BY <2>4, <2>7, <2>8 DEF OrderedBehind
<1> QED  BY <1>4, <1>5

\* Types only grow, and a job that goes on stays ordered.
LEMMA OrderKept ==
  ASSUME IInv, OInv, NEW us, SameUpTo(Len(types), types, us)
  PROVE  /\ \A t \in DOMAIN types : OrderedType(us, types[t])
         /\ OrderedJob(us, job)
<1>1. /\ Len(types) \in Nat /\ job \in JobRecord(Len(types))
      /\ \A t \in DOMAIN types : types[t] \in TypeRecord(Len(types))
  BY DEF IInv, SoundTypes, SoundJob
<1>2. ASSUME NEW t \in DOMAIN types
      PROVE  OrderedType(us, types[t])
  <2>1. types[t] \in TypeRecord(Len(types)) /\ OrderedType(types, types[t])
    BY <1>1 DEF OInv, OrderedTypes
  <2> QED  BY <1>1, <2>1, TypeGrows
<1>3. OrderedJob(us, job)
  BY <1>1, JobGrows DEF OInv
<1> QED  BY <1>2, <1>3

\* A padding more, maybe.
LEMMA OrderedGap ==
  ASSUME IInv, OInv, NEW ts, SameUpTo(Len(types), types, ts),
         \/ ts = types
         \/ Len(ts) = Len(types) + 1 /\ ts[Len(ts)].kind = "padding",
         ts \in Seq(TypeRecord(Len(ts)))
  PROVE  OrderedTypes(ts)
<1>1. Len(types) \in Nat /\ DOMAIN types = 1..Len(types) /\ Len(ts) \in Nat
  BY DEF IInv, SoundTypes
<1>2. ASSUME NEW t \in 1..Len(ts)
      PROVE  OrderedType(ts, ts[t])
  <2>1. CASE t \in 1..Len(types)
    BY <1>1, <2>1, OrderKept DEF SameUpTo
  <2>2. CASE t \notin 1..Len(types)
    BY <1>1, <2>2 DEF OrderedType
  <2> QED  BY <2>1, <2>2
<1>3. DOMAIN ts = 1..Len(ts)
  OBVIOUS
<1> QED  BY <1>2, <1>3 DEF OrderedTypes

\* One type more, made of those before.
LEMMA OrderedMore ==
  ASSUME NEW ts, OrderedTypes(ts), ts \in Seq(TypeRecord(Len(ts))), NEW r,
         r.kind # "tuple" \/ (OrderedType(ts, r) /\ r \in TypeRecord(Len(ts)))
  PROVE  OrderedTypes(Append(ts, r))
<1>1. Len(ts) \in Nat /\ DOMAIN ts = 1..Len(ts)
  OBVIOUS
<1>2. \A t \in 1..Len(ts) : OrderedType(ts, ts[t])
  BY <1>1 DEF OrderedTypes
<1> DEFINE us == Append(ts, r)
<1>3. /\ Len(us) = Len(ts) + 1 /\ us[Len(ts) + 1] = r
      /\ \A t \in 1..Len(ts) : us[t] = ts[t]
      /\ DOMAIN us = 1..(Len(ts) + 1)
  BY <1>1
<1>4. SameUpTo(Len(ts), ts, us)
  BY <1>3 DEF SameUpTo
<1> HIDE DEF us
<1>5. ASSUME NEW t \in 1..(Len(ts) + 1)
      PROVE  OrderedType(us, us[t])
  <2>1. CASE t \in 1..Len(ts)
    <3>1. ts[t] \in TypeRecord(Len(ts)) /\ OrderedType(ts, ts[t]) /\ us[t] = ts[t]
      BY <1>2, <1>3, <2>1
    <3> QED  BY <1>1, <1>4, <3>1, TypeGrows
  <2>2. CASE t = Len(ts) + 1 /\ r.kind = "tuple"
    BY <1>1, <1>3, <1>4, <2>2, TypeGrows
  <2>3. CASE t = Len(ts) + 1 /\ r.kind # "tuple"
    BY <1>3, <2>3 DEF OrderedType
  <2> QED  BY <1>1, <2>1, <2>2, <2>3
<1> QED  BY <1>3, <1>5 DEF OrderedTypes, us

\* A type that is not a tuple is made.
LEMMA MadeOrdered ==
  ASSUME IInv, OInv, NEW r, r.kind # "tuple", Make(r)
  PROVE  OInv'
<1>1. types' = Append(types, r) /\ job' = job
  BY DEF Make
<1>2. types \in Seq(TypeRecord(Len(types))) /\ SameUpTo(Len(types), types, types)
  BY DEF IInv, SoundTypes, SameUpTo
<1>4. OrderedTypes(Append(types, r))
  BY <1>2, OrderedMore DEF OInv
<1>5. OrderedJob(Append(types, r), job)
  <2>1. PICK us : us = Append(types, r)
    OBVIOUS
  <2>2. SameUpTo(Len(types), types, us)
    BY <1>2, <2>1 DEF SameUpTo
  <2> QED  BY <2>1, <2>2, OrderKept
<1>6. OrderedTypes(types') /\ OrderedJob(types', job')
  BY <1>1, <1>4, <1>5
<1> QED  BY <1>6 DEF OInv

\* Types stay, and the new job holds no tuple but one in order.
LEMMA JobOrdered ==
  ASSUME OInv, types' = types, OrderedJob(types, job')
  PROVE  OInv'
<1>1. OrderedTypes(types') /\ OrderedJob(types', job')
  BY DEF OInv
<1> QED  BY <1>1 DEF OInv

LEMMA OtherJob ==
  ASSUME OInv, types' = types, job'.op # "tuple"
  PROVE  OInv'
<1>1. OrderedJob(types, job')
  BY DEF OrderedJob
<1> QED  BY <1>1, JobOrdered

LEMMA BeginOrdered ==
  ASSUME IInv, OInv, NEW named \in BOOLEAN, BeginTuple(named)
  PROVE  OInv'
<1>1. PICK j : j = job'
  OBVIOUS
<1>2. /\ types' = types /\ j.elems = <<>> /\ j.declared = <<>> /\ j.fields = <<>>
      /\ j.named = named
  BY <1>1 DEF BeginTuple
<1>3. Len(<<>>) = 0 /\ 1..0 = {}
  OBVIOUS
<1>4. PICK place : place \in PlaceMaps(<<>>, <<>>)
  <2>1. PlaceMaps(<<>>, <<>>) = [{} -> {}]
    BY <1>3 DEF PlaceMaps
  <2>2. [v \in {} |-> v] \in [{} -> {}]
    OBVIOUS
  <2> QED  BY <2>1, <2>2
<1>5. Follows(types, <<>>, <<>>, place) /\ Names(<<>>, <<>>, <<>>, place)
  BY <1>3 DEF Follows, Names
<1>6. OrderedJob(types, j)
  BY <1>2, <1>4, <1>5 DEF OrderedJob
<1> QED  BY <1>1, <1>2, <1>6, JobOrdered

\* The types with a gap of n bytes, when ensure_padding has made it.
LEMMA GapOrdered ==
  ASSUME IInv, OInv, NEW n \in 0..MaxPadding, NEW ts, ts = TypesWithGap(n)
  PROVE  /\ SameUpTo(Len(types), types, ts)
         /\ \/ ts = types
            \/ Len(ts) = Len(types) + 1 /\ ts[Len(ts)].kind = "padding"
<1>0. Len(types) \in Nat /\ types \in Seq(TypeRecord(Len(types)))
  BY DEF IInv, SoundTypes
<1>1. CASE n = 0 \/ Cached(n)
  BY <1>1 DEF TypesWithGap, TypesWithPadding, SameUpTo
<1>2. CASE n # 0 /\ ~Cached(n)
  <2>1. PICK r : r = Basic("padding", n, 1, n)
    OBVIOUS
  <2>2. r.kind = "padding"
    BY <2>1 DEF Basic
  <2>3. ts = Append(types, r)
    BY <1>2, <2>1 DEF TypesWithGap, TypesWithPadding
  <2>4. /\ Len(ts) = Len(types) + 1 /\ ts[Len(types) + 1] = r
        /\ \A t \in 1..Len(types) : ts[t] = types[t]
    BY <1>0, <2>3
  <2> QED  BY <2>2, <2>4 DEF SameUpTo
<1> QED  BY <1>1, <1>2

LEMMA AddOrdered ==
  ASSUME IInv, OInv, NEW t \in Nameable, AddElement(t)
  PROVE  OInv'
<1> DEFINE gap == IF types[t].kind = "va" THEN 0 ELSE Gap(job.offset, types[t].align)
           j == Padded(job, gap, job.named)
<1>1. job.op = "tuple" /\ job \in TupleRecord(Len(types)) /\ job.named \in BOOLEAN
  BY DEF AddElement, IInv, SoundJob, JobRecord, TupleRecord
<1>2. t \in DOMAIN types /\ types[t].kind # "padding"
  BY DEF Nameable
<1>3. CASE gap \notin 0..MaxPadding
  <2>1. types' = types /\ job'.op = "stuck"
    BY <1>3 DEF AddElement, GetStuck
  <2> QED  BY <2>1, OtherJob
<1>4. CASE gap \in 0..MaxPadding
  <2>1. EnsurePadding(gap) /\ types' = TypesWithGap(gap) /\ job' = Placed(j, t)
    BY <1>4 DEF AddElement
  <2>2. PICK ts : ts = types' /\ ts = TypesWithGap(gap)
    BY <2>1
  <2> HIDE DEF gap
  <2>3. Gapped(gap, ts)
    BY <1>4, <2>1, <2>2, GapMade
  <2>4. OrderedBehind(ts, j, job.named) /\ j.declared = job.declared /\ j.named = job.named
    BY <1>1, <1>4, <2>2, <2>3, PaddedOrdered
  <2>5. j \in TupleRecord(Len(ts)) /\ SoundTypes(ts) /\ Len(ts) \in Nat
    BY <1>1, <1>4, <2>3, PaddedSound DEF Behind, Gapped, SoundTypes
  <2>6. t \in 1..Len(ts) /\ ts[t] = types[t]
    BY <1>2, <2>3, <2>5 DEF Gapped, SoundTypes
  <2> HIDE DEF j
  <2>7. PICK k : k = job' /\ k = Placed(j, t)
    BY <2>1
  <2>8. /\ k.elems = Append(j.elems, t) /\ k.declared = Append(j.declared, t)
        /\ k.fields = (IF j.named THEN Append(j.fields, Len(j.declared) + 1) ELSE j.fields)
        /\ k.named = j.named
    <3>1. k = Placed(j, t) /\ j \in TupleRecord(Len(ts))
      BY <2>5, <2>7
    <3> QED  BY <3>1 DEF Placed, TupleRecord
  <2>9. /\ j.elems \in Seq(1..Len(ts)) /\ j.declared \in Seq(1..Len(ts))
        /\ j.fields \in Seq(Nat)
    BY <2>5 DEF TupleRecord
  <2>10. PICK place \in PlaceMaps(j.elems, j.declared) :
           /\ Follows(ts, j.elems, j.declared, place)
           /\ IF j.named THEN Names(j.fields, j.elems, j.declared, place)
              ELSE j.fields = <<>>
    BY <2>4 DEF OrderedBehind
  <2>11. PICK map \in PlaceMaps(k.elems, k.declared) :
           /\ Follows(ts, k.elems, k.declared, map)
           /\ \A fields \in Seq(Nat) :
                Names(fields, j.elems, j.declared, place) =>
                  Names(Append(fields, Len(j.declared) + 1), k.elems, k.declared, map)
    <3>1. PICK es, ds : es = j.elems /\ ds = j.declared
      OBVIOUS
    <3>2. /\ es \in Seq(1..Len(ts)) /\ ds \in Seq(1..Len(ts))
          /\ place \in PlaceMaps(es, ds) /\ Follows(ts, es, ds, place)
          /\ Len(ts) \in Nat /\ t \in 1..Len(ts) /\ ts[t].kind # "padding"
      BY <1>2, <2>5, <2>6, <2>9, <2>10, <3>1
    <3>3. \E map \in PlaceMaps(Append(es, t), Append(ds, t)) :
            /\ Follows(ts, Append(es, t), Append(ds, t), map)
            /\ \A fields \in Seq(Nat) :
                 Names(fields, es, ds, place) =>
                   Names(Append(fields, Len(ds) + 1), Append(es, t), Append(ds, t), map)
      BY <3>2, FollowsElement
    <3> QED  BY <2>8, <3>1, <3>3
  <2>12. IF k.named THEN Names(k.fields, k.elems, k.declared, map)
         ELSE k.fields = <<>>
    BY <2>8, <2>9, <2>10, <2>11
  <2>13. OrderedJob(ts, k)
    BY <2>11, <2>12 DEF OrderedJob
  <2>14. OrderedTypes(ts)
    <3>1. /\ SameUpTo(Len(types), types, ts)
          /\ \/ ts = types
             \/ Len(ts) = Len(types) + 1 /\ ts[Len(ts)].kind = "padding"
      BY <1>4, <2>2, GapOrdered
    <3>2. ts \in Seq(TypeRecord(Len(ts)))
      BY <2>5 DEF SoundTypes
    <3> QED  BY <3>1, <3>2, OrderedGap
  <2>15. OrderedTypes(types') /\ OrderedJob(types', job')
    BY <2>2, <2>7, <2>13, <2>14
  <2> QED  BY <2>15 DEF OInv
<1> QED  BY <1>3, <1>4

LEMMA EndTupleOrdered ==
  ASSUME IInv, OInv, EndTuple
  PROVE  OInv'
<1> DEFINE gap == Gap(job.offset, job.align)
           j == Padded(job, gap, TRUE)
<1>1. job.op = "tuple" /\ job \in TupleRecord(Len(types)) /\ job.named \in BOOLEAN
  BY DEF EndTuple, IInv, SoundJob, JobRecord, TupleRecord
<1>3. CASE gap \notin 0..MaxPadding
  <2>1. types' = types /\ job'.op = "stuck"
    BY <1>3 DEF EndTuple, GetStuck
  <2> QED  BY <2>1, OtherJob
<1>4. CASE gap \in 0..MaxPadding
  <2> DEFINE p == j.plain /\ j.bytes < Word
             r == [kind |-> "tuple", size |-> j.offset, align |-> j.align,
                   bytes |-> j.bytes, extent |-> 0, elems |-> j.elems,
                   at |-> j.at, fields |-> j.fields,
                   declared |-> j.declared, plain |-> p]
  <2>0. PICK ts : ts = TypesWithGap(gap)
    OBVIOUS
  <2>1. EnsurePadding(gap) /\ types' = Append(ts, r) /\ job' = Idle
    BY <1>4, <2>0 DEF EndTuple
  <2> HIDE DEF gap
  <2>3. Gapped(gap, ts)
    BY <1>4, <2>0, <2>1, GapMade
  <2>4. OrderedBehind(ts, j, TRUE) /\ j.named = job.named
    BY <1>1, <1>4, <2>0, <2>3, PaddedOrdered
  <2>5. j \in TupleRecord(Len(ts)) /\ SoundTypes(ts) /\ Len(ts) \in Nat
    <3>1. Behind(gap, ts, j)
      BY <1>1, <1>4, <2>3, PaddedSound
    <3> HIDE DEF j
    <3> QED  BY <2>3, <3>1 DEF Behind, Gapped, SoundTypes
  <2>6. p \in BOOLEAN
    OBVIOUS
  <2> HIDE DEF j, p
  <2>7. r \in TypeRecord(Len(ts))
    BY <2>5, <2>6 DEF TypeRecord, TupleRecord
  <2>8. OrderedType(ts, r)
    <3>1. PICK place \in PlaceMaps(j.elems, j.declared) :
            /\ Follows(ts, j.elems, j.declared, place)
            /\ \/ Names(j.fields, j.elems, j.declared, place)
               \/ j.fields \in {<<>>, <<0>>}
      BY <2>4 DEF OrderedBehind
    <3>2. r.elems = j.elems /\ r.declared = j.declared /\ r.fields = j.fields
      OBVIOUS
    <3> QED  BY <3>1, <3>2 DEF OrderedType
  <2> HIDE DEF r
  <2>9. OrderedTypes(Append(ts, r))
    <3>1. /\ SameUpTo(Len(types), types, ts)
          /\ \/ ts = types
             \/ Len(ts) = Len(types) + 1 /\ ts[Len(ts)].kind = "padding"
      BY <1>4, <2>0, GapOrdered
    <3>2. ts \in Seq(TypeRecord(Len(ts)))
      BY <2>5 DEF SoundTypes
    <3>3. OrderedTypes(ts)
      BY <3>1, <3>2, OrderedGap
    <3> QED  BY <2>7, <2>8, <3>2, <3>3, OrderedMore
  <2>10. OrderedTypes(types') /\ OrderedJob(types', job')
    BY <2>1, <2>9 DEF OrderedJob, Idle
  <2> QED  BY <2>10 DEF OInv
<1> QED  BY <1>3, <1>4

LEMMA EndUnionOrdered ==
  ASSUME IInv, OInv, EndUnion
  PROVE  OInv'
<1> DEFINE offset == (job.size + 1) % Word
           gap == Gap(offset, job.align)
<1>3. CASE gap \notin 0..MaxPadding
  <2>1. types' = types /\ job'.op = "stuck"
    BY <1>3 DEF EndUnion, GetStuck
  <2> QED  BY <2>1, OtherJob
<1>4. CASE gap \in 0..MaxPadding
  <2> DEFINE b == Basic("union", offset, job.align, job.size + 1 + gap)
  <2>0. PICK ts, r : /\ ts = TypesWithGap(gap)
                     /\ r = [b EXCEPT !.elems = job.declared,
                                      !.declared = job.declared, !.plain = FALSE]
    OBVIOUS
  <2>1. EnsurePadding(gap) /\ types' = Append(ts, r) /\ job' = Idle
    BY <1>4, <2>0 DEF EndUnion
  <2>2. r.kind = "union"
    <3>1. b.kind = "union" /\ "kind" \in DOMAIN b
      BY DEF Basic
    <3> HIDE DEF b
    <3> QED  BY <2>0, <3>1
  <2> HIDE DEF gap, b
  <2>3. Gapped(gap, ts)
    BY <1>4, <2>0, <2>1, GapMade
  <2>4. SoundTypes(ts)
    BY <2>3 DEF Gapped
  <2>9. OrderedTypes(Append(ts, r))
    <3>1. /\ SameUpTo(Len(types), types, ts)
          /\ \/ ts = types
             \/ Len(ts) = Len(types) + 1 /\ ts[Len(ts)].kind = "padding"
      BY <1>4, <2>0, GapOrdered
    <3>2. ts \in Seq(TypeRecord(Len(ts)))
      BY <2>4 DEF SoundTypes
    <3>3. OrderedTypes(ts)
      BY <3>1, <3>2, OrderedGap
    <3> QED  BY <2>2, <3>2, <3>3, OrderedMore
  <2>10. OrderedTypes(types') /\ OrderedJob(types', job')
    BY <2>1, <2>9 DEF OrderedJob, Idle
  <2> QED  BY <2>10 DEF OInv
<1> QED  BY <1>3, <1>4

LEMMA InitOrdered ==
  ASSUME Init
  PROVE  OInv
<1>1. /\ DOMAIN Builtin = 1..18
      /\ Builtin[17] = Basic("tuple", 0, 0, 0)
      /\ \A t \in 1..18 : t # 17 => Builtin[t].kind # "tuple"
  BY DEF Builtin, Basic
<1> DEFINE r == Basic("tuple", 0, 0, 0)
<1>2. r.elems = <<>> /\ r.declared = <<>> /\ r.fields = <<>>
  BY DEF Basic
<1> HIDE DEF r
<1>3. Len(<<>>) = 0 /\ 1..0 = {}
  OBVIOUS
<1>4. PICK place : place \in PlaceMaps(<<>>, <<>>)
  <2>1. PlaceMaps(<<>>, <<>>) = [{} -> {}]
    BY <1>3 DEF PlaceMaps
  <2>2. [v \in {} |-> v] \in [{} -> {}]
    OBVIOUS
  <2> QED  BY <2>1, <2>2
<1>5. Follows(Builtin, <<>>, <<>>, place)
  BY <1>3 DEF Follows
<1>6. OrderedType(Builtin, r)
  BY <1>2, <1>4, <1>5 DEF OrderedType
<1>7. OrderedTypes(Builtin)
  <2>1. \A t \in 1..18 : t # 17 => OrderedType(Builtin, Builtin[t])
    BY <1>1 DEF OrderedType
  <2> QED  BY <1>1, <1>6, <2>1 DEF OrderedTypes, r
<1>8. OrderedJob(types, job)
  BY DEF Init, Idle, OrderedJob
<1> QED  BY <1>7, <1>8 DEF Init, OInv

LEMMA NextOrdered ==
  ASSUME IInv, OInv, [Next]_vars
  PROVE  OInv'
<1>1. CASE Next
  <2>1. CASE \E t \in Nameable : AddElement(t)
    BY <2>1, AddOrdered
  <2>2. ASSUME NEW t \in Sized,
               \/ MakePointer(t) \/ MakeSlice(t) \/ MakeAtomic(t)
               \/ \E n \in Extents : MakeArray(t, n)
               \/ AddVariant(t)
        PROVE  OInv'
    <3>1. CASE MakePointer(t)
      <4>1. PICK r : r = [Basic("pointer", 8, 8, 8) EXCEPT !.elems = <<t>>]
        OBVIOUS
      <4>2. r.kind = "pointer" /\ Make(r)
        BY <3>1, <4>1 DEF MakePointer, Basic
      <4> QED  BY <4>2, MadeOrdered
    <3>2. CASE MakeSlice(t)
      <4>1. PICK r : r = [Basic("slice", 16, 8, 16) EXCEPT !.elems = <<t, U64>>]
        OBVIOUS
      <4>2. r.kind = "slice" /\ Make(r)
        BY <3>2, <4>1 DEF MakeSlice, Basic
      <4> QED  BY <4>2, MadeOrdered
    <3>3. CASE MakeAtomic(t)
      <4>1. types[t] \in TypeRecord(Len(types))
        BY DEF IInv, SoundTypes, Sized, Nameable
      <4>2. PICK r : r = [types[t] EXCEPT !.kind = "atomic", !.extent = 0, !.elems = <<t>>]
        OBVIOUS
      <4>3. r.kind = "atomic"
        BY <4>1, <4>2 DEF TypeRecord
      <4>4. Make(r)
        BY <3>3, <4>2 DEF MakeAtomic
      <4> QED  BY <4>3, <4>4, MadeOrdered
    <3>4. ASSUME NEW n \in Extents, MakeArray(t, n)
          PROVE  OInv'
      <4> DEFINE b == Basic("array", (types[t].size * n) % Word, types[t].align,
                            types[t].bytes * n)
                 p == types[t].plain /\ types[t].size * n < Word
      <4>1. PICK r : r = [b EXCEPT !.extent = n, !.elems = <<t>>, !.plain = p]
        OBVIOUS
      <4>2. Make(r)
        BY <3>4, <4>1 DEF MakeArray
      <4>3. b.kind = "array" /\ "kind" \in DOMAIN b
        BY DEF Basic
      <4> HIDE DEF b, p
      <4>4. r.kind = "array"
        BY <4>1, <4>3
      <4> QED  BY <4>2, <4>4, MadeOrdered
    <3>5. CASE AddVariant(t)
      <4>1. types' = types /\ job.op = "union" /\ job \in JobRecord(Len(types))
        BY <3>5 DEF AddVariant, IInv, SoundJob
      <4>2. PICK d, s, a : job' = [job EXCEPT !.declared = d, !.size = s, !.align = a]
        BY <3>5 DEF AddVariant
      <4>3. job'.op = "union"
        BY <4>1, <4>2 DEF JobRecord
      <4> QED  BY <4>1, <4>3, OtherJob
    <3> QED  BY <2>2, <3>1, <3>2, <3>3, <3>4, <3>5
  <2>3. CASE MakeEnum
    <3>1. types[U64] \in TypeRecord(Len(types))
      BY DEF IInv, SoundTypes, U64, Builtin
    <3>2. PICK r : r = [types[U64] EXCEPT !.kind = "enum", !.elems = <<U64>>]
      OBVIOUS
    <3>3. r.kind = "enum"
      BY <3>1, <3>2 DEF TypeRecord
    <3>4. Make(r)
      BY <2>3, <3>2 DEF MakeEnum
    <3> QED  BY <3>3, <3>4, MadeOrdered
  <2>4. CASE \E named \in BOOLEAN : BeginTuple(named)
    BY <2>4, BeginOrdered
  <2>5. CASE EndTuple
    BY <2>5, EndTupleOrdered
  <2>6. CASE BeginUnion
    <3>1. types' = types /\ job'.op = "union"
      BY <2>6 DEF BeginUnion
    <3> QED  BY <3>1, OtherJob
  <2>7. CASE EndUnion
    BY <2>7, EndUnionOrdered
  <2> QED  BY <1>1, <2>1, <2>2, <2>3, <2>4, <2>5, <2>6, <2>7 DEF Next
<1>2. CASE UNCHANGED vars
  <2>1. types' = types /\ job' = job
    BY <1>2 DEF vars
  <2> QED  BY <2>1, JobOrdered DEF OInv
<1> QED  BY <1>1, <1>2

\* The elements of every tuple, finished or not, follow its declaration.
LEMMA Ordered == Spec => [](IInv /\ OInv)
<1>1. Init => IInv /\ OInv
  BY InitSound, InitOrdered
<1>2. IInv /\ OInv /\ [Next]_vars => (IInv /\ OInv)'
  BY NextSound, NextOrdered
<1> QED  BY <1>1, <1>2, PTL DEF Spec

-----------------------------------------------------------------------------
(* Counting elements                                                       *)

\* As many elements as a set of places that the first n of place enumerate.
LEMMA Counted ==
  ASSUME NEW n \in Nat, NEW place, NEW S,
         \A v, w \in 1..n : v < w => place[v] < place[w],
         \A v \in 1..n : place[v] \in Int,
         S = {place[v] : v \in 1..n}
  PROVE  Cardinality(S) = n
<1> DEFINE f == [v \in 1..n |-> place[v]]
<1>1. f \in [1..n -> S] /\ \A v \in 1..n : f[v] = place[v]
  OBVIOUS
<1>2. \A v, w \in 1..n : f[v] = f[w] => v = w
  <2> SUFFICES ASSUME NEW v \in 1..n, NEW w \in 1..n, v # w
               PROVE  f[v] # f[w]
    OBVIOUS
  <2>1. place[v] \in Int /\ place[w] \in Int /\ (v < w \/ w < v)
    OBVIOUS
  <2>2. place[v] < place[w] \/ place[w] < place[v]
    BY <2>1
  <2> QED  BY <1>1, <2>1, <2>2
<1>3. \A x \in S : \E v \in 1..n : f[v] = x
  BY <1>1
<1> HIDE DEF f
<1>4. f \in Bijection(1..n, S)
  BY <1>1, <1>2, <1>3 DEF Bijection, Injection, Surjection, IsInjective
<1>5. ExistsBijection(1..n, S)
  BY <1>4 DEF ExistsBijection
<1>6. IsFiniteSet(1..n) /\ Cardinality(1..n) = n
  BY FS_Interval
<1> QED  BY <1>5, <1>6, FS_Bijection

\* How tuple t is laid out: place enumerates its elements.
Laid(t, place) ==
  /\ types[t].elems \in Seq(1..Len(types)) /\ types[t].declared \in Seq(1..Len(types))
  /\ types[t].fields \in Seq(Nat)
  /\ place \in PlaceMaps(types[t].elems, types[t].declared)
  /\ Follows(types, types[t].elems, types[t].declared, place)
  /\ \/ Names(types[t].fields, types[t].elems, types[t].declared, place)
     \/ types[t].fields \in {<<>>, <<0>>}

LEMMA TupleLaid ==
  ASSUME IInv, OInv, NEW t \in Tuples
  PROVE  \E place : Laid(t, place)
<1>1. /\ types[t] \in TypeRecord(Len(types)) /\ types[t].kind = "tuple"
      /\ OrderedType(types, types[t])
  BY DEF IInv, OInv, SoundTypes, OrderedTypes, Tuples
<1>2. /\ types[t].elems \in Seq(1..Len(types))
      /\ types[t].declared \in Seq(1..Len(types)) /\ types[t].fields \in Seq(Nat)
  BY <1>1 DEF TypeRecord
<1> QED  BY <1>1, <1>2 DEF OrderedType, Laid

\* Where the places lead, and how many elements come before each.
LEMMA PlaceFacts ==
  ASSUME NEW t, NEW place, Laid(t, place),
         NEW l, l = Length(t), NEW m, m = Len(types[t].declared)
  PROVE  /\ l \in Nat /\ m \in Nat
         /\ \A v \in 1..m :
              /\ place[v] \in 1..l /\ types[t].elems[place[v]] = types[t].declared[v]
              /\ ~IsPadding(types[t].elems[place[v]])
              /\ Taken(t, place[v]) = v - 1
         /\ \A v, w \in 1..m : v < w => place[v] < place[w]
         /\ \A i \in 1..l :
              IsPadding(types[t].elems[i]) \/ \E v \in 1..m : place[v] = i
         /\ Taken(t, l + 1) = m
<1> DEFINE es == types[t].elems
           ds == types[t].declared
<1>1. /\ es \in Seq(1..Len(types)) /\ ds \in Seq(1..Len(types))
      /\ l = Len(es) /\ m = Len(ds) /\ l \in Nat /\ m \in Nat
  BY DEF Laid, Length
<1> HIDE DEF es, ds
<1>2. place \in [1..m -> 1..l] /\ Follows(types, es, ds, place)
  BY <1>1 DEF Laid, PlaceMaps, es, ds
<1>3. /\ \A v, w \in 1..m : v < w => place[v] < place[w]
      /\ \A v \in 1..m : place[v] \in 1..l /\ es[place[v]] = ds[v] /\ ~IsPadding(es[place[v]])
      /\ \A i \in 1..l : IsPadding(es[i]) \/ \E v \in 1..m : place[v] = i
  BY <1>1, <1>2 DEF Follows, IsPadding
<1>4. ASSUME NEW n \in 0..m, NEW i \in 1..(l + 1),
             \A v \in 1..m : place[v] < i <=> v <= n
      PROVE  Taken(t, i) = n
  <2> DEFINE S == {k \in 1..(i - 1) : ~IsPadding(es[k])}
  <2>0. /\ \A v \in 1..n : v \in 1..m /\ v <= n
        /\ \A k \in 1..(i - 1) : k \in 1..l /\ k < i
        /\ \A k \in 1..l : k < i => k \in 1..(i - 1)
    BY <1>1, <1>4
  <2>1. \A k \in S : \E v \in 1..n : place[v] = k
    <3> TAKE k \in S
    <3>1. PICK v \in 1..m : place[v] = k
      BY <1>3, <2>0
    <3>2. v <= n
      BY <1>4, <2>0, <3>1
    <3>3. v \in 1..n
      BY <1>4, <3>2
    <3> QED  BY <3>1, <3>3
  <2>2. \A v \in 1..n : place[v] \in S
    <3> TAKE v \in 1..n
    <3>1. v \in 1..m /\ place[v] \in 1..l /\ place[v] < i /\ ~IsPadding(es[place[v]])
      BY <1>3, <1>4, <2>0
    <3> QED  BY <2>0, <3>1
  <2> HIDE DEF S
  <2>3. S = {place[v] : v \in 1..n}
    BY <2>1, <2>2
  <2>4. /\ \A v, w \in 1..n : v < w => place[v] < place[w]
        /\ \A v \in 1..n : place[v] \in Int
        /\ n \in Nat
    BY <1>1, <1>3, <2>0
  <2>5. Cardinality(S) = n
    BY <2>3, <2>4, Counted
  <2> QED  BY <2>5 DEF Taken, S, es
<1>5. ASSUME NEW v \in 1..m
      PROVE  Taken(t, place[v]) = v - 1
  <2>1. v - 1 \in 0..m /\ place[v] \in 1..(l + 1) /\ place[v] \in Int /\ v \in Int
    BY <1>1, <1>3
  <2>2. ASSUME NEW w \in 1..m
        PROVE  place[w] < place[v] <=> w <= v - 1
    <3>1. place[w] \in Int /\ place[v] \in Int /\ (w < v \/ w = v \/ v < w)
      BY <1>3
    <3>2. CASE w < v
      BY <1>3, <3>2
    <3>3. CASE w = v
      BY <3>1, <3>3
    <3>4. CASE v < w
      <4>1. place[v] < place[w]
        BY <1>3, <3>4
      <4> QED  BY <3>1, <3>4, <4>1
    <3> QED  BY <3>1, <3>2, <3>3, <3>4
  <2>3. PICK n, i : n = v - 1 /\ i = place[v]
    OBVIOUS
  <2>4. n \in 0..m /\ i \in 1..(l + 1) /\ \A w \in 1..m : place[w] < i <=> w <= n
    BY <2>1, <2>2, <2>3
  <2>5. Taken(t, i) = n
    BY <1>4, <2>4
  <2> QED  BY <2>3, <2>5
<1>6. Taken(t, l + 1) = m
  <2>1. m \in 0..m /\ l + 1 \in 1..(l + 1)
    BY <1>1
  <2>2. \A v \in 1..m : place[v] < l + 1 <=> v <= m
    BY <1>1, <1>3
  <2> QED  BY <1>4, <2>1, <2>2
<1> QED  BY <1>1, <1>3, <1>5, <1>6 DEF es, ds

LEMMA PlaceFound ==
  ASSUME NEW t, NEW place, Laid(t, place),
         NEW m, m = Len(types[t].declared), NEW v \in Nat
  PROVE  PlaceOf(t, v, Length(t)) = IF v < m THEN place[v + 1] ELSE 0
<1> DEFINE l == Length(t)
           at == {i \in 1..l : ~IsPadding(types[t].elems[i]) /\ Taken(t, i) = v}
<1>1. /\ l \in Nat /\ m \in Nat
      /\ \A w \in 1..m : /\ place[w] \in 1..l /\ ~IsPadding(types[t].elems[place[w]])
                         /\ Taken(t, place[w]) = w - 1
      /\ \A i \in 1..l :
           IsPadding(types[t].elems[i]) \/ \E w \in 1..m : place[w] = i
  BY PlaceFacts
<1>2. PlaceOf(t, v, l) = IF at = {} THEN 0 ELSE CHOOSE i \in at : TRUE
  BY DEF PlaceOf
<1> HIDE DEF l
<1>3. ASSUME NEW i \in at
      PROVE  v < m /\ i = place[v + 1]
  <2>1. PICK w \in 1..m : place[w] = i
    BY <1>1
  <2>2. v = w - 1
    BY <1>1, <2>1
  <2> QED  BY <1>1, <2>1, <2>2
<1>4. ASSUME v < m
      PROVE  place[v + 1] \in at
  <2>1. v + 1 \in 1..m /\ (v + 1) - 1 = v
    BY <1>1, <1>4
  <2>2. Taken(t, place[v + 1]) = (v + 1) - 1
    BY <1>1, <2>1
  <2> QED  BY <1>1, <2>1, <2>2
<1> HIDE DEF at
<1>5. CASE v < m
  <2>1. at # {} /\ \A i \in at : i = place[v + 1]
    BY <1>3, <1>4, <1>5
  <2> QED  BY <1>2, <1>5, <2>1 DEF l
<1>6. CASE ~(v < m)
  <2>1. at = {}
    BY <1>3, <1>6
  <2> QED  BY <1>2, <1>6, <2>1 DEF l
<1> QED  BY <1>5, <1>6

\* at_virt gives the type declared.
LEMMA VirtFound ==
  ASSUME NEW t, NEW place, Laid(t, place),
         NEW m, m = Len(types[t].declared), NEW v \in Nat
  PROVE  AtVirt(t, v) = IF v < m THEN types[t].declared[v + 1] ELSE 0
<1>1. PlaceOf(t, v, Length(t)) = IF v < m THEN place[v + 1] ELSE 0
  BY PlaceFound
<1>2. m \in Nat /\ \A w \in 1..m : place[w] \in 1..Length(t)
                              /\ types[t].elems[place[w]] = types[t].declared[w]
  BY PlaceFacts
<1>3. ASSUME v < m
      PROVE  place[v + 1] # 0 /\ types[t].elems[place[v + 1]] = types[t].declared[v + 1]
  <2>1. v + 1 \in 1..m
    BY <1>2, <1>3
  <2>2. place[v + 1] \in 1..Length(t)
    BY <1>2, <2>1
  <2> QED  BY <1>2, <2>1, <2>2
<1> QED  BY <1>1, <1>3 DEF AtVirt

-----------------------------------------------------------------------------
(* The theorems about tuples                                               *)

LEMMA FieldFound ==
  ASSUME NEW t, NEW place, Laid(t, place),
         types[t].fields # <<>>, types[t].fields[1] # 0,
         NEW v \in 1..Len(types[t].declared)
  PROVE  /\ FieldPlace(t, v) # 0
         /\ types[t].elems[FieldPlace(t, v)] = types[t].declared[v]
<1> DEFINE fs == types[t].fields
           l == Length(t)
           m == Len(types[t].declared)
           with == {i \in DOMAIN fs : fs[i] = v}
<1>1. /\ l \in Nat /\ m \in Nat
      /\ \A w \in 1..m : /\ place[w] \in 1..l
                         /\ types[t].elems[place[w]] = types[t].declared[w]
  BY PlaceFacts
<1>2. Names(fs, types[t].elems, types[t].declared, place) /\ fs \in Seq(Nat)
  <2>1. <<0>>[1] = 0
    OBVIOUS
  <2> QED  BY <2>1 DEF Laid
<1>3. /\ DOMAIN fs = 1..l
      /\ \A w \in 1..m : fs[place[w]] = w
      /\ \A i \in 1..l : fs[i] = 0 \/ \E w \in 1..m : place[w] = i
  BY <1>2 DEF Names, Length
<1>4. FieldPlace(t, v) = IF with = {} THEN 0
                         ELSE CHOOSE i \in with : \A j \in with : i <= j
  BY DEF FieldPlace
<1> HIDE DEF fs, l
<1>5. with = {place[v]}
  <2>1. place[v] \in with
    BY <1>1, <1>3
  <2>2. ASSUME NEW i \in with
        PROVE  i = place[v]
    <3>1. i \in 1..l /\ fs[i] = v /\ v # 0
      BY <1>1, <1>3
    <3>2. PICK w \in 1..m : place[w] = i
      BY <1>3, <3>1
    <3> QED  BY <1>3, <3>1, <3>2
  <2> QED  BY <2>1, <2>2
<1>6. place[v] \in 1..l /\ place[v] <= place[v]
  BY <1>1
<1> HIDE DEF with
<1>7. FieldPlace(t, v) = place[v]
  BY <1>4, <1>5, <1>6
<1> QED  BY <1>1, <1>6, <1>7

LEMMA ValuesLand ==
  ASSUME NEW t, NEW place, Laid(t, place), NEW n \in 0..Len(types[t].declared)
  PROVE  /\ \A v \in 1..n : \E i \in 1..Length(t) :
              Stored(t, n)[i] = v /\ types[t].elems[i] = types[t].declared[v]
         /\ \A i \in 1..Length(t) : Stored(t, n)[i] \in 0..n
<1> DEFINE l == Length(t)
           m == Len(types[t].declared)
           st == Stored(t, n)
<1>1. /\ l \in Nat /\ m \in Nat
      /\ \A w \in 1..m : /\ place[w] \in 1..l
                         /\ types[t].elems[place[w]] = types[t].declared[w]
                         /\ ~IsPadding(types[t].elems[place[w]])
                         /\ Taken(t, place[w]) = w - 1
      /\ \A i \in 1..l :
           IsPadding(types[t].elems[i]) \/ \E w \in 1..m : place[w] = i
  BY PlaceFacts
<1>2. \A i \in 1..l :
        st[i] = IF IsPadding(types[t].elems[i]) \/ Taken(t, i) >= n THEN 0
                ELSE Taken(t, i) + 1
  BY DEF Stored
<1> HIDE DEF l, m, st
<1>3. n \in Nat /\ n <= m
  BY <1>1 DEF m
<1>4. ASSUME NEW v \in 1..n
      PROVE  \E i \in 1..l : st[i] = v /\ types[t].elems[i] = types[t].declared[v]
  <2>1. v \in 1..m /\ ~(v - 1 >= n) /\ (v - 1) + 1 = v
    BY <1>1, <1>3
  <2>2. st[place[v]] = v
    BY <1>1, <1>2, <2>1
  <2> QED  BY <1>1, <2>1, <2>2
<1>5. ASSUME NEW i \in 1..l
      PROVE  st[i] \in 0..n
  <2>1. CASE IsPadding(types[t].elems[i])
    BY <1>2, <1>3, <2>1
  <2>2. CASE ~IsPadding(types[t].elems[i])
    <3>1. PICK w \in 1..m : place[w] = i
      BY <1>1, <2>2
    <3>2. Taken(t, i) = w - 1 /\ w \in Nat
      BY <1>1, <3>1
    <3>3. st[i] = IF w - 1 >= n THEN 0 ELSE (w - 1) + 1
      BY <1>2, <2>2, <3>2
    <3> QED  BY <1>3, <3>2, <3>3
  <2> QED  BY <2>1, <2>2
<1> QED  BY <1>4, <1>5 DEF l, st

LEMMA SeqIsFunction ==
  ASSUME NEW S, NEW s \in Seq(S)
  PROVE  s = [v \in 1..Len(s) |-> s[v]]
OBVIOUS

LEMMA ParamsFound ==
  ASSUME NEW t, NEW place, Laid(t, place),
         \A i \in DOMAIN types[t].declared : types[types[t].declared[i]].kind # "va"
  PROVE  Params(t) = types[t].declared
<1> DEFINE ds == types[t].declared
           m == Len(ds)
           real == [v \in 1..Taken(t, Length(t) + 1) |-> AtVirt(t, v - 1)]
           va == {i \in DOMAIN real : types[real[i]].kind = "va"}
<1>1. m \in Nat /\ Taken(t, Length(t) + 1) = m
  BY PlaceFacts
<1>2. ds \in Seq(1..Len(types)) /\ DOMAIN ds = 1..m
  BY DEF Laid
<1>3. \A v \in 1..m : AtVirt(t, v - 1) = ds[v]
  <2> TAKE v \in 1..m
  <2>1. PICK u : u = v - 1
    OBVIOUS
  <2>2. u \in Nat /\ u < m /\ u + 1 = v
    BY <1>1, <2>1
  <2>3. AtVirt(t, u) = IF u < m THEN ds[u + 1] ELSE 0
    BY <2>2, VirtFound
  <2> QED  BY <2>1, <2>2, <2>3
<1>4. real = [v \in 1..m |-> ds[v]]
  BY <1>1, <1>3
<1>5. ds = [v \in 1..m |-> ds[v]]
  BY <1>2, SeqIsFunction
<1>6. real = ds
  BY <1>4, <1>5
<1>7. Params(t) = IF va = {} THEN real
                  ELSE SubSeq(real, 1, (CHOOSE i \in va : \A j \in va : i <= j) - 1)
  BY DEF Params
<1> HIDE DEF real
<1>8. va = {}
  BY <1>6
<1> QED  BY <1>6, <1>7, <1>8

\* x.0, x.1, ... have the types declared, wherever make() put paddings.
THEOREM VirtualIndexFound == Spec => []VirtualIndexIsDeclared
<1>1. IInv /\ OInv => VirtualIndexIsDeclared
  <2> SUFFICES ASSUME IInv, OInv, NEW t \in Tuples, NEW v \in 0..MaxElems
               PROVE  AtVirt(t, v) = IF v < Len(types[t].declared)
                                     THEN types[t].declared[v + 1] ELSE 0
    BY DEF VirtualIndexIsDeclared
  <2>1. PICK place : Laid(t, place)
    BY TupleLaid
  <2>2. v \in Nat
    BY LayoutAssumption
  <2> QED  BY <2>1, <2>2, VirtFound
<1> QED  BY <1>1, Ordered, PTL

\* The name of a field leads to the element that was declared with it.
THEOREM FieldsFound == Spec => []FieldNamesElement
<1>1. IInv /\ OInv => FieldNamesElement
  <2> SUFFICES ASSUME IInv, OInv, NEW t \in Tuples,
                      types[t].fields # <<>>, types[t].fields[1] # 0,
                      NEW v \in 1..Len(types[t].declared)
               PROVE  /\ FieldPlace(t, v) # 0
                      /\ types[t].elems[FieldPlace(t, v)] = types[t].declared[v]
    BY DEF FieldNamesElement
  <2>1. PICK place : Laid(t, place)
    BY TupleLaid
  <2> QED  BY <2>1, FieldFound
<1> QED  BY <1>1, Ordered, PTL

\* Values given for a tuple land on the elements they were given for; none is
\* dropped, and no place holds a value that was not given.
THEOREM ValuesPlaced == Spec => []ValuesLandWhereDeclared
<1>1. IInv /\ OInv => ValuesLandWhereDeclared
  <2> SUFFICES ASSUME IInv, OInv, NEW t \in Tuples,
                      NEW n \in 0..Len(types[t].declared)
               PROVE  /\ {v \in 1..n : \E i \in 1..Length(t) :
                             /\ Stored(t, n)[i] = v
                             /\ types[t].elems[i] = types[t].declared[v]} = 1..n
                      /\ \A i \in 1..Length(t) : Stored(t, n)[i] \in 0..n
    BY DEF ValuesLandWhereDeclared
  <2>1. PICK place : Laid(t, place)
    BY TupleLaid
  <2>2. /\ \A v \in 1..n : \E i \in 1..Length(t) :
             Stored(t, n)[i] = v /\ types[t].elems[i] = types[t].declared[v]
        /\ \A i \in 1..Length(t) : Stored(t, n)[i] \in 0..n
    BY <2>1, ValuesLand
  <2> QED  BY <2>2
<1> QED  BY <1>1, Ordered, PTL

\* A function has one LLVM parameter for each type it declares, in order.
THEOREM ParamsFollow == Spec => []ParamsAreDeclared
<1>1. IInv /\ OInv => ParamsAreDeclared
  <2> SUFFICES ASSUME IInv, OInv, NEW t \in Tuples,
                      \A i \in DOMAIN types[t].declared :
                        types[types[t].declared[i]].kind # "va"
               PROVE  Params(t) = types[t].declared
    BY DEF ParamsAreDeclared
  <2>1. PICK place : Laid(t, place)
    BY TupleLaid
  <2> QED  BY <2>1, ParamsFound
<1> QED  BY <1>1, Ordered, PTL

-----------------------------------------------------------------------------
(* The bits two numbers share                                              *)
(*                                                                         *)
(* Bits is recursive.  That a function satisfies its equation, and that it *)
(* gives no more than its second argument, follow from there being a least *)
(* number for which they would not.                                        *)

LEMMA Least ==
  ASSUME NEW S, S \subseteq Nat, S # {}
  PROVE  \E x \in S : \A y \in S : x <= y
<1> DEFINE R == OpToRel(<, Nat)
<1>1. IsWellFoundedOn(R, Nat)
  BY NatLessThanWellFounded
<1>2. \A x, y \in Nat : x < y => <<x, y>> \in R
  BY DEF OpToRel
<1> HIDE DEF R
<1>3. PICK x \in S : \A y \in S : ~(<<y, x>> \in R)
  BY <1>1, WFMin
<1>4. ASSUME NEW y \in S
      PROVE  x <= y
  <2>1. x \in Nat /\ y \in Nat /\ ~(<<y, x>> \in R)
    BY <1>3
  <2>2. ~(y < x)
    BY <1>2, <2>1
  <2> QED  BY <2>1, <2>2
<1> QED  BY <1>4

\* What Bits says of f at a and b.
Shared(f, a, b) ==
  IF a = 0 \/ b = 0 THEN 0 ELSE (a % 2) * (b % 2) + 2 * f[a \div 2][b \div 2]

\* f satisfies the equation up to n.
BitsUpTo(f, n) ==
  /\ f \in [0..n -> [Nat -> Nat]]
  /\ \A a \in 0..n : f[a] = [b \in Nat |-> Shared(f, a, b)]

LEMMA Halves ==
  ASSUME NEW a \in Nat
  PROVE  /\ a \div 2 \in Nat /\ a % 2 \in {0, 1} /\ a = 2 * (a \div 2) + (a % 2)
         /\ a # 0 => a \div 2 < a
OBVIOUS

LEMMA SharedNat ==
  ASSUME NEW f, NEW a \in Nat, a # 0, f[a \div 2] \in [Nat -> Nat], NEW b \in Nat
  PROVE  Shared(f, a, b) \in Nat
<1>1. a % 2 \in {0, 1} /\ b % 2 \in {0, 1} /\ b \div 2 \in Nat
  BY Halves
<1>2. PICK c : c = f[a \div 2][b \div 2]
  OBVIOUS
<1>3. c \in Nat
  BY <1>1, <1>2
<1>4. PICK x, y : x = a % 2 /\ y = b % 2
  OBVIOUS
<1>5. x * y \in {0, 1}
  BY <1>1, <1>4
<1> QED  BY <1>2, <1>3, <1>4, <1>5 DEF Shared

LEMMA BitsExtend ==
  ASSUME NEW n \in Nat, NEW f, BitsUpTo(f, n)
  PROVE  \E g : BitsUpTo(g, n + 1)
<1> DEFINE k == n + 1
           g == [a \in 0..k |-> IF a = k THEN [b \in Nat |-> Shared(f, k, b)] ELSE f[a]]
<1>1. k \in Nat /\ k # 0 /\ k \div 2 \in 0..n
  <2>1. k \in Nat /\ k # 0
    OBVIOUS
  <2>2. k \div 2 \in Nat /\ k \div 2 < k
    BY <2>1, Halves
  <2> QED  BY <2>1, <2>2
<1>2. \A a \in 0..k : a = k \/ (a \in 0..n /\ a # k)
  OBVIOUS
<1> HIDE DEF k
<1>3. f[k \div 2] \in [Nat -> Nat]
  BY <1>1 DEF BitsUpTo
<1>4. [b \in Nat |-> Shared(f, k, b)] \in [Nat -> Nat]
  BY <1>1, <1>3, SharedNat
<1>5. g \in [0..k -> [Nat -> Nat]]
  BY <1>2, <1>4 DEF BitsUpTo
<1>6. /\ g[k] = [b \in Nat |-> Shared(f, k, b)]
      /\ \A a \in 0..n : g[a] = f[a]
  <2>1. k \in 0..k /\ \A a \in 0..n : a \in 0..k /\ a # k
    BY <1>1 DEF k
  <2> QED  BY <2>1
<1> HIDE DEF g
<1>7. ASSUME NEW a \in 0..k
      PROVE  g[a] = [b \in Nat |-> Shared(g, a, b)]
  <2>1. a \in Nat /\ (a # 0 => a \div 2 \in 0..n)
    <3>1. a \in Nat
      BY <1>1
    <3>2. a # 0 => a \div 2 \in Nat /\ a \div 2 < a
      BY <3>1, Halves
    <3>3. a <= k /\ n \in Nat /\ k = n + 1
      BY <1>1 DEF k
    <3> QED  BY <3>1, <3>2, <3>3
  <2>2. \A b \in Nat : Shared(g, a, b) = Shared(f, a, b)
    BY <1>6, <2>1 DEF Shared
  <2>3. g[a] = [b \in Nat |-> Shared(f, a, b)]
    <3>1. CASE a = k
      BY <1>6, <3>1
    <3>2. CASE a \in 0..n
      BY <1>6, <3>2 DEF BitsUpTo
    <3> QED  BY <1>2, <3>1, <3>2
  <2> QED  BY <2>2, <2>3
<1> QED  BY <1>5, <1>7 DEF BitsUpTo, k

LEMMA BitsFrom ==
  ASSUME NEW n \in Nat
  PROVE  \E f : BitsUpTo(f, n)
<1> DEFINE T == {k \in Nat : ~ \E f : BitsUpTo(f, k)}
<1> SUFFICES ASSUME T # {} PROVE FALSE
  OBVIOUS
<1>1. PICK k \in T : \A j \in T : k <= j
  <2>1. T \subseteq Nat
    OBVIOUS
  <2> HIDE DEF T
  <2> QED  BY <2>1, Least
<1>2. CASE k = 0
  <2> DEFINE f == [a \in 0..0 |-> [b \in Nat |-> 0]]
  <2>1. 0..0 = {0}
    OBVIOUS
  <2>2. f \in [0..0 -> [Nat -> Nat]] /\ f[0] = [b \in Nat |-> 0]
    BY <2>1
  <2> HIDE DEF f
  <2>3. \A b \in Nat : Shared(f, 0, b) = 0
    BY DEF Shared
  <2>4. BitsUpTo(f, 0)
    BY <2>1, <2>2, <2>3 DEF BitsUpTo
  <2> QED  BY <1>2, <2>4
<1>3. CASE k # 0
  <2>1. k - 1 \in Nat /\ (k - 1) + 1 = k /\ ~(k <= k - 1)
    BY <1>3
  <2>2. k - 1 \notin T
    BY <1>1, <2>1
  <2>3. PICK f : BitsUpTo(f, k - 1)
    BY <2>1, <2>2
  <2>4. PICK j : j = k - 1
    OBVIOUS
  <2>5. \E g : BitsUpTo(g, j + 1)
    BY <2>1, <2>3, <2>4, BitsExtend
  <2> QED  BY <2>1, <2>4, <2>5
<1> QED  BY <1>2, <1>3

LEMMA BitsUnique ==
  ASSUME NEW n \in Nat, NEW m \in Nat, NEW f, NEW g, BitsUpTo(f, n), BitsUpTo(g, m),
         NEW a \in Nat, a <= n, a <= m
  PROVE  f[a] = g[a]
<1> DEFINE T == {k \in Nat : k <= n /\ k <= m /\ f[k] # g[k]}
<1> SUFFICES ASSUME T # {} PROVE FALSE
  OBVIOUS
<1>1. PICK k \in T : \A j \in T : k <= j
  <2>1. T \subseteq Nat
    OBVIOUS
  <2> HIDE DEF T
  <2> QED  BY <2>1, Least
<1>2. k \in Nat /\ k \in 0..n /\ k \in 0..m /\ f[k] # g[k]
  OBVIOUS
<1>3. k # 0 => f[k \div 2] = g[k \div 2]
  <2>1. k # 0 => k \div 2 \in Nat /\ k \div 2 < k
    BY <1>2, Halves
  <2>2. ASSUME k # 0
        PROVE  k \div 2 \notin T /\ k \div 2 <= n /\ k \div 2 <= m
    <3>1. k \div 2 \in Nat /\ k \div 2 < k
      BY <2>1, <2>2
    <3>2. PICK h : h = k \div 2
      OBVIOUS
    <3> HIDE DEF T
    <3>3. ~(k <= h) /\ h <= n /\ h <= m
      BY <1>2, <3>1, <3>2
    <3> QED  BY <1>1, <3>2, <3>3
  <2> QED  BY <2>1, <2>2
<1>4. \A b \in Nat : Shared(f, k, b) = Shared(g, k, b)
  BY <1>3 DEF Shared
<1>5. f[k] = [b \in Nat |-> Shared(f, k, b)] /\ g[k] = [b \in Nat |-> Shared(g, k, b)]
  BY <1>2 DEF BitsUpTo
<1> QED  BY <1>2, <1>4, <1>5

\* The equation of Bits has a solution, so Bits is one.
LEMMA BitsDefined ==
  \A a, b \in Nat : Bits[a][b] = Shared(Bits, a, b)
<1> DEFINE c == [a \in Nat |-> CHOOSE f : BitsUpTo(f, a)]
           F == [a \in Nat |-> c[a][a]]
<1>1. \A a \in Nat : BitsUpTo(c[a], a)
  BY BitsFrom
<1> HIDE DEF c
<1>2. \A a \in Nat : F[a] = c[a][a] /\ F[a] \in [Nat -> Nat]
  <2> TAKE a \in Nat
  <2>1. BitsUpTo(c[a], a) /\ a \in 0..a
    BY <1>1
  <2> QED  BY <2>1 DEF BitsUpTo
<1>3. F \in [Nat -> [Nat -> Nat]]
  BY <1>2
<1> HIDE DEF F
<1>4. ASSUME NEW a \in Nat
      PROVE  F[a] = [b \in Nat |-> Shared(F, a, b)]
  <2>1. BitsUpTo(c[a], a) /\ a \in 0..a
    BY <1>1
  <2>2. a # 0 => c[a][a \div 2] = F[a \div 2]
    <3>1. ASSUME a # 0
          PROVE  c[a][a \div 2] = F[a \div 2]
      <4>1. PICK h, f, g : h = a \div 2 /\ f = c[a] /\ g = c[h]
        OBVIOUS
      <4>2. h \in Nat /\ h <= a /\ h <= h
        BY <3>1, <4>1, Halves
      <4>3. BitsUpTo(f, a) /\ BitsUpTo(g, h)
        BY <1>1, <2>1, <4>1, <4>2
      <4>4. f[h] = g[h]
        BY <4>2, <4>3, BitsUnique
      <4> QED  BY <1>2, <4>1, <4>2, <4>4
    <3> QED  BY <3>1
  <2>3. \A b \in Nat : Shared(c[a], a, b) = Shared(F, a, b)
    BY <2>2 DEF Shared
  <2>4. F[a] = [b \in Nat |-> Shared(c[a], a, b)]
    BY <1>2, <2>1 DEF BitsUpTo
  <2> QED  BY <2>3, <2>4
<1>5. F = [a \in Nat |-> [b \in Nat |-> Shared(F, a, b)]]
  BY <1>3, <1>4
<1>6. F = [a \in Nat |-> [b \in Nat |-> IF a = 0 \/ b = 0 THEN 0
                       ELSE (a % 2) * (b % 2) + 2 * F[a \div 2][b \div 2]]]
  BY <1>5 DEF Shared
<1>7. Bits = [a \in Nat |-> [b \in Nat |-> IF a = 0 \/ b = 0 THEN 0
                       ELSE (a % 2) * (b % 2) + 2 * Bits[a \div 2][b \div 2]]]
  BY <1>6 DEF Bits
<1> QED  BY <1>7 DEF Shared

\* No more bits than there are in the second number.
LEMMA BitAndBounded ==
  ASSUME NEW a \in Nat, NEW b \in Nat
  PROVE  BitAnd(a, b) \in 0..b
<1> DEFINE T == {k \in Nat : ~ \A y \in Nat : Bits[k][y] \in 0..y}
<1>1. T = {}
  <2> SUFFICES ASSUME T # {} PROVE FALSE
    OBVIOUS
  <2>1. PICK k \in T : \A j \in T : k <= j
    <3>1. T \subseteq Nat
      OBVIOUS
    <3> HIDE DEF T
    <3> QED  BY <3>1, Least
  <2>2. PICK y \in Nat : ~(Bits[k][y] \in 0..y)
    OBVIOUS
  <2>3. k \in Nat /\ Bits[k][y] = Shared(Bits, k, y)
    BY BitsDefined
  <2>4. k # 0 /\ y # 0
    BY <2>2, <2>3 DEF Shared
  <2>5. PICK h, z : h = k \div 2 /\ z = y \div 2
    OBVIOUS
  <2>6. /\ h \in Nat /\ h < k /\ z \in Nat /\ y = 2 * z + (y % 2)
        /\ k % 2 \in {0, 1} /\ y % 2 \in {0, 1}
    BY <2>3, <2>4, <2>5, Halves
  <2>7. h \notin T
    <3> HIDE DEF T
    <3>1. ~(k <= h)
      BY <2>3, <2>6
    <3> QED  BY <2>1, <3>1
  <2>8. Bits[h][z] \in 0..z
    BY <2>6, <2>7
  <2>9. PICK p, q, w : p = k % 2 /\ q = y % 2 /\ w = Bits[h][z]
    OBVIOUS
  <2>10. Bits[k][y] = p * q + 2 * w
    BY <2>3, <2>4, <2>5, <2>9 DEF Shared
  <2>11. p * q \in {0, 1} /\ p * q <= q
    BY <2>6, <2>9
  <2>12. PICK c : c = p * q
    OBVIOUS
  <2>13. c + 2 * w \in 0..y
    <3>1. c \in Nat /\ c <= q /\ q \in Nat /\ w \in 0..z /\ z \in Nat /\ y = 2 * z + q
      BY <2>6, <2>8, <2>9, <2>11, <2>12
    <3> HIDE DEF T
    <3> QED  BY <3>1
  <2> QED  BY <2>2, <2>10, <2>12, <2>13
<1> QED  BY <1>1 DEF BitAnd

\* The padding in front of an element is smaller than its alignment, whatever
\* that is, unless it is 0.
LEMMA GapBounded ==
  ASSUME NEW o \in Ulen, NEW a \in Ulen, a # 0
  PROVE  Gap(o, a) \in 0..(a - 1)
<1>0. Word \in Nat /\ Word > 16 /\ o \in 0..(Word - 1) /\ a \in 1..(Word - 1)
  BY LayoutAssumption DEF Ulen
<1>1. CASE a \in PowersOfTwo
  BY <1>0, <1>1, GapAligns
<1>2. CASE a \notin PowersOfTwo
  <2> DEFINE mask == (a - 1) % Word
             sum == (o + mask) % Word
             b == BitAnd(sum, mask)
  <2>1. mask = a - 1
    BY <1>0
  <2>2. mask \in 0..(Word - 1) /\ a - 1 \in Nat
    BY <1>0, <2>1
  <2> HIDE DEF mask
  <2>3. sum = o + mask \/ sum = o + mask - Word
    <3>1. CASE o + mask < Word
      BY <1>0, <2>2, <3>1
    <3>2. CASE o + mask >= Word
      BY <1>0, <2>2, <3>2
    <3> QED  BY <1>0, <2>2, <3>1, <3>2
  <2>4. sum \in Nat
    BY <1>0, <2>2
  <2> HIDE DEF sum
  <2>5. b \in 0..mask
    <3>1. mask \in Nat
      BY <2>2
    <3> QED  BY <2>4, <3>1, BitAndBounded
  <2>6. Gap(o, a) = ((sum - b) - o) % Word
    BY <1>2 DEF Gap, AlignUp, sum, mask
  <2> HIDE DEF b
  <2>7. PICK d : d = mask - b
    OBVIOUS
  <2>8. d \in 0..mask /\ d \in 0..(Word - 1)
    BY <1>0, <2>2, <2>5, <2>7
  <2>9. (sum - b) - o = d \/ (sum - b) - o = d - Word
    BY <1>0, <2>2, <2>3, <2>5, <2>7
  <2>10. d % Word = d /\ (d - Word) % Word = d
    BY <1>0, <2>8
  <2>11. Gap(o, a) = d
    BY <2>6, <2>9, <2>10
  <2> QED  BY <2>1, <2>8, <2>11
<1> QED  BY <1>1, <1>2

-----------------------------------------------------------------------------
(* Where make() gets stuck                                                 *)

LEMMA StuckStep ==
  ASSUME IInv, StuckOnlyOnUnit, [Next]_vars
  PROVE  StuckOnlyOnUnit'
<1>0. MaxPadding \in Nat /\ Ulen \subseteq Int
  BY LayoutAssumption DEF Ulen
<1>1. ASSUME NEW o \in Ulen, NEW a \in Ulen, Gap(o, a) \notin 0..MaxPadding
      PROVE  a = 0 \/ a > MaxPadding
  <2>1. CASE a # 0
    <3>1. Gap(o, a) \in 0..(a - 1) /\ a \in Int
      BY <1>0, <2>1, GapBounded
    <3> QED  BY <1>0, <1>1, <3>1
  <2> QED  BY <2>1
<1>2. CASE \E t \in Nameable : AddElement(t)
  <2>1. PICK t \in Nameable : AddElement(t)
    BY <1>2
  <2> DEFINE gap == IF types[t].kind = "va" THEN 0 ELSE Gap(job.offset, types[t].align)
  <2>2. job.offset \in Ulen /\ types[t].align \in Ulen
    <3>1. types[t] \in TypeRecord(Len(types)) /\ job \in JobRecord(Len(types))
      BY DEF IInv, SoundTypes, SoundJob, Nameable
    <3>2. job.op = "tuple"
      BY <2>1 DEF AddElement
    <3> QED  BY <3>1, <3>2 DEF TypeRecord, JobRecord
  <2>3. CASE gap \in 0..MaxPadding
    <3>1. PICK j : j = Padded(job, gap, job.named)
      OBVIOUS
    <3>2. job' = Placed(j, t)
      BY <2>1, <2>3, <3>1 DEF AddElement
    <3>3. job' = Placed(Padded(job, gap, job.named), t)
      BY <3>1, <3>2
    <3>4. job'.op # "stuck"
      <4>1. IInv' /\ job.op = "tuple" /\ job \in TupleRecord(Len(types))
        BY <2>1, AddElementSound DEF AddElement, Nameable, IInv, SoundJob, JobRecord, TupleRecord
      <4>2. j.op = "tuple" /\ "op" \in DOMAIN j
        BY <3>1, <4>1 DEF Padded, TupleRecord
      <4> QED  BY <3>2, <4>2 DEF Placed
    <3> QED  BY <3>4 DEF StuckOnlyOnUnit
  <2>4. CASE gap \notin 0..MaxPadding
    <3>1. job'.align = types[t].align
      BY <2>1, <2>4 DEF AddElement, GetStuck
    <3>2. gap = Gap(job.offset, types[t].align)
      BY <1>0, <2>4
    <3>3. types[t].align = 0 \/ types[t].align > MaxPadding
      BY <1>1, <2>2, <2>4, <3>2
    <3> QED  BY <3>1, <3>3 DEF StuckOnlyOnUnit
  <2> QED  BY <2>3, <2>4
<1>3. CASE EndTuple
  <2> DEFINE gap == Gap(job.offset, job.align)
  <2>1. job.offset \in Ulen /\ job.align \in Ulen
    BY <1>3 DEF EndTuple, IInv, SoundJob, JobRecord
  <2>2. CASE gap \in 0..MaxPadding
    <3>1. job' = Idle
      BY <1>3, <2>2 DEF EndTuple
    <3> QED  BY <3>1 DEF Idle, StuckOnlyOnUnit
  <2>3. CASE gap \notin 0..MaxPadding
    <3>1. job'.align = job.align
      BY <1>3, <2>3 DEF EndTuple, GetStuck
    <3>2. job.align = 0 \/ job.align > MaxPadding
      BY <1>1, <2>1, <2>3
    <3> QED  BY <3>1, <3>2 DEF StuckOnlyOnUnit
  <2> QED  BY <2>2, <2>3
<1>4. CASE EndUnion
  <2> DEFINE o == (job.size + 1) % Word
             gap == Gap(o, job.align)
  <2>1. o \in Ulen /\ job.align \in Ulen
    <3>1. job.size \in Ulen /\ job.align \in Ulen
      BY <1>4 DEF EndUnion, IInv, SoundJob, JobRecord
    <3>2. PICK z : z = job.size + 1
      OBVIOUS
    <3>3. z \in Nat
      BY <3>1, <3>2 DEF Ulen
    <3> QED  BY <3>1, <3>2, <3>3, Wraps
  <2>2. CASE gap \in 0..MaxPadding
    <3>1. job' = Idle
      BY <1>4, <2>2 DEF EndUnion
    <3> QED  BY <3>1 DEF Idle, StuckOnlyOnUnit
  <2>3. CASE gap \notin 0..MaxPadding
    <3>1. job'.align = job.align
      BY <1>4, <2>3 DEF EndUnion, GetStuck
    <3> HIDE DEF o
    <3>2. job.align = 0 \/ job.align > MaxPadding
      BY <1>1, <2>1, <2>3
    <3> QED  BY <3>1, <3>2 DEF StuckOnlyOnUnit
  <2> QED  BY <2>2, <2>3
<1>5. ASSUME NEW t \in Sized, AddVariant(t)
      PROVE  StuckOnlyOnUnit'
  <2>1. job \in JobRecord(Len(types)) /\ job.op = "union"
    BY <1>5 DEF AddVariant, IInv, SoundJob
  <2>2. PICK d, s, a : job' = [job EXCEPT !.declared = d, !.size = s, !.align = a]
    BY <1>5 DEF AddVariant
  <2>3. job'.op = "union"
    BY <2>1, <2>2 DEF JobRecord
  <2> QED  BY <2>3 DEF StuckOnlyOnUnit
<1>6. CASE \/ \E t \in Sized :
              \/ MakePointer(t) \/ MakeSlice(t) \/ MakeAtomic(t)
              \/ \E n \in Extents : MakeArray(t, n)
           \/ MakeEnum \/ UNCHANGED vars
  <2>1. job' = job
    BY <1>6 DEF MakePointer, MakeSlice, MakeAtomic, MakeArray, MakeEnum, Make, vars
  <2> QED  BY <2>1 DEF StuckOnlyOnUnit
<1>7. CASE BeginUnion \/ \E named \in BOOLEAN : BeginTuple(named)
  <2>1. job'.op # "stuck"
    BY <1>7 DEF BeginUnion, BeginTuple
  <2> QED  BY <2>1 DEF StuckOnlyOnUnit
<1> QED  BY <1>2, <1>3, <1>4, <1>5, <1>6, <1>7 DEF Next

\* make() asks for more padding than memory holds only in front of an element
\* of alignment 0, or of a union aligned to more than memory holds.
THEOREM StuckOnUnit == Spec => []StuckOnlyOnUnit
<1>1. Init => StuckOnlyOnUnit
  BY DEF Init, Idle, StuckOnlyOnUnit
<1>2. IInv /\ StuckOnlyOnUnit /\ [Next]_vars => StuckOnlyOnUnit'
  BY StuckStep
<1> QED  BY <1>1, <1>2, LayoutInvariant, PTL DEF Spec

-----------------------------------------------------------------------------
(* Tuples declared alike                                                   *)
(*                                                                         *)
(* What make(TupleInfo) makes is determined by what was declared, but for  *)
(* which of several paddings of one size is used.  A history says of each  *)
(* declared element how far the layout had come behind it.                 *)

\* The layout so far: the offset, the alignment and the shape, which has
\* <<0, t>> for an element of type t and <<n, 0>> for n bytes of padding.
Start == [off |-> 0, al |-> 0, shape |-> <<>>]

Skip(s, n) ==
  IF n = 0 THEN s
  ELSE [off |-> (s.off + n) % Word, al |-> s.al, shape |-> Append(s.shape, <<n, 0>>)]

Put(ts, s, t) ==
  [off |-> (s.off + ts[t].size) % Word, al |-> Larger(s.al, ts[t].align),
   shape |-> Append(s.shape, <<0, t>>)]

GapAt(ts, s, t) == IF ts[t].kind = "va" THEN 0 ELSE Gap(s.off, ts[t].align)

After(ts, s, t) == Put(ts, Skip(s, GapAt(ts, s, t)), t)

History(ts, declared, h) ==
  /\ h[0] = Start
  /\ \A v \in 1..Len(declared) : h[v] = After(ts, h[v - 1], declared[v])

\* Element e is what x stands for in a shape.
Slot(ts, e, x) ==
  IF x[1] = 0 THEN e = x[2] ELSE ts[e].kind = "padding" /\ ts[e].size = x[1]

Shaped(ts, elems, shape) ==
  /\ shape \in Seq(Nat \X Nat)
  /\ Len(elems) = Len(shape)
  /\ \A i \in 1..Len(elems) : Slot(ts, elems[i], shape[i])

\* The tuple j in the making has come as far as s.
Reached(ts, j, s) ==
  /\ j.offset = s.off
  /\ j.align = s.al
  /\ Shaped(ts, j.elems, s.shape)

LaidJob(ts, j) ==
  j.op = "tuple" =>
    \E h : /\ History(ts, j.declared, h)
           /\ Reached(ts, j, h[Len(j.declared)])

\* The tuple r is what comes of a history, and a padding at the end; () has
\* none.
Ends(ts, r, s) ==
  /\ r.size = s.off
  /\ r.align = s.al
  /\ Shaped(ts, r.elems, s.shape)

LaidTuple(ts, r) ==
  IF r.declared = <<>> THEN r.size = 0 /\ r.align = 0 /\ r.elems = <<>>
  ELSE \E h : /\ History(ts, r.declared, h)
              /\ LET s == h[Len(r.declared)]
                 IN  Ends(ts, r, Skip(s, Gap(s.off, s.al)))

LaidType(ts, r) ==
  /\ r.kind = "tuple" => r.extent = 0 /\ LaidTuple(ts, r)
  /\ r.kind = "padding" => r.extent = 0 /\ r.elems = <<>>

\* A type is made of earlier ones.
Earlier(ts, t) == ts[t].elems \in Seq(1..(t - 1))

LaidTypes(ts) == \A t \in DOMAIN ts : LaidType(ts, ts[t]) /\ Earlier(ts, t)

LInv == LaidTypes(types) /\ LaidJob(types, job)

LEMMA ShapedGrows ==
  ASSUME NEW n \in Nat, NEW ts, NEW us, SameUpTo(n, ts, us),
         NEW elems \in Seq(1..n), NEW shape, Shaped(ts, elems, shape)
  PROVE  Shaped(us, elems, shape)
<1>1. \A i \in 1..Len(elems) : us[elems[i]] = ts[elems[i]]
  <2>1. \A i \in 1..Len(elems) : elems[i] \in 1..n
    OBVIOUS
  <2> QED  BY <2>1 DEF SameUpTo
<1> QED  BY <1>1 DEF Shaped, Slot

LEMMA ShapedMore ==
  ASSUME NEW n \in Nat, NEW ts, NEW elems \in Seq(1..n), NEW shape,
         Shaped(ts, elems, shape), NEW e \in 1..n, NEW x \in Nat \X Nat,
         Slot(ts, e, x)
  PROVE  Shaped(ts, Append(elems, e), Append(shape, x))
<1>1. shape \in Seq(Nat \X Nat) /\ Len(elems) = Len(shape)
  BY DEF Shaped
<1>2. PICK es, sh : es = Append(elems, e) /\ sh = Append(shape, x)
  OBVIOUS
<1>3. /\ Len(es) = Len(elems) + 1 /\ es[Len(elems) + 1] = e
      /\ \A i \in 1..Len(elems) : es[i] = elems[i]
  BY <1>2, Appended
<1>4. /\ sh \in Seq(Nat \X Nat) /\ Len(sh) = Len(shape) + 1 /\ sh[Len(shape) + 1] = x
      /\ \A i \in 1..Len(shape) : sh[i] = shape[i]
  BY <1>1, <1>2, Appended
<1>5. ASSUME NEW i \in 1..(Len(elems) + 1)
      PROVE  Slot(ts, es[i], sh[i])
  <2>1. CASE i = Len(elems) + 1
    BY <1>1, <1>3, <1>4, <2>1
  <2>2. CASE i \in 1..Len(elems)
    <3>1. es[i] = elems[i] /\ sh[i] = shape[i]
      BY <1>1, <1>3, <1>4, <2>2
    <3> QED  BY <2>2, <3>1 DEF Shaped
  <2>3. Len(elems) \in Nat
    OBVIOUS
  <2> QED  BY <2>1, <2>2, <2>3
<1> QED  BY <1>1, <1>2, <1>3, <1>4, <1>5 DEF Shaped

LEMMA HistoryGrows ==
  ASSUME NEW n \in Nat, NEW ts, NEW us, SameUpTo(n, ts, us),
         NEW declared \in Seq(1..n), NEW h, History(ts, declared, h)
  PROVE  History(us, declared, h)
<1>1. \A v \in 1..Len(declared) : us[declared[v]] = ts[declared[v]]
  <2>1. \A v \in 1..Len(declared) : declared[v] \in 1..n
    OBVIOUS
  <2> QED  BY <2>1 DEF SameUpTo
<1>2. ASSUME NEW v \in 1..Len(declared)
      PROVE  h[v] = After(us, h[v - 1], declared[v])
  <2>1. h[v] = After(ts, h[v - 1], declared[v])
    BY DEF History
  <2>2. GapAt(us, h[v - 1], declared[v]) = GapAt(ts, h[v - 1], declared[v])
    BY <1>1 DEF GapAt
  <2> QED  BY <1>1, <2>1, <2>2 DEF After, Put
<1> QED  BY <1>2 DEF History

LEMMA HistoryMore ==
  ASSUME NEW n \in Nat, NEW ts, NEW declared \in Seq(1..n), NEW h,
         History(ts, declared, h), NEW t \in 1..n
  PROVE  \E g : /\ History(ts, Append(declared, t), g)
                /\ g[Len(declared) + 1] = After(ts, h[Len(declared)], t)
<1> DEFINE m == Len(declared)
           ds == Append(declared, t)
           a == After(ts, h[m], t)
           g == [v \in 0..(m + 1) |-> IF v = m + 1 THEN a ELSE h[v]]
<1>1. /\ m \in Nat /\ Len(ds) = m + 1 /\ ds[m + 1] = t
      /\ \A v \in 1..m : ds[v] = declared[v]
  BY Appended
<1> HIDE DEF m, ds, a
<1>2. g[m + 1] = a /\ \A v \in 0..m : g[v] = h[v]
  BY <1>1
<1> HIDE DEF g
<1>3. g[0] = Start
  BY <1>1, <1>2 DEF History
<1>4. ASSUME NEW v \in 1..(m + 1)
      PROVE  g[v] = After(ts, g[v - 1], ds[v])
  <2>1. CASE v = m + 1
    <3>1. v - 1 = m /\ m \in 0..m
      BY <1>1, <2>1
    <3> QED  BY <1>1, <1>2, <2>1, <3>1 DEF a
  <2>2. CASE v \in 1..m
    <3>1. v \in 0..m /\ v - 1 \in 0..m
      BY <1>1, <2>2
    <3>2. h[v] = After(ts, h[v - 1], declared[v])
      BY <2>2 DEF History, m
    <3> QED  BY <1>1, <1>2, <2>2, <3>1, <3>2
  <2> QED  BY <1>1, <2>1, <2>2
<1>5. History(ts, ds, g)
  BY <1>1, <1>3, <1>4 DEF History
<1> QED  BY <1>2, <1>5 DEF m, ds, a

\* There is but one history of a declaration.
LEMMA HistoriesAgree ==
  ASSUME NEW n \in Nat, NEW ts, NEW declared \in Seq(1..n), NEW h, NEW g,
         History(ts, declared, h), History(ts, declared, g)
  PROVE  h[Len(declared)] = g[Len(declared)]
<1> DEFINE m == Len(declared)
           T == {v \in 0..m : h[v] # g[v]}
<1>0. m \in Nat
  OBVIOUS
<1>1. T = {}
  <2> SUFFICES ASSUME T # {} PROVE FALSE
    OBVIOUS
  <2>1. PICK v \in T : \A w \in T : v <= w
    <3>1. T \subseteq Nat
      OBVIOUS
    <3> HIDE DEF T
    <3> QED  BY <3>1, Least
  <2>2. v \in 0..m /\ h[v] # g[v]
    OBVIOUS
  <2>3. v # 0
    BY <2>2 DEF History
  <2> HIDE DEF m
  <2>4. v - 1 \in 0..m /\ ~(v <= v - 1) /\ v \in 1..m
    BY <1>0, <2>2, <2>3
  <2>5. h[v - 1] = g[v - 1]
    BY <2>1, <2>4
  <2>6. h[v] = After(ts, h[v - 1], declared[v]) /\ g[v] = After(ts, g[v - 1], declared[v])
    BY <2>4 DEF History, m
  <2> QED  BY <2>2, <2>5, <2>6
<1>2. m \in 0..m
  BY <1>0
<1> QED  BY <1>1, <1>2

\* What is laid out stays so with more types.
LEMMA LaidGrows ==
  ASSUME NEW n \in Nat, NEW ts, NEW us, SameUpTo(n, ts, us),
         NEW r, LaidType(ts, r), r.kind # "tuple" \/ r \in TypeRecord(n)
  PROVE  LaidType(us, r)
<1>1. ASSUME r.kind = "tuple"
      PROVE  LaidTuple(us, r)
  <2>1. /\ LaidTuple(ts, r) /\ r.elems \in Seq(1..n) /\ r.declared \in Seq(1..n)
    BY <1>1 DEF LaidType, TypeRecord
  <2>2. CASE r.declared = <<>>
    BY <2>1, <2>2 DEF LaidTuple
  <2>3. CASE r.declared # <<>>
    <3>1. PICK h : /\ History(ts, r.declared, h)
                   /\ LET s == h[Len(r.declared)]
                      IN  Ends(ts, r, Skip(s, Gap(s.off, s.al)))
      BY <2>1, <2>3 DEF LaidTuple
    <3>2. History(us, r.declared, h)
      BY <2>1, <3>1, HistoryGrows
    <3>3. PICK s, e : s = h[Len(r.declared)] /\ e = Skip(s, Gap(s.off, s.al))
      OBVIOUS
    <3>4. Ends(ts, r, e)
      BY <3>1, <3>3
    <3>5. Ends(us, r, e)
      BY <2>1, <3>4, ShapedGrows DEF Ends
    <3> QED  BY <2>3, <3>2, <3>3, <3>5 DEF LaidTuple
  <2> QED  BY <2>2, <2>3
<1> QED  BY <1>1 DEF LaidType

LEMMA JobLaidGrows ==
  ASSUME NEW n \in Nat, NEW ts, NEW us, SameUpTo(n, ts, us),
         NEW j \in JobRecord(n), LaidJob(ts, j)
  PROVE  LaidJob(us, j)
<1>1. ASSUME j.op = "tuple"
      PROVE  \E h : History(us, j.declared, h) /\ Reached(us, j, h[Len(j.declared)])
  <2>1. j.elems \in Seq(1..n) /\ j.declared \in Seq(1..n)
    BY <1>1 DEF JobRecord
  <2>2. PICK h : History(ts, j.declared, h) /\ Reached(ts, j, h[Len(j.declared)])
    BY <1>1 DEF LaidJob
  <2>3. History(us, j.declared, h)
    BY <2>1, <2>2, HistoryGrows
  <2>4. PICK s : s = h[Len(j.declared)]
    OBVIOUS
  <2>5. Reached(us, j, s)
    BY <2>1, <2>2, <2>4, ShapedGrows DEF Reached
  <2> QED  BY <2>3, <2>4, <2>5
<1> QED  BY <1>1 DEF LaidJob

\* One type more, made of those before.
LEMMA LaidMore ==
  ASSUME NEW ts, LaidTypes(ts), ts \in Seq(TypeRecord(Len(ts))), NEW r,
         LaidType(ts, r), r.elems \in Seq(1..Len(ts)),
         r.kind # "tuple" \/ r \in TypeRecord(Len(ts))
  PROVE  LaidTypes(Append(ts, r))
<1>1. Len(ts) \in Nat /\ DOMAIN ts = 1..Len(ts)
  OBVIOUS
<1>2. \A t \in 1..Len(ts) : LaidType(ts, ts[t]) /\ Earlier(ts, t)
  BY <1>1 DEF LaidTypes
<1> DEFINE us == Append(ts, r)
<1>3. /\ Len(us) = Len(ts) + 1 /\ us[Len(ts) + 1] = r
      /\ \A t \in 1..Len(ts) : us[t] = ts[t]
      /\ DOMAIN us = 1..(Len(ts) + 1)
  BY <1>1
<1>4. SameUpTo(Len(ts), ts, us)
  BY <1>3 DEF SameUpTo
<1> HIDE DEF us
<1>5. ASSUME NEW t \in 1..(Len(ts) + 1)
      PROVE  LaidType(us, us[t]) /\ Earlier(us, t)
  <2>1. CASE t \in 1..Len(ts)
    <3>1. ts[t] \in TypeRecord(Len(ts)) /\ LaidType(ts, ts[t]) /\ us[t] = ts[t]
      BY <1>2, <1>3, <2>1
    <3>2. LaidType(us, us[t])
      BY <1>1, <1>4, <3>1, LaidGrows
    <3>3. Earlier(us, t)
      BY <1>2, <2>1, <3>1 DEF Earlier
    <3> QED  BY <3>2, <3>3
  <2>2. CASE t = Len(ts) + 1
    <3>1. LaidType(us, r)
      BY <1>1, <1>4, LaidGrows
    <3>2. t - 1 = Len(ts) /\ us[t] = r
      BY <1>1, <1>3, <2>2
    <3>3. Earlier(us, t)
      BY <3>2 DEF Earlier
    <3> QED  BY <3>1, <3>2, <3>3
  <2> QED  BY <1>1, <2>1, <2>2
<1> QED  BY <1>3, <1>5 DEF LaidTypes, us

\* A padding more, maybe.
LEMMA LaidGap ==
  ASSUME IInv, LInv, NEW n, NEW ts, ts = TypesWithGap(n)
  PROVE  LaidTypes(ts) /\ SameUpTo(Len(types), types, ts)
<1>0. /\ Len(types) \in Nat /\ types \in Seq(TypeRecord(Len(types)))
      /\ LaidTypes(types)
  BY DEF IInv, SoundTypes, LInv
<1>1. CASE n = 0 \/ Cached(n)
  BY <1>0, <1>1 DEF TypesWithGap, TypesWithPadding, SameUpTo
<1>2. CASE n # 0 /\ ~Cached(n)
  <2>1. PICK r : r = Basic("padding", n, 1, n)
    OBVIOUS
  <2>2. r.kind = "padding" /\ r.extent = 0 /\ r.elems = <<>>
    BY <2>1 DEF Basic
  <2>3. ts = Append(types, r)
    BY <1>2, <2>1 DEF TypesWithGap, TypesWithPadding
  <2>4. \A t \in 1..Len(types) : ts[t] = types[t]
    BY <1>0, <2>3
  <2>5. LaidType(types, r) /\ r.elems \in Seq(1..Len(types))
    BY <2>2 DEF LaidType
  <2>6. LaidTypes(Append(types, r))
    BY <1>0, <2>2, <2>5, LaidMore
  <2> QED  BY <2>3, <2>4, <2>6 DEF SameUpTo
<1> QED  BY <1>1, <1>2

\* A type that is not a tuple is made.
LEMMA MadeLaid ==
  ASSUME IInv, LInv, NEW r, r.kind \notin {"tuple", "padding"},
         r.elems \in Seq(1..Len(types)), Make(r)
  PROVE  LInv'
<1>1. types' = Append(types, r) /\ job' = job
  BY DEF Make
<1>2. /\ types \in Seq(TypeRecord(Len(types))) /\ Len(types) \in Nat
      /\ job \in JobRecord(Len(types)) /\ LaidTypes(types) /\ LaidJob(types, job)
  BY DEF IInv, SoundTypes, SoundJob, LInv
<1>3. LaidType(types, r)
  BY DEF LaidType
<1>4. LaidTypes(Append(types, r))
  BY <1>2, <1>3, LaidMore
<1>5. LaidJob(Append(types, r), job)
  <2>1. PICK us : us = Append(types, r)
    OBVIOUS
  <2>2. SameUpTo(Len(types), types, us)
    BY <1>2, <2>1 DEF SameUpTo
  <2> QED  BY <1>2, <2>1, <2>2, JobLaidGrows
<1>6. LaidTypes(types') /\ LaidJob(types', job')
  BY <1>1, <1>4, <1>5
<1> QED  BY <1>6 DEF LInv

LEMMA OtherLaid ==
  ASSUME LInv, types' = types, job'.op # "tuple"
  PROVE  LInv'
<1>1. LaidTypes(types') /\ LaidJob(types', job')
  BY DEF LInv, LaidJob
<1> QED  BY <1>1 DEF LInv

LEMMA BeginLaid ==
  ASSUME LInv, NEW named \in BOOLEAN, BeginTuple(named)
  PROVE  LInv'
<1>1. PICK j : j = job'
  OBVIOUS
<1>2. /\ types' = types /\ j.elems = <<>> /\ j.declared = <<>>
      /\ j.offset = 0 /\ j.align = 0
  BY <1>1 DEF BeginTuple
<1>3. Len(<<>>) = 0 /\ 1..0 = {} /\ <<>> \in Seq(Nat \X Nat)
  OBVIOUS
<1> DEFINE h == [v \in {0} |-> Start]
<1>4. h[0] = Start
  OBVIOUS
<1> HIDE DEF h
<1>5. History(types, <<>>, h)
  BY <1>3, <1>4 DEF History
<1>6. Start.off = 0 /\ Start.al = 0 /\ Start.shape = <<>>
  BY DEF Start
<1>7. Reached(types, j, Start)
  BY <1>2, <1>3, <1>6 DEF Reached, Shaped
<1>8. LaidJob(types, j)
  BY <1>2, <1>3, <1>4, <1>5, <1>7 DEF LaidJob
<1>9. LaidTypes(types') /\ LaidJob(types', job')
  BY <1>1, <1>2, <1>8 DEF LInv
<1> QED  BY <1>9 DEF LInv

\* What ensure_padding files under a size is a padding of that size.
LEMMA PaddingSized ==
  ASSUME IInv, NEW n \in 0..MaxPadding, n # 0, NEW ts, ts = TypesWithGap(n)
  PROVE  ts[PaddingId(n)].kind = "padding" /\ ts[PaddingId(n)].size = n
<1>0. n \in Nat /\ MaxPadding \in Nat
  BY LayoutAssumption
<1>1. /\ SoundTypes(types) /\ SoundCache(types, padding) /\ Len(types) \in Nat
      /\ types \in Seq(TypeRecord(Len(types)))
  BY DEF IInv, SoundTypes
<1>2. CASE Cached(n)
  <2>1. ts = types /\ PaddingId(n) = padding[n + 1]
    BY <1>2 DEF TypesWithGap, TypesWithPadding, PaddingId
  <2>2. /\ types[padding[n + 1]].kind = "padding"
        /\ types[padding[n + 1]].size = (n + 1) - 1
    BY <1>1, <1>2 DEF Cached, SoundCache
  <2> QED  BY <1>0, <2>1, <2>2
<1>3. CASE ~Cached(n)
  <2>1. PICK r : r = Basic("padding", n, 1, n)
    OBVIOUS
  <2>2. ts = Append(types, r) /\ PaddingId(n) = Len(types) + 1
    BY <1>3, <2>1 DEF TypesWithGap, TypesWithPadding, PaddingId
  <2>3. r.kind = "padding" /\ r.size = n
    BY <2>1 DEF Basic
  <2>4. ts[Len(types) + 1] = r
    BY <1>1, <2>2
  <2> QED  BY <2>2, <2>3, <2>4
<1> QED  BY <1>2, <1>3

LEMMA PaddedLaid ==
  ASSUME IInv, job.op = "tuple", NEW n \in 0..MaxPadding, NEW named \in BOOLEAN,
         NEW ts, ts = TypesWithGap(n), Gapped(n, ts), SameUpTo(Len(types), types, ts),
         NEW s, Reached(types, job, s),
         NEW j, j = Padded(job, n, named)
  PROVE  Reached(ts, j, Skip(s, n)) /\ j.declared = job.declared
<1>0. n \in Nat
  BY LayoutAssumption
<1>1. job \in TupleRecord(Len(types)) /\ Len(types) \in Nat
  BY DEF IInv, SoundTypes, SoundJob, JobRecord, TupleRecord
<1>2. job.elems \in Seq(1..Len(types))
  BY <1>1 DEF TupleRecord
<1>3. Shaped(ts, job.elems, s.shape)
  BY <1>1, <1>2, ShapedGrows DEF Reached
<1>4. CASE n = 0
  BY <1>3, <1>4 DEF Padded, Skip, Reached
<1>5. CASE n # 0
  <2>1. PICK e : e = PaddingId(n)
    OBVIOUS
  <2>2. ts[e].kind = "padding" /\ ts[e].size = n
    BY <1>5, <2>1, PaddingSized
  <2>3. e \in 1..Len(ts) /\ Len(types) <= Len(ts) /\ Len(ts) \in Nat
    BY <1>5, <2>1 DEF Gapped, SoundTypes
  <2>4. j = [job EXCEPT !.elems = Append(@, e), !.at = Append(@, job.bytes),
                        !.bytes = @ + n, !.offset = (@ + n) % Word,
                        !.fields = IF named THEN Append(@, 0) ELSE @]
    BY <1>5, <2>1 DEF Padded
  <2>5. /\ j.elems = Append(job.elems, e) /\ j.declared = job.declared
        /\ j.offset = (job.offset + n) % Word /\ j.align = job.align
    BY <1>1, <2>4 DEF TupleRecord
  <2>6. job.elems \in Seq(1..Len(ts))
    BY <1>1, <1>2, <2>3, WidenSeq
  <2>7. PICK k, x : k = Skip(s, n) /\ x = <<n, 0>>
    OBVIOUS
  <2>8. /\ k.off = (s.off + n) % Word /\ k.al = s.al
        /\ k.shape = Append(s.shape, x)
    BY <1>5, <2>7 DEF Skip
  <2>9. x \in Nat \X Nat /\ x[1] = n
    BY <1>0, <2>7
  <2>10. Slot(ts, e, x)
    BY <1>5, <2>2, <2>9 DEF Slot
  <2>11. PICK shape : shape = s.shape
    OBVIOUS
  <2>12. Shaped(ts, Append(job.elems, e), Append(shape, x))
    BY <1>3, <2>3, <2>6, <2>9, <2>10, <2>11, ShapedMore
  <2>13. job.offset = s.off /\ job.align = s.al
    BY DEF Reached
  <2>14. Reached(ts, j, k)
    BY <2>5, <2>8, <2>11, <2>12, <2>13 DEF Reached
  <2> QED  BY <2>5, <2>7, <2>14
<1> QED  BY <1>4, <1>5

LEMMA PlacedLaid ==
  ASSUME NEW ts, Len(ts) \in Nat, NEW t \in 1..Len(ts), ts[t] = types[t],
         NEW j \in TupleRecord(Len(ts)), NEW s, Reached(ts, j, s),
         NEW k, k = Placed(j, t)
  PROVE  Reached(ts, k, Put(ts, s, t)) /\ k.declared = Append(j.declared, t)
<1>1. /\ k.elems = Append(j.elems, t) /\ k.declared = Append(j.declared, t)
      /\ k.offset = (j.offset + types[t].size) % Word
      /\ k.align = Larger(j.align, types[t].align)
  BY DEF Placed, TupleRecord
<1>2. PICK p, x : p = Put(ts, s, t) /\ x = <<0, t>>
  OBVIOUS
<1>3. /\ p.off = (s.off + ts[t].size) % Word /\ p.al = Larger(s.al, ts[t].align)
      /\ p.shape = Append(s.shape, x)
  BY <1>2 DEF Put
<1>4. x \in Nat \X Nat /\ x[1] = 0 /\ x[2] = t
  BY <1>2
<1>5. Slot(ts, t, x)
  BY <1>4 DEF Slot
<1>6. PICK shape : shape = s.shape
  OBVIOUS
<1>7. Shaped(ts, Append(j.elems, t), Append(shape, x))
  <2>1. j.elems \in Seq(1..Len(ts)) /\ Shaped(ts, j.elems, shape)
    BY <1>6 DEF TupleRecord, Reached
  <2> QED  BY <1>4, <1>5, <2>1, ShapedMore
<1>8. j.offset = s.off /\ j.align = s.al
  BY DEF Reached
<1>9. Reached(ts, k, p)
  BY <1>1, <1>3, <1>6, <1>7, <1>8 DEF Reached
<1> QED  BY <1>1, <1>2, <1>9

LEMMA AddLaid ==
  ASSUME IInv, LInv, NEW t \in Nameable, AddElement(t)
  PROVE  LInv'
<1> DEFINE gap == IF types[t].kind = "va" THEN 0 ELSE Gap(job.offset, types[t].align)
           j == Padded(job, gap, job.named)
<1>1. job.op = "tuple" /\ job \in TupleRecord(Len(types)) /\ job.named \in BOOLEAN
  BY DEF AddElement, IInv, SoundJob, JobRecord, TupleRecord
<1>2. t \in DOMAIN types /\ Len(types) \in Nat /\ DOMAIN types = 1..Len(types)
  BY DEF Nameable, IInv, SoundTypes
<1>3. CASE gap \notin 0..MaxPadding
  <2>1. types' = types /\ job'.op = "stuck"
    BY <1>3 DEF AddElement, GetStuck
  <2> QED  BY <2>1, OtherLaid
<1>4. CASE gap \in 0..MaxPadding
  <2>1. EnsurePadding(gap) /\ types' = TypesWithGap(gap) /\ job' = Placed(j, t)
    BY <1>4 DEF AddElement
  <2>2. PICK ts : ts = types' /\ ts = TypesWithGap(gap)
    BY <2>1
  <2>h. PICK h : History(types, job.declared, h) /\ Reached(types, job, h[Len(job.declared)])
    BY <1>1 DEF LInv, LaidJob
  <2>s. PICK s : s = h[Len(job.declared)]
    OBVIOUS
  <2>g. gap = GapAt(types, s, t)
    BY <2>h, <2>s DEF Reached, GapAt
  <2> HIDE DEF gap
  <2>3. Gapped(gap, ts)
    BY <1>4, <2>1, <2>2, GapMade
  <2>4. LaidTypes(ts) /\ SameUpTo(Len(types), types, ts)
    BY <2>2, LaidGap
  <2>5. j \in TupleRecord(Len(ts)) /\ Len(ts) \in Nat
    BY <1>1, <1>4, <2>3, PaddedSound DEF Behind, Gapped, SoundTypes
  <2>6. t \in 1..Len(ts) /\ ts[t] = types[t]
    BY <1>2, <2>3, <2>5 DEF Gapped, SoundTypes
  <2>7. Reached(ts, j, Skip(s, gap)) /\ j.declared = job.declared
    BY <1>1, <1>4, <2>2, <2>3, <2>4, <2>h, <2>s, PaddedLaid
  <2> HIDE DEF j
  <2>8. PICK k, e : k = job' /\ k = Placed(j, t) /\ e = Skip(s, gap)
    BY <2>1
  <2>9. Reached(ts, k, Put(ts, e, t)) /\ k.declared = Append(job.declared, t)
    BY <2>5, <2>6, <2>7, <2>8, PlacedLaid
  <2>10. Put(ts, e, t) = After(ts, s, t)
    <3>1. GapAt(ts, s, t) = gap
      BY <2>6, <2>g DEF GapAt
    <3> QED  BY <2>8, <3>1 DEF After
  <2>11. PICK ds : ds = job.declared
    OBVIOUS
  <2>12. ds \in Seq(1..Len(types)) /\ ds \in Seq(1..Len(ts))
    <3>1. ds \in Seq(1..Len(types))
      BY <1>1, <2>11 DEF TupleRecord
    <3>2. Len(types) <= Len(ts)
      BY <2>3 DEF Gapped
    <3> QED  BY <1>2, <2>5, <3>1, <3>2, WidenSeq
  <2>13. History(ts, ds, h)
    BY <1>2, <2>4, <2>11, <2>12, <2>h, HistoryGrows
  <2>14. PICK g : /\ History(ts, Append(ds, t), g)
                  /\ g[Len(ds) + 1] = After(ts, h[Len(ds)], t)
    BY <2>5, <2>6, <2>12, <2>13, HistoryMore
  <2>15. Len(k.declared) = Len(ds) + 1 /\ k.declared = Append(ds, t)
    BY <2>6, <2>9, <2>11, <2>12, Appended
  <2>16. Reached(ts, k, g[Len(k.declared)]) /\ History(ts, k.declared, g)
    BY <2>9, <2>10, <2>11, <2>14, <2>15, <2>s
  <2>17. LaidJob(ts, k)
    BY <2>16 DEF LaidJob
  <2>18. LaidTypes(types') /\ LaidJob(types', job')
    BY <2>2, <2>4, <2>8, <2>17
  <2> QED  BY <2>18 DEF LInv
<1> QED  BY <1>3, <1>4

LEMMA EndTupleLaid ==
  ASSUME IInv, LInv, EndTuple
  PROVE  LInv'
<1> DEFINE gap == Gap(job.offset, job.align)
           j == Padded(job, gap, TRUE)
<1>1. job.op = "tuple" /\ job \in TupleRecord(Len(types)) /\ job.declared # <<>>
  BY DEF EndTuple, IInv, SoundJob, JobRecord, TupleRecord
<1>2. Len(types) \in Nat
  BY DEF IInv, SoundTypes
<1>3. CASE gap \notin 0..MaxPadding
  <2>1. types' = types /\ job'.op = "stuck"
    BY <1>3 DEF EndTuple, GetStuck
  <2> QED  BY <2>1, OtherLaid
<1>4. CASE gap \in 0..MaxPadding
  <2> DEFINE p == j.plain /\ j.bytes < Word
             r == [kind |-> "tuple", size |-> j.offset, align |-> j.align,
                   bytes |-> j.bytes, extent |-> 0, elems |-> j.elems,
                   at |-> j.at, fields |-> j.fields,
                   declared |-> j.declared, plain |-> p]
  <2>0. PICK ts : ts = TypesWithGap(gap)
    OBVIOUS
  <2>1. EnsurePadding(gap) /\ types' = Append(ts, r) /\ job' = Idle
    BY <1>4, <2>0 DEF EndTuple
  <2>h. PICK h : History(types, job.declared, h) /\ Reached(types, job, h[Len(job.declared)])
    BY <1>1 DEF LInv, LaidJob
  <2>s. PICK s : s = h[Len(job.declared)]
    OBVIOUS
  <2>g. gap = Gap(s.off, s.al)
    BY <2>h, <2>s DEF Reached
  <2> HIDE DEF gap
  <2>3. Gapped(gap, ts)
    BY <1>4, <2>0, <2>1, GapMade
  <2>4. LaidTypes(ts) /\ SameUpTo(Len(types), types, ts)
    BY <2>0, LaidGap
  <2>5. j \in TupleRecord(Len(ts)) /\ ts \in Seq(TypeRecord(Len(ts))) /\ Len(ts) \in Nat
    <3>1. Behind(gap, ts, j)
      BY <1>1, <1>4, <2>3, PaddedSound
    <3> HIDE DEF j
    <3> QED  BY <2>3, <3>1 DEF Behind, Gapped, SoundTypes
  <2>6. PICK e : e = Skip(s, gap)
    OBVIOUS
  <2>7. Reached(ts, j, e) /\ j.declared = job.declared
    BY <1>1, <1>4, <2>0, <2>3, <2>4, <2>6, <2>h, <2>s, PaddedLaid
  <2>8. p \in BOOLEAN
    OBVIOUS
  <2> HIDE DEF j, p
  <2>9. r \in TypeRecord(Len(ts))
    BY <2>5, <2>8 DEF TypeRecord, TupleRecord
  <2>10. /\ r.kind = "tuple" /\ r.extent = 0 /\ r.size = j.offset /\ r.align = j.align
         /\ r.elems = j.elems /\ r.declared = j.declared
    OBVIOUS
  <2> HIDE DEF r
  <2>11. Ends(ts, r, e)
    <3>1. e.al = s.al
      BY <2>6 DEF Skip
    <3>2. job.align = s.al
      BY <2>h, <2>s DEF Reached
    <3> QED  BY <2>7, <2>10 DEF Ends, Reached
  <2>12. History(ts, r.declared, h)
    <3>1. PICK ds : ds = job.declared
      OBVIOUS
    <3>2. ds \in Seq(1..Len(types))
      BY <1>1, <3>1 DEF TupleRecord
    <3>3. History(ts, ds, h)
      BY <1>2, <2>4, <2>h, <3>1, <3>2, HistoryGrows
    <3> QED  BY <2>7, <2>10, <3>1, <3>3
  <2>13. LaidTuple(ts, r)
    <3>1. r.declared = job.declared
      BY <2>7, <2>10
    <3>2. Ends(ts, r, Skip(s, Gap(s.off, s.al)))
      BY <2>6, <2>11, <2>g
    <3> QED  BY <1>1, <2>12, <2>s, <3>1, <3>2 DEF LaidTuple
  <2>14. LaidType(ts, r) /\ r.elems \in Seq(1..Len(ts))
    BY <2>9, <2>10, <2>13 DEF LaidType, TypeRecord
  <2>15. LaidTypes(Append(ts, r))
    BY <2>4, <2>5, <2>9, <2>14, LaidMore
  <2>16. LaidTypes(types') /\ LaidJob(types', job')
    BY <2>1, <2>15 DEF LaidJob, Idle
  <2> QED  BY <2>16 DEF LInv
<1> QED  BY <1>3, <1>4

LEMMA EndUnionLaid ==
  ASSUME IInv, LInv, EndUnion
  PROVE  LInv'
<1> DEFINE offset == (job.size + 1) % Word
           gap == Gap(offset, job.align)
<1>1. job.declared \in Seq(1..Len(types)) /\ Len(types) \in Nat
  BY DEF EndUnion, IInv, SoundTypes, SoundJob, JobRecord
<1>3. CASE gap \notin 0..MaxPadding
  <2>1. types' = types /\ job'.op = "stuck"
    BY <1>3 DEF EndUnion, GetStuck
  <2> QED  BY <2>1, OtherLaid
<1>4. CASE gap \in 0..MaxPadding
  <2> DEFINE b == Basic("union", offset, job.align, job.size + 1 + gap)
  <2>0. PICK ts, r : /\ ts = TypesWithGap(gap)
                     /\ r = [b EXCEPT !.elems = job.declared,
                                      !.declared = job.declared, !.plain = FALSE]
    OBVIOUS
  <2>1. EnsurePadding(gap) /\ types' = Append(ts, r) /\ job' = Idle
    BY <1>4, <2>0 DEF EndUnion
  <2>2. r.kind = "union" /\ r.elems = job.declared
    <3>1. b.kind = "union" /\ DOMAIN b = {"kind", "size", "align", "bytes", "extent",
                                "elems", "at", "fields", "declared", "plain"}
      BY DEF Basic
    <3> HIDE DEF b
    <3> QED  BY <2>0, <3>1
  <2> HIDE DEF gap, b
  <2>3. Gapped(gap, ts)
    BY <1>4, <2>0, <2>1, GapMade
  <2>4. ts \in Seq(TypeRecord(Len(ts))) /\ Len(ts) \in Nat /\ Len(types) <= Len(ts)
    BY <2>3 DEF Gapped, SoundTypes
  <2>5. LaidTypes(ts)
    BY <2>0, LaidGap
  <2>6. LaidType(ts, r)
    BY <2>2 DEF LaidType
  <2>7. r.elems \in Seq(1..Len(ts))
    BY <1>1, <2>2, <2>4, WidenSeq
  <2>8. LaidTypes(Append(ts, r))
    BY <2>2, <2>4, <2>5, <2>6, <2>7, LaidMore
  <2>9. LaidTypes(types') /\ LaidJob(types', job')
    BY <2>1, <2>8 DEF LaidJob, Idle
  <2> QED  BY <2>9 DEF LInv
<1> QED  BY <1>3, <1>4

LEMMA InitLaid ==
  ASSUME Init
  PROVE  LInv
<1>1. /\ DOMAIN Builtin = 1..18
      /\ Builtin[17] = Basic("tuple", 0, 0, 0)
      /\ \A t \in 1..18 : t # 17 => Builtin[t].kind \notin {"tuple", "padding"}
      /\ \A t \in 1..18 : Builtin[t].elems = <<>>
  BY DEF Builtin, Basic
<1>2. LaidType(Builtin, Basic("tuple", 0, 0, 0))
  BY DEF Basic, LaidType, LaidTuple
<1>3. \A t \in 1..18 : LaidType(Builtin, Builtin[t])
  <2>1. \A t \in 1..18 : t # 17 => LaidType(Builtin, Builtin[t])
    BY <1>1 DEF LaidType
  <2> QED  BY <1>1, <1>2, <2>1
<1>4. \A t \in 1..18 : Earlier(Builtin, t)
  <2>1. ASSUME NEW t \in 1..18
        PROVE  Builtin[t].elems \in Seq(1..(t - 1))
    <3>1. Builtin[t].elems = <<>>
      BY <1>1
    <3>2. <<>> \in Seq(1..(t - 1))
      OBVIOUS
    <3> HIDE DEF Builtin
    <3> QED  BY <3>1, <3>2
  <2> QED  BY <2>1 DEF Earlier
<1>5. LaidTypes(Builtin)
  BY <1>1, <1>3, <1>4 DEF LaidTypes
<1>6. LaidJob(types, job)
  BY DEF Init, Idle, LaidJob
<1> QED  BY <1>5, <1>6 DEF Init, LInv

LEMMA NextLaid ==
  ASSUME IInv, LInv, [Next]_vars
  PROVE  LInv'
<1>0. Len(types) \in Nat /\ DOMAIN types = 1..Len(types) /\ Len(types) >= 18
  BY DEF IInv, SoundTypes, Builtin
<1>1. CASE Next
  <2>1. CASE \E t \in Nameable : AddElement(t)
    BY <2>1, AddLaid
  <2>2. ASSUME NEW t \in Sized,
               \/ MakePointer(t) \/ MakeSlice(t) \/ MakeAtomic(t)
               \/ \E n \in Extents : MakeArray(t, n)
               \/ AddVariant(t)
        PROVE  LInv'
    <3>0. t \in 1..Len(types) /\ types[t] \in TypeRecord(Len(types))
      BY <1>0 DEF Sized, Nameable, IInv, SoundTypes
    <3>e. <<t>> \in Seq(1..Len(types))
      BY <3>0
    <3>1. CASE MakePointer(t)
      <4>1. PICK r : r = [Basic("pointer", 8, 8, 8) EXCEPT !.elems = <<t>>]
        OBVIOUS
      <4>2. r.kind = "pointer" /\ r.elems = <<t>> /\ Make(r)
        BY <3>1, <4>1 DEF MakePointer, Basic
      <4> QED  BY <3>e, <4>2, MadeLaid
    <3>2. CASE MakeSlice(t)
      <4>1. PICK r : r = [Basic("slice", 16, 8, 16) EXCEPT !.elems = <<t, U64>>]
        OBVIOUS
      <4>2. r.kind = "slice" /\ r.elems = <<t, U64>> /\ Make(r)
        BY <3>2, <4>1 DEF MakeSlice, Basic
      <4>3. <<t, U64>> \in Seq(1..Len(types))
        BY <1>0, <3>0 DEF U64
      <4> QED  BY <4>2, <4>3, MadeLaid
    <3>3. CASE MakeAtomic(t)
      <4>1. PICK r : r = [types[t] EXCEPT !.kind = "atomic", !.extent = 0, !.elems = <<t>>]
        OBVIOUS
      <4>2. r.kind = "atomic" /\ r.elems = <<t>>
        BY <3>0, <4>1 DEF TypeRecord
      <4>3. Make(r)
        BY <3>3, <4>1 DEF MakeAtomic
      <4> QED  BY <3>e, <4>2, <4>3, MadeLaid
    <3>4. ASSUME NEW n \in Extents, MakeArray(t, n)
          PROVE  LInv'
      <4> DEFINE b == Basic("array", (types[t].size * n) % Word, types[t].align,
                            types[t].bytes * n)
                 p == types[t].plain /\ types[t].size * n < Word
      <4>1. PICK r : r = [b EXCEPT !.extent = n, !.elems = <<t>>, !.plain = p]
        OBVIOUS
      <4>2. Make(r)
        BY <3>4, <4>1 DEF MakeArray
      <4>3. b.kind = "array" /\ DOMAIN b = {"kind", "size", "align", "bytes", "extent",
                                  "elems", "at", "fields", "declared", "plain"}
        BY DEF Basic
      <4> HIDE DEF b, p
      <4>4. r.kind = "array" /\ r.elems = <<t>>
        BY <4>1, <4>3
      <4> QED  BY <3>e, <4>2, <4>4, MadeLaid
    <3>5. CASE AddVariant(t)
      <4>1. types' = types /\ job.op = "union" /\ job \in JobRecord(Len(types))
        BY <3>5 DEF AddVariant, IInv, SoundJob
      <4>2. PICK d, s, a : job' = [job EXCEPT !.declared = d, !.size = s, !.align = a]
        BY <3>5 DEF AddVariant
      <4>3. job'.op = "union"
        BY <4>1, <4>2 DEF JobRecord
      <4> QED  BY <4>1, <4>3, OtherLaid
    <3> QED  BY <2>2, <3>1, <3>2, <3>3, <3>4, <3>5
  <2>3. CASE MakeEnum
    <3>1. types[U64] \in TypeRecord(Len(types)) /\ <<U64>> \in Seq(1..Len(types))
      BY <1>0 DEF IInv, SoundTypes, U64
    <3>2. PICK r : r = [types[U64] EXCEPT !.kind = "enum", !.elems = <<U64>>]
      OBVIOUS
    <3>3. r.kind = "enum" /\ r.elems = <<U64>>
      BY <3>1, <3>2 DEF TypeRecord
    <3>4. Make(r)
      BY <2>3, <3>2 DEF MakeEnum
    <3> QED  BY <3>1, <3>3, <3>4, MadeLaid
  <2>4. CASE \E named \in BOOLEAN : BeginTuple(named)
    BY <2>4, BeginLaid
  <2>5. CASE EndTuple
    BY <2>5, EndTupleLaid
  <2>6. CASE BeginUnion
    <3>1. types' = types /\ job'.op = "union"
      BY <2>6 DEF BeginUnion
    <3> QED  BY <3>1, OtherLaid
  <2>7. CASE EndUnion
    BY <2>7, EndUnionLaid
  <2> QED  BY <1>1, <2>1, <2>2, <2>3, <2>4, <2>5, <2>6, <2>7 DEF Next
<1>2. CASE UNCHANGED vars
  <2>1. types' = types /\ job' = job
    BY <1>2 DEF vars
  <2>2. LaidTypes(types') /\ LaidJob(types', job')
    BY <2>1 DEF LInv
  <2> QED  BY <2>2 DEF LInv
<1> QED  BY <1>1, <1>2

LEMMA AsDeclared == Spec => [](IInv /\ LInv)
<1>1. Init => IInv /\ LInv
  BY InitSound, InitLaid
<1>2. IInv /\ LInv /\ [Next]_vars => (IInv /\ LInv)'
  BY NextSound, NextLaid
<1> QED  BY <1>1, <1>2, PTL DEF Spec

-----------------------------------------------------------------------------
(* Types that are the same                                                 *)

\* Types are compared by their elements, which are earlier types.
LEMMA AlikeEarlier ==
  ASSUME NEW x \in Nat, Earlier(types, x), NEW f, NEW g,
         \A e \in 1..(x - 1) : f[e] = g[e]
  PROVE  AlikeIn(f, x) = AlikeIn(g, x)
<1>1. \A i \in 1..Length(x) : types[x].elems[i] \in 1..(x - 1)
  BY DEF Earlier, Length
<1>2. \A i \in 1..Length(x) : f[types[x].elems[i]] = g[types[x].elems[i]]
  BY <1>1
<1> QED  BY <1>2 DEF AlikeIn

AlikeUpTo(f, n) == f = [x \in 1..n |-> AlikeIn(f, x)]

LEMMA AlikeExtend ==
  ASSUME NEW n \in Nat, \A x \in 1..(n + 1) : Earlier(types, x),
         NEW f, AlikeUpTo(f, n)
  PROVE  \E g : AlikeUpTo(g, n + 1)
<1> DEFINE k == n + 1
           g == [x \in 1..k |-> IF x = k THEN AlikeIn(f, k) ELSE f[x]]
<1>1. /\ k \in Nat /\ k \in 1..k /\ k - 1 = n
      /\ \A x \in 1..k : x = k \/ (x \in 1..n /\ x # k)
      /\ \A x \in 1..n : x \in 1..k /\ x # k
      /\ \A x \in 1..k : x \in Nat /\ \A e \in 1..(x - 1) : e \in 1..n
  OBVIOUS
<1>2. \A x \in 1..k : Earlier(types, x)
  OBVIOUS
<1> HIDE DEF k
<1>3. g[k] = AlikeIn(f, k) /\ \A x \in 1..n : g[x] = f[x]
  BY <1>1
<1>4. \A x \in 1..n : f[x] = AlikeIn(f, x)
  <2> TAKE x \in 1..n
  <2>1. f = [z \in 1..n |-> AlikeIn(f, z)]
    BY DEF AlikeUpTo
  <2>2. PICK F : F = [z \in 1..n |-> AlikeIn(f, z)]
    OBVIOUS
  <2>3. F[x] = AlikeIn(f, x) /\ f = F
    BY <2>1, <2>2
  <2> QED  BY <2>3
<1>5. ASSUME NEW x \in 1..k
      PROVE  g[x] = AlikeIn(g, x)
  <2>0. x \in Nat /\ Earlier(types, x)
    BY <1>1, <1>2
  <2>1. \A e \in 1..(x - 1) : f[e] = g[e]
    BY <1>1, <1>3
  <2> HIDE DEF g
  <2>2. AlikeIn(f, x) = AlikeIn(g, x)
    BY <2>0, <2>1, AlikeEarlier
  <2>3. g[x] = AlikeIn(f, x)
    BY <1>1, <1>3, <1>4
  <2> QED  BY <2>2, <2>3
<1>6. g = [x \in 1..k |-> g[x]]
  OBVIOUS
<1> HIDE DEF g
<1>7. g = [x \in 1..k |-> AlikeIn(g, x)]
  BY <1>5, <1>6
<1> QED  BY <1>7 DEF AlikeUpTo, k

LEMMA AlikeFrom ==
  ASSUME NEW m \in Nat, \A x \in 1..m : Earlier(types, x)
  PROVE  \E f : AlikeUpTo(f, m)
<1> DEFINE T == {k \in 0..m : ~ \E f : AlikeUpTo(f, k)}
<1>1. T = {}
  <2> SUFFICES ASSUME T # {} PROVE FALSE
    OBVIOUS
  <2>1. PICK k \in T : \A j \in T : k <= j
    <3>1. T \subseteq Nat
      OBVIOUS
    <3> HIDE DEF T
    <3> QED  BY <3>1, Least
  <2>2. k \in 0..m /\ ~ \E f : AlikeUpTo(f, k)
    OBVIOUS
  <2>3. CASE k = 0
    <3> DEFINE f == [x \in {} |-> {}]
    <3>1. 1..0 = {}
      OBVIOUS
    <3>2. f = [x \in 1..0 |-> AlikeIn(f, x)]
      BY <3>1
    <3> HIDE DEF f
    <3> QED  BY <2>2, <2>3, <3>2 DEF AlikeUpTo
  <2>4. CASE k # 0
    <3>1. PICK j : j = k - 1
      OBVIOUS
    <3>2. j \in 0..m /\ j + 1 = k /\ ~(k <= j) /\ j \in Nat
      BY <2>2, <2>4, <3>1
    <3>3. PICK f : AlikeUpTo(f, j)
      BY <2>1, <3>2
    <3>4. \A x \in 1..(j + 1) : Earlier(types, x)
      BY <2>2, <3>2
    <3>5. \E g : AlikeUpTo(g, j + 1)
      BY <3>2, <3>3, <3>4, AlikeExtend
    <3> QED  BY <2>2, <3>2, <3>5
  <2> QED  BY <2>3, <2>4
<1>2. m \in 0..m
  OBVIOUS
<1> QED  BY <1>1, <1>2

\* The equation of Alike has a solution, so Alike is one.
LEMMA AlikeDefined ==
  ASSUME IInv, LInv
  PROVE  \A x \in DOMAIN types : Alike[x] = AlikeIn(Alike, x)
<1>1. Len(types) \in Nat /\ DOMAIN types = 1..Len(types)
  BY DEF IInv, SoundTypes
<1>2. \A x \in 1..Len(types) : Earlier(types, x)
  BY <1>1 DEF LInv, LaidTypes
<1>3. PICK f : AlikeUpTo(f, Len(types))
  BY <1>1, <1>2, AlikeFrom
<1>4. f = [x \in DOMAIN types |-> AlikeIn(f, x)]
  BY <1>1, <1>3 DEF AlikeUpTo
<1>6. Alike = [x \in DOMAIN types |-> AlikeIn(Alike, x)]
  BY <1>4 DEF Alike
<1>7. PICK F : F = Alike
  OBVIOUS
<1>8. F = [x \in DOMAIN types |-> AlikeIn(F, x)]
  BY <1>6, <1>7
<1>9. PICK G : G = [x \in DOMAIN types |-> AlikeIn(F, x)]
  OBVIOUS
<1>10. \A x \in DOMAIN types : G[x] = AlikeIn(F, x)
  BY <1>9
<1> QED  BY <1>7, <1>8, <1>9, <1>10

\* Every type is like itself.
LEMMA AlikeSelf ==
  ASSUME IInv, LInv
  PROVE  \A x \in DOMAIN types : x \in Alike[x]
<1>1. Len(types) \in Nat /\ DOMAIN types = 1..Len(types)
  BY DEF IInv, SoundTypes
<1>2. \A x \in 1..Len(types) : Earlier(types, x)
  BY <1>1 DEF LInv, LaidTypes
<1> DEFINE T == {x \in 1..Len(types) : x \notin Alike[x]}
<1>3. T = {}
  <2> SUFFICES ASSUME T # {} PROVE FALSE
    OBVIOUS
  <2>1. PICK x \in T : \A y \in T : x <= y
    <3>1. T \subseteq Nat
      OBVIOUS
    <3> HIDE DEF T
    <3> QED  BY <3>1, Least
  <2>2. x \in 1..Len(types) /\ x \notin Alike[x] /\ Earlier(types, x)
    BY <1>2
  <2>3. ASSUME NEW i \in 1..Length(x)
        PROVE  types[x].elems[i] \in Alike[types[x].elems[i]]
    <3>1. PICK e : e = types[x].elems[i]
      OBVIOUS
    <3>2. e \in 1..(x - 1)
      BY <2>2, <3>1 DEF Earlier, Length
    <3>3. e \in 1..Len(types) /\ ~(x <= e)
      BY <1>1, <2>2, <3>2
    <3> QED  BY <2>1, <3>1, <3>3
  <2>4. x \in AlikeIn(Alike, x)
    BY <1>1, <2>2, <2>3 DEF AlikeIn
  <2> QED  BY <1>1, <2>2, <2>4, AlikeDefined
<1> QED  BY <1>1, <1>3

\* Paddings of one size are alike.
LEMMA PaddingsAlike ==
  ASSUME IInv, LInv, NEW x \in DOMAIN types, NEW y \in DOMAIN types,
         types[x].kind = "padding", types[y].kind = "padding",
         types[x].size = types[y].size
  PROVE  y \in Alike[x]
<1>1. types[x].align = types[y].align
  BY DEF IInv, SoundTypes, SoundType
<1>2. types[x].extent = types[y].extent /\ Length(y) = 0
  <2>1. \A t \in {x, y} : types[t].extent = 0 /\ types[t].elems = <<>>
    BY DEF LInv, LaidTypes, LaidType
  <2>2. Len(<<>>) = 0
    OBVIOUS
  <2> QED  BY <2>1, <2>2 DEF Length
<1>3. y \in AlikeIn(Alike, x)
  BY <1>1, <1>2 DEF AlikeIn
<1> QED  BY <1>3, AlikeDefined

LEMMA ShapesAlike ==
  ASSUME IInv, LInv, NEW s \in DOMAIN types, NEW t \in DOMAIN types,
         NEW shape, Shaped(types, types[s].elems, shape), Shaped(types, types[t].elems, shape)
  PROVE  /\ Length(s) = Length(t)
         /\ \A i \in 1..Length(s) : types[t].elems[i] \in Alike[types[s].elems[i]]
<1>1. Length(s) = Length(t)
  BY DEF Shaped, Length
<1>2. ASSUME NEW i \in 1..Length(s)
      PROVE  types[t].elems[i] \in Alike[types[s].elems[i]]
  <2>1. PICK a, b, x : a = types[s].elems[i] /\ b = types[t].elems[i] /\ x = shape[i]
    OBVIOUS
  <2>2. Slot(types, a, x) /\ Slot(types, b, x)
    BY <1>1, <2>1 DEF Shaped, Length
  <2>3. a \in DOMAIN types /\ b \in DOMAIN types
    <3>1. /\ types[s] \in TypeRecord(Len(types)) /\ types[t] \in TypeRecord(Len(types))
          /\ DOMAIN types = 1..Len(types)
      BY DEF IInv, SoundTypes
    <3>2. types[s].elems \in Seq(1..Len(types)) /\ types[t].elems \in Seq(1..Len(types))
      BY <3>1 DEF TypeRecord
    <3>3. PICK es, et : es = types[s].elems /\ et = types[t].elems
      OBVIOUS
    <3>4. i \in 1..Len(es) /\ i \in 1..Len(et) /\ a = es[i] /\ b = et[i]
      BY <1>1, <2>1, <3>3 DEF Length
    <3>5. PICK S : S = 1..Len(types)
      OBVIOUS
    <3>6. es \in Seq(S) /\ et \in Seq(S)
      BY <3>2, <3>3, <3>5
    <3>7. es[i] \in S /\ et[i] \in S
      BY <3>4, <3>6
    <3> QED  BY <3>1, <3>4, <3>5, <3>7
  <2>4. CASE x[1] = 0
    BY <2>1, <2>2, <2>3, <2>4, AlikeSelf DEF Slot
  <2>5. CASE x[1] # 0
    BY <2>1, <2>2, <2>3, <2>5, PaddingsAlike DEF Slot
  <2> QED  BY <2>4, <2>5
<1> QED  BY <1>1, <1>2

\* CgType::operator!= finds no difference between tuples declared to hold the
\* same, whichever paddings were in the cache when each was laid out.
THEOREM DeclaredAlike == Spec => []SameDeclarationSameType
<1>1. ASSUME IInv, LInv, NEW s \in Tuples, NEW t \in Tuples,
             types[s].declared = types[t].declared
      PROVE  Same(s, t)
  <2>1. s \in DOMAIN types /\ t \in DOMAIN types /\ Len(types) \in Nat
    BY <1>1 DEF Tuples, IInv, SoundTypes
  <2>2. /\ types[s].kind = "tuple" /\ types[t].kind = "tuple"
        /\ types[s].extent = 0 /\ types[t].extent = 0
        /\ LaidTuple(types, types[s]) /\ LaidTuple(types, types[t])
    BY <1>1, <2>1 DEF Tuples, LInv, LaidTypes, LaidType
  <2>3. PICK d : d = types[s].declared /\ d = types[t].declared
    BY <1>1
  <2>4. d \in Seq(1..Len(types))
    <3>1. types[s] \in TypeRecord(Len(types))
      BY <1>1, <2>1 DEF IInv, SoundTypes
    <3> QED  BY <2>3, <3>1 DEF TypeRecord
  <2>5. /\ types[s].size = types[t].size /\ types[s].align = types[t].align
        /\ \E shape : /\ Shaped(types, types[s].elems, shape)
                      /\ Shaped(types, types[t].elems, shape)
    <3>1. CASE d = <<>>
      <4>1. /\ types[s].size = 0 /\ types[t].size = 0
            /\ types[s].align = 0 /\ types[t].align = 0
            /\ types[s].elems = <<>> /\ types[t].elems = <<>>
        BY <2>2, <2>3, <3>1 DEF LaidTuple
      <4>2. <<>> \in Seq(Nat \X Nat) /\ Len(<<>>) = 0 /\ 1..0 = {}
        OBVIOUS
      <4>3. Shaped(types, <<>>, <<>>)
        BY <4>2 DEF Shaped
      <4> QED  BY <4>1, <4>3
    <3>2. CASE d # <<>>
      <4>1. PICK h : /\ History(types, d, h)
                     /\ LET e == h[Len(d)]
                        IN  Ends(types, types[s], Skip(e, Gap(e.off, e.al)))
        BY <2>2, <2>3, <3>2 DEF LaidTuple
      <4>2. PICK g : /\ History(types, d, g)
                     /\ LET e == g[Len(d)]
                        IN  Ends(types, types[t], Skip(e, Gap(e.off, e.al)))
        BY <2>2, <2>3, <3>2 DEF LaidTuple
      <4>3. h[Len(d)] = g[Len(d)]
        BY <2>1, <2>4, <4>1, <4>2, HistoriesAgree
      <4>4. PICK e : e = Skip(h[Len(d)], Gap(h[Len(d)].off, h[Len(d)].al))
        OBVIOUS
      <4>5. Ends(types, types[s], e) /\ Ends(types, types[t], e)
        BY <4>1, <4>2, <4>3, <4>4
      <4> QED  BY <4>5 DEF Ends
    <3> QED  BY <3>1, <3>2
  <2>6. /\ Length(s) = Length(t)
        /\ \A i \in 1..Length(s) : types[t].elems[i] \in Alike[types[s].elems[i]]
    BY <1>1, <2>1, <2>5, ShapesAlike
  <2>7. t \in AlikeIn(Alike, s)
    BY <2>1, <2>2, <2>5, <2>6 DEF AlikeIn
  <2> QED  BY <1>1, <2>1, <2>7, AlikeDefined DEF Same
<1>2. IInv /\ LInv => SameDeclarationSameType
  BY <1>1 DEF SameDeclarationSameType
<1> QED  BY <1>2, AsDeclared, PTL

=============================================================================
