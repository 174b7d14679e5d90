----------------------------- MODULE NodesProofs -----------------------------
(***************************************************************************)
(* For any sizes of nodes and pools, and any number of nodes: every node   *)
(* that a parser makes is destroyed, once, and nothing else is taken for a *)
(* node; and the caches and their pools use the allocators of their arena  *)
(* as Region allows.                                                       *)
(*                                                                         *)
(* The iterators never ask whether item 0 of a pool is occupied.  It is,   *)
(* since a pool is made for a node that takes its first item at once, and  *)
(* since the parser ends if the pool cannot be had.                        *)
(***************************************************************************)
EXTENDS Nodes, AllocatorsProofs, SequenceTheorems, WellFoundedInduction

PoolType == [storage : Blocks, words : Blocks, occupied : SUBSET (0 .. Objects - 1)]
CacheType == [size : NodeSizes, pools : Seq(PoolType), data : SUBSET Blocks, room : Nat]

\* A cache waits for memory for its next pool.
Asking == job.part \in {"storage", "words", "grow"}

JobTyped ==
  \/ job = NoJob
  \/ job \in [part : {"scan", "storage"}, cache : DOMAIN caches]
  \/ job \in [part : {"words"}, cache : DOMAIN caches, storage : Blocks]
  \/ job \in [part : {"grow"}, cache : DOMAIN caches, pool : PoolType]

TreeTyped ==
  /\ caches \in Seq(CacheType)
  /\ \A c \in DOMAIN caches : Len(caches[c].pools) <= caches[c].room
  /\ nodes \in Seq(Blocks) /\ destroyed \in Seq(Blocks)
  /\ drops \in Seq(Blocks) /\ Len(drops) <= 2
  /\ walk \in [cache : Nat, pool : Nat, item : Nat]
  /\ JobTyped

Phased ==
  /\ phase \in {"scratch", "parse", "destroy", "release", "done"}
  /\ phase = "scratch" => caches = <<>> /\ nodes = <<>>
  /\ phase \in {"scratch", "parse"} => walk = NoWalk /\ destroyed = <<>> /\ drops = <<>>
  /\ phase # "parse" => job = NoJob
  /\ ask # Idle => phase = "scratch" \/ (Asking /\ ask.size > 0)

\* Who holds a block: a pool, a cache, the pool that is being made, an answer that has not
\* been looked at, a destructor.
PoolHolds(who, b) ==
  \E c \in DOMAIN caches : \E p \in DOMAIN caches[c].pools :
    \/ who = <<"storage", c, p>> /\ b = caches[c].pools[p].storage
    \/ who = <<"words", c, p>> /\ b = caches[c].pools[p].words

CacheHolds(who, b) == \E c \in DOMAIN caches : who = <<"data", c, 0>> /\ b \in caches[c].data

JobHolds(who, b) ==
  \/ job.part = "words" /\ who = <<"pool", 1, 0>> /\ b = job.storage
  \/ job.part = "grow" /\ who = <<"pool", 1, 0>> /\ b = job.pool.storage
  \/ job.part = "grow" /\ who = <<"pool", 2, 0>> /\ b = job.pool.words
  \/ Asking /\ who = <<"answer", 0, 0>> /\ b \in answer

DropHolds(who, b) == \E i \in DOMAIN drops : who = <<"drop", i, 0>> /\ b = drops[i]

Holds(who, b) ==
  PoolHolds(who, b) \/ CacheHolds(who, b) \/ JobHolds(who, b) \/ DropHolds(who, b)

\* What is held is in use, and held once.
HeldApart ==
  \A who, b : Holds(who, b) =>
    /\ b \in live /\ b.size > 0
    /\ \A other, d : Holds(other, d) /\ <<who, b>> # <<other, d>> => ~Promise!Overlap(b, d)

PoolBytes(c) == caches[c].size * Objects

PoolsSized ==
  /\ \A c \in DOMAIN caches : \A p \in DOMAIN caches[c].pools :
       caches[c].pools[p].storage.size = PoolBytes(c)
  /\ job.part = "storage" =>
       /\ ask # Idle => ask.size = PoolBytes(job.cache)
       /\ \A b \in answer : b.size = PoolBytes(job.cache)
  /\ job.part = "words" => job.storage.size = PoolBytes(job.cache)
  /\ job.part = "grow" => job.pool.storage.size = PoolBytes(job.cache)

\* Item 0 of a pool is occupied, unless the pool has just been made, and is the only one of
\* its cache with room for the node it was made for.
PoolsBegun ==
  /\ Asking => Vacant(job.cache) = {}
  /\ job.part = "grow" => job.pool.occupied = {}
  /\ \A c \in DOMAIN caches : \A p \in DOMAIN caches[c].pools :
       \/ 0 \in caches[c].pools[p].occupied
       \/ /\ job.part = "scan" /\ job.cache = c
          /\ Vacant(c) = {p} /\ caches[c].pools[p].occupied = {}

Occupied(c, p, i) ==
  c \in DOMAIN caches /\ p \in DOMAIN caches[c].pools /\ i \in caches[c].pools[p].occupied

\* The nodes are what the bitmaps say.
NodesPlaced ==
  phase \in {"parse", "destroy"} =>
    /\ \A k \in DOMAIN nodes : \E c, p, i \in Nat : Occupied(c, p, i) /\ nodes[k] = Address(c, p, i)
    /\ \A c, p, i \in Nat : Occupied(c, p, i) => Address(c, p, i) \in Range(nodes)

NodesApart == \A i, j \in DOMAIN nodes : i # j => ~Promise!Overlap(nodes[i], nodes[j])

Before(c, p, i, w) ==
  \/ c < w.cache
  \/ c = w.cache /\ p < w.pool
  \/ c = w.cache /\ p = w.pool /\ i < w.item

\* What the iterators have gone past is what has been destroyed.
Walked ==
  /\ IsInjective(destroyed)
  /\ phase = "destroy" =>
       /\ (walk = NoWalk /\ destroyed = <<>>) \/ Occupied(walk.cache, walk.pool, walk.item)
       /\ \A k \in DOMAIN destroyed : \E c, p, i \in Nat :
            Occupied(c, p, i) /\ Before(c, p, i, walk) /\ destroyed[k] = Address(c, p, i)
       /\ \A c, p, i \in Nat :
            Occupied(c, p, i) /\ Before(c, p, i, walk) => Address(c, p, i) \in Range(destroyed)
  /\ phase \in {"release", "done"} => Range(destroyed) = Range(nodes)

Tree ==
  /\ TreeTyped /\ Phased
  /\ HeldApart /\ PoolsSized /\ PoolsBegun
  /\ NodesPlaced /\ NodesApart /\ Walked

NodesInv == IInv /\ Tree
-----------------------------------------------------------------------------
(* Numbers.                                                                *)

LEMMA Quotient ==
  ASSUME NEW w \in Nat \ {0}, NEW x \in Nat, x >= w
  PROVE  x \div w \in Nat \ {0}
  OBVIOUS

LEMMA Cancel ==
  ASSUME NEW w \in Nat \ {0}, NEW q \in Nat
  PROVE  (q * w) \div w = q /\ q * w \in Nat /\ (q > 0 => q * w > 0)
  OBVIOUS

\* The i-th of the items of size s ends where the j-th begins, or before.
LEMMA InOrder ==
  ASSUME NEW s \in Nat, NEW i \in Nat, NEW j \in Nat, i < j
  PROVE  s * i \in Nat /\ s * j \in Nat /\ s * i + s <= s * j
  OBVIOUS

LEMMA PoolNumbers ==
  Objects \in Nat \ {0} /\ WordsBytes \in Nat \ {0}
  <1> DEFINE words == (ObjectCount + WordBits - 1) \div WordBits
  <1>1. words \in Nat \ {0}
    BY NodesAssumption, Quotient
  <1> HIDE DEF words
  <1>2. Objects = words * WordBits
    BY DEF Objects, words
  <1>3. Objects \in Nat \ {0} /\ Objects \div WordBits = words
    BY <1>1, <1>2, NodesAssumption, Cancel
  <1>4. QED
    BY <1>1, <1>3 DEF WordsBytes

LEMMA LeastOf ==
  ASSUME NEW S, S \subseteq Nat, S # {}
  PROVE  Min(S) \in S /\ \A x \in S : Min(S) <= x
  <1> DEFINE R == OpToRel(<, Nat)
  <1>1. IsWellFoundedOn(R, Nat)
    BY NatLessThanWellFounded
  <1>2. \A x, y \in Nat : x < y => <<x, y>> \in R
    BY DEF OpToRel
  <1> HIDE DEF R
  <1>3. PICK m \in S : \A y \in S : ~(<<y, m>> \in R)
    BY <1>1, WFMin
  <1>4. ASSUME NEW y \in S
        PROVE  m <= y
    <2>1. m \in Nat /\ y \in Nat /\ ~(<<y, m>> \in R)
      BY <1>3
    <2>2. ~(y < m)
      BY <1>2, <2>1
    <2>3. QED
      BY <2>1, <2>2
  <1>5. QED
    BY <1>3, <1>4 DEF Min

-----------------------------------------------------------------------------
(* The growth of an array.                                                 *)

Longer(c) == ((c + 1) * 3) \div 2

\* The capacities that the loop of Array::reserve goes through from c on end in one that is
\* long enough.
Ends(g, length, from) ==
  \A c \in from .. 3 * length :
    g[c] \in Nat /\ g[c] = IF c >= length THEN c ELSE g[Longer(c)]

LEMMA LongerIs ==
  ASSUME NEW length \in Nat, NEW c \in Nat, c < length
  PROVE  Longer(c) \in Nat /\ c < Longer(c) /\ Longer(c) <= 3 * length
  BY DEF Longer

LEMMA EndsExist ==
  ASSUME NEW length \in Nat
  PROVE  \E g \in [0 .. 3 * length -> Nat] : Ends(g, length, 0)
  <1> DEFINE top == 3 * length
             Has(n) == \E g \in [top - n .. top -> Nat] : Ends(g, length, top - n)
             Lacks == {n \in 0 .. top : ~Has(n)}
  <1>1. top \in Nat
    OBVIOUS
  <1>2. Has(0)
    <2> DEFINE g == [c \in top - 0 .. top |-> c]
    <2>1. g \in [top - 0 .. top -> Nat]
      BY <1>1
    <2>2. Ends(g, length, top - 0)
      BY <1>1 DEF Ends
    <2>3. QED
      BY <2>1, <2>2
  <1>3. ASSUME NEW n \in 0 .. top, n + 1 \in 0 .. top, Has(n)
        PROVE  Has(n + 1)
    <2> DEFINE k == top - n
               l == top - (n + 1)
    <2>1. PICK g \in [k .. top -> Nat] : Ends(g, length, k)
      BY <1>3
    <2>2. l \in Nat /\ k = l + 1 /\ k \in 0 .. top /\ l \in 0 .. top
      BY <1>1, <1>3
    <2> HIDE DEF k, l
    <2> DEFINE h == [c \in l .. top |->
                       IF c \in k .. top THEN g[c]
                       ELSE IF c >= length THEN c ELSE g[Longer(c)]]
    <2>3. ASSUME NEW c \in l .. top
          PROVE  /\ c \in Nat
                 /\ c \in k .. top \/ c = l
                 /\ c < length => Longer(c) \in k .. top /\ Longer(c) \in l .. top
      <3>1. c \in Nat /\ (c \in k .. top \/ c = l)
        BY <1>1, <2>2
      <3>2. c < length => Longer(c) \in k .. top /\ Longer(c) \in l .. top
        BY <1>1, <2>2, <3>1, LongerIs
      <3>3. QED
        BY <3>1, <3>2
    <2>4. \A c \in k .. top : g[c] \in Nat
      OBVIOUS
    <2>5. h \in [l .. top -> Nat]
      BY <2>3, <2>4
    <2>6. \A c \in k .. top : c \in l .. top /\ h[c] = g[c]
      BY <2>2
    <2>7. ASSUME NEW c \in l .. top
          PROVE  h[c] = IF c >= length THEN c ELSE h[Longer(c)]
      <3>1. CASE c \in k .. top
        <4>1. g[c] = IF c >= length THEN c ELSE g[Longer(c)]
          BY <2>1, <3>1 DEF Ends
        <4>2. QED
          BY <2>3, <2>6, <3>1, <4>1, <1>1
      <3>2. CASE c \notin k .. top
        <4>1. h[c] = IF c >= length THEN c ELSE g[Longer(c)]
          BY <3>2
        <4>2. QED
          BY <2>3, <2>6, <4>1, <1>1
      <3>3. QED
        BY <3>1, <3>2
    <2> HIDE DEF h
    <2>8. \A c \in l .. top : h[c] \in Nat
      BY <2>5
    <2>9. Ends(h, length, l)
      BY <2>7, <2>8 DEF Ends
    <2>10. QED
      BY <2>5, <2>9 DEF l
  <1> HIDE DEF Has
  <1>4. Lacks = {}
    <2> SUFFICES ASSUME Lacks # {} PROVE FALSE
      OBVIOUS
    <2>1. Min(Lacks) \in Lacks /\ \A x \in Lacks : Min(Lacks) <= x
      BY LeastOf
    <2> DEFINE m == Min(Lacks)
    <2>2. m \in 0 .. top /\ ~Has(m) /\ \A x \in 0 .. top : ~Has(x) => m <= x
      BY <2>1
    <2> HIDE DEF m
    <2>3. m # 0
      BY <1>2, <2>2
    <2> DEFINE n == m - 1
    <2>4. n \in 0 .. top /\ n + 1 = m /\ n + 1 \in 0 .. top /\ ~(m <= n)
      BY <1>1, <2>2, <2>3
    <2> HIDE DEF n
    <2>5. Has(n)
      BY <2>2, <2>4
    <2>6. QED
      BY <1>3, <2>2, <2>4, <2>5
  <1>5. Has(top)
    BY <1>1, <1>4
  <1>6. top - top = 0
    BY <1>1
  <1>7. QED
    BY <1>5, <1>6 DEF Has

LEMMA GrownSuffices ==
  ASSUME NEW length \in Nat
  PROVE  Grown(length) \in Nat /\ Grown(length) >= length
  <1> DEFINE top == 3 * length
             Solves(f) == f = [c \in 0 .. top |->
                                 IF c >= length THEN c ELSE f[((c + 1) * 3) \div 2]]
             f == CHOOSE f : Solves(f)
  <1>1. top \in Nat
    OBVIOUS
  <1>2. PICK g \in [0 .. top -> Nat] : Ends(g, length, 0)
    BY EndsExist
  <1>3. Solves(g)
    <2>1. \A c \in 0 .. top : g[c] = IF c >= length THEN c ELSE g[((c + 1) * 3) \div 2]
      BY <1>2 DEF Ends, Longer
    <2>2. QED
      BY <2>1
  <1>4. Solves(f)
    BY <1>3
  <1>5. Grown(length) = f[0]
    BY DEF Grown
  <1> HIDE DEF f
  <1>6. \A c \in 0 .. top : f[c] = IF c >= length THEN c ELSE f[Longer(c)]
    BY <1>4 DEF Longer
  <1> HIDE DEF Solves
  <1> DEFINE Good(n) == f[top - n] \in Nat /\ f[top - n] >= length
             Bad == {n \in 0 .. top : ~Good(n)}
  <1>7. Bad = {}
    <2> SUFFICES ASSUME Bad # {} PROVE FALSE
      OBVIOUS
    <2>1. Min(Bad) \in Bad /\ \A x \in Bad : Min(Bad) <= x
      <3> HIDE DEF Good
      <3>1. Bad \subseteq Nat
        OBVIOUS
      <3> HIDE DEF Bad
      <3>2. QED
        BY <3>1, LeastOf
    <2> DEFINE m == Min(Bad)
               c == top - m
    <2>2. m \in 0 .. top /\ ~Good(m) /\ \A x \in 0 .. top : ~Good(x) => m <= x
      BY <2>1
    <2> HIDE DEF m
    <2>3. c \in 0 .. top /\ c \in Nat
      BY <1>1, <2>2
    <2>4. c < length
      <3> SUFFICES ASSUME c >= length PROVE FALSE
        BY <1>1, <2>3
      <3>1. f[c] = c
        BY <1>6, <2>3
      <3>2. QED
        BY <2>2, <2>3, <3>1
    <2>5. f[c] = f[Longer(c)]
      BY <1>6, <2>3, <2>4
    <2>6. Longer(c) \in Nat /\ c < Longer(c) /\ Longer(c) <= top
      BY <2>3, <2>4, LongerIs
    <2> DEFINE x == top - Longer(c)
    <2>7. x \in 0 .. top /\ ~(m <= x) /\ top - x = Longer(c)
      BY <1>1, <2>2, <2>3, <2>6
    <2> HIDE DEF x
    <2>8. Good(x)
      <3> HIDE DEF Good
      <3>1. QED
        BY <2>2, <2>7
    <2>9. QED
      BY <2>2, <2>5, <2>7, <2>8
  <1>8. Good(top)
    <2> HIDE DEF Good
    <2>1. QED
      BY <1>1, <1>7
  <1>9. top - top = 0
    BY <1>1
  <1>10. QED
    BY <1>5, <1>8, <1>9

-----------------------------------------------------------------------------
(* What is typed.                                                          *)

LEMMA CachesTyped ==
  ASSUME TreeTyped
  PROVE  /\ Len(caches) \in Nat /\ DOMAIN caches = 1 .. Len(caches)
         /\ \A c \in DOMAIN caches : caches[c] \in CacheType
  BY DEF TreeTyped

LEMMA CacheTyped ==
  ASSUME NEW cache \in CacheType
  PROVE  /\ cache.size \in NodeSizes /\ cache.size \in Nat \ {0}
         /\ cache.pools \in Seq(PoolType) /\ Len(cache.pools) \in Nat
         /\ DOMAIN cache.pools = 1 .. Len(cache.pools)
         /\ cache.data \in SUBSET Blocks /\ cache.room \in Nat
         /\ cache.size * Objects \in Nat \ {0}
  <1>1. /\ cache.size \in NodeSizes /\ cache.pools \in Seq(PoolType)
        /\ cache.data \in SUBSET Blocks /\ cache.room \in Nat
    BY DEF CacheType
  <1>2. cache.size \in Nat \ {0}
    BY <1>1, NodesAssumption
  <1>3. \A m, n \in Nat \ {0} : m * n \in Nat \ {0}
    OBVIOUS
  <1>4. cache.size * Objects \in Nat \ {0}
    BY <1>2, <1>3, PoolNumbers
  <1>5. QED
    BY <1>1, <1>2, <1>4, LenProperties

LEMMA PoolTyped ==
  ASSUME NEW cache \in CacheType, NEW p \in DOMAIN cache.pools
  PROVE  /\ cache.pools[p] \in PoolType
         /\ cache.pools[p].storage \in Blocks /\ cache.pools[p].words \in Blocks
         /\ cache.pools[p].occupied \subseteq 0 .. Objects - 1
         /\ p \in Nat \ {0}
  <1>1. cache.pools \in Seq(PoolType) /\ Len(cache.pools) \in Nat /\ p \in 1 .. Len(cache.pools)
    BY CacheTyped
  <1>2. cache.pools[p] \in PoolType
    BY <1>1
  <1>3. QED
    BY <1>1, <1>2 DEF PoolType

LEMMA JobOf ==
  ASSUME JobTyped
  PROVE  /\ job = NoJob \/ job.part # "none"
         /\ job.part \in {"scan", "storage", "words", "grow"} => job.cache \in DOMAIN caches
         /\ job.part = "words" => job.storage \in Blocks
         /\ job.part = "grow" => job.pool \in PoolType
         /\ ~Asking <=> job.part \in {"none", "scan"}
  BY DEF JobTyped, NoJob, Asking

LEMMA NoJobAsks == NoJob.part = "none"
  BY DEF NoJob

-----------------------------------------------------------------------------
(* The allocators' part.                                                   *)

\* A step of the parser is one of a client of its arena, or none.
LEMMA NodesUse ==
  NodesInv /\ [NodesNext]_nodesVars => [AnyNext]_vars
  <1> SUFFICES ASSUME NodesInv, [NodesNext]_nodesVars PROVE AnyNext \/ UNCHANGED vars
    OBVIOUS
  <1>1. CASE Serve \/ Client
    BY <1>1, NextIsAny DEF AnyNext, Next
  <1>2. TreeTyped /\ JobTyped
    BY DEF NodesInv, Tree, TreeTyped
  <1>3. CASE \E size \in Nat : Ask(size)
    BY <1>3 DEF AnyNext, AnyClient
  <1>4. CASE \E b \in live : Deallocate(b) /\ UNCHANGED views
    BY <1>4 DEF AnyNext, AnyClient, Drop
  <1>5. CASE MakePool
    <2>1. job.cache \in DOMAIN caches
      BY <1>2, <1>5, JobOf DEF MakePool, At
    <2>2. caches[job.cache].size * Objects \in Nat
      BY <1>2, <2>1, CachesTyped, CacheTyped
    <2>3. QED
      BY <1>3, <1>5, <2>2 DEF MakePool
  <1>6. CASE StorageMade
    BY <1>3, <1>6, PoolNumbers DEF StorageMade
  <1>7. CASE WordsMade
    <2>1. job.cache \in DOMAIN caches
      BY <1>2, <1>7, JobOf DEF WordsMade, At
    <2> DEFINE n == Len(caches[job.cache].pools) + 1
    <2>2. n \in Nat
      BY <1>2, <2>1, CachesTyped, CacheTyped
    <2> HIDE DEF n
    <2>3. Grown(n) * PoolSize \in Nat
      BY <2>2, GrownSuffices, NodesAssumption
    <2>4. UNCHANGED vars \/ Ask(Grown(n) * PoolSize)
      BY <1>7 DEF WordsMade, n
    <2>5. QED
      BY <1>3, <2>3, <2>4
  <1>8. CASE PoolsGrown
    <2>1. job.cache \in DOMAIN caches
      BY <1>2, <1>8, JobOf DEF PoolsGrown, At
    <2>2. ASSUME NEW old \in caches[job.cache].data
          PROVE  old \in live
      <3>1. Holds(<<"data", job.cache, 0>>, old)
        BY <2>1, <2>2 DEF Holds, CacheHolds
      <3>2. QED
        BY <3>1 DEF NodesInv, Tree, HeldApart
    <2>3. \/ UNCHANGED vars
          \/ \E old \in caches[job.cache].data : Deallocate(old) /\ UNCHANGED views
      BY <1>8 DEF PoolsGrown
    <2>4. QED
      BY <1>4, <2>2, <2>3
  <1>9. CASE DropNext
    <2>1. drops # <<>> /\ Deallocate(Head(drops)) /\ UNCHANGED views
      BY <1>9 DEF DropNext
    <2>2. 1 \in DOMAIN drops /\ Head(drops) = drops[1]
      BY <1>2, <2>1 DEF TreeTyped
    <2>3. Holds(<<"drop", 1, 0>>, drops[1])
      BY <2>2 DEF Holds, DropHolds
    <2>4. Head(drops) \in live
      BY <2>2, <2>3 DEF NodesInv, Tree, HeldApart
    <2>5. QED
      BY <1>4, <2>1, <2>4
  <1>10. CASE ReleaseArena
    BY <1>10 DEF ReleaseArena, AnyNext, AnyClient
  <1>11. CASE UNCHANGED vars
    BY <1>11
  <1>12. CASE NewNode \/ TakeFree \/ Parsed \/ DestroyNode \/ NothingToDestroy \/ DestroyPool
              \/ DestroyCache \/ UNCHANGED nodesVars
    BY <1>11, <1>12 DEF NewNode, TakeFree, Parsed, DestroyNode, NothingToDestroy, DestroyPool,
                        DestroyCache, nodesVars
  <1>13. QED
    BY <1>1, <1>5, <1>6, <1>7, <1>8, <1>9, <1>10, <1>12 DEF NodesNext

LEMMA AllocatorsStay == NodesInv /\ [NodesNext]_nodesVars => IInv'
  BY NodesUse, AnySound DEF NodesInv

-----------------------------------------------------------------------------
(* What is held stays apart.                                               *)

LEMMA OverlapSymmetric ==
  ASSUME NEW b, NEW d, ~Promise!Overlap(b, d)
  PROVE  ~Promise!Overlap(d, b)
  BY DEF Promise!Overlap

LEMMA OverlapSelf ==
  ASSUME NEW b \in Blocks, b.size > 0
  PROVE  Promise!Overlap(b, b)
  BY DEF Promise!Overlap, Blocks

\* Who holds a block now held it before, or has it from one who does not hold it any more.
LEMMA HeldAfter ==
  ASSUME HeldApart, NEW T,
         \A s, t \in T : s[2] = t[2] => s[1] = t[1],
         \A who, b : Holds(who, b)' =>
           /\ b \in live'
           /\ \/ Holds(who, b) /\ \A t \in T : t[2] # who
              \/ \E t \in T : who = t[1] /\ Holds(t[2], b)
  PROVE  HeldApart'
  <1> SUFFICES ASSUME NEW who, NEW b, Holds(who, b)'
               PROVE  /\ b \in live' /\ b.size > 0
                      /\ \A other, d : Holds(other, d)' /\ <<who, b>> # <<other, d>>
                           => ~Promise!Overlap(b, d)
    BY DEF HeldApart, Promise!Overlap
  <1>1. b \in live'
    OBVIOUS
  <1>2. PICK from : Holds(from, b)
    OBVIOUS
  <1>3. b.size > 0
    BY <1>2 DEF HeldApart
  <1>4. ASSUME NEW other, NEW d, Holds(other, d)', <<who, b>> # <<other, d>>
        PROVE  ~Promise!Overlap(b, d)
    <2>1. CASE /\ Holds(who, b) /\ \A t \in T : t[2] # who
               /\ Holds(other, d) /\ \A t \in T : t[2] # other
      BY <1>4, <2>1 DEF HeldApart
    <2>2. ASSUME Holds(who, b), \A t \in T : t[2] # who,
                 NEW t \in T, other = t[1], Holds(t[2], d)
          PROVE  ~Promise!Overlap(b, d)
      <3>1. <<who, b>> # <<t[2], d>>
        BY <2>2
      <3>2. QED
        BY <2>2, <3>1 DEF HeldApart
    <2>3. ASSUME Holds(other, d), \A t \in T : t[2] # other,
                 NEW t \in T, who = t[1], Holds(t[2], b)
          PROVE  ~Promise!Overlap(b, d)
      <3>1. <<t[2], b>> # <<other, d>>
        BY <2>3
      <3>2. QED
        BY <2>3, <3>1 DEF HeldApart
    <2>4. ASSUME NEW s \in T, who = s[1], Holds(s[2], b),
                 NEW t \in T, other = t[1], Holds(t[2], d)
          PROVE  ~Promise!Overlap(b, d)
      <3>1. <<s[2], b>> # <<t[2], d>>
        BY <1>4, <2>4
      <3>2. QED
        BY <2>4, <3>1 DEF HeldApart
    <2>5. QED
      BY <1>4, <2>1, <2>2, <2>3, <2>4
  <1>5. QED
    BY <1>1, <1>3, <1>4

\* Steps that change nothing of the tree but who holds what.
LEMMA TreeKept ==
  ASSUME Tree, UNCHANGED <<caches, nodes, destroyed, walk, phase>>
  PROVE  NodesPlaced' /\ NodesApart' /\ Walked'
  BY DEF Tree, NodesPlaced, NodesApart, Walked, Occupied, Address, Before, Promise!Overlap

LEMMA ServeGives ==
  ASSUME IInv, Serve
  PROVE  /\ ask # Idle
         /\ \/ /\ UNCHANGED <<live, answer>>
               /\ ask' = Idle \/ ask'.size = ask.size
            \/ \E b \in Blocks :
                 /\ live' = live \union {b} /\ answer' = {b} /\ ask' = Idle
                 /\ b.size = ask.size
                 /\ \A c \in live : ~Promise!Overlap(b, c)
  <1>1. AllocatorsTypeOK /\ ask # Idle
    BY DEF IInv, Serve, InlineServes, InlineRefuses, ArenaServes, ArenaGrows, ArenaRefuses, Serving
  <1>2. ask \in [size : Nat, where : {"inline", "arena"}, made : Nat]
    BY <1>1, AskTyped
  <1>3. CASE InlineRefuses \/ ArenaGrows \/ ArenaRefuses
    BY <1>1, <1>2, <1>3 DEF InlineRefuses, ArenaGrows, ArenaRefuses
  <1>4. ASSUME NEW p, Hands(p)
        PROVE  \E b \in Blocks :
                 /\ live' = live \union {b} /\ answer' = {b} /\ ask' = Idle
                 /\ b.size = ask.size
                 /\ \A c \in live : ~Promise!Overlap(b, c)
    <2> DEFINE b == [in |-> p, at |-> Used(p), size |-> ask.size]
    <2>1. p \in Places /\ Used(p) \in Nat /\ p \in Nat
      BY <1>1, <1>4, PlacesTyped DEF Hands, Places
    <2>2. b \in Blocks /\ b.size = ask.size
      BY <1>2, <2>1 DEF Blocks
    <2>3. live' = live \union {b} /\ answer' = {b} /\ ask' = Idle
      BY <1>4 DEF Hands, Hand
    <2>4. \A c \in live : ~Promise!Overlap(b, c)
      BY <1>4, HandedApart
    <2> HIDE DEF b
    <2>5. QED
      BY <2>2, <2>3, <2>4
  <1>5. CASE InlineServes \/ ArenaServes
    BY <1>1, <1>4, <1>5, InlineHands, ArenaHands
  <1>6. QED
    BY <1>3, <1>5 DEF Serve

LEMMA ServeKeeps ==
  ASSUME NodesInv, Serve, UNCHANGED nodeVars
  PROVE  Tree'
  <1>1. /\ IInv /\ Tree /\ TreeTyped /\ Phased /\ HeldApart /\ PoolsSized /\ PoolsBegun
        /\ UNCHANGED <<caches, phase, job, nodes, destroyed, walk, drops>>
    BY DEF NodesInv, Tree, nodeVars
  <1>2. ask # Idle /\ (phase = "scratch" \/ (Asking /\ ask.size > 0))
    BY <1>1, ServeGives DEF Phased
  <1>3. Asking' = Asking
    BY <1>1 DEF Asking
  <1>4. TreeTyped'
    BY <1>1 DEF TreeTyped, JobTyped
  <1>5. NodesPlaced' /\ NodesApart' /\ Walked'
    BY <1>1, TreeKept
  <1>6. PoolsBegun'
    BY <1>1, <1>3 DEF PoolsBegun, Vacant, Free
  <1>7. \A who, b : \/ Holds(who, b)' <=> Holds(who, b)
                    \/ Asking /\ who = <<"answer", 0, 0>>
    BY <1>1, <1>3 DEF Holds, PoolHolds, CacheHolds, JobHolds, DropHolds
  <1>8. CASE /\ UNCHANGED <<live, answer>>
             /\ ask' = Idle \/ ask'.size = ask.size
    <2>1. \A who, b : Holds(who, b)' <=> Holds(who, b)
      BY <1>1, <1>3, <1>8 DEF Holds, PoolHolds, CacheHolds, JobHolds, DropHolds
    <2>2. HeldApart'
      BY <1>1, <1>8, <2>1 DEF HeldApart, Promise!Overlap
    <2>3. Phased'
      BY <1>1, <1>2, <1>3, <1>8 DEF Phased
    <2>4. PoolsSized'
      BY <1>1, <1>2, <1>8 DEF PoolsSized, PoolBytes
    <2>5. QED
      BY <1>4, <1>5, <1>6, <2>2, <2>3, <2>4 DEF Tree
  <1>9. CASE \E b \in Blocks :
                 /\ live' = live \union {b} /\ answer' = {b} /\ ask' = Idle
                 /\ b.size = ask.size
                 /\ \A c \in live : ~Promise!Overlap(b, c)
    <2>1. PICK new \in Blocks :
                 /\ live' = live \union {new} /\ answer' = {new} /\ ask' = Idle
                 /\ new.size = ask.size
                 /\ \A c \in live : ~Promise!Overlap(new, c)
      BY <1>9
    <2>2. Phased'
      BY <1>1, <2>1 DEF Phased
    <2>3. PoolsSized'
      BY <1>1, <1>2, <2>1 DEF PoolsSized, PoolBytes
    <2>4. ASSUME NEW who, NEW b, Holds(who, b)'
          PROVE  Holds(who, b) \/ (Asking /\ who = <<"answer", 0, 0>> /\ b = new)
      BY <1>1, <1>3, <2>1, <2>4 DEF Holds, PoolHolds, CacheHolds, JobHolds, DropHolds
    <2>5. ASSUME NEW who, NEW b, Holds(who, b)'
          PROVE  b \in live' /\ b.size > 0
      <3>1. CASE Holds(who, b)
        BY <1>1, <2>1, <3>1 DEF HeldApart
      <3>2. CASE Asking /\ b = new
        BY <1>1, <1>2, <2>1, <3>2 DEF Phased, Asking, NoJob
      <3>3. QED
        BY <2>4, <2>5, <3>1, <3>2
    <2>6. ASSUME NEW who, NEW b, Holds(who, b)',
                 NEW other, NEW d, Holds(other, d)', <<who, b>> # <<other, d>>
          PROVE  ~Promise!Overlap(b, d)
      <3>1. CASE Holds(who, b) /\ Holds(other, d)
        BY <1>1, <2>6, <3>1 DEF HeldApart
      <3>2. CASE Holds(who, b) /\ d = new
        <4>1. b \in live
          BY <1>1, <3>2 DEF HeldApart
        <4>2. ~Promise!Overlap(new, b)
          BY <2>1, <4>1
        <4>3. QED
          BY <3>2, <4>2, OverlapSymmetric
      <3>3. CASE b = new /\ Holds(other, d)
        BY <1>1, <2>1, <3>3 DEF HeldApart
      <3>4. QED
        BY <2>4, <2>6, <3>1, <3>2, <3>3
    <2>7. HeldApart'
      BY <2>5, <2>6 DEF HeldApart, Promise!Overlap
    <2>8. QED
      BY <1>4, <1>5, <1>6, <2>2, <2>3, <2>7 DEF Tree
  <1>10. QED
    BY <1>1, <1>8, <1>9, ServeGives

\* While there is no parser, the code generator allocates.
LEMMA ClientKeeps ==
  ASSUME NodesInv, phase = "scratch", Client, UNCHANGED nodeVars
  PROVE  Tree'
  <1>1. /\ Tree /\ TreeTyped /\ Phased
        /\ UNCHANGED <<caches, phase, job, nodes, destroyed, walk, drops>>
        /\ caches = <<>> /\ drops = <<>> /\ job = NoJob
    BY DEF NodesInv, Tree, Phased, nodeVars
  <1>2. TreeTyped'
    BY <1>1 DEF TreeTyped, JobTyped
  <1>3. NodesPlaced' /\ NodesApart' /\ Walked'
    BY <1>1, TreeKept
  <1>4. Phased'
    BY <1>1 DEF Phased
  <1>5. \A who, b : ~Holds(who, b)'
    BY <1>1 DEF Holds, PoolHolds, CacheHolds, JobHolds, DropHolds, Asking, NoJob
  <1>6. HeldApart'
    BY <1>5 DEF HeldApart
  <1>7. PoolsSized' /\ PoolsBegun'
    BY <1>1 DEF PoolsSized, PoolsBegun, Asking, NoJob
  <1>8. QED
    BY <1>2, <1>3, <1>4, <1>6, <1>7 DEF Tree

-----------------------------------------------------------------------------
(* Where the nodes are.                                                    *)

Position(c, p, i) ==
  c \in DOMAIN caches /\ p \in DOMAIN caches[c].pools /\ i \in 0 .. Objects - 1

LEMMA OccupiedIsPosition ==
  ASSUME TreeTyped, NEW c, NEW p, NEW i, Occupied(c, p, i)
  PROVE  Position(c, p, i) /\ c \in Nat \ {0} /\ p \in Nat \ {0} /\ i \in Nat
  <1>1. c \in DOMAIN caches /\ p \in DOMAIN caches[c].pools /\ i \in caches[c].pools[p].occupied
    BY DEF Occupied
  <1>2. caches[c] \in CacheType /\ c \in Nat \ {0}
    BY <1>1, CachesTyped
  <1>3. i \in 0 .. Objects - 1 /\ p \in Nat \ {0}
    BY <1>1, <1>2, PoolTyped
  <1>4. QED
    BY <1>1, <1>2, <1>3, PoolNumbers DEF Position

LEMMA InStorage ==
  ASSUME TreeTyped, PoolsSized, NEW c, NEW p, NEW i, Position(c, p, i)
  PROVE  LET a == Address(c, p, i)
             storage == caches[c].pools[p].storage
         IN  /\ a \in Blocks /\ a.size > 0 /\ storage \in Blocks
             /\ a.in = storage.in /\ storage.at <= a.at
             /\ a.at + a.size <= storage.at + storage.size
             /\ a.size = caches[c].size /\ a.at = storage.at + caches[c].size * i
  <1> DEFINE a == Address(c, p, i)
             storage == caches[c].pools[p].storage
             size == caches[c].size
  <1>1. /\ c \in DOMAIN caches /\ p \in DOMAIN caches[c].pools /\ i \in 0 .. Objects - 1
        /\ i \in Nat /\ Objects \in Nat /\ i < Objects
    BY PoolNumbers DEF Position
  <1>2. caches[c] \in CacheType
    BY <1>1, CachesTyped
  <1>3. storage \in Blocks /\ size \in Nat \ {0} /\ storage.size = size * Objects
    BY <1>1, <1>2, PoolTyped, CacheTyped DEF PoolsSized, PoolBytes
  <1>4. size * i \in Nat /\ size * Objects \in Nat /\ size * i + size <= size * Objects
    BY <1>1, <1>3, InOrder
  <1>5. a = [in |-> storage.in, at |-> storage.at + size * i, size |-> size]
    BY DEF Address
  <1> HIDE DEF a, storage, size
  <1>6. storage.in \in Nat /\ storage.at \in Nat /\ storage.size \in Nat
    BY <1>3 DEF Blocks
  <1> DEFINE k == size * i
             n == size * Objects
  <1>7. k \in Nat /\ n \in Nat /\ k + size <= n /\ storage.size = n
    BY <1>3, <1>4
  <1>8. a = [in |-> storage.in, at |-> storage.at + k, size |-> size]
    BY <1>5
  <1> HIDE DEF k, n
  <1>9. /\ a \in Blocks /\ a.size > 0 /\ storage \in Blocks
        /\ a.in = storage.in /\ storage.at <= a.at
        /\ a.at + a.size <= storage.at + storage.size
        /\ a.size = size /\ a.at = storage.at + k
    BY <1>3, <1>6, <1>7, <1>8 DEF Blocks
  <1>10. QED
    BY <1>9 DEF a, storage, size, k

\* Items share no byte with each other.
LEMMA SlotsApart ==
  ASSUME TreeTyped, PoolsSized, HeldApart,
         NEW c, NEW p, NEW i, Position(c, p, i),
         NEW d, NEW q, NEW j, Position(d, q, j), <<c, p, i>> # <<d, q, j>>
  PROVE  ~Promise!Overlap(Address(c, p, i), Address(d, q, j))
  <1> DEFINE a == Address(c, p, i)
             b == Address(d, q, j)
             S == caches[c].pools[p].storage
             T == caches[d].pools[q].storage
  <1>1. /\ a \in Blocks /\ a.size > 0 /\ S \in Blocks
        /\ a.in = S.in /\ S.at <= a.at /\ a.at + a.size <= S.at + S.size
        /\ a.size = caches[c].size /\ a.at = S.at + caches[c].size * i
    BY InStorage
  <1>2. /\ b \in Blocks /\ b.size > 0 /\ T \in Blocks
        /\ b.in = T.in /\ T.at <= b.at /\ b.at + b.size <= T.at + T.size
        /\ b.size = caches[d].size /\ b.at = T.at + caches[d].size * j
    BY InStorage
  <1>3. CASE c = d /\ p = q
    <2> DEFINE size == caches[c].size
    <2>1. i \in Nat /\ j \in Nat /\ i # j
      BY <1>3, PoolNumbers DEF Position
    <2>2. size \in Nat
      BY <1>1 DEF Blocks
    <2>3. S.at \in Nat
      BY <1>1 DEF Blocks
    <2>4. a.at = S.at + size * i /\ b.at = S.at + size * j /\ a.size = size /\ b.size = size
      BY <1>1, <1>2, <1>3
    <2> HIDE DEF a, b, S, size
    <2> DEFINE m == size * i
               n == size * j
    <2>5. /\ m \in Nat /\ n \in Nat
          /\ i < j => m + size <= n
          /\ j < i => n + size <= m
      BY <2>1, <2>2, InOrder
    <2>6. a.at = S.at + m /\ b.at = S.at + n
      BY <2>4
    <2> HIDE DEF m, n
    <2>7. m + size <= n \/ n + size <= m
      BY <2>1, <2>5
    <2>8. ~(a.at < b.at + b.size /\ b.at < a.at + a.size)
      BY <2>2, <2>3, <2>4, <2>5, <2>6, <2>7
    <2>9. QED
      BY <2>8 DEF Promise!Overlap, a, b
  <1>4. CASE ~(c = d /\ p = q)
    <2>1. Holds(<<"storage", c, p>>, S) /\ Holds(<<"storage", d, q>>, T)
      BY DEF Holds, PoolHolds, Position
    <2>2. <<<<"storage", c, p>>, S>> # <<<<"storage", d, q>>, T>>
      BY <1>4
    <2>3. ~Promise!Overlap(S, T)
      BY <2>1, <2>2 DEF HeldApart
    <2> HIDE DEF a, b, S, T
    <2>4. ~Promise!Overlap(a, b)
      BY <1>1, <1>2, <2>3 DEF Promise!Overlap, Blocks
    <2>5. QED
      BY <2>4 DEF a, b
  <1>5. QED
    BY <1>3, <1>4

\* The bitmaps, and where items are, do not change.
LEMMA PlacesSame ==
  ASSUME Tree, UNCHANGED <<nodes, destroyed, walk, phase>>,
         \A c, p, i : Occupied(c, p, i)' <=> Occupied(c, p, i),
         \A c, p, i : Occupied(c, p, i) => Address(c, p, i)' = Address(c, p, i)
  PROVE  NodesPlaced' /\ NodesApart' /\ Walked'
  <1>1. NodesPlaced'
    BY DEF Tree, NodesPlaced
  <1>2. NodesApart'
    BY DEF Tree, NodesApart, Promise!Overlap
  <1>3. Walked'
    BY DEF Tree, Walked, Before
  <1>4. QED
    BY <1>1, <1>2, <1>3

LEMMA Replacing ==
  ASSUME NEW S, NEW s \in Seq(S), NEW k \in DOMAIN s, NEW e \in S
  PROVE  LET t == [s EXCEPT ![k] = e] IN
         /\ t \in Seq(S) /\ Len(t) = Len(s) /\ DOMAIN t = DOMAIN s
         /\ t[k] = e /\ \A i \in DOMAIN s : i # k => t[i] = s[i]
  OBVIOUS

LEMMA Appending ==
  ASSUME NEW S, NEW s \in Seq(S), NEW e \in S
  PROVE  LET t == Append(s, e) IN
         /\ t \in Seq(S) /\ Len(t) = Len(s) + 1 /\ DOMAIN t = 1 .. Len(s) + 1
         /\ Len(s) \in Nat /\ DOMAIN s = 1 .. Len(s)
         /\ t[Len(s) + 1] = e /\ \A i \in DOMAIN s : t[i] = s[i]
  OBVIOUS

-----------------------------------------------------------------------------
(* The steps: the end of parse().                                          *)

LEMMA NothingBefore ==
  ASSUME TreeTyped, NEW c, NEW p, NEW i, Occupied(c, p, i), Before(c, p, i, NoWalk)
  PROVE  FALSE
  BY OccupiedIsPosition DEF Before, NoWalk

\* parse() ends, and ~Parser begins.
LEMMA Ending ==
  ASSUME Tree, phase = "parse", phase' = "destroy", UNCHANGED <<caches, nodes, destroyed, walk>>
  PROVE  NodesPlaced' /\ NodesApart' /\ Walked'
  <1>1. walk = NoWalk /\ destroyed = <<>> /\ TreeTyped
    BY DEF Tree, Phased
  <1>2. NodesPlaced' /\ NodesApart'
    BY DEF Tree, NodesPlaced, NodesApart, Occupied, Address, Promise!Overlap
  <1>3. \A c, p, i : Occupied(c, p, i)' <=> Occupied(c, p, i)
    BY DEF Occupied
  <1>4. \A c, p, i : ~(Occupied(c, p, i)' /\ Before(c, p, i, walk)')
    BY <1>1, <1>3, NothingBefore DEF Before
  <1>5. Walked'
    BY <1>1, <1>4 DEF Tree, Walked
  <1>6. QED
    BY <1>2, <1>5

LEMMA JobEnds ==
  ASSUME Tree, job.part # "scan", job' = NoJob, UNCHANGED caches
  PROVE  PoolsSized' /\ PoolsBegun' /\ JobTyped'
  BY NoJobAsks DEF Tree, PoolsSized, PoolsBegun, PoolBytes, JobTyped, Asking

LEMMA ParsedKeeps ==
  ASSUME NodesInv, Parsed
  PROVE  Tree'
  <1>1. /\ Tree /\ TreeTyped /\ Phased /\ HeldApart /\ phase = "parse" /\ phase' = "destroy"
        /\ job = NoJob /\ drops = <<>> /\ job' = NoJob
        /\ UNCHANGED <<vars, caches, nodes, destroyed, walk, drops>>
    BY DEF NodesInv, Tree, Parsed, Resting
  <1>2. NodesPlaced' /\ NodesApart' /\ Walked'
    BY <1>1, Ending
  <1>3. PoolsSized' /\ PoolsBegun' /\ JobTyped'
    BY <1>1, JobEnds, NoJobAsks
  <1>4. TreeTyped'
    BY <1>1, <1>3 DEF TreeTyped
  <1>5. Phased'
    BY <1>1, NoJobAsks DEF Phased, Asking, vars
  <1>6. \A who, b : Holds(who, b)' <=> Holds(who, b)
    BY <1>1 DEF Holds, PoolHolds, CacheHolds, JobHolds, DropHolds, vars, Asking
  <1>7. HeldApart'
    BY <1>1, <1>6 DEF HeldApart, Promise!Overlap, vars
  <1>8. QED
    BY <1>2, <1>3, <1>4, <1>5, <1>7 DEF Tree

-----------------------------------------------------------------------------
(* The steps: Pool::make.                                                  *)

LEMMA MakePoolKeeps ==
  ASSUME NodesInv, MakePool
  PROVE  Tree'
  <1>1. /\ Tree /\ TreeTyped /\ Phased /\ HeldApart /\ PoolsSized /\ PoolsBegun
        /\ phase = "parse" /\ job.part = "scan" /\ ask = Idle /\ Vacant(job.cache) = {}
        /\ job' = [part |-> "storage", cache |-> job.cache]
        /\ ask' = [size |-> caches[job.cache].size * Objects, where |-> "inline", made |-> 0]
        /\ answer' = NoBlock
        /\ UNCHANGED <<live, caches, phase, nodes, destroyed, walk, drops>>
    BY DEF NodesInv, Tree, MakePool, At, Ask
  <1>2. job.cache \in DOMAIN caches /\ caches[job.cache] \in CacheType
    BY <1>1, JobOf, CachesTyped DEF TreeTyped
  <1>3. ask'.size = PoolBytes(job.cache) /\ ask'.size > 0
    BY <1>1, <1>2, CacheTyped DEF PoolBytes
  <1>4. NodesPlaced' /\ NodesApart' /\ Walked'
    BY <1>1, TreeKept
  <1>5. TreeTyped'
    BY <1>1, <1>2 DEF TreeTyped, JobTyped
  <1>6. Phased'
    BY <1>1, <1>3 DEF Phased, Asking
  <1>7. PoolsSized'
    BY <1>1, <1>3 DEF PoolsSized, PoolBytes, NoBlock
  <1>8. \A c : Vacant(c)' = Vacant(c)
    BY <1>1 DEF Vacant, Free
  <1>9. PoolsBegun'
    BY <1>1, <1>8 DEF PoolsBegun, Asking
  <1>10. \A who, b : Holds(who, b)' => Holds(who, b)
    BY <1>1 DEF Holds, PoolHolds, CacheHolds, JobHolds, DropHolds, Asking, NoBlock
  <1>11. HeldApart'
    BY <1>1, <1>10 DEF HeldApart, Promise!Overlap
  <1>12. QED
    BY <1>4, <1>5, <1>6, <1>7, <1>9, <1>11 DEF Tree

LEMMA StorageMadeKeeps ==
  ASSUME NodesInv, StorageMade
  PROVE  Tree'
  <1>1. /\ Tree /\ TreeTyped /\ Phased /\ HeldApart /\ PoolsSized /\ PoolsBegun
        /\ phase = "parse" /\ job.part = "storage" /\ ask = Idle
        /\ UNCHANGED <<caches, nodes, destroyed, walk>>
    BY DEF NodesInv, Tree, StorageMade, At
  <1>2. drops = <<>> /\ job.cache \in DOMAIN caches
    BY <1>1, JobOf DEF Phased, TreeTyped
  <1>3. CASE answer = NoBlock /\ Fail(<<>>) /\ UNCHANGED vars
    <2>1. /\ drops' = <<>> /\ phase' = "destroy" /\ job' = NoJob
          /\ UNCHANGED <<live, ask, answer>>
      BY <1>3 DEF Fail, vars
    <2>2. NodesPlaced' /\ NodesApart' /\ Walked'
      BY <1>1, <2>1, Ending
    <2>3. PoolsSized' /\ PoolsBegun' /\ JobTyped'
      BY <1>1, <2>1, JobEnds
    <2>4. TreeTyped'
      BY <1>1, <1>2, <2>1, <2>3 DEF TreeTyped
    <2>5. Phased'
      BY <1>1, <2>1 DEF Phased
    <2>6. \A who, b : Holds(who, b)' => Holds(who, b)
      BY <1>1, <1>2, <2>1, NoJobAsks DEF Holds, PoolHolds, CacheHolds, JobHolds, DropHolds, Asking
    <2>7. HeldApart'
      BY <1>1, <2>1, <2>6 DEF HeldApart, Promise!Overlap
    <2>8. QED
      BY <2>2, <2>3, <2>4, <2>5, <2>7 DEF Tree
  <1>4. ASSUME NEW storage \in answer, Ask(WordsBytes),
               job' = [part |-> "words", cache |-> job.cache, storage |-> storage],
               UNCHANGED <<phase, drops>>
        PROVE  Tree'
    <2>1. /\ ask' = [size |-> WordsBytes, where |-> "inline", made |-> 0]
          /\ answer' = {} /\ UNCHANGED live
      BY <1>4 DEF Ask, NoBlock
    <2>2. storage \in Blocks /\ storage.size = PoolBytes(job.cache)
      BY <1>1 DEF NodesInv, IInv, AllocatorsTypeOK, PoolsSized
    <2>3. NodesPlaced' /\ NodesApart' /\ Walked'
      BY <1>1, <1>4, TreeKept
    <2>4. TreeTyped'
      BY <1>1, <1>2, <1>4, <2>2 DEF TreeTyped, JobTyped
    <2>5. Phased'
      BY <1>1, <1>4, <2>1, PoolNumbers DEF Phased, Asking
    <2>6. PoolsSized'
      BY <1>1, <1>4, <2>2 DEF PoolsSized, PoolBytes
    <2>7. \A c : Vacant(c)' = Vacant(c)
      BY <1>1 DEF Vacant, Free
    <2>8. PoolsBegun'
      BY <1>1, <1>4, <2>7 DEF PoolsBegun, Asking
    <2> DEFINE T == {<<<<"pool", 1, 0>>, <<"answer", 0, 0>>>>}
    <2>9. \A s, t \in T : s[2] = t[2] => s[1] = t[1]
      OBVIOUS
    <2>10. ASSUME NEW who, NEW b, Holds(who, b)'
           PROVE  /\ b \in live'
                  /\ \/ Holds(who, b) /\ \A t \in T : t[2] # who
                     \/ \E t \in T : who = t[1] /\ Holds(t[2], b)
      <3>1. Holds(<<"answer", 0, 0>>, storage)
        BY <1>1, <1>4 DEF Holds, JobHolds, Asking
      <3>2. CASE (PoolHolds(who, b) \/ CacheHolds(who, b) \/ DropHolds(who, b))'
        <4>1. PoolHolds(who, b) \/ CacheHolds(who, b) \/ DropHolds(who, b)
          BY <1>1, <1>4, <3>2 DEF PoolHolds, CacheHolds, DropHolds
        <4>2. Holds(who, b) /\ who # <<"answer", 0, 0>>
          BY <4>1 DEF Holds, PoolHolds, CacheHolds, DropHolds
        <4>3. QED
          BY <1>1, <2>1, <4>2 DEF HeldApart
      <3>3. CASE JobHolds(who, b)'
        <4>1. who = <<"pool", 1, 0>> /\ b = storage
          BY <1>4, <2>1, <3>3 DEF JobHolds, Asking
        <4>2. QED
          BY <1>1, <2>1, <3>1, <4>1 DEF HeldApart
      <3>4. QED
        BY <2>10, <3>2, <3>3 DEF Holds
    <2>11. HeldApart'
      <3> HIDE DEF T
      <3>1. QED
        BY <1>1, <2>9, <2>10, HeldAfter
    <2>12. QED
      BY <2>3, <2>4, <2>5, <2>6, <2>8, <2>11 DEF Tree
  <1>5. QED
    BY <1>3, <1>4 DEF StorageMade

-----------------------------------------------------------------------------
(* The steps: what destructors give back.                                  *)

LEMMA HeldOnce ==
  ASSUME NodesInv, NEW who, NEW b, Holds(who, b), NEW other, NEW d, Holds(other, d), who # other
  PROVE  b # d
  <1>1. b \in live /\ b.size > 0 /\ ~Promise!Overlap(b, d)
    BY DEF NodesInv, Tree, HeldApart
  <1>2. b \in Blocks
    BY <1>1 DEF NodesInv, IInv, AllocatorsTypeOK
  <1>3. Promise!Overlap(b, b)
    BY <1>1, <1>2, OverlapSelf
  <1>4. QED
    BY <1>1, <1>3

LEMMA DropNextKeeps ==
  ASSUME NodesInv, DropNext
  PROVE  Tree'
  <1>1. /\ Tree /\ TreeTyped /\ Phased /\ HeldApart /\ PoolsSized /\ PoolsBegun
        /\ drops # <<>> /\ drops \in Seq(Blocks) /\ Len(drops) <= 2 /\ drops' = Tail(drops)
        /\ ask = Idle /\ ask' = ask /\ answer' = answer /\ live' = live \ {Head(drops)}
        /\ UNCHANGED <<caches, phase, job, nodes, destroyed, walk>>
    BY DEF NodesInv, Tree, TreeTyped, DropNext, Deallocate
  <1>2. /\ Len(drops) \in 1 .. 2 /\ DOMAIN drops = 1 .. Len(drops) /\ Head(drops) = drops[1]
        /\ drops' \in Seq(Blocks) /\ Len(drops') = Len(drops) - 1
        /\ DOMAIN drops' = 1 .. Len(drops) - 1
        /\ \A i \in DOMAIN drops' : drops'[i] = drops[i + 1]
    <2>1. /\ Len(drops) \in Nat \ {0} /\ DOMAIN drops = 1 .. Len(drops) /\ Head(drops) = drops[1]
          /\ drops' \in Seq(Blocks) /\ Len(drops') = Len(drops) - 1
      BY <1>1
    <2>2. DOMAIN drops' = 1 .. Len(drops) - 1
      BY <2>1
    <2>3. \A i \in 1 .. Len(drops) - 1 : drops'[i] = drops[i + 1]
      BY <1>1
    <2>4. QED
      BY <1>1, <2>1, <2>2, <2>3
  <1>3. NodesPlaced' /\ NodesApart' /\ Walked'
    BY <1>1, TreeKept
  <1>4. TreeTyped'
    BY <1>1, <1>2 DEF TreeTyped, JobTyped
  <1>5. Phased'
    BY <1>1 DEF Phased, Asking
  <1>6. PoolsSized' /\ PoolsBegun'
    BY <1>1 DEF PoolsSized, PoolBytes, PoolsBegun, Asking, Vacant, Free
  <1> DEFINE T == {<<<<"drop", 1, 0>>, <<"drop", 2, 0>>>>}
  <1>7. \A s, t \in T : s[2] = t[2] => s[1] = t[1]
    OBVIOUS
  <1>8. Holds(<<"drop", 1, 0>>, Head(drops))
    BY <1>2 DEF Holds, DropHolds
  <1>9. ASSUME NEW who, NEW b, Holds(who, b)'
        PROVE  /\ b \in live'
               /\ \/ Holds(who, b) /\ \A t \in T : t[2] # who
                  \/ \E t \in T : who = t[1] /\ Holds(t[2], b)
    <2>1. CASE (PoolHolds(who, b) \/ CacheHolds(who, b) \/ JobHolds(who, b))'
      <3>1. PoolHolds(who, b) \/ CacheHolds(who, b) \/ JobHolds(who, b)
        BY <1>1, <2>1 DEF PoolHolds, CacheHolds, JobHolds, Asking
      <3>2. Holds(who, b) /\ who # <<"drop", 1, 0>> /\ who # <<"drop", 2, 0>>
        BY <3>1 DEF Holds, PoolHolds, CacheHolds, JobHolds
      <3>3. b \in live /\ b # Head(drops)
        BY <1>1, <1>8, <3>2, HeldOnce DEF HeldApart
      <3>4. QED
        BY <1>1, <3>2, <3>3
    <2>2. CASE DropHolds(who, b)'
      <3>1. PICK i \in DOMAIN drops' : who = <<"drop", i, 0>> /\ b = drops'[i]
        BY <2>2 DEF DropHolds
      <3>2. i = 1 /\ 2 \in DOMAIN drops /\ b = drops[2]
        BY <1>2, <3>1
      <3>3. Holds(<<"drop", 2, 0>>, b) /\ who = <<"drop", 1, 0>>
        BY <3>1, <3>2 DEF Holds, DropHolds
      <3>4. <<"drop", 1, 0>> # <<"drop", 2, 0>>
        OBVIOUS
      <3>5. b \in live /\ b # Head(drops)
        BY <1>1, <1>8, <3>3, <3>4, HeldOnce DEF HeldApart
      <3>6. QED
        BY <1>1, <3>3, <3>5
    <2>3. QED
      BY <1>9, <2>1, <2>2 DEF Holds
  <1>10. HeldApart'
    <2> HIDE DEF T
    <2>1. QED
      BY <1>1, <1>7, <1>9, HeldAfter
  <1>11. QED
    BY <1>3, <1>4, <1>5, <1>6, <1>10 DEF Tree

\* The nodes are all destroyed: what is left of them is memory.
LEMMA Gone ==
  ASSUME Tree, phase = "release", phase' \in {"release", "done"}, UNCHANGED <<nodes, destroyed, walk>>
  PROVE  NodesPlaced' /\ NodesApart' /\ Walked'
  BY DEF Tree, NodesPlaced, NodesApart, Walked, Promise!Overlap

LEMMA DestroyPoolKeeps ==
  ASSUME NodesInv, DestroyPool
  PROVE  Tree'
  <1> DEFINE k == Len(caches)
             cache == caches[k]
             n == Len(cache.pools)
             less == [cache EXCEPT !.pools = Front(@)]
  <1>1. /\ Tree /\ TreeTyped /\ Phased /\ HeldApart /\ PoolsSized /\ PoolsBegun
        /\ phase = "release" /\ drops = <<>> /\ job = NoJob
        /\ caches # <<>> /\ cache.pools # <<>>
        /\ drops' = <<cache.pools[n].storage, cache.pools[n].words>>
        /\ UNCHANGED <<live, ask, answer, phase, job, nodes, destroyed, walk>>
    BY DEF NodesInv, Tree, Phased, DestroyPool, Releasing, vars, Last
  <1>2. caches' = [caches EXCEPT ![k] = less]
    BY DEF DestroyPool
  <1>3. /\ k \in Nat /\ k \in DOMAIN caches /\ DOMAIN caches = 1 .. k /\ cache \in CacheType
        /\ caches \in Seq(CacheType)
    BY <1>1, CachesTyped DEF TreeTyped
  <1>4. /\ n \in Nat \ {0} /\ n \in DOMAIN cache.pools /\ DOMAIN cache.pools = 1 .. n
        /\ cache.pools \in Seq(PoolType)
    BY <1>1, <1>3, CacheTyped
  <1>5. cache.pools[n].storage \in Blocks /\ cache.pools[n].words \in Blocks
    BY <1>3, <1>4, PoolTyped
  <1>6. /\ Front(cache.pools) \in Seq(PoolType) /\ Len(Front(cache.pools)) = n - 1
        /\ DOMAIN Front(cache.pools) = 1 .. n - 1
        /\ \A p \in 1 .. n - 1 : Front(cache.pools)[p] = cache.pools[p]
    BY <1>4 DEF Front
  <1>7. /\ less \in CacheType /\ less.pools = Front(cache.pools) /\ less.size = cache.size
        /\ less.data = cache.data /\ less.room = cache.room
    BY <1>3, <1>6 DEF CacheType
  <1> HIDE DEF cache, less, n
  <1>8. /\ caches' \in Seq(CacheType) /\ DOMAIN caches' = DOMAIN caches
        /\ caches'[k] = less /\ \A c \in DOMAIN caches : c # k => caches'[c] = caches[c]
    BY <1>2, <1>3, <1>7, Replacing
  <1> HIDE DEF k
  <1>9. \A c \in DOMAIN caches' :
          /\ c \in DOMAIN caches /\ caches'[c].size = caches[c].size
          /\ caches'[c].data = caches[c].data /\ caches'[c].room = caches[c].room
          /\ Len(caches'[c].pools) <= Len(caches[c].pools)
          /\ \A p \in DOMAIN caches'[c].pools :
               /\ p \in DOMAIN caches[c].pools /\ caches'[c].pools[p] = caches[c].pools[p]
               /\ <<c, p>> # <<k, n>>
    <2> SUFFICES ASSUME NEW c \in DOMAIN caches
                 PROVE  /\ caches'[c].size = caches[c].size
                        /\ caches'[c].data = caches[c].data /\ caches'[c].room = caches[c].room
                        /\ Len(caches'[c].pools) <= Len(caches[c].pools)
                        /\ \A p \in DOMAIN caches'[c].pools :
                             /\ p \in DOMAIN caches[c].pools
                             /\ caches'[c].pools[p] = caches[c].pools[p]
                             /\ <<c, p>> # <<k, n>>
      BY <1>8
    <2>1. CASE c = k
      BY <1>4, <1>6, <1>7, <1>8, <2>1 DEF cache, n
    <2>2. CASE c # k
      <3>1. caches[c] \in CacheType
        BY <1>1, CachesTyped
      <3>2. QED
        BY <1>8, <2>2, <3>1, CacheTyped
    <2>3. QED
      BY <2>1, <2>2
  <1>10. NodesPlaced' /\ NodesApart' /\ Walked'
    BY <1>1, Gone
  <1>11. TreeTyped'
    <2>1. \A c \in DOMAIN caches' : Len(caches'[c].pools) <= caches'[c].room
      <3> SUFFICES ASSUME NEW c \in DOMAIN caches' PROVE Len(caches'[c].pools) <= caches'[c].room
        OBVIOUS
      <3>1. caches[c] \in CacheType /\ caches'[c] \in CacheType /\ c \in DOMAIN caches
        BY <1>1, <1>8, CachesTyped
      <3>2. Len(caches[c].pools) \in Nat /\ Len(caches'[c].pools) \in Nat /\ caches[c].room \in Nat
        BY <3>1, CacheTyped
      <3>3. Len(caches[c].pools) <= caches[c].room
        BY <1>1, <3>1 DEF TreeTyped
      <3>4. QED
        BY <1>9, <3>2, <3>3
    <2>2. drops' \in Seq(Blocks) /\ Len(drops') <= 2
      BY <1>1, <1>5
    <2>3. QED
      BY <1>1, <1>8, <2>1, <2>2 DEF TreeTyped, JobTyped
  <1>12. Phased'
    BY <1>1 DEF Phased, Asking
  <1>13. PoolsSized'
    BY <1>1, <1>9, NoJobAsks DEF PoolsSized, PoolBytes
  <1>14. PoolsBegun'
    <2>1. \A c \in DOMAIN caches : \A p \in DOMAIN caches[c].pools : 0 \in caches[c].pools[p].occupied
      BY <1>1, NoJobAsks DEF PoolsBegun
    <2>2. QED
      BY <1>1, <1>9, <2>1, NoJobAsks DEF PoolsBegun, Asking
  <1> DEFINE T == {<<<<"drop", 1, 0>>, <<"storage", k, n>>>>, <<<<"drop", 2, 0>>, <<"words", k, n>>>>}
  <1>15. \A s, t \in T : s[2] = t[2] => s[1] = t[1]
    OBVIOUS
  <1>16. /\ Holds(<<"storage", k, n>>, cache.pools[n].storage)
         /\ Holds(<<"words", k, n>>, cache.pools[n].words)
    BY <1>3, <1>4 DEF Holds, PoolHolds, cache
  <1>17. ASSUME NEW who, NEW b, Holds(who, b)'
         PROVE  /\ b \in live'
                /\ \/ Holds(who, b) /\ \A t \in T : t[2] # who
                   \/ \E t \in T : who = t[1] /\ Holds(t[2], b)
    <2>1. CASE PoolHolds(who, b)'
      <3>1. PICK c \in DOMAIN caches' : \E p \in DOMAIN caches'[c].pools :
              \/ who = <<"storage", c, p>> /\ b = caches'[c].pools[p].storage
              \/ who = <<"words", c, p>> /\ b = caches'[c].pools[p].words
        BY <2>1 DEF PoolHolds
      <3>2. PICK p \in DOMAIN caches'[c].pools :
              \/ who = <<"storage", c, p>> /\ b = caches'[c].pools[p].storage
              \/ who = <<"words", c, p>> /\ b = caches'[c].pools[p].words
        BY <3>1
      <3>3. /\ c \in DOMAIN caches /\ p \in DOMAIN caches[c].pools
            /\ caches'[c].pools[p] = caches[c].pools[p] /\ <<c, p>> # <<k, n>>
        BY <1>9, <3>1, <3>2
      <3>4. Holds(who, b)
        BY <3>2, <3>3 DEF Holds, PoolHolds
      <3>5. who # <<"storage", k, n>> /\ who # <<"words", k, n>>
        BY <3>2, <3>3
      <3>6. QED
        BY <1>1, <3>4, <3>5 DEF HeldApart
    <2>2. CASE CacheHolds(who, b)'
      <3>1. CacheHolds(who, b)
        BY <1>9, <2>2 DEF CacheHolds
      <3>2. Holds(who, b) /\ who # <<"storage", k, n>> /\ who # <<"words", k, n>>
        BY <3>1 DEF Holds, CacheHolds
      <3>3. QED
        BY <1>1, <3>2 DEF HeldApart
    <2>3. CASE DropHolds(who, b)'
      <3>1. \/ who = <<"drop", 1, 0>> /\ b = cache.pools[n].storage
            \/ who = <<"drop", 2, 0>> /\ b = cache.pools[n].words
        BY <1>1, <2>3 DEF DropHolds
      <3>2. b \in live
        BY <1>1, <1>16, <3>1 DEF HeldApart
      <3>3. QED
        BY <1>1, <1>16, <3>1, <3>2
    <2>4. ~JobHolds(who, b)'
      BY <1>1, NoJobAsks DEF JobHolds, Asking
    <2>5. QED
      BY <1>17, <2>1, <2>2, <2>3, <2>4 DEF Holds
  <1>18. HeldApart'
    <2> HIDE DEF T
    <2>1. QED
      BY <1>1, <1>15, <1>17, HeldAfter
  <1>19. QED
    BY <1>10, <1>11, <1>12, <1>13, <1>14, <1>18 DEF Tree

LEMMA DestroyCacheKeeps ==
  ASSUME NodesInv, DestroyCache
  PROVE  Tree'
  <1> DEFINE k == Len(caches)
             data == caches[k].data
  <1>1. /\ Tree /\ TreeTyped /\ Phased /\ HeldApart /\ PoolsSized /\ PoolsBegun
        /\ phase = "release" /\ drops = <<>> /\ job = NoJob
        /\ caches # <<>> /\ caches' = Front(caches)
        /\ UNCHANGED <<live, ask, answer, phase, job, nodes, destroyed, walk>>
    BY DEF NodesInv, Tree, Phased, DestroyCache, Releasing, vars
  <1>2. drops' = <<>> \/ \E array \in data : drops' = <<array>>
    BY <1>1 DEF DestroyCache, Last
  <1>3. /\ k \in Nat \ {0} /\ k \in DOMAIN caches /\ DOMAIN caches = 1 .. k
        /\ caches[k] \in CacheType /\ caches \in Seq(CacheType)
    BY <1>1, CachesTyped DEF TreeTyped
  <1>4. data \subseteq Blocks
    BY <1>3, CacheTyped
  <1>5. /\ caches' \in Seq(CacheType) /\ DOMAIN caches' = 1 .. k - 1
        /\ \A c \in 1 .. k - 1 : caches'[c] = caches[c]
    BY <1>1, <1>3 DEF Front
  <1> HIDE DEF k, data
  <1>6. \A c \in DOMAIN caches' : c \in DOMAIN caches /\ c # k /\ caches'[c] = caches[c]
    BY <1>3, <1>5
  <1>7. NodesPlaced' /\ NodesApart' /\ Walked'
    BY <1>1, Gone
  <1>8. drops' \in Seq(Blocks) /\ Len(drops') <= 2
    <2>1. ASSUME NEW array \in data
          PROVE  <<array>> \in Seq(Blocks) /\ Len(<<array>>) = 1
      BY <1>4, <2>1
    <2>2. CASE drops' = <<>>
      BY <2>2
    <2>3. ASSUME NEW array \in data, drops' = <<array>>
          PROVE  drops' \in Seq(Blocks) /\ Len(drops') = 1
      BY <2>1, <2>3
    <2>4. QED
      BY <1>2, <2>2, <2>3
  <1>9. TreeTyped'
    BY <1>1, <1>5, <1>6, <1>8 DEF TreeTyped, JobTyped
  <1>10. Phased'
    BY <1>1 DEF Phased, Asking
  <1>11. PoolsSized'
    BY <1>1, <1>6, NoJobAsks DEF PoolsSized, PoolBytes
  <1>12. PoolsBegun'
    <2>1. \A c \in DOMAIN caches : \A p \in DOMAIN caches[c].pools : 0 \in caches[c].pools[p].occupied
      BY <1>1, NoJobAsks DEF PoolsBegun
    <2>2. QED
      BY <1>1, <1>6, <2>1, NoJobAsks DEF PoolsBegun, Asking
  <1> DEFINE T == {<<<<"drop", 1, 0>>, <<"data", k, 0>>>>}
  <1>13. \A s, t \in T : s[2] = t[2] => s[1] = t[1]
    OBVIOUS
  <1>14. ASSUME NEW who, NEW b, Holds(who, b)'
         PROVE  /\ b \in live'
                /\ \/ Holds(who, b) /\ \A t \in T : t[2] # who
                   \/ \E t \in T : who = t[1] /\ Holds(t[2], b)
    <2>1. CASE PoolHolds(who, b)'
      <3>1. PoolHolds(who, b)
        BY <1>6, <2>1 DEF PoolHolds
      <3>2. Holds(who, b) /\ who # <<"data", k, 0>>
        BY <3>1 DEF Holds, PoolHolds
      <3>3. QED
        BY <1>1, <3>2 DEF HeldApart
    <2>2. CASE CacheHolds(who, b)'
      <3>1. PICK c \in DOMAIN caches' : who = <<"data", c, 0>> /\ b \in caches'[c].data
        BY <2>2 DEF CacheHolds
      <3>2. Holds(who, b) /\ who # <<"data", k, 0>>
        BY <1>6, <3>1 DEF Holds, CacheHolds
      <3>3. QED
        BY <1>1, <3>2 DEF HeldApart
    <2>3. CASE DropHolds(who, b)'
      <3>1. PICK i \in DOMAIN drops' : who = <<"drop", i, 0>> /\ b = drops'[i]
        BY <2>3 DEF DropHolds
      <3>2. i = 1 /\ b \in data
        BY <1>2, <3>1
      <3>3. Holds(<<"data", k, 0>>, b)
        BY <1>3, <3>2 DEF Holds, CacheHolds, data
      <3>4. QED
        BY <1>1, <3>1, <3>2, <3>3 DEF HeldApart
    <2>4. ~JobHolds(who, b)'
      BY <1>1, NoJobAsks DEF JobHolds, Asking
    <2>5. QED
      BY <1>14, <2>1, <2>2, <2>3, <2>4 DEF Holds
  <1>15. HeldApart'
    <2> HIDE DEF T
    <2>1. QED
      BY <1>1, <1>13, <1>14, HeldAfter
  <1>16. QED
    BY <1>7, <1>9, <1>10, <1>11, <1>12, <1>15 DEF Tree

LEMMA ReleaseArenaKeeps ==
  ASSUME NodesInv, ReleaseArena
  PROVE  Tree'
  <1>1. /\ Tree /\ TreeTyped /\ Phased /\ HeldApart /\ PoolsSized /\ PoolsBegun
        /\ phase = "release" /\ phase' = "done" /\ drops = <<>> /\ job = NoJob
        /\ UNCHANGED <<live, ask, caches, job, nodes, destroyed, walk, drops>>
    BY DEF NodesInv, Tree, Phased, ReleaseArena, Releasing, Clear
  <1>2. NodesPlaced' /\ NodesApart' /\ Walked'
    BY <1>1, Gone
  <1>3. TreeTyped'
    BY <1>1 DEF TreeTyped, JobTyped
  <1>4. Phased'
    BY <1>1 DEF Phased, Asking
  <1>5. PoolsSized' /\ PoolsBegun'
    BY <1>1, NoJobAsks DEF PoolsSized, PoolBytes, PoolsBegun, Asking
  <1>6. \A who, b : Holds(who, b)' => Holds(who, b)
    BY <1>1, NoJobAsks DEF Holds, PoolHolds, CacheHolds, JobHolds, DropHolds, Asking
  <1>7. HeldApart'
    BY <1>1, <1>6 DEF HeldApart, Promise!Overlap
  <1>8. QED
    BY <1>2, <1>3, <1>4, <1>5, <1>7 DEF Tree

-----------------------------------------------------------------------------
(* The steps: new_node and Cache::allocate.                                *)

LEMMA NewNodeKeeps ==
  ASSUME NodesInv, NewNode
  PROVE  Tree'
  <1>1. /\ Tree /\ TreeTyped /\ Phased /\ HeldApart /\ PoolsSized /\ PoolsBegun
        /\ phase = "parse" /\ drops = <<>> /\ job = NoJob
        /\ UNCHANGED <<live, ask, answer, phase, nodes, destroyed, walk, drops>>
    BY DEF NodesInv, Tree, NewNode, Resting, vars
  <1>2. /\ Len(caches) \in Nat /\ DOMAIN caches = 1 .. Len(caches)
        /\ caches \in Seq(CacheType)
        /\ \A c \in DOMAIN caches : caches[c] \in CacheType
    BY <1>1, CachesTyped DEF TreeTyped
  <1>3. /\ caches' \in Seq(CacheType)
        /\ \A c \in DOMAIN caches : c \in DOMAIN caches' /\ caches'[c] = caches[c]
        /\ \A c \in DOMAIN caches' : \/ c \in DOMAIN caches
                                     \/ caches'[c].pools = <<>> /\ caches'[c].data = {}
                                        /\ caches'[c].room = 0
        /\ \E c \in DOMAIN caches' : job' = [part |-> "scan", cache |-> c]
    <2>1. PICK size \in NodeSizes :
       LET fitting == {c \in DOMAIN caches : caches[c].size = size} IN
       \/ /\ fitting # {}
          /\ Begin(Min(fitting))
          /\ UNCHANGED caches
       \/ /\ fitting = {}
          /\ caches' = Append(caches, NewCache(size))
          /\ Begin(Len(caches) + 1)
      BY DEF NewNode
    <2> DEFINE fitting == {c \in DOMAIN caches : caches[c].size = size}
    <2>2. CASE fitting # {} /\ Begin(Min(fitting)) /\ UNCHANGED caches
      <3>1. fitting \subseteq Nat /\ fitting \subseteq DOMAIN caches
        BY <1>2
      <3> HIDE DEF fitting
      <3>2. Min(fitting) \in DOMAIN caches
        BY <2>2, <3>1, LeastOf
      <3>3. QED
        BY <1>2, <2>2, <3>2 DEF Begin
    <2>3. CASE fitting = {} /\ caches' = Append(caches, NewCache(size)) /\ Begin(Len(caches) + 1)
      <3> HIDE DEF fitting
      <3> DEFINE new == NewCache(size)
      <3>1. /\ new \in CacheType /\ new.pools = <<>> /\ new.data = {} /\ new.room = 0
        BY DEF NewCache, CacheType, NoBlock
      <3> HIDE DEF new
      <3>2. /\ caches' \in Seq(CacheType) /\ DOMAIN caches' = 1 .. Len(caches) + 1
            /\ caches'[Len(caches) + 1] = new
            /\ \A c \in DOMAIN caches : caches'[c] = caches[c]
        BY <1>2, <2>3, <3>1, Appending DEF new
      <3>3. QED
        BY <1>2, <2>3, <3>1, <3>2 DEF Begin
    <2>4. QED
      BY <2>1, <2>2, <2>3
  <1>4. \A c, p, i : Occupied(c, p, i)' <=> Occupied(c, p, i)
    BY <1>3 DEF Occupied
  <1>5. \A c, p, i : Occupied(c, p, i) => Address(c, p, i)' = Address(c, p, i)
    BY <1>3 DEF Occupied, Address
  <1>6. NodesPlaced' /\ NodesApart' /\ Walked'
    BY <1>1, <1>4, <1>5, PlacesSame
  <1>7. TreeTyped'
    <2>1. JobTyped'
      BY <1>3 DEF JobTyped
    <2>2. \A c \in DOMAIN caches' : Len(caches'[c].pools) <= caches'[c].room
      BY <1>1, <1>3 DEF TreeTyped
    <2>3. QED
      BY <1>1, <1>3, <2>1, <2>2 DEF TreeTyped
  <1>8. ~Asking' /\ ~Asking /\ job'.part = "scan"
    BY <1>1, <1>3, NoJobAsks DEF Asking
  <1>9. Phased'
    BY <1>1, <1>8 DEF Phased
  <1>10. PoolsSized'
    BY <1>1, <1>3, <1>8 DEF PoolsSized, PoolBytes
  <1>11. PoolsBegun'
    <2>1. \A c \in DOMAIN caches : \A p \in DOMAIN caches[c].pools : 0 \in caches[c].pools[p].occupied
      BY <1>1, NoJobAsks DEF PoolsBegun
    <2>2. \A c \in DOMAIN caches' : \A p \in DOMAIN caches'[c].pools : 0 \in caches'[c].pools[p].occupied
      BY <1>3, <2>1
    <2>3. QED
      BY <1>8, <2>2 DEF PoolsBegun
  <1>12. \A who, b : Holds(who, b)' => Holds(who, b)
    BY <1>1, <1>3, <1>8 DEF Holds, PoolHolds, CacheHolds, JobHolds, DropHolds
  <1>13. HeldApart'
    BY <1>1, <1>12 DEF HeldApart, Promise!Overlap
  <1>14. QED
    BY <1>6, <1>7, <1>9, <1>10, <1>11, <1>13 DEF Tree

\* Pool::allocate sets one bit, that was clear.
Takes(c, p, i) ==
  /\ Position(c, p, i) /\ i \notin caches[c].pools[p].occupied
  /\ caches' \in Seq(CacheType) /\ DOMAIN caches' = DOMAIN caches
  /\ \A d \in DOMAIN caches :
       /\ caches'[d].size = caches[d].size /\ caches'[d].data = caches[d].data
       /\ caches'[d].room = caches[d].room /\ Len(caches'[d].pools) = Len(caches[d].pools)
       /\ DOMAIN caches'[d].pools = DOMAIN caches[d].pools
       /\ \A q \in DOMAIN caches[d].pools :
            /\ caches'[d].pools[q].storage = caches[d].pools[q].storage
            /\ caches'[d].pools[q].words = caches[d].pools[q].words
            /\ caches'[d].pools[q].occupied = caches[d].pools[q].occupied \union
                 IF d = c /\ q = p THEN {i} ELSE {}

LEMMA TakeFreeTakes ==
  ASSUME TreeTyped, TakeFree
  PROVE  LET c == job.cache
             p == Min(Vacant(c))
             i == Min(Free(caches[c].pools[p]))
         IN  /\ c \in DOMAIN caches /\ p \in Vacant(c)
             /\ i \in Free(caches[c].pools[p]) /\ \A j \in Free(caches[c].pools[p]) : i <= j
             /\ Takes(c, p, i)
             /\ nodes' = Append(nodes, Address(c, p, i))
  <1> DEFINE c == job.cache
             p == Min(Vacant(c))
             pool == caches[c].pools[p]
             i == Min(Free(pool))
             new == [pool EXCEPT !.occupied = @ \union {i}]
             cache == [caches[c] EXCEPT !.pools = [@ EXCEPT ![p] = new]]
  <1>1. c \in DOMAIN caches /\ caches[c] \in CacheType /\ c \in Nat
    BY JobOf, CachesTyped DEF TreeTyped, TakeFree, At
  <1>2. /\ DOMAIN caches[c].pools \subseteq Nat /\ caches[c].pools \in Seq(PoolType)
        /\ DOMAIN caches[c].pools = 1 .. Len(caches[c].pools)
    BY <1>1, CacheTyped
  <1>3. Vacant(c) # {} /\ Vacant(c) \subseteq Nat /\ Vacant(c) \subseteq DOMAIN caches[c].pools
    BY <1>2 DEF TakeFree, Vacant
  <1>4. p \in Vacant(c)
    BY <1>3, LeastOf
  <1>5. p \in DOMAIN caches[c].pools /\ Free(pool) # {}
    BY <1>4 DEF Vacant
  <1>6. Free(pool) \subseteq Nat /\ Free(pool) \subseteq 0 .. Objects - 1
    BY DEF Free
  <1>7. i \in Free(pool) /\ \A j \in Free(pool) : i <= j
    BY <1>5, <1>6, LeastOf
  <1>8. i \in 0 .. Objects - 1 /\ i \notin pool.occupied
    BY <1>7 DEF Free
  <1>9. caches' = [caches EXCEPT ![c] = cache]
    BY DEF TakeFree
  <1>10. nodes' = Append(nodes, Address(c, p, i))
    BY DEF TakeFree
  <1>11. pool \in PoolType
    BY <1>1, <1>5, PoolTyped
  <1> HIDE DEF c, p, i, pool
  <1>12. /\ new \in PoolType /\ new.storage = pool.storage /\ new.words = pool.words
         /\ new.occupied = pool.occupied \union {i}
    BY <1>8, <1>11 DEF PoolType
  <1> HIDE DEF new
  <1> DEFINE pools == [caches[c].pools EXCEPT ![p] = new]
  <1>13. /\ pools \in Seq(PoolType) /\ Len(pools) = Len(caches[c].pools)
         /\ DOMAIN pools = DOMAIN caches[c].pools
         /\ pools[p] = new /\ \A q \in DOMAIN caches[c].pools : q # p => pools[q] = caches[c].pools[q]
    BY <1>2, <1>5, <1>12, Replacing
  <1>14. cache = [caches[c] EXCEPT !.pools = pools]
    OBVIOUS
  <1> HIDE DEF cache, pools
  <1>15. /\ cache \in CacheType /\ cache.size = caches[c].size /\ cache.data = caches[c].data
         /\ cache.room = caches[c].room /\ cache.pools = pools
    BY <1>1, <1>13, <1>14 DEF CacheType
  <1>16. caches \in Seq(CacheType)
    BY DEF TreeTyped
  <1>17. /\ caches' \in Seq(CacheType) /\ DOMAIN caches' = DOMAIN caches
         /\ caches'[c] = cache /\ \A d \in DOMAIN caches : d # c => caches'[d] = caches[d]
    BY <1>1, <1>9, <1>15, <1>16, Replacing
  <1>18. ASSUME NEW d \in DOMAIN caches
         PROVE
           /\ caches'[d].size = caches[d].size /\ caches'[d].data = caches[d].data
           /\ caches'[d].room = caches[d].room /\ Len(caches'[d].pools) = Len(caches[d].pools)
           /\ DOMAIN caches'[d].pools = DOMAIN caches[d].pools
           /\ \A q \in DOMAIN caches[d].pools :
                /\ caches'[d].pools[q].storage = caches[d].pools[q].storage
                /\ caches'[d].pools[q].words = caches[d].pools[q].words
                /\ caches'[d].pools[q].occupied = caches[d].pools[q].occupied \union
                     IF d = c /\ q = p THEN {i} ELSE {}
    <2>1. CASE d # c
      BY <1>17, <2>1
    <2>2. CASE d = c
      <3>1. caches'[d] = cache
        BY <1>17, <2>2
      <3>2. ASSUME NEW q \in DOMAIN caches[c].pools
            PROVE  /\ pools[q].storage = caches[c].pools[q].storage
                   /\ pools[q].words = caches[c].pools[q].words
                   /\ pools[q].occupied = caches[c].pools[q].occupied \union
                        IF q = p THEN {i} ELSE {}
        <4>1. CASE q = p
          BY <1>12, <1>13, <4>1 DEF pool
        <4>2. CASE q # p
          BY <1>13, <4>2
        <4>3. QED
          BY <4>1, <4>2
      <3>3. QED
        BY <1>13, <1>15, <2>2, <3>1, <3>2
    <2>3. QED
      BY <2>1, <2>2
  <1>19. Takes(c, p, i)
    BY <1>1, <1>5, <1>8, <1>17, <1>18 DEF Takes, Position, pool
  <1>20. QED
    BY <1>1, <1>4, <1>7, <1>10, <1>19 DEF c, p, i, pool

LEMMA TakesPlaces ==
  ASSUME TreeTyped, NEW c, NEW p, NEW i, Takes(c, p, i)
  PROVE  /\ \A d, q, j : Occupied(d, q, j)' <=> Occupied(d, q, j) \/ <<d, q, j>> = <<c, p, i>>
         /\ \A d, q, j : Position(d, q, j) => Address(d, q, j)' = Address(d, q, j)
         /\ ~Occupied(c, p, i)
  <1>1. ~Occupied(c, p, i)
    BY DEF Takes, Occupied
  <1>2. \A d, q, j : Position(d, q, j) => Address(d, q, j)' = Address(d, q, j)
    BY DEF Takes, Position, Address
  <1>3. ASSUME NEW d, NEW q, NEW j
        PROVE  Occupied(d, q, j)' <=> Occupied(d, q, j) \/ <<d, q, j>> = <<c, p, i>>
    BY DEF Takes, Position, Occupied
  <1>4. QED
    BY <1>1, <1>2, <1>3

LEMMA TakeFreeKeeps ==
  ASSUME NodesInv, TakeFree
  PROVE  Tree'
  <1>1. /\ Tree /\ TreeTyped /\ Phased /\ HeldApart /\ PoolsSized /\ PoolsBegun /\ NodesPlaced
        /\ NodesApart /\ Walked
        /\ phase = "parse" /\ job.part = "scan" /\ job' = NoJob /\ drops = <<>> /\ destroyed = <<>>
        /\ ask = Idle
        /\ UNCHANGED <<live, ask, answer, phase, destroyed, walk, drops>>
    BY DEF NodesInv, Tree, Phased, TakeFree, At, vars
  <1>2. PICK c, p, i :
          /\ c = job.cache /\ p = Min(Vacant(c))
          /\ c \in DOMAIN caches /\ p \in Vacant(c)
          /\ i \in Free(caches[c].pools[p]) /\ \A j \in Free(caches[c].pools[p]) : i <= j
          /\ Takes(c, p, i) /\ nodes' = Append(nodes, Address(c, p, i))
    BY <1>1, TakeFreeTakes
  <1>3. PICK new : new = Address(c, p, i)
    OBVIOUS
  <1>5. /\ \A d, q, j : Occupied(d, q, j)' <=> Occupied(d, q, j) \/ <<d, q, j>> = <<c, p, i>>
        /\ \A d, q, j : Position(d, q, j) => Address(d, q, j)' = Address(d, q, j)
        /\ ~Occupied(c, p, i) /\ Position(c, p, i)
    BY <1>1, <1>2, TakesPlaces DEF Takes
  <1>6. c \in Nat /\ p \in Nat /\ i \in Nat
    <2>1. caches[c] \in CacheType /\ c \in Nat
      BY <1>1, <1>2, CachesTyped
    <2>2. p \in DOMAIN caches[c].pools /\ i \in 0 .. Objects - 1
      BY <1>2, <1>5 DEF Position
    <2>3. QED
      BY <2>1, <2>2, PoolTyped, PoolNumbers
  <1>7. new \in Blocks
    BY <1>1, <1>3, <1>5, InStorage
  <1>8. /\ nodes \in Seq(Blocks) /\ nodes' \in Seq(Blocks) /\ Len(nodes) \in Nat
        /\ DOMAIN nodes = 1 .. Len(nodes)
        /\ DOMAIN nodes' = 1 .. Len(nodes) + 1 /\ nodes'[Len(nodes) + 1] = new
        /\ \A k \in DOMAIN nodes : nodes'[k] = nodes[k]
    BY <1>1, <1>2, <1>3, <1>7, Appending DEF TreeTyped
  <1>9. \A d, q, j : Occupied(d, q, j) => Address(d, q, j)' = Address(d, q, j)
    BY <1>1, <1>5, OccupiedIsPosition
  <1>10. Address(c, p, i)' = new
    BY <1>3, <1>5
  <1>11. \A k \in DOMAIN nodes' : k = Len(nodes) + 1 \/ k \in DOMAIN nodes
    BY <1>8
  <1>12. NodesPlaced'
    <2>1. ASSUME NEW k \in DOMAIN nodes'
          PROVE  \E d, q, j \in Nat : Occupied(d, q, j)' /\ nodes'[k] = Address(d, q, j)'
      <3>1. CASE k = Len(nodes) + 1
        BY <1>5, <1>6, <1>8, <1>10, <3>1
      <3>2. CASE k \in DOMAIN nodes
        <4>1. PICK d, q, j \in Nat : Occupied(d, q, j) /\ nodes[k] = Address(d, q, j)
          BY <1>1, <3>2 DEF NodesPlaced
        <4>2. Occupied(d, q, j)' /\ nodes'[k] = Address(d, q, j)'
          BY <1>5, <1>8, <1>9, <3>2, <4>1
        <4>3. QED
          BY <4>2
      <3>3. QED
        BY <1>11, <3>1, <3>2
    <2>2. ASSUME NEW d \in Nat, NEW q \in Nat, NEW j \in Nat, Occupied(d, q, j)'
          PROVE  \E k \in DOMAIN nodes' : nodes'[k] = Address(d, q, j)'
      <3>1. CASE <<d, q, j>> = <<c, p, i>>
        <4>1. d = c /\ q = p /\ j = i
          BY <3>1
        <4>2. Address(d, q, j)' = new
          BY <1>10, <4>1
        <4>3. Len(nodes) + 1 \in DOMAIN nodes'
          BY <1>8
        <4>4. QED
          BY <1>8, <4>2, <4>3
      <3>2. CASE Occupied(d, q, j)
        <4>1. PICK k \in DOMAIN nodes : nodes[k] = Address(d, q, j)
          BY <1>1, <3>2 DEF NodesPlaced, Range
        <4>2. k \in DOMAIN nodes' /\ nodes'[k] = Address(d, q, j)'
          BY <1>8, <1>9, <3>2, <4>1
        <4>3. QED
          BY <4>2
      <3>3. QED
        BY <1>5, <2>2, <3>1, <3>2
    <2>3. \A d, q, j \in Nat : Occupied(d, q, j)' => Address(d, q, j)' \in Range(nodes')
      BY <2>2 DEF Range
    <2>4. QED
      BY <2>1, <2>3 DEF NodesPlaced
  <1>13. NodesApart'
    <2>1. ASSUME NEW k \in DOMAIN nodes
          PROVE  ~Promise!Overlap(nodes[k], new)
      <3>1. PICK d, q, j \in Nat : Occupied(d, q, j) /\ nodes[k] = Address(d, q, j)
        BY <1>1 DEF NodesPlaced
      <3>2. Position(d, q, j) /\ <<d, q, j>> # <<c, p, i>>
        BY <1>1, <1>5, <3>1, OccupiedIsPosition
      <3>3. ~Promise!Overlap(Address(d, q, j), Address(c, p, i))
        BY <1>1, <1>5, <3>2, SlotsApart
      <3>4. QED
        BY <1>3, <3>1, <3>3
    <2>2. ASSUME NEW k \in DOMAIN nodes', NEW m \in DOMAIN nodes', k # m
          PROVE  ~Promise!Overlap(nodes'[k], nodes'[m])
      <3>1. CASE k \in DOMAIN nodes /\ m \in DOMAIN nodes
        BY <1>1, <1>8, <2>2, <3>1 DEF NodesApart
      <3>2. CASE k \in DOMAIN nodes /\ m = Len(nodes) + 1
        BY <1>8, <2>1, <3>2
      <3>3. CASE m \in DOMAIN nodes /\ k = Len(nodes) + 1
        BY <1>8, <2>1, <3>3, OverlapSymmetric
      <3>4. QED
        BY <1>11, <2>2, <3>1, <3>2, <3>3
    <2>3. QED
      BY <2>2 DEF NodesApart, Promise!Overlap
  <1>14. Walked'
    BY <1>1 DEF Walked
  <1>15. TreeTyped'
    BY <1>1, <1>2, <1>8 DEF TreeTyped, JobTyped, Takes
  <1>16. ~Asking /\ ~Asking' /\ job'.part = "none"
    BY <1>1, NoJobAsks DEF Asking
  <1>17. Phased'
    BY <1>1, <1>16 DEF Phased
  <1>18. PoolsSized'
    <2>1. ASSUME NEW d \in DOMAIN caches', NEW q \in DOMAIN caches'[d].pools
          PROVE  caches'[d].pools[q].storage.size = caches'[d].size * Objects
      <3>1. d \in DOMAIN caches /\ q \in DOMAIN caches[d].pools
        BY <1>2 DEF Takes
      <3>2. caches'[d].pools[q].storage = caches[d].pools[q].storage /\ caches'[d].size = caches[d].size
        BY <1>2, <3>1 DEF Takes
      <3>3. QED
        BY <1>1, <3>1, <3>2 DEF PoolsSized, PoolBytes
    <2>2. QED
      BY <1>16, <2>1 DEF PoolsSized, PoolBytes
  <1>19. PoolsBegun'
    <2>1. ASSUME NEW d \in DOMAIN caches, NEW q \in DOMAIN caches[d].pools
          PROVE  0 \in caches'[d].pools[q].occupied
      <3>1. CASE 0 \in caches[d].pools[q].occupied
        BY <1>2, <3>1 DEF Takes
      <3>2. CASE d = c /\ Vacant(d) = {q} /\ caches[d].pools[q].occupied = {}
        <4>1. q = p
          BY <1>2, <3>2
        <4>2. 0 \in Free(caches[c].pools[p])
          BY <3>2, <4>1, PoolNumbers DEF Free
        <4>3. i = 0
          BY <1>2, <1>6, <4>2
        <4>4. QED
          BY <1>2, <3>2, <4>1, <4>3 DEF Takes
      <3>3. QED
        BY <1>1, <1>2, <3>1, <3>2 DEF PoolsBegun
    <2>2. QED
      BY <1>1, <1>2, <1>16, <2>1 DEF PoolsBegun, Takes
  <1>20. ASSUME NEW who, NEW b, Holds(who, b)'
         PROVE  Holds(who, b)
    <2>1. ASSUME PoolHolds(who, b)'
          PROVE  PoolHolds(who, b)
      <3>1. PICK d \in DOMAIN caches' : \E q \in DOMAIN caches'[d].pools :
              \/ who = <<"storage", d, q>> /\ b = caches'[d].pools[q].storage
              \/ who = <<"words", d, q>> /\ b = caches'[d].pools[q].words
        BY <2>1 DEF PoolHolds
      <3>2. PICK q \in DOMAIN caches'[d].pools :
              \/ who = <<"storage", d, q>> /\ b = caches'[d].pools[q].storage
              \/ who = <<"words", d, q>> /\ b = caches'[d].pools[q].words
        BY <3>1
      <3>3. d \in DOMAIN caches /\ q \in DOMAIN caches[d].pools
        BY <1>2 DEF Takes
      <3>4. /\ caches'[d].pools[q].storage = caches[d].pools[q].storage
            /\ caches'[d].pools[q].words = caches[d].pools[q].words
        BY <1>2, <3>3 DEF Takes
      <3>5. QED
        BY <3>2, <3>3, <3>4 DEF PoolHolds
    <2>2. CacheHolds(who, b)' => CacheHolds(who, b)
      BY <1>2 DEF CacheHolds, Takes
    <2>3. ~JobHolds(who, b)'
      BY <1>16 DEF JobHolds
    <2>4. DropHolds(who, b)' => DropHolds(who, b)
      BY <1>1 DEF DropHolds
    <2>5. QED
      BY <1>20, <2>1, <2>2, <2>3, <2>4 DEF Holds
  <1>21. HeldApart'
    BY <1>1, <1>20 DEF HeldApart, Promise!Overlap
  <1>22. QED
    BY <1>12, <1>13, <1>14, <1>15, <1>17, <1>18, <1>19, <1>21 DEF Tree

-----------------------------------------------------------------------------
(* The steps: a pool is pushed.                                            *)

Pushes(k, pool) ==
  /\ caches' \in Seq(CacheType) /\ DOMAIN caches' = DOMAIN caches
  /\ \A c \in DOMAIN caches : c # k => caches'[c] = caches[c]
  /\ caches'[k].size = caches[k].size
  /\ caches'[k].pools = Append(caches[k].pools, pool)

LEMMA Pushed ==
  ASSUME TreeTyped, NEW k \in DOMAIN caches, NEW pool \in PoolType, NEW cache,
         cache.size = caches[k].size, cache.pools = Append(caches[k].pools, pool),
         cache.data \in SUBSET Blocks, cache.room \in Nat,
         cache = [size |-> cache.size, pools |-> cache.pools, data |-> cache.data,
                  room |-> cache.room],
         caches' = [caches EXCEPT ![k] = cache]
  PROVE  Pushes(k, pool) /\ caches'[k] = cache
  <1>1. caches[k] \in CacheType /\ caches \in Seq(CacheType)
    BY CachesTyped DEF TreeTyped
  <1>2. caches[k].size \in NodeSizes /\ Append(caches[k].pools, pool) \in Seq(PoolType)
    BY <1>1, CacheTyped
  <1>3. cache \in CacheType
    BY <1>2 DEF CacheType
  <1>4. /\ caches' \in Seq(CacheType) /\ DOMAIN caches' = DOMAIN caches
        /\ caches'[k] = cache /\ \A c \in DOMAIN caches : c # k => caches'[c] = caches[c]
    BY <1>1, <1>3, Replacing
  <1>5. QED
    BY <1>4 DEF Pushes

\* The pools of each cache are those it had, and the new one.
LEMMA PushedPools ==
  ASSUME TreeTyped, NEW k \in DOMAIN caches, NEW pool \in PoolType, Pushes(k, pool)
  PROVE  LET n == Len(caches[k].pools) IN
         /\ n \in Nat
         /\ \A c \in DOMAIN caches :
              /\ caches'[c].size = caches[c].size
              /\ \A p \in DOMAIN caches[c].pools :
                   p \in DOMAIN caches'[c].pools /\ caches'[c].pools[p] = caches[c].pools[p]
              /\ \A p \in DOMAIN caches'[c].pools :
                   \/ p \in DOMAIN caches[c].pools
                   \/ c = k /\ p = n + 1
         /\ n + 1 \in DOMAIN caches'[k].pools /\ caches'[k].pools[n + 1] = pool
         /\ n + 1 \notin DOMAIN caches[k].pools
         /\ Len(caches'[k].pools) = n + 1
  <1> DEFINE n == Len(caches[k].pools)
             longer == Append(caches[k].pools, pool)
  <1>1. caches[k] \in CacheType /\ caches[k].pools \in Seq(PoolType)
    BY CachesTyped, CacheTyped
  <1>2. /\ Len(longer) = n + 1 /\ DOMAIN longer = 1 .. n + 1 /\ n \in Nat
        /\ DOMAIN caches[k].pools = 1 .. n
        /\ longer[n + 1] = pool /\ \A p \in DOMAIN caches[k].pools : longer[p] = caches[k].pools[p]
    BY <1>1, Appending
  <1>3. caches'[k].pools = longer /\ caches'[k].size = caches[k].size
    BY DEF Pushes
  <1> HIDE DEF n, longer
  <1>4. ASSUME NEW c \in DOMAIN caches
        PROVE  /\ caches'[c].size = caches[c].size
               /\ \A p \in DOMAIN caches[c].pools :
                    p \in DOMAIN caches'[c].pools /\ caches'[c].pools[p] = caches[c].pools[p]
               /\ \A p \in DOMAIN caches'[c].pools :
                    \/ p \in DOMAIN caches[c].pools
                    \/ c = k /\ p = n + 1
    <2>1. CASE c = k
      BY <1>2, <1>3, <2>1
    <2>2. CASE c # k
      BY <2>2 DEF Pushes
    <2>3. QED
      BY <2>1, <2>2
  <1>5. QED
    BY <1>2, <1>3, <1>4 DEF n

LEMMA PushedHolds ==
  ASSUME TreeTyped, NEW k \in DOMAIN caches, NEW pool \in PoolType, Pushes(k, pool),
         NEW who, NEW b, PoolHolds(who, b)'
  PROVE  LET n == Len(caches[k].pools) IN
         \/ PoolHolds(who, b)
         \/ who = <<"storage", k, n + 1>> /\ b = pool.storage
         \/ who = <<"words", k, n + 1>> /\ b = pool.words
  <1> DEFINE n == Len(caches[k].pools)
  <1>1. /\ \A c \in DOMAIN caches :
             /\ \A p \in DOMAIN caches[c].pools : caches'[c].pools[p] = caches[c].pools[p]
             /\ \A p \in DOMAIN caches'[c].pools :
                  \/ p \in DOMAIN caches[c].pools
                  \/ c = k /\ p = n + 1
        /\ caches'[k].pools[n + 1] = pool /\ DOMAIN caches' = DOMAIN caches
    BY PushedPools DEF Pushes
  <1> HIDE DEF n
  <1>2. PICK c \in DOMAIN caches' : \E p \in DOMAIN caches'[c].pools :
              \/ who = <<"storage", c, p>> /\ b = caches'[c].pools[p].storage
              \/ who = <<"words", c, p>> /\ b = caches'[c].pools[p].words
    BY DEF PoolHolds
  <1>3. PICK p \in DOMAIN caches'[c].pools :
              \/ who = <<"storage", c, p>> /\ b = caches'[c].pools[p].storage
              \/ who = <<"words", c, p>> /\ b = caches'[c].pools[p].words
    BY <1>2
  <1>4. c \in DOMAIN caches
    BY <1>1
  <1>5. CASE p \in DOMAIN caches[c].pools
    <2>1. caches'[c].pools[p] = caches[c].pools[p]
      BY <1>1, <1>4, <1>5
    <2>2. PoolHolds(who, b)
      BY <1>3, <1>4, <1>5, <2>1 DEF PoolHolds
    <2>3. QED
      BY <2>2
  <1>6. CASE c = k /\ p = n + 1
    <2>1. caches'[c].pools[p] = pool
      BY <1>1, <1>6
    <2>2. \/ who = <<"storage", k, n + 1>> /\ b = pool.storage
          \/ who = <<"words", k, n + 1>> /\ b = pool.words
      BY <1>3, <1>6, <2>1
    <2>3. QED
      BY <2>2 DEF n
  <1>7. QED
    BY <1>1, <1>3, <1>4, <1>5, <1>6

\* All but who holds what.
LEMMA PushedKeeps ==
  ASSUME NodesInv, Asking, NEW pool \in PoolType, Pushes(job.cache, pool),
         pool.occupied = {}, pool.storage.size = PoolBytes(job.cache),
         \A c \in DOMAIN caches' : Len(caches'[c].pools) <= caches'[c].room,
         job' = [part |-> "scan", cache |-> job.cache], ask' = Idle,
         UNCHANGED <<phase, nodes, destroyed, walk, drops>>
  PROVE  /\ NodesPlaced' /\ NodesApart' /\ Walked'
         /\ TreeTyped' /\ Phased' /\ PoolsSized' /\ PoolsBegun'
  <1>1. Tree /\ TreeTyped /\ Phased /\ PoolsSized /\ PoolsBegun
    BY DEF NodesInv, Tree
  <1>2. PICK k : k = job.cache
    OBVIOUS
  <1>3. PICK n : n = Len(caches[k].pools)
    OBVIOUS
  <1>4. k \in DOMAIN caches
    BY <1>1, <1>2, JobOf DEF TreeTyped, Asking
  <1>5. /\ n \in Nat
        /\ \A c \in DOMAIN caches :
              /\ caches'[c].size = caches[c].size
              /\ \A p \in DOMAIN caches[c].pools :
                   p \in DOMAIN caches'[c].pools /\ caches'[c].pools[p] = caches[c].pools[p]
              /\ \A p \in DOMAIN caches'[c].pools :
                   \/ p \in DOMAIN caches[c].pools
                   \/ c = k /\ p = n + 1
        /\ n + 1 \in DOMAIN caches'[k].pools /\ caches'[k].pools[n + 1] = pool
        /\ n + 1 \notin DOMAIN caches[k].pools
        /\ DOMAIN caches' = DOMAIN caches
    <2>1. Pushes(k, pool)
      BY <1>2
    <2>2. DOMAIN caches' = DOMAIN caches
      BY <2>1 DEF Pushes
    <2>3. QED
      BY <1>1, <1>3, <1>4, <2>1, <2>2, PushedPools
  <1>6. \A c, p, i : Occupied(c, p, i)' <=> Occupied(c, p, i)
    <2> SUFFICES ASSUME NEW c, NEW p, NEW i
                 PROVE  Occupied(c, p, i)' <=> Occupied(c, p, i)
      OBVIOUS
    <2>1. Occupied(c, p, i) => Occupied(c, p, i)'
      BY <1>5 DEF Occupied
    <2>2. Occupied(c, p, i)' => Occupied(c, p, i)
      BY <1>5 DEF Occupied
    <2>3. QED
      BY <2>1, <2>2
  <1>7. \A c, p, i : Occupied(c, p, i) => Address(c, p, i)' = Address(c, p, i)
    BY <1>5 DEF Occupied, Address
  <1>8. NodesPlaced' /\ NodesApart' /\ Walked'
    BY <1>1, <1>6, <1>7, PlacesSame
  <1>9. TreeTyped'
    <2>1. JobTyped'
      BY <1>2, <1>4, <1>5 DEF JobTyped
    <2>2. QED
      BY <1>1, <2>1 DEF TreeTyped, Pushes
  <1>10. Phased'
    BY <1>1 DEF Phased, Asking, NoJob
  <1>11. PoolsSized'
    <2>1. ASSUME NEW c \in DOMAIN caches', NEW p \in DOMAIN caches'[c].pools
          PROVE  caches'[c].pools[p].storage.size = caches'[c].size * Objects
      <3>1. c \in DOMAIN caches /\ caches'[c].size = caches[c].size
        BY <1>5
      <3>2. CASE p \in DOMAIN caches[c].pools
        BY <1>1, <1>5, <3>1, <3>2 DEF PoolsSized, PoolBytes
      <3>3. CASE c = k /\ p = n + 1
        <4>1. caches'[c].pools[p] = pool
          BY <1>5, <3>3
        <4>2. pool.storage.size = caches[c].size * Objects
          BY <1>2, <3>3 DEF PoolBytes
        <4>3. QED
          BY <3>1, <4>1, <4>2
      <3>4. QED
        BY <1>5, <3>1, <3>2, <3>3
    <2>2. job'.part = "scan"
      OBVIOUS
    <2>3. QED
      BY <2>1, <2>2 DEF PoolsSized, PoolBytes
  <1>12. PoolsBegun'
    <2>1. /\ \A c \in DOMAIN caches : \A p \in DOMAIN caches[c].pools :
               0 \in caches[c].pools[p].occupied
          /\ Vacant(k) = {}
      BY <1>1, <1>2 DEF PoolsBegun, Asking
    <2>2. Vacant(k)' = {n + 1}
      <3>1. Free(pool) # {}
        BY PoolNumbers DEF Free
      <3>2. \A p \in DOMAIN caches[k].pools : Free(caches'[k].pools[p]) = {}
        BY <1>4, <1>5, <2>1 DEF Vacant
      <3>3. \A p \in DOMAIN caches'[k].pools : p \in DOMAIN caches[k].pools \/ p = n + 1
        BY <1>4, <1>5
      <3>4. Free(caches'[k].pools[n + 1]) # {}
        BY <1>5, <3>1
      <3>5. QED
        BY <1>5, <3>2, <3>3, <3>4 DEF Vacant
    <2>3. job'.part = "scan" /\ job'.cache = k /\ ~Asking'
      BY <1>2 DEF Asking
    <2>4. ASSUME NEW c \in DOMAIN caches', NEW p \in DOMAIN caches'[c].pools
          PROVE  \/ 0 \in caches'[c].pools[p].occupied
                 \/ /\ job'.part = "scan" /\ job'.cache = c
                    /\ Vacant(c)' = {p} /\ caches'[c].pools[p].occupied = {}
      <3>1. CASE c \in DOMAIN caches /\ p \in DOMAIN caches[c].pools
        BY <1>5, <2>1, <3>1
      <3>2. CASE c = k /\ p = n + 1
        <4>1. caches'[c].pools[p].occupied = {}
          BY <1>5, <3>2
        <4>2. Vacant(c)' = {p}
          BY <2>2, <3>2
        <4>3. QED
          BY <2>3, <3>2, <4>1, <4>2
      <3>3. QED
        BY <1>5, <3>1, <3>2
    <2>5. QED
      BY <2>3, <2>4 DEF PoolsBegun
  <1>13. QED
    BY <1>8, <1>9, <1>10, <1>11, <1>12

\* Pool::make fails, or the pool it made cannot be pushed: the blocks that were had go back.
LEMMA FailKeeps ==
  ASSUME NodesInv, Asking, phase = "parse", ask = Idle, answer = {}, NEW given \in Seq(Blocks), Len(given) <= 2,
         Fail(given), UNCHANGED <<vars, caches, nodes, destroyed, walk>>,
         \A i \in DOMAIN given : JobHolds(<<"pool", i, 0>>, given[i])
  PROVE  Tree'
  <1>1. /\ Tree /\ TreeTyped /\ Phased /\ HeldApart
        /\ drops' = given /\ phase' = "destroy" /\ job' = NoJob
        /\ UNCHANGED <<live, ask, answer>>
    BY DEF NodesInv, Tree, Fail, vars
  <1>2. NodesPlaced' /\ NodesApart' /\ Walked'
    BY <1>1, Ending
  <1>3. PoolsSized' /\ PoolsBegun' /\ JobTyped'
    BY <1>1, JobEnds DEF Asking
  <1>4. TreeTyped'
    BY <1>1, <1>3 DEF TreeTyped
  <1> DEFINE T == {<<<<"drop", i, 0>>, <<"pool", i, 0>>>> : i \in DOMAIN given}
  <1>5. \A s, t \in T : s[2] = t[2] => s[1] = t[1]
    OBVIOUS
  <1>6. ASSUME NEW who, NEW b, Holds(who, b)'
        PROVE  /\ b \in live'
               /\ \/ Holds(who, b) /\ \A t \in T : t[2] # who
                  \/ \E t \in T : who = t[1] /\ Holds(t[2], b)
    <2>1. CASE (PoolHolds(who, b) \/ CacheHolds(who, b))'
      <3>1. PoolHolds(who, b) \/ CacheHolds(who, b)
        BY <2>1 DEF PoolHolds, CacheHolds
      <3>2. Holds(who, b) /\ \A i \in DOMAIN given : who # <<"pool", i, 0>>
        BY <3>1 DEF Holds, PoolHolds, CacheHolds
      <3>3. QED
        BY <1>1, <3>2 DEF HeldApart
    <2>2. ~JobHolds(who, b)'
      BY <1>1, NoJobAsks DEF JobHolds, Asking
    <2>3. CASE DropHolds(who, b)'
      <3>1. PICK i \in DOMAIN given : who = <<"drop", i, 0>> /\ b = given[i]
        BY <1>1, <2>3 DEF DropHolds
      <3>2. Holds(<<"pool", i, 0>>, b)
        BY <3>1 DEF Holds
      <3>3. b \in live'
        BY <1>1, <3>2 DEF HeldApart
      <3>4. <<<<"drop", i, 0>>, <<"pool", i, 0>>>> \in T
        OBVIOUS
      <3>5. QED
        BY <3>1, <3>2, <3>3, <3>4
    <2>4. QED
      BY <1>6, <2>1, <2>2, <2>3 DEF Holds
  <1>7. HeldApart'
    <2> HIDE DEF T
    <2>1. QED
      BY <1>1, <1>5, <1>6, HeldAfter
  <1>8. Phased'
    BY <1>1 DEF Phased
  <1>9. QED
    BY <1>1, <1>2, <1>3, <1>4, <1>7, <1>8 DEF Tree

LEMMA WordsMadeKeeps ==
  ASSUME NodesInv, WordsMade
  PROVE  Tree'
  <1>1. /\ Tree /\ TreeTyped /\ Phased /\ HeldApart /\ PoolsSized /\ PoolsBegun
        /\ phase = "parse" /\ job.part = "words" /\ ask = Idle /\ Asking
        /\ UNCHANGED <<nodes, destroyed, walk>>
    BY DEF NodesInv, Tree, WordsMade, At, Asking
  <1>2. PICK k : k = job.cache
    OBVIOUS
  <1>3. PICK n : n = Len(caches[k].pools)
    OBVIOUS
  <1>4. /\ k \in DOMAIN caches /\ job.storage \in Blocks /\ caches[k] \in CacheType /\ n \in Nat
        /\ job.storage.size = PoolBytes(k)
    BY <1>1, <1>2, <1>3, JobOf, CachesTyped, CacheTyped DEF TreeTyped, PoolsSized
  <1>5. CASE answer = NoBlock /\ Fail(<<job.storage>>) /\ UNCHANGED <<vars, caches>>
    <2>1. <<job.storage>> \in Seq(Blocks) /\ Len(<<job.storage>>) <= 2
      BY <1>4
    <2>2. \A i \in DOMAIN <<job.storage>> : JobHolds(<<"pool", i, 0>>, <<job.storage>>[i])
      BY <1>1 DEF JobHolds
    <2>3. QED
      BY <1>1, <1>5, <2>1, <2>2, FailKeeps DEF NoBlock
  <1>6. ASSUME NEW words \in answer, NEW pool,
               pool = [storage |-> job.storage, words |-> words, occupied |-> {}],
               n + 1 < caches[k].room,
               caches' = [caches EXCEPT ![k].pools = Append(@, pool)],
               Begin(k), UNCHANGED <<vars, phase, drops>>
        PROVE  Tree'
    <2>1. words \in Blocks /\ pool \in PoolType
      BY <1>4, <1>6 DEF NodesInv, IInv, AllocatorsTypeOK, PoolType
    <2>2. PICK cache : cache = [caches[k] EXCEPT !.pools = Append(caches[k].pools, pool)]
      OBVIOUS
    <2>3. /\ cache.size = caches[k].size /\ cache.pools = Append(caches[k].pools, pool)
          /\ cache.data = caches[k].data /\ cache.room = caches[k].room
          /\ cache = [size |-> cache.size, pools |-> cache.pools, data |-> cache.data,
                      room |-> cache.room]
      BY <1>4, <2>2 DEF CacheType
    <2>4. caches' = [caches EXCEPT ![k] = cache]
      BY <1>6, <2>2
    <2>5. cache.data \in SUBSET Blocks /\ cache.room \in Nat
      BY <1>4, <2>3, CacheTyped
    <2>6. Pushes(k, pool) /\ caches'[k] = cache
      BY <1>1, <1>4, <2>1, <2>3, <2>4, <2>5, Pushed
    <2>7. \A c \in DOMAIN caches' : Len(caches'[c].pools) <= caches'[c].room
      <3>1. Len(caches'[k].pools) = n + 1
        BY <1>1, <1>3, <1>4, <2>1, <2>6, PushedPools
      <3>2. Len(caches'[k].pools) <= caches'[k].room
        BY <1>4, <1>6, <2>3, <2>5, <2>6, <3>1
      <3>3. QED
        BY <1>1, <2>6, <3>2 DEF TreeTyped, Pushes
    <2>8. /\ NodesPlaced' /\ NodesApart' /\ Walked'
          /\ TreeTyped' /\ Phased' /\ PoolsSized' /\ PoolsBegun'
      <3>1. /\ pool.occupied = {} /\ pool.storage.size = PoolBytes(job.cache)
            /\ Pushes(job.cache, pool) /\ job' = [part |-> "scan", cache |-> job.cache]
            /\ ask' = Idle
        BY <1>1, <1>2, <1>4, <1>6, <2>6 DEF Begin, vars
      <3>2. UNCHANGED <<phase, nodes, destroyed, walk, drops>>
        BY <1>1, <1>6
      <3>3. QED
        BY <1>1, <2>1, <2>7, <3>1, <3>2, PushedKeeps
    <2> DEFINE T == {<<<<"storage", k, n + 1>>, <<"pool", 1, 0>>>>,
                     <<<<"words", k, n + 1>>, <<"answer", 0, 0>>>>}
    <2>9. \A s, t \in T : s[2] = t[2] => s[1] = t[1]
      OBVIOUS
    <2>10. Holds(<<"pool", 1, 0>>, pool.storage) /\ Holds(<<"answer", 0, 0>>, pool.words)
      BY <1>1, <1>6 DEF Holds, JobHolds
    <2>11. /\ job'.part = "scan" /\ ~Asking' /\ live' = live /\ drops' = drops
           /\ drops = <<>> /\ DOMAIN caches' = DOMAIN caches
           /\ \A c \in DOMAIN caches : caches'[c].data = caches[c].data
      BY <1>1, <1>6, <2>3, <2>6 DEF Begin, Asking, vars, Pushes, Phased
    <2>12. ASSUME NEW who, NEW b, Holds(who, b)'
           PROVE  /\ b \in live'
                  /\ \/ Holds(who, b) /\ \A t \in T : t[2] # who
                     \/ \E t \in T : who = t[1] /\ Holds(t[2], b)
      <3>1. CASE PoolHolds(who, b) \/ CacheHolds(who, b)'
        <4>1. PoolHolds(who, b) \/ CacheHolds(who, b)
          BY <2>11, <3>1 DEF CacheHolds
        <4>2. Holds(who, b) /\ who # <<"pool", 1, 0>> /\ who # <<"answer", 0, 0>>
          BY <4>1 DEF Holds, PoolHolds, CacheHolds
        <4>3. QED
          BY <1>1, <2>11, <4>2 DEF HeldApart
      <3>2. CASE \/ who = <<"storage", k, n + 1>> /\ b = pool.storage
                 \/ who = <<"words", k, n + 1>> /\ b = pool.words
        BY <1>1, <2>10, <2>11, <3>2 DEF HeldApart
      <3>3. PoolHolds(who, b)' => \/ PoolHolds(who, b)
                                  \/ who = <<"storage", k, n + 1>> /\ b = pool.storage
                                  \/ who = <<"words", k, n + 1>> /\ b = pool.words
        BY <1>1, <1>3, <1>4, <2>1, <2>6, PushedHolds
      <3>4. ~JobHolds(who, b)' /\ ~DropHolds(who, b)'
        BY <2>11 DEF JobHolds, DropHolds
      <3>5. QED
        BY <2>12, <3>1, <3>2, <3>3, <3>4 DEF Holds
    <2>13. HeldApart'
      <3> HIDE DEF T
      <3>1. QED
        BY <1>1, <2>9, <2>12, HeldAfter
    <2>14. QED
      BY <2>8, <2>13 DEF Tree
  <1>7. ASSUME NEW words \in answer, NEW pool,
               pool = [storage |-> job.storage, words |-> words, occupied |-> {}],
               Ask(Grown(n + 1) * PoolSize),
               job' = [part |-> "grow", cache |-> k, pool |-> pool],
               UNCHANGED <<caches, phase, drops>>
        PROVE  Tree'
    <2>1. pool \in PoolType
      BY <1>4, <1>7 DEF NodesInv, IInv, AllocatorsTypeOK, PoolType
    <2>2. Grown(n + 1) * PoolSize \in Nat \ {0}
      <3>1. Grown(n + 1) \in Nat \ {0}
        BY <1>4, GrownSuffices
      <3>2. \A x, y \in Nat \ {0} : x * y \in Nat \ {0}
        OBVIOUS
      <3>3. QED
        BY <3>1, <3>2, NodesAssumption
    <2>3. /\ ask'.size = Grown(n + 1) * PoolSize /\ answer' = {} /\ live' = live
      BY <1>7 DEF Ask, NoBlock
    <2>4. NodesPlaced' /\ NodesApart' /\ Walked'
      BY <1>1, <1>7, TreeKept
    <2>5. TreeTyped'
      BY <1>1, <1>4, <1>7, <2>1 DEF TreeTyped, JobTyped
    <2>6. Phased'
      <3>1. Asking' /\ job'.part = "grow"
        BY <1>7 DEF Asking
      <3>2. ask'.size > 0
        BY <2>2, <2>3
      <3>3. QED
        BY <1>1, <1>7, <3>1, <3>2 DEF Phased
    <2>7. PoolsSized'
      BY <1>1, <1>4, <1>7 DEF PoolsSized, PoolBytes
    <2>8. \A c : Vacant(c)' = Vacant(c)
      BY <1>7 DEF Vacant, Free
    <2>9. PoolsBegun'
      BY <1>1, <1>2, <1>7, <2>8 DEF PoolsBegun, Asking
    <2> DEFINE T == {<<<<"pool", 2, 0>>, <<"answer", 0, 0>>>>}
    <2>10. \A s, t \in T : s[2] = t[2] => s[1] = t[1]
      OBVIOUS
    <2>11. ASSUME NEW who, NEW b, Holds(who, b)'
           PROVE  /\ b \in live'
                  /\ \/ Holds(who, b) /\ \A t \in T : t[2] # who
                     \/ \E t \in T : who = t[1] /\ Holds(t[2], b)
      <3>1. CASE (PoolHolds(who, b) \/ CacheHolds(who, b) \/ DropHolds(who, b))'
        <4>1. PoolHolds(who, b) \/ CacheHolds(who, b) \/ DropHolds(who, b)
          BY <1>7, <3>1 DEF PoolHolds, CacheHolds, DropHolds
        <4>2. Holds(who, b) /\ who # <<"answer", 0, 0>>
          BY <4>1 DEF Holds, PoolHolds, CacheHolds, DropHolds
        <4>3. QED
          BY <1>1, <2>3, <4>2 DEF HeldApart
      <3>2. CASE JobHolds(who, b)'
        <4>1. \/ who = <<"pool", 1, 0>> /\ b = job.storage
              \/ who = <<"pool", 2, 0>> /\ b = words
          BY <1>7, <2>3, <3>2 DEF JobHolds
        <4>2. Holds(<<"pool", 1, 0>>, job.storage) /\ Holds(<<"answer", 0, 0>>, words)
          BY <1>1, <1>7 DEF Holds, JobHolds
        <4>3. QED
          BY <1>1, <2>3, <4>1, <4>2 DEF HeldApart
      <3>3. QED
        BY <2>11, <3>1, <3>2 DEF Holds
    <2>12. HeldApart'
      <3> HIDE DEF T
      <3>1. QED
        BY <1>1, <2>10, <2>11, HeldAfter
    <2>13. QED
      BY <2>4, <2>5, <2>6, <2>7, <2>9, <2>12 DEF Tree
  <1>8. QED
    <2>1. \/ /\ answer = NoBlock
             /\ Fail(<<job.storage>>)
             /\ UNCHANGED <<vars, caches>>
          \/ \E words \in answer :
               LET pool == [storage |-> job.storage, words |-> words, occupied |-> {}]
               IN \/ /\ n + 1 < caches[k].room
                     /\ caches' = [caches EXCEPT ![k].pools = Append(@, pool)]
                     /\ Begin(k)
                     /\ UNCHANGED <<vars, phase, drops>>
                  \/ /\ Ask(Grown(n + 1) * PoolSize)
                     /\ job' = [part |-> "grow", cache |-> k, pool |-> pool]
                     /\ UNCHANGED <<caches, phase, drops>>
      BY <1>2, <1>3 DEF WordsMade
    <2>2. CASE \E words \in answer :
               LET pool == [storage |-> job.storage, words |-> words, occupied |-> {}]
               IN \/ /\ n + 1 < caches[k].room
                     /\ caches' = [caches EXCEPT ![k].pools = Append(@, pool)]
                     /\ Begin(k)
                     /\ UNCHANGED <<vars, phase, drops>>
                  \/ /\ Ask(Grown(n + 1) * PoolSize)
                     /\ job' = [part |-> "grow", cache |-> k, pool |-> pool]
                     /\ UNCHANGED <<caches, phase, drops>>
      BY <1>6, <1>7, <2>2
    <2>3. QED
      BY <1>5, <2>1, <2>2

LEMMA PoolsGrownKeeps ==
  ASSUME NodesInv, PoolsGrown
  PROVE  Tree'
  <1>1. /\ Tree /\ TreeTyped /\ Phased /\ HeldApart /\ PoolsSized /\ PoolsBegun
        /\ phase = "parse" /\ job.part = "grow" /\ ask = Idle /\ Asking
        /\ UNCHANGED <<nodes, destroyed, walk>>
    BY DEF NodesInv, Tree, PoolsGrown, At, Asking
  <1>2. PICK k : k = job.cache
    OBVIOUS
  <1>3. PICK n : n = Len(caches[k].pools)
    OBVIOUS
  <1>4. PICK pool : pool = job.pool
    OBVIOUS
  <1>5. /\ k \in DOMAIN caches /\ pool \in PoolType /\ caches[k] \in CacheType /\ n \in Nat
        /\ pool.storage.size = PoolBytes(k) /\ pool.occupied = {}
    BY <1>1, <1>2, <1>3, <1>4, JobOf, CachesTyped, CacheTyped DEF TreeTyped, PoolsSized, PoolsBegun
  <1>6. CASE answer = NoBlock /\ Fail(<<pool.storage, pool.words>>) /\ UNCHANGED <<vars, caches>>
    <2> DEFINE given == <<pool.storage, pool.words>>
    <2>1. given \in Seq(Blocks) /\ Len(given) <= 2
      BY <1>5 DEF PoolType
    <2>2. \A i \in DOMAIN given : JobHolds(<<"pool", i, 0>>, given[i])
      BY <1>1, <1>4 DEF JobHolds
    <2> HIDE DEF given
    <2>3. Fail(given)
      BY <1>6 DEF given
    <2>4. QED
      BY <1>1, <1>6, <2>1, <2>2, <2>3, FailKeeps DEF NoBlock
  <1>7. CASE /\ caches' = [caches EXCEPT ![k] =
                  [size |-> caches[k].size, pools |-> Append(caches[k].pools, pool),
                   data |-> answer, room |-> Grown(n + 1)]]
             /\ Begin(k)
             /\ \/ /\ caches[k].data = NoBlock
                   /\ UNCHANGED vars
                \/ \E old \in caches[k].data : Deallocate(old) /\ UNCHANGED views
             /\ UNCHANGED <<phase, drops>>
    <2>1. answer \in SUBSET Blocks /\ Grown(n + 1) \in Nat /\ Grown(n + 1) >= n + 1
      BY <1>5, GrownSuffices DEF NodesInv, IInv, AllocatorsTypeOK
    <2>2. PICK cache : cache = [size |-> caches[k].size, pools |-> Append(caches[k].pools, pool),
                                data |-> answer, room |-> Grown(n + 1)]
      OBVIOUS
    <2>3. /\ cache.size = caches[k].size /\ cache.pools = Append(caches[k].pools, pool)
          /\ cache.data = answer /\ cache.room = Grown(n + 1)
          /\ cache = [size |-> cache.size, pools |-> cache.pools, data |-> cache.data,
                      room |-> cache.room]
      BY <2>2
    <2>4. caches' = [caches EXCEPT ![k] = cache]
      BY <1>7, <2>2
    <2>5. Pushes(k, pool) /\ caches'[k] = cache
      BY <1>1, <1>5, <2>1, <2>3, <2>4, Pushed
    <2>6. \A c \in DOMAIN caches' : Len(caches'[c].pools) <= caches'[c].room
      <3>1. Len(caches'[k].pools) = n + 1
        BY <1>1, <1>3, <1>5, <2>5, PushedPools
      <3>2. Len(caches'[k].pools) <= caches'[k].room
        BY <1>5, <2>1, <2>3, <2>5, <3>1
      <3>3. QED
        BY <1>1, <2>5, <3>2 DEF TreeTyped, Pushes
    <2>7. /\ ask' = Idle /\ answer' = answer
          /\ \/ caches[k].data = {} /\ live' = live
             \/ \E old \in caches[k].data : live' = live \ {old}
      BY <1>1, <1>7 DEF Deallocate, vars, NoBlock
    <2>8. /\ NodesPlaced' /\ NodesApart' /\ Walked'
          /\ TreeTyped' /\ Phased' /\ PoolsSized' /\ PoolsBegun'
      <3>1. /\ pool.occupied = {} /\ pool.storage.size = PoolBytes(job.cache)
            /\ Pushes(job.cache, pool) /\ job' = [part |-> "scan", cache |-> job.cache]
        BY <1>2, <1>5, <1>7, <2>5 DEF Begin
      <3>2. UNCHANGED <<phase, nodes, destroyed, walk, drops>>
        BY <1>1, <1>7
      <3>3. QED
        BY <1>1, <1>5, <2>6, <2>7, <3>1, <3>2, PushedKeeps
    <2> DEFINE T == {<<<<"storage", k, n + 1>>, <<"pool", 1, 0>>>>,
                     <<<<"words", k, n + 1>>, <<"pool", 2, 0>>>>,
                     <<<<"data", k, 0>>, <<"answer", 0, 0>>>>}
    <2>9. \A s, t \in T : s[2] = t[2] => s[1] = t[1]
      OBVIOUS
    <2>10. /\ Holds(<<"pool", 1, 0>>, pool.storage) /\ Holds(<<"pool", 2, 0>>, pool.words)
           /\ \A b \in answer : Holds(<<"answer", 0, 0>>, b)
      BY <1>1, <1>4 DEF Holds, JobHolds
    <2>11. /\ job'.part = "scan" /\ ~Asking' /\ drops' = drops
           /\ drops = <<>> /\ DOMAIN caches' = DOMAIN caches
           /\ \A c \in DOMAIN caches : c # k => caches'[c].data = caches[c].data
           /\ caches'[k].data = answer
      BY <1>1, <1>7, <2>3, <2>5 DEF Begin, Asking, Pushes, Phased
    <2>12. ASSUME NEW who, NEW b, Holds(who, b), who # <<"data", k, 0>>
           PROVE  b \in live'
      <3>1. b \in live
        BY <1>1, <2>12 DEF HeldApart
      <3>2. ASSUME NEW old \in caches[k].data
            PROVE  b # old
        <4>1. Holds(<<"data", k, 0>>, old)
          BY <1>5 DEF Holds, CacheHolds
        <4>2. QED
          BY <2>12, <4>1, HeldOnce
      <3>3. QED
        BY <2>7, <3>1, <3>2
    <2>13. ASSUME NEW who, NEW b, Holds(who, b)'
           PROVE  /\ b \in live'
                  /\ \/ Holds(who, b) /\ \A t \in T : t[2] # who
                     \/ \E t \in T : who = t[1] /\ Holds(t[2], b)
      <3>1. CASE PoolHolds(who, b)
        <4>1. /\ Holds(who, b) /\ who # <<"pool", 1, 0>> /\ who # <<"pool", 2, 0>>
              /\ who # <<"answer", 0, 0>> /\ who # <<"data", k, 0>>
          BY <3>1 DEF Holds, PoolHolds
        <4>2. QED
          BY <2>12, <4>1
      <3>2. CASE \/ who = <<"storage", k, n + 1>> /\ b = pool.storage
                 \/ who = <<"words", k, n + 1>> /\ b = pool.words
        <4>1. <<"pool", 1, 0>> # <<"data", k, 0>> /\ <<"pool", 2, 0>> # <<"data", k, 0>>
          OBVIOUS
        <4>2. b \in live'
          BY <2>10, <2>12, <3>2, <4>1
        <4>3. QED
          BY <2>10, <3>2, <4>2
      <3>3. CASE CacheHolds(who, b)'
        <4>1. PICK c \in DOMAIN caches : who = <<"data", c, 0>> /\ b \in caches'[c].data
          BY <2>11, <3>3 DEF CacheHolds
        <4>2. CASE c = k
          <5>1. b \in answer /\ who = <<"data", k, 0>>
            BY <2>11, <4>1, <4>2
          <5>2. <<"answer", 0, 0>> # <<"data", k, 0>>
            OBVIOUS
          <5>3. b \in live'
            BY <2>10, <2>12, <5>1, <5>2
          <5>4. QED
            BY <2>10, <5>1, <5>3
        <4>3. CASE c # k
          <5>1. CacheHolds(who, b)
            BY <2>11, <4>1, <4>3 DEF CacheHolds
          <5>2. /\ Holds(who, b) /\ who # <<"pool", 1, 0>> /\ who # <<"pool", 2, 0>>
                /\ who # <<"answer", 0, 0>> /\ who # <<"data", k, 0>>
            BY <4>1, <4>3, <5>1 DEF Holds
          <5>3. QED
            BY <2>12, <5>2
        <4>4. QED
          BY <4>2, <4>3
      <3>4. PoolHolds(who, b)' => \/ PoolHolds(who, b)
                                  \/ who = <<"storage", k, n + 1>> /\ b = pool.storage
                                  \/ who = <<"words", k, n + 1>> /\ b = pool.words
        BY <1>1, <1>3, <1>5, <2>5, PushedHolds
      <3>5. ~JobHolds(who, b)' /\ ~DropHolds(who, b)'
        BY <2>11 DEF JobHolds, DropHolds
      <3>6. QED
        BY <2>13, <3>1, <3>2, <3>3, <3>4, <3>5 DEF Holds
    <2>14. HeldApart'
      <3> HIDE DEF T
      <3>1. QED
        BY <1>1, <2>9, <2>13, HeldAfter
    <2>15. QED
      BY <2>8, <2>14 DEF Tree
  <1>8. QED
    BY <1>2, <1>3, <1>4, <1>6, <1>7 DEF PoolsGrown

-----------------------------------------------------------------------------
(* The steps: the loops of ~Parser.                                        *)

\* Item 0 of every pool is a node.
Begun == \A c \in DOMAIN caches : \A p \in DOMAIN caches[c].pools : 0 \in caches[c].pools[p].occupied

Steps == [cache : Nat, pool : Nat, item : Nat]

LEMMA BeginFromIs ==
  ASSUME TreeTyped, Begun, NEW k \in Nat \ {0}, NEW at, at = BeginFrom(k)
  PROVE  /\ at \in Steps
         /\ \/ /\ at = NoWalk
               /\ \A c, p, i : Occupied(c, p, i) => c < k
            \/ /\ at # NoWalk /\ Occupied(at.cache, at.pool, at.item)
               /\ \A c, p, i : Occupied(c, p, i) => (Before(c, p, i, at) <=> c < k)
  <1> DEFINE rest == {c \in DOMAIN caches : c >= k /\ caches[c].pools # <<>>}
  <1>1. at = IF rest = {} THEN NoWalk ELSE [cache |-> Min(rest), pool |-> 1, item |-> 0]
    BY DEF BeginFrom
  <1>2. DOMAIN caches \subseteq Nat \ {0}
    BY CachesTyped
  <1>3. ASSUME NEW c, NEW p, NEW i, Occupied(c, p, i)
        PROVE  /\ c \in Nat \ {0} /\ p \in Nat \ {0} /\ i \in Nat
               /\ c >= k => c \in rest
    <2>1. c \in DOMAIN caches /\ p \in DOMAIN caches[c].pools
      BY <1>3 DEF Occupied
    <2>2. caches[c].pools # <<>>
      BY <2>1
    <2>3. QED
      BY <1>3, <2>1, <2>2, OccupiedIsPosition
  <1>4. CASE rest = {}
    <2>1. at = NoWalk /\ at \in Steps
      BY <1>1, <1>4 DEF NoWalk, Steps
    <2>2. QED
      BY <1>3, <1>4, <2>1
  <1>5. CASE rest # {}
    <2> DEFINE m == Min(rest)
    <2>1. rest \subseteq Nat
      BY <1>2
    <2>2. m \in DOMAIN caches /\ m >= k /\ caches[m].pools # <<>>
      <3> HIDE DEF rest
      <3>1. m \in rest
        BY <1>5, <2>1, LeastOf
      <3>2. QED
        BY <3>1 DEF rest
    <2>3. \A c \in rest : m <= c
      <3> HIDE DEF rest
      <3>1. QED
        BY <1>5, <2>1, LeastOf
    <2>4. at = [cache |-> m, pool |-> 1, item |-> 0]
      BY <1>1, <1>5
    <2> HIDE DEF rest, m
    <2>5. m \in Nat \ {0} /\ 1 \in DOMAIN caches[m].pools
      BY <1>2, <2>2, CachesTyped, CacheTyped
    <2>6. Occupied(m, 1, 0)
      BY <2>2, <2>5 DEF Occupied, Begun
    <2>7. at \in Steps /\ at # NoWalk /\ Occupied(at.cache, at.pool, at.item)
      BY <2>4, <2>5, <2>6 DEF Steps, NoWalk
    <2>8. ASSUME NEW c, NEW p, NEW i, Occupied(c, p, i)
          PROVE  Before(c, p, i, at) <=> c < k
      <3>1. c \in Nat \ {0} /\ p \in Nat \ {0} /\ i \in Nat /\ (c >= k => m <= c)
        BY <1>3, <2>3, <2>8
      <3>2. at.cache = m /\ at.pool = 1 /\ at.item = 0
        BY <2>4
      <3>3. QED
        BY <2>2, <2>5, <3>1, <3>2 DEF Before
    <2>9. QED
      BY <2>7, <2>8
  <1>6. QED
    BY <1>4, <1>5

LEMMA NextItemIs ==
  ASSUME NEW pool, NEW i \in 0 .. Objects - 1, NEW next, next = NextItem(pool, i)
  PROVE  /\ next \in i + 1 .. Objects /\ (next = Objects \/ next \in pool.occupied)
         /\ \A j \in i + 1 .. Objects : j = Objects \/ j \in pool.occupied => next <= j
  <1> DEFINE S == {j \in i + 1 .. Objects : j = Objects \/ j \in pool.occupied}
  <1>1. Objects \in S /\ S \subseteq Nat
    BY PoolNumbers
  <1>2. next = Min(S)
    BY DEF NextItem
  <1> HIDE DEF S
  <1>3. next \in S /\ \A j \in S : next <= j
    BY <1>1, <1>2, LeastOf
  <1>4. QED
    BY <1>3 DEF S

\* The iterator goes to the next node, and past none.
LEMMA AdvanceIs ==
  ASSUME TreeTyped, Begun, NEW at \in Steps, Occupied(at.cache, at.pool, at.item),
         NEW next, next = Advance(at)
  PROVE  /\ next \in Steps
         /\ next = NoWalk \/ Occupied(next.cache, next.pool, next.item)
         /\ \A c, p, i : Occupied(c, p, i) =>
              (next = NoWalk \/ Before(c, p, i, next)
                 <=> Before(c, p, i, at) \/ <<c, p, i>> = <<at.cache, at.pool, at.item>>)
  <1> DEFINE pools == caches[at.cache].pools
             pool == pools[at.pool]
             item == NextItem(pool, at.item)
  <1>1. /\ at.cache \in Nat \ {0} /\ at.pool \in Nat \ {0} /\ at.item \in Nat
        /\ at.cache \in DOMAIN caches /\ at.pool \in DOMAIN pools /\ at.item \in 0 .. Objects - 1
        /\ Objects \in Nat \ {0}
    BY OccupiedIsPosition, PoolNumbers DEF Position
  <1>2. Len(pools) \in Nat /\ DOMAIN pools = 1 .. Len(pools)
    BY <1>1, CachesTyped, CacheTyped
  <1>3. /\ item \in at.item + 1 .. Objects /\ (item = Objects \/ item \in pool.occupied)
        /\ \A j \in at.item + 1 .. Objects : j = Objects \/ j \in pool.occupied => item <= j
    BY <1>1, NextItemIs
  <1>4. next = CASE item < Objects -> [at EXCEPT !.item = item]
                 [] item = Objects /\ at.pool < Len(pools) ->
                      [cache |-> at.cache, pool |-> at.pool + 1, item |-> 0]
                 [] OTHER -> BeginFrom(at.cache + 1)
    BY DEF Advance
  <1>5. ASSUME NEW c, NEW p, NEW i, Occupied(c, p, i)
        PROVE  /\ c \in Nat \ {0} /\ p \in Nat \ {0} /\ i \in Nat
               /\ c = at.cache => p <= Len(pools)
               /\ c = at.cache /\ p = at.pool => i <= at.item \/ item <= i
               /\ i < Objects
    <2>1. c \in Nat \ {0} /\ p \in Nat \ {0} /\ i \in Nat /\ Position(c, p, i)
      BY <1>5, OccupiedIsPosition
    <2>2. p \in DOMAIN caches[c].pools /\ i \in 0 .. Objects - 1 /\ i \in caches[c].pools[p].occupied
      BY <1>5, <2>1 DEF Position, Occupied
    <2>3. c = at.cache => p <= Len(pools)
      BY <1>2, <2>2
    <2>4. ASSUME c = at.cache, p = at.pool, ~(i <= at.item)
          PROVE  item <= i
      <3>1. i \in at.item + 1 .. Objects /\ i \in pool.occupied
        BY <1>1, <2>2, <2>4
      <3>2. QED
        BY <1>3, <3>1
    <2>5. QED
      BY <1>1, <2>1, <2>2, <2>3, <2>4
  <1> HIDE DEF item
  <1>6. CASE item < Objects
    <2>1. next = [cache |-> at.cache, pool |-> at.pool, item |-> item]
      <3>1. item # Objects
        BY <1>1, <1>3, <1>6
      <3>2. next = [at EXCEPT !.item = item]
        BY <1>4, <1>6, <3>1
      <3>3. QED
        BY <3>2 DEF Steps
    <2>2. item \in Nat /\ item > at.item /\ item \in pool.occupied
      BY <1>1, <1>3, <1>6
    <2>3. next \in Steps /\ next # NoWalk /\ Occupied(next.cache, next.pool, next.item)
      BY <1>1, <2>1, <2>2 DEF Steps, NoWalk, Occupied
    <2>4. ASSUME NEW c, NEW p, NEW i, Occupied(c, p, i)
          PROVE  Before(c, p, i, next)
                   <=> Before(c, p, i, at) \/ <<c, p, i>> = <<at.cache, at.pool, at.item>>
      <3>1. /\ c \in Nat \ {0} /\ p \in Nat \ {0} /\ i \in Nat
            /\ c = at.cache /\ p = at.pool => i <= at.item \/ item <= i
        BY <1>5, <2>4
      <3>2. next.cache = at.cache /\ next.pool = at.pool /\ next.item = item
        BY <2>1
      <3>3. QED
        BY <1>1, <2>2, <3>1, <3>2 DEF Before
    <2>5. QED
      BY <2>3, <2>4
  <1>7. CASE item = Objects /\ at.pool < Len(pools)
    <2>1. next = [cache |-> at.cache, pool |-> at.pool + 1, item |-> 0]
      BY <1>1, <1>4, <1>7
    <2>2. at.pool + 1 \in DOMAIN pools /\ at.pool + 1 \in Nat
      BY <1>1, <1>2, <1>7
    <2>3. Occupied(at.cache, at.pool + 1, 0)
      BY <1>1, <2>2 DEF Occupied, Begun
    <2>4. next \in Steps /\ next # NoWalk /\ Occupied(next.cache, next.pool, next.item)
      BY <1>1, <2>1, <2>2, <2>3 DEF Steps, NoWalk
    <2>5. ASSUME NEW c, NEW p, NEW i, Occupied(c, p, i)
          PROVE  Before(c, p, i, next)
                   <=> Before(c, p, i, at) \/ <<c, p, i>> = <<at.cache, at.pool, at.item>>
      <3>1. /\ c \in Nat \ {0} /\ p \in Nat \ {0} /\ i \in Nat /\ i < Objects
            /\ c = at.cache /\ p = at.pool => i <= at.item \/ item <= i
        BY <1>5, <2>5
      <3>2. next.cache = at.cache /\ next.pool = at.pool + 1 /\ next.item = 0
        BY <2>1
      <3>3. QED
        BY <1>1, <1>7, <3>1, <3>2 DEF Before
    <2>6. QED
      BY <2>4, <2>5
  <1>8. CASE item = Objects /\ ~(at.pool < Len(pools))
    <2>1. next = BeginFrom(at.cache + 1)
      BY <1>1, <1>4, <1>8
    <2>2. at.cache + 1 \in Nat \ {0} /\ at.pool = Len(pools)
      BY <1>1, <1>2, <1>8
    <2>3. /\ next \in Steps
          /\ \/ /\ next = NoWalk
                /\ \A c, p, i : Occupied(c, p, i) => c < at.cache + 1
             \/ /\ next # NoWalk /\ Occupied(next.cache, next.pool, next.item)
                /\ \A c, p, i : Occupied(c, p, i) => (Before(c, p, i, next) <=> c < at.cache + 1)
      BY <2>1, <2>2, BeginFromIs
    <2>4. ASSUME NEW c, NEW p, NEW i, Occupied(c, p, i)
          PROVE  c < at.cache + 1
                   <=> Before(c, p, i, at) \/ <<c, p, i>> = <<at.cache, at.pool, at.item>>
      <3>1. /\ c \in Nat \ {0} /\ p \in Nat \ {0} /\ i \in Nat /\ i < Objects
            /\ c = at.cache => p <= Len(pools)
            /\ c = at.cache /\ p = at.pool => i <= at.item \/ item <= i
        BY <1>5, <2>4
      <3>2. QED
        BY <1>1, <1>8, <2>2, <3>1 DEF Before
    <2>5. QED
      BY <2>3, <2>4
  <1>9. QED
    BY <1>1, <1>3, <1>6, <1>7, <1>8

LEMMA DestroyingIs ==
  ASSUME NodesInv, Destroying
  PROVE  /\ Tree /\ TreeTyped /\ Phased /\ HeldApart /\ PoolsSized /\ PoolsBegun /\ NodesPlaced
         /\ NodesApart /\ Walked /\ Begun
         /\ phase = "destroy" /\ drops = <<>> /\ job = NoJob
  <1>1. /\ Tree /\ TreeTyped /\ Phased /\ HeldApart /\ PoolsSized /\ PoolsBegun /\ NodesPlaced
        /\ NodesApart /\ Walked
        /\ phase = "destroy" /\ drops = <<>> /\ job = NoJob
    BY DEF NodesInv, Tree, Phased, Destroying
  <1>2. Begun
    BY <1>1, NoJobAsks DEF PoolsBegun, Begun
  <1>3. QED
    BY <1>1, <1>2

\* What a step of the loops does not touch.
LEMMA WalkingKeeps ==
  ASSUME NodesInv, Destroying, phase' \in {"destroy", "release"}, walk' \in Steps,
         destroyed' \in Seq(Blocks), UNCHANGED <<vars, caches, job, nodes, drops>>
  PROVE  /\ TreeTyped' /\ Phased' /\ HeldApart' /\ PoolsSized' /\ PoolsBegun'
         /\ NodesPlaced' /\ NodesApart'
  <1>1. /\ Tree /\ TreeTyped /\ Phased /\ HeldApart /\ PoolsSized /\ PoolsBegun /\ NodesPlaced
        /\ NodesApart
        /\ phase = "destroy" /\ drops = <<>> /\ job = NoJob
    BY DestroyingIs
  <1>2. TreeTyped'
    BY <1>1 DEF TreeTyped, JobTyped, Steps
  <1>3. ask = Idle /\ UNCHANGED <<ask, answer, live>>
    BY <1>1, NoJobAsks DEF Phased, Asking, vars
  <1>4. Phased'
    BY <1>1, <1>3 DEF Phased
  <1>5. \A who, b : Holds(who, b)' <=> Holds(who, b)
    BY <1>1, <1>3 DEF Holds, PoolHolds, CacheHolds, JobHolds, DropHolds, Asking
  <1>6. HeldApart'
    BY <1>1, <1>3, <1>5 DEF HeldApart, Promise!Overlap
  <1>7. PoolsSized' /\ PoolsBegun'
    BY <1>1, NoJobAsks DEF PoolsSized, PoolBytes, PoolsBegun, Asking
  <1>8. NodesPlaced' /\ NodesApart'
    BY <1>1 DEF NodesPlaced, NodesApart, Occupied, Address, Promise!Overlap
  <1>9. QED
    BY <1>2, <1>4, <1>6, <1>7, <1>8

LEMMA NothingToDestroyKeeps ==
  ASSUME NodesInv, NothingToDestroy
  PROVE  Tree'
  <1>1. Destroying /\ walk = NoWalk /\ BeginFrom(1) = NoWalk /\ phase' = "release"
        /\ UNCHANGED <<vars, caches, job, nodes, destroyed, walk, drops>>
    BY DEF NothingToDestroy
  <1>2. TreeTyped /\ NodesPlaced /\ Walked /\ Begun /\ phase = "destroy"
    BY <1>1, DestroyingIs
  <1>3. walk \in Steps /\ destroyed \in Seq(Blocks)
    BY <1>2 DEF TreeTyped, Steps
  <1>4. /\ TreeTyped' /\ Phased' /\ HeldApart' /\ PoolsSized' /\ PoolsBegun'
        /\ NodesPlaced' /\ NodesApart'
    BY <1>1, <1>3, WalkingKeeps
  <1>5. ASSUME NEW c, NEW p, NEW i, Occupied(c, p, i)
        PROVE  FALSE
    <2>1. NoWalk.cache = 0 /\ NoWalk.cache \notin DOMAIN caches
      BY <1>2, CachesTyped DEF NoWalk
    <2>2. ~Occupied(NoWalk.cache, NoWalk.pool, NoWalk.item)
      BY <2>1 DEF Occupied
    <2>3. \A d, q, j : Occupied(d, q, j) => d < 1
      BY <1>1, <1>2, BeginFromIs
    <2>4. c < 1 /\ c \in Nat \ {0}
      BY <1>2, <1>5, <2>3, OccupiedIsPosition
    <2>5. QED
      BY <2>4
  <1>6. DOMAIN nodes = {} /\ DOMAIN destroyed = {}
    BY <1>2, <1>5 DEF NodesPlaced, Walked
  <1>7. Walked'
    BY <1>1, <1>2, <1>6 DEF Walked, Range
  <1>8. QED
    BY <1>4, <1>7 DEF Tree

LEMMA DestroyNodeKeeps ==
  ASSUME NodesInv, DestroyNode
  PROVE  Tree'
  <1>1. PICK at : at = IF walk = NoWalk THEN BeginFrom(1) ELSE walk
    OBVIOUS
  <1>2. /\ Destroying /\ at # NoWalk
        /\ destroyed' = Append(destroyed, Address(at.cache, at.pool, at.item))
        /\ walk' = Advance(at)
        /\ IF walk' = NoWalk THEN phase' = "release" ELSE phase' = phase
        /\ UNCHANGED <<vars, caches, job, nodes, drops>>
    BY <1>1 DEF DestroyNode
  <1>3. TreeTyped /\ HeldApart /\ PoolsSized /\ NodesPlaced /\ Walked /\ Begun /\ phase = "destroy"
    BY <1>2, DestroyingIs
  <1>4. /\ at \in Steps /\ Occupied(at.cache, at.pool, at.item)
        /\ \A c, p, i : Occupied(c, p, i) => (Before(c, p, i, at) <=> Before(c, p, i, walk))
    <2>1. CASE walk = NoWalk
      <3>1. /\ at \in Steps /\ Occupied(at.cache, at.pool, at.item)
            /\ \A c, p, i : Occupied(c, p, i) => (Before(c, p, i, at) <=> c < 1)
        BY <1>1, <1>2, <1>3, <2>1, BeginFromIs
      <3>2. ASSUME NEW c, NEW p, NEW i, Occupied(c, p, i)
            PROVE  ~Before(c, p, i, walk) /\ ~(c < 1)
        BY <1>3, <2>1, <3>2, NothingBefore, OccupiedIsPosition
      <3>3. QED
        BY <3>1, <3>2
    <2>2. CASE walk # NoWalk
      BY <1>1, <1>3, <2>2 DEF Walked, TreeTyped, Steps
    <2>3. QED
      BY <2>1, <2>2
  <1>5. PICK new : new = Address(at.cache, at.pool, at.item)
    OBVIOUS
  <1>6. new \in Blocks /\ new.size > 0 /\ Position(at.cache, at.pool, at.item)
        /\ at.cache \in Nat /\ at.pool \in Nat /\ at.item \in Nat
    BY <1>3, <1>4, <1>5, InStorage, OccupiedIsPosition
  <1>7. PICK next : next = Advance(at)
    OBVIOUS
  <1>8. /\ next \in Steps
        /\ next = NoWalk \/ Occupied(next.cache, next.pool, next.item)
        /\ \A c, p, i : Occupied(c, p, i) =>
             (next = NoWalk \/ Before(c, p, i, next)
                <=> Before(c, p, i, walk) \/ <<c, p, i>> = <<at.cache, at.pool, at.item>>)
    BY <1>3, <1>4, <1>7, AdvanceIs
  <1>9. walk' = next /\ phase' = IF next = NoWalk THEN "release" ELSE "destroy"
    BY <1>2, <1>3, <1>7
  <1>10. /\ destroyed \in Seq(Blocks) /\ destroyed' \in Seq(Blocks) /\ Len(destroyed) \in Nat
         /\ DOMAIN destroyed = 1 .. Len(destroyed)
         /\ DOMAIN destroyed' = 1 .. Len(destroyed) + 1 /\ destroyed'[Len(destroyed) + 1] = new
         /\ \A k \in DOMAIN destroyed : destroyed'[k] = destroyed[k]
    BY <1>2, <1>3, <1>5, <1>6, Appending DEF TreeTyped
  <1>11. /\ TreeTyped' /\ Phased' /\ HeldApart' /\ PoolsSized' /\ PoolsBegun'
         /\ NodesPlaced' /\ NodesApart'
    BY <1>2, <1>8, <1>9, <1>10, WalkingKeeps
  <1>12. \A k \in DOMAIN destroyed' : k \in DOMAIN destroyed \/ k = Len(destroyed) + 1
    BY <1>10
  <1>13. \A k \in DOMAIN destroyed : \E c, p, i \in Nat :
            Occupied(c, p, i) /\ Before(c, p, i, walk) /\ destroyed[k] = Address(c, p, i)
    BY <1>3 DEF Walked
  <1>14. \A c, p, i \in Nat : Occupied(c, p, i) /\ Before(c, p, i, walk)
            => \E k \in DOMAIN destroyed : destroyed[k] = Address(c, p, i)
    BY <1>3 DEF Walked, Range
  \* Nothing is destroyed again.
  <1>15. IsInjective(destroyed')
    <2>1. ASSUME NEW k \in DOMAIN destroyed
          PROVE  destroyed[k] # new
      <3>1. PICK c, p, i \in Nat :
              Occupied(c, p, i) /\ Before(c, p, i, walk) /\ destroyed[k] = Address(c, p, i)
        BY <1>13
      <3>2. <<c, p, i>> # <<at.cache, at.pool, at.item>>
        <4>1. Before(c, p, i, at)
          BY <1>4, <3>1
        <4>2. QED
          BY <1>6, <4>1 DEF Before
      <3>3. Position(c, p, i)
        BY <1>3, <3>1, OccupiedIsPosition
      <3>4. ~Promise!Overlap(Address(at.cache, at.pool, at.item), Address(c, p, i))
        BY <1>3, <1>6, <3>2, <3>3, SlotsApart
      <3>5. Promise!Overlap(new, new)
        BY <1>6, OverlapSelf
      <3>6. QED
        BY <1>5, <3>1, <3>4, <3>5
    <2>2. ASSUME NEW k \in DOMAIN destroyed', NEW m \in DOMAIN destroyed',
                 destroyed'[k] = destroyed'[m]
          PROVE  k = m
      <3>1. CASE k \in DOMAIN destroyed /\ m \in DOMAIN destroyed
        BY <1>3, <1>10, <2>2, <3>1 DEF Walked, IsInjective
      <3>2. QED
        BY <1>10, <1>12, <2>1, <2>2, <3>1
    <2>3. QED
      BY <2>2 DEF IsInjective
  \* What is destroyed is what the iterators are past.
  <1>16. ASSUME NEW k \in DOMAIN destroyed'
         PROVE  \E c, p, i \in Nat :
                  /\ Occupied(c, p, i) /\ destroyed'[k] = Address(c, p, i)
                  /\ next = NoWalk \/ Before(c, p, i, next)
    <2>1. CASE k \in DOMAIN destroyed
      <3>1. PICK c, p, i \in Nat :
              Occupied(c, p, i) /\ Before(c, p, i, walk) /\ destroyed[k] = Address(c, p, i)
        BY <1>13, <2>1
      <3>2. destroyed'[k] = Address(c, p, i) /\ (next = NoWalk \/ Before(c, p, i, next))
        BY <1>8, <1>10, <2>1, <3>1
      <3>3. QED
        BY <3>1, <3>2
    <2>2. CASE k = Len(destroyed) + 1
      BY <1>4, <1>5, <1>6, <1>8, <1>10, <2>2
    <2>3. QED
      BY <1>12, <2>1, <2>2
  <1>17. ASSUME NEW c \in Nat, NEW p \in Nat, NEW i \in Nat, Occupied(c, p, i),
                next = NoWalk \/ Before(c, p, i, next)
         PROVE  \E k \in DOMAIN destroyed' : destroyed'[k] = Address(c, p, i)
    <2>1. CASE Before(c, p, i, walk)
      <3>1. PICK k \in DOMAIN destroyed : destroyed[k] = Address(c, p, i)
        BY <1>14, <1>17, <2>1
      <3>2. k \in DOMAIN destroyed' /\ destroyed'[k] = Address(c, p, i)
        BY <1>10, <3>1
      <3>3. QED
        BY <3>2
    <2>2. CASE <<c, p, i>> = <<at.cache, at.pool, at.item>>
      <3>1. Len(destroyed) + 1 \in DOMAIN destroyed' /\ Address(c, p, i) = new
        BY <1>5, <1>10, <2>2
      <3>2. QED
        BY <1>10, <3>1
    <2>3. QED
      BY <1>8, <1>17, <2>1, <2>2
  <1>18. \A c, p, i : /\ Occupied(c, p, i)' <=> Occupied(c, p, i)
                      /\ Address(c, p, i)' = Address(c, p, i)
    BY <1>2 DEF Occupied, Address
  <1>19. CASE next # NoWalk
    <2>1. phase' = "destroy" /\ walk' = next
      BY <1>9, <1>19
    <2>2. Occupied(walk.cache, walk.pool, walk.item)'
      BY <1>8, <1>18, <1>19, <2>1 DEF Occupied
    <2>3. \A k \in DOMAIN destroyed' : \E c, p, i \in Nat :
            Occupied(c, p, i)' /\ Before(c, p, i, walk') /\ destroyed'[k] = Address(c, p, i)'
      BY <1>16, <1>18, <1>19, <2>1
    <2>4. \A c, p, i \in Nat :
            Occupied(c, p, i)' /\ Before(c, p, i, walk') => Address(c, p, i)' \in Range(destroyed')
      BY <1>17, <1>18, <2>1 DEF Range
    <2>5. Walked'
      BY <1>15, <2>1, <2>2, <2>3, <2>4 DEF Walked, Before
    <2>6. QED
      BY <1>11, <2>5 DEF Tree
  <1>20. CASE next = NoWalk
    <2>1. ASSUME NEW k \in DOMAIN destroyed'
          PROVE  destroyed'[k] \in Range(nodes)
      BY <1>3, <1>16 DEF NodesPlaced
    <2>2. ASSUME NEW m \in DOMAIN nodes
          PROVE  nodes[m] \in Range(destroyed')
      <3>1. PICK c, p, i \in Nat : Occupied(c, p, i) /\ nodes[m] = Address(c, p, i)
        BY <1>3 DEF NodesPlaced
      <3>2. QED
        BY <1>17, <1>20, <3>1 DEF Range
    <2>3. Range(destroyed') = Range(nodes)
      BY <2>1, <2>2 DEF Range
    <2>4. Walked'
      BY <1>2, <1>9, <1>15, <1>20, <2>3 DEF Walked
    <2>5. QED
      BY <1>11, <2>4 DEF Tree
  <1>21. QED
    BY <1>19, <1>20

-----------------------------------------------------------------------------
(* The theorems.                                                           *)

LEMMA TreeBegins == NodesInit => Tree
  <1> SUFFICES ASSUME NodesInit PROVE Tree
    OBVIOUS
  <1>1. /\ Init /\ caches = <<>> /\ phase \in {"parse", "scratch"} /\ job = NoJob
        /\ nodes = <<>> /\ destroyed = <<>> /\ walk = NoWalk /\ drops = <<>>
    BY DEF NodesInit
  <1>2. ask = Idle /\ answer = {} /\ live = {}
    BY <1>1 DEF Init, NoBlock
  <1>3. TreeTyped
    BY <1>1 DEF TreeTyped, JobTyped, NoWalk
  <1>4. Phased
    BY <1>1, <1>2 DEF Phased
  <1>5. \A who, b : ~Holds(who, b)
    BY <1>1, NoJobAsks DEF Holds, PoolHolds, CacheHolds, JobHolds, DropHolds, Asking
  <1>6. HeldApart
    BY <1>5 DEF HeldApart
  <1>7. PoolsSized /\ PoolsBegun
    BY <1>1, NoJobAsks DEF PoolsSized, PoolsBegun, Asking
  <1>8. NodesPlaced /\ NodesApart /\ Walked
    BY <1>1 DEF NodesPlaced, NodesApart, Walked, Occupied, IsInjective, Range
  <1>9. QED
    BY <1>3, <1>4, <1>6, <1>7, <1>8 DEF Tree

LEMMA RestKeeps ==
  ASSUME NodesInv, UNCHANGED nodesVars
  PROVE  Tree'
  <1>1. /\ Tree /\ TreeTyped /\ Phased /\ HeldApart /\ PoolsSized /\ PoolsBegun
        /\ UNCHANGED <<live, ask, answer, caches, phase, job, nodes, destroyed, walk, drops>>
    BY DEF NodesInv, Tree, nodesVars, nodeVars, vars
  <1>2. NodesPlaced' /\ NodesApart' /\ Walked'
    BY <1>1, TreeKept
  <1>3. TreeTyped'
    BY <1>1 DEF TreeTyped, JobTyped
  <1>4. Phased'
    BY <1>1 DEF Phased, Asking
  <1>5. PoolsSized' /\ PoolsBegun'
    BY <1>1 DEF PoolsSized, PoolBytes, PoolsBegun, Asking, Vacant, Free
  <1>6. \A who, b : Holds(who, b)' <=> Holds(who, b)
    BY <1>1 DEF Holds, PoolHolds, CacheHolds, JobHolds, DropHolds, Asking
  <1>7. HeldApart'
    BY <1>1, <1>6 DEF HeldApart, Promise!Overlap
  <1>8. QED
    BY <1>2, <1>3, <1>4, <1>5, <1>7 DEF Tree

LEMMA TreeStays ==
  ASSUME NodesInv, [NodesNext]_nodesVars
  PROVE  Tree'
  <1>1. CASE Serve /\ UNCHANGED nodeVars
    BY <1>1, ServeKeeps
  <1>2. CASE phase = "scratch" /\ Client /\ UNCHANGED nodeVars
    BY <1>2, ClientKeeps
  <1>3. CASE NewNode
    BY <1>3, NewNodeKeeps
  <1>4. CASE TakeFree
    BY <1>4, TakeFreeKeeps
  <1>5. CASE MakePool
    BY <1>5, MakePoolKeeps
  <1>6. CASE StorageMade
    BY <1>6, StorageMadeKeeps
  <1>7. CASE WordsMade
    BY <1>7, WordsMadeKeeps
  <1>8. CASE PoolsGrown
    BY <1>8, PoolsGrownKeeps
  <1>9. CASE Parsed
    BY <1>9, ParsedKeeps
  <1>10. CASE DropNext
    BY <1>10, DropNextKeeps
  <1>11. CASE DestroyNode
    BY <1>11, DestroyNodeKeeps
  <1>12. CASE NothingToDestroy
    BY <1>12, NothingToDestroyKeeps
  <1>13. CASE DestroyPool
    BY <1>13, DestroyPoolKeeps
  <1>14. CASE DestroyCache
    BY <1>14, DestroyCacheKeeps
  <1>15. CASE ReleaseArena
    BY <1>15, ReleaseArenaKeeps
  <1>16. CASE UNCHANGED nodesVars
    BY <1>16, RestKeeps
  <1>17. QED
    BY <1>1, <1>2, <1>3, <1>4, <1>5, <1>6, <1>7, <1>8, <1>9, <1>10, <1>11, <1>12, <1>13, <1>14,
       <1>15, <1>16 DEF NodesNext

LEMMA NodesInvariance == NodesSpec => []NodesInv
  <1>1. NodesInit => NodesInv
    BY InitSound, TreeBegins DEF NodesInv, NodesInit
  <1>2. NodesInv /\ [NodesNext]_nodesVars => NodesInv'
    BY AllocatorsStay, TreeStays DEF NodesInv
  <1>3. QED
    BY <1>1, <1>2, PTL DEF NodesSpec

\* The caches, their pools and the parser's walk are what the code takes them for: what a pool
\* or a cache holds, and what a destructor is about to give back, is memory in use.
THEOREM NodesTyped == NodesSpec => []NodesTypeOK
  <1>1. NodesInv => NodesTypeOK
    <2> SUFFICES ASSUME NodesInv PROVE NodesTypeOK
      OBVIOUS
    <2>1. AllocatorsTypeOK /\ TreeTyped /\ Phased /\ HeldApart
      BY DEF NodesInv, IInv, Tree
    <2>2. ASSUME NEW who, NEW b, Holds(who, b)
          PROVE  b \in live
      BY <2>1, <2>2 DEF HeldApart
    <2>3. ASSUME NEW c \in DOMAIN caches
          PROVE  /\ caches[c].size \in NodeSizes
                 /\ \A p \in DOMAIN caches[c].pools : caches[c].pools[p] \in Pool
                 /\ caches[c].data \in SUBSET live
                 /\ Len(caches[c].pools) <= caches[c].room
      <3>1. caches[c] \in CacheType
        BY <2>1, CachesTyped
      <3>2. ASSUME NEW p \in DOMAIN caches[c].pools
            PROVE  caches[c].pools[p] \in Pool
        <4>1. caches[c].pools[p] \in PoolType
          BY <3>1, PoolTyped
        <4>2. /\ Holds(<<"storage", c, p>>, caches[c].pools[p].storage)
              /\ Holds(<<"words", c, p>>, caches[c].pools[p].words)
          BY DEF Holds, PoolHolds
        <4>3. caches[c].pools[p].storage \in live /\ caches[c].pools[p].words \in live
          BY <2>2, <4>2
        <4>4. QED
          BY <4>1, <4>3 DEF PoolType, Pool
      <3>3. ASSUME NEW b \in caches[c].data
            PROVE  b \in live
        <4>1. Holds(<<"data", c, 0>>, b)
          BY DEF Holds, CacheHolds
        <4>2. QED
          BY <2>2, <4>1
      <3>4. QED
        BY <2>1, <3>1, <3>2, <3>3, CacheTyped DEF TreeTyped
    <2>4. ASSUME NEW i \in DOMAIN drops
          PROVE  drops[i] \in live
      <3>1. Holds(<<"drop", i, 0>>, drops[i])
        BY DEF Holds, DropHolds
      <3>2. QED
        BY <2>2, <3>1
    <2>5. Range(drops) \subseteq live
      BY <2>4 DEF Range
    <2>6. Range(nodes) \subseteq Blocks /\ Range(destroyed) \subseteq Blocks
      BY <2>1 DEF TreeTyped, Range
    <2>7. QED
      BY <2>1, <2>3, <2>5, <2>6 DEF NodesTypeOK, Phased
  <1>2. QED
    BY <1>1, NodesInvariance, PTL

\* However many nodes of whatever sizes the parser makes, and wherever it fails: ~Parser
\* destroys each of them once, in memory that is still there, and nothing else.
THEOREM DestroyedOnce == NodesSpec => []EachNodeDestroyedOnce
  <1>1. NodesInv => EachNodeDestroyedOnce
    <2> SUFFICES ASSUME NodesInv PROVE EachNodeDestroyedOnce
      OBVIOUS
    <2>1. TreeTyped /\ PoolsSized /\ NodesPlaced /\ NodesApart /\ Walked /\ Phased
      BY DEF NodesInv, Tree
    <2>2. ASSUME phase \in {"parse", "destroy"}, NEW k \in DOMAIN nodes
          PROVE  \E c \in DOMAIN caches : \E p \in DOMAIN caches[c].pools :
                   LET storage == caches[c].pools[p].storage IN
                   /\ nodes[k].in = storage.in
                   /\ storage.at <= nodes[k].at
                   /\ nodes[k].at + nodes[k].size <= storage.at + storage.size
      <3>1. PICK c, p, i \in Nat : Occupied(c, p, i) /\ nodes[k] = Address(c, p, i)
        BY <2>1, <2>2 DEF NodesPlaced
      <3>2. Position(c, p, i)
        BY <2>1, <3>1, OccupiedIsPosition
      <3>3. QED
        BY <2>1, <3>1, <3>2, InStorage DEF Position
    <2>3. Range(destroyed) \subseteq Range(nodes)
      <3>1. CASE phase \in {"scratch", "parse"}
        BY <2>1, <3>1 DEF Phased, Range
      <3>2. CASE phase = "destroy"
        <4>1. ASSUME NEW k \in DOMAIN destroyed
              PROVE  destroyed[k] \in Range(nodes)
          BY <2>1, <3>2 DEF Walked, NodesPlaced
        <4>2. QED
          BY <4>1 DEF Range
      <3>3. CASE phase \in {"release", "done"}
        BY <2>1, <3>3 DEF Walked
      <3>4. QED
        BY <2>1, <3>1, <3>2, <3>3 DEF Phased
    <2>4. phase \in {"release", "done"} => Range(nodes) \subseteq Range(destroyed)
      BY <2>1 DEF Walked
    <2>5. IsInjective(destroyed)
      BY <2>1 DEF Walked
    <2>6. QED
      BY <2>1, <2>2, <2>3, <2>4, <2>5 DEF EachNodeDestroyedOnce, NodesApart
  <1>2. QED
    BY <1>1, NodesInvariance, PTL

\* The parser uses its arena as Region allows: a pool in use is never handed out again, and the
\* arena goes when nothing in it is used.
THEOREM NodesKeepRegion == NodesSpec => KeepsPromise
  <1>1. NodesInit => Promise!Init
    BY IdleAsks DEF NodesInit, Init, Promise!Init, Promise!NoRequest
  <1>2. NodesInv /\ [NodesNext]_nodesVars => [Promise!Next]_<<Memory, ask.size, live, views>>
    <2> SUFFICES ASSUME NodesInv, [NodesNext]_nodesVars
                 PROVE  [Promise!Next]_<<Memory, ask.size, live, views>>
      OBVIOUS
    <2>1. IInv /\ [AnyNext]_vars
      BY NodesUse DEF NodesInv
    <2>2. QED
      BY <2>1, StepRefines
  <1>3. QED
    BY <1>1, <1>2, NodesInvariance, PTL DEF NodesSpec, KeepsPromise, Promise!Spec, Memory

\* Nor does a request of a cache take two chunks, if it is smaller than one.
THEOREM NodesInOneChunk == NodesSpec => []ServedInOneChunk
  <1>1. NodesInv => ServedInOneChunk
    BY SmallInOne DEF NodesInv
  <1>2. QED
    BY <1>1, NodesInvariance, PTL
=============================================================================
