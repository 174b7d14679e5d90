------------------------------- MODULE Nodes --------------------------------
(***************************************************************************)
(* The syntax tree's memory: Parser::new_node (parser.h) takes each node   *)
(* from the Cache of its size (util/pool.h), whose pools come from the     *)
(* parser's arena; ~Parser destroys the nodes by walking the caches, then  *)
(* the caches and the arena go.                                            *)
(*                                                                         *)
(* A parser uses an arena alone, an allocator without inline storage; with *)
(* inline storage it is a scratch allocator and its client is the code     *)
(* generator, as in Allocators. Cache::deallocate is called by nobody.     *)
(***************************************************************************)
EXTENDS Allocators, SequencesExt

CONSTANTS
  NodeSizes,      \* sizes of the classes of nodes
  ObjectCount,    \* nodes of a pool asked for: 1024
  WordBits,       \* bits of a word of m_occupied: 32
  PoolSize,       \* sizeof(Pool)
  MaxNodes        \* bound: nodes made

ASSUME NodesAssumption ==
  /\ NodeSizes \subseteq Nat \ {0}
  /\ ObjectCount \in Nat \ {0} /\ WordBits \in Nat \ {0} /\ PoolSize \in Nat \ {0}
  /\ MaxNodes \in Nat

VARIABLES
  caches,      \* m_caches: [size, pools, data, room], data and room those of m_pools
  phase,       \* "scratch"; or "parse", "destroy", "release", "done" of a parser
  job,         \* the Cache::allocate that runs
  nodes,       \* ghost: the addresses of the nodes made, in order
  destroyed,   \* ghost: the addresses ~AstNode was called on, in order
  walk,        \* the iterators of ~Parser
  drops        \* blocks that destructors still have to give back

nodeVars == <<caches, phase, job, nodes, destroyed, walk, drops>>
nodesVars == <<vars, nodeVars>>

NoJob == [part |-> "none"]
NoWalk == [cache |-> 0, pool |-> 0, item |-> 0]

Objects == ((ObjectCount + WordBits - 1) \div WordBits) * WordBits
WordsBytes == (Objects \div WordBits) * 4

NewCache(size) == [size |-> size, pools |-> <<>>, data |-> NoBlock, room |-> 0]

Address(cache, pool, item) ==
  LET storage == caches[cache].pools[pool].storage IN
  [in |-> storage.in, at |-> storage.at + caches[cache].size * item, size |-> caches[cache].size]

NodesInit ==
  /\ Init
  /\ caches = <<>>
  /\ phase = IF capacity = 0 THEN "parse" ELSE "scratch"
  /\ job = NoJob
  /\ nodes = <<>> /\ destroyed = <<>>
  /\ walk = NoWalk
  /\ drops = <<>>

-----------------------------------------------------------------------------
(* new_node and Cache::allocate                                            *)

Resting == phase = "parse" /\ job = NoJob /\ drops = <<>>
At(part) == phase = "parse" /\ job.part = part /\ ask = Idle

Begin(cache) == job' = [part |-> "scan", cache |-> cache]

\* new_node finds the first cache of the size, or adds one.
NewNode ==
  /\ Resting
  /\ Len(nodes) < MaxNodes
  /\ \E size \in NodeSizes :
       LET fitting == {c \in DOMAIN caches : caches[c].size = size} IN
       \/ /\ fitting # {}
          /\ Begin(Min(fitting))
          /\ UNCHANGED caches
       \/ /\ fitting = {}
          /\ caches' = Append(caches, NewCache(size))
          /\ Begin(Len(caches) + 1)
  /\ UNCHANGED <<vars, phase, nodes, destroyed, walk, drops>>

Free(pool) == (0 .. Objects - 1) \ pool.occupied

Vacant(cache) == {p \in DOMAIN caches[cache].pools : Free(caches[cache].pools[p]) # {}}

\* Pool::allocate, of the first pool with room: the first bit that is clear.
TakeFree ==
  /\ At("scan")
  /\ Vacant(job.cache) # {}
  /\ LET pool == Min(Vacant(job.cache))
         item == Min(Free(caches[job.cache].pools[pool]))
     IN /\ caches' = [caches EXCEPT ![job.cache].pools[pool].occupied = @ \union {item}]
        /\ nodes' = Append(nodes, Address(job.cache, pool, item))
  /\ job' = NoJob
  /\ UNCHANGED <<vars, phase, destroyed, walk, drops>>

\* Pool::make: storage, then the words of the bitmap.
MakePool ==
  /\ At("scan")
  /\ Vacant(job.cache) = {}
  /\ Ask(caches[job.cache].size * Objects)
  /\ job' = [part |-> "storage", cache |-> job.cache]
  /\ UNCHANGED <<caches, phase, nodes, destroyed, walk, drops>>

\* Out of memory: parse() fails, and main returns.
Fail(given) ==
  /\ drops' = given
  /\ phase' = "destroy"
  /\ job' = NoJob

StorageMade ==
  /\ At("storage")
  /\ \/ /\ answer = NoBlock
        /\ Fail(<<>>)
        /\ UNCHANGED vars
     \/ \E storage \in answer :
          /\ Ask(WordsBytes)
          /\ job' = [part |-> "words", cache |-> job.cache, storage |-> storage]
          /\ UNCHANGED <<phase, drops>>
  /\ UNCHANGED <<caches, nodes, destroyed, walk>>

\* Mutant: one element fewer.
Grown_Mutant(length) == length - 1

Grown(length) ==
  LET f[c \in 0 .. 3 * length] == IF c >= length THEN c ELSE f[((c + 1) * 3) \div 2]
  IN f[0]

\* m_pools.push_back asks for a longer array unless one element more leaves room.
WordsMade ==
  /\ At("words")
  /\ \/ /\ answer = NoBlock
        /\ Fail(<<job.storage>>)
        /\ UNCHANGED <<vars, caches>>
     \/ \E words \in answer :
          LET cache == caches[job.cache]
              pool == [storage |-> job.storage, words |-> words, occupied |-> {}]
          IN \/ /\ Len(cache.pools) + 1 < cache.room
                /\ caches' = [caches EXCEPT ![job.cache].pools = Append(@, pool)]
                /\ Begin(job.cache)
                /\ UNCHANGED <<vars, phase, drops>>
             \/ /\ Len(cache.pools) + 1 >= cache.room
                /\ Ask(Grown(Len(cache.pools) + 1) * PoolSize)
                /\ job' = [part |-> "grow", cache |-> job.cache, pool |-> pool]
                /\ UNCHANGED <<caches, phase, drops>>
  /\ UNCHANGED <<nodes, destroyed, walk>>

\* The pools are moved to the new array and the old one is given back. The pool that could
\* not be pushed is destroyed.
PoolsGrown ==
  /\ At("grow")
  /\ \/ /\ answer = NoBlock
        /\ Fail(<<job.pool.storage, job.pool.words>>)
        /\ UNCHANGED <<vars, caches>>
     \/ /\ answer # NoBlock
        /\ caches' = [caches EXCEPT ![job.cache] =
             [size |-> @.size, pools |-> Append(@.pools, job.pool), data |-> answer,
              room |-> Grown(Len(@.pools) + 1)]]
        /\ Begin(job.cache)
        /\ \/ /\ caches[job.cache].data = NoBlock
              /\ UNCHANGED vars
           \/ \E old \in caches[job.cache].data : Deallocate(old) /\ UNCHANGED views
        /\ UNCHANGED <<phase, drops>>
  /\ UNCHANGED <<nodes, destroyed, walk>>

\* parse() returns, with a unit or after an error in the text.
Parsed ==
  /\ Resting
  /\ phase' = "destroy"
  /\ UNCHANGED <<vars, caches, job, nodes, destroyed, walk, drops>>

-----------------------------------------------------------------------------
(* ~Parser                                                                 *)

\* A destructor gives back what it holds.
DropNext ==
  /\ drops # <<>>
  /\ Deallocate(Head(drops))
  /\ drops' = Tail(drops)
  /\ UNCHANGED <<views, caches, phase, job, nodes, destroyed, walk>>

\* begin() of the first cache from the given one on that has pools: its first pool's item 0,
\* whatever the bitmap says.
BeginFrom(cache) ==
  LET rest == {c \in DOMAIN caches : c >= cache /\ caches[c].pools # <<>>} IN
  IF rest = {} THEN NoWalk ELSE [cache |-> Min(rest), pool |-> 1, item |-> 0]

\* Mutant: the bitmap is not asked.
NextItem_Mutant(pool, item) == item + 1

\* Pool::SelectIterator::operator++
NextItem(pool, item) == Min({i \in item + 1 .. Objects : i = Objects \/ i \in pool.occupied})

\* Cache::SelectIterator::operator++, and the loop over the caches.
Advance(at) ==
  LET pools == caches[at.cache].pools
      item == NextItem(pools[at.pool], at.item)
  IN CASE item < Objects -> [at EXCEPT !.item = item]
       [] item = Objects /\ at.pool < Len(pools) ->
            [cache |-> at.cache, pool |-> at.pool + 1, item |-> 0]
       [] OTHER -> BeginFrom(at.cache + 1)

Destroying == phase = "destroy" /\ drops = <<>>

\* The loops of ~Parser: the first node, and each next one.
DestroyNode ==
  /\ Destroying
  /\ LET at == IF walk = NoWalk THEN BeginFrom(1) ELSE walk IN
     /\ at # NoWalk
     /\ destroyed' = Append(destroyed, Address(at.cache, at.pool, at.item))
     /\ walk' = Advance(at)
     /\ IF walk' = NoWalk
          THEN phase' = "release"
          ELSE UNCHANGED phase
  /\ UNCHANGED <<vars, caches, job, nodes, drops>>

NothingToDestroy ==
  /\ Destroying
  /\ walk = NoWalk /\ BeginFrom(1) = NoWalk
  /\ phase' = "release"
  /\ UNCHANGED <<vars, caches, job, nodes, destroyed, walk, drops>>

Releasing == phase = "release" /\ drops = <<>>

\* Arrays are destroyed from the last element: the last pool of the last cache goes first,
DestroyPool ==
  /\ Releasing
  /\ caches # <<>> /\ Last(caches).pools # <<>>
  /\ LET pool == Last(Last(caches).pools) IN drops' = <<pool.storage, pool.words>>
  /\ caches' = [caches EXCEPT ![Len(caches)].pools = Front(@)]
  /\ UNCHANGED <<vars, phase, job, nodes, destroyed, walk>>

\* a cache after its pools, and with it their array.
DestroyCache ==
  /\ Releasing
  /\ caches # <<>> /\ Last(caches).pools = <<>>
  /\ \/ Last(caches).data = NoBlock /\ UNCHANGED drops
     \/ \E array \in Last(caches).data : drops' = <<array>>
  /\ caches' = Front(caches)
  /\ UNCHANGED <<vars, phase, job, nodes, destroyed, walk>>

\* ~ArenaAllocator, the last member to go.
ReleaseArena ==
  /\ Releasing
  /\ caches = <<>>
  /\ Clear
  /\ phase' = "done"
  /\ UNCHANGED <<caches, job, nodes, destroyed, walk, drops>>

-----------------------------------------------------------------------------
NodesNext ==
  \/ Serve /\ UNCHANGED nodeVars
  \/ phase = "scratch" /\ Client /\ UNCHANGED nodeVars
  \/ NewNode \/ TakeFree \/ MakePool \/ StorageMade \/ WordsMade \/ PoolsGrown \/ Parsed
  \/ DropNext \/ DestroyNode \/ NothingToDestroy
  \/ DestroyPool \/ DestroyCache \/ ReleaseArena

NodesSpec == NodesInit /\ [][NodesNext]_nodesVars

-----------------------------------------------------------------------------
Pool == [storage : live, words : live, occupied : SUBSET (0 .. Objects - 1)]

NodesTypeOK ==
  /\ AllocatorsTypeOK
  /\ phase \in {"scratch", "parse", "destroy", "release", "done"}
  /\ \A c \in DOMAIN caches :
       /\ caches[c].size \in NodeSizes
       /\ \A p \in DOMAIN caches[c].pools : caches[c].pools[p] \in Pool
       /\ caches[c].data \in SUBSET live
       /\ Len(caches[c].pools) <= caches[c].room
  /\ Range(drops) \subseteq live
  /\ Range(nodes) \subseteq Blocks /\ Range(destroyed) \subseteq Blocks

\* Every node made is destroyed, once, while its memory is there, and nothing that is not a
\* node: the iterators of Cache and Pool take item 0 of every pool for a node without asking
\* the bitmap, stop at the end of each pool, and go on in the next. Nodes share no byte, and
\* stay where they are when the array of pools moves.
EachNodeDestroyedOnce ==
  /\ \A i, j \in DOMAIN nodes : i # j => ~Promise!Overlap(nodes[i], nodes[j])
  /\ phase \in {"parse", "destroy"} =>
       \A i \in DOMAIN nodes : \E c \in DOMAIN caches : \E p \in DOMAIN caches[c].pools :
         LET storage == caches[c].pools[p].storage IN
         /\ nodes[i].in = storage.in
         /\ storage.at <= nodes[i].at
         /\ nodes[i].at + nodes[i].size <= storage.at + storage.size
  /\ IsInjective(destroyed)
  /\ Range(destroyed) \subseteq Range(nodes)
  /\ phase \in {"release", "done"} => Range(nodes) \subseteq Range(destroyed)
=============================================================================
