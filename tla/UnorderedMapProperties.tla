----------------------- MODULE UnorderedMapProperties -----------------------
(***************************************************************************)
(* What should be true of the maps, and what they implement.               *)
(***************************************************************************)
EXTENDS UnorderedMap

Pointer == (Nat \X (Nat \ {0})) \cup {None}

\* Type invariant: buckets and chains are what the code can build, and no
\* storage has more in it than it has room for.
TypeOK ==
  /\ \A m \in Maps :
       LET s == maps[m]
       IN  /\ s.mem \in MemTypes /\ s.bcap \in Nat /\ Len(s.bucket) <= s.bcap
           /\ s.chain.gen \in Nat \cup {None} /\ Size(s) <= s.chain.room
           /\ \A x \in DOMAIN s.chain.node : s.chain.node[x] \in Nat \X Nat
           /\ \A b \in DOMAIN s.bucket :
                /\ s.bucket[b].hash \in Range(Hash) /\ s.bucket[b].blk \in Nat
                /\ Len(s.bucket[b].elem) \in 1..s.bucket[b].cap
                /\ Range(s.bucket[b].elem) \subseteq Pairs
  /\ \A i \in Iters : /\ held[i].gen \in Nat \cup {None} /\ held[i].at \in Pointer
                      /\ held[i].key \in Keys \cup {None} /\ held[i].lost \in BOOLEAN

\* The chain has exactly one node for each element, wherever insertions,
\* growing buckets, rehashing and transfers have put it, and size(), which
\* counts nodes, is the number of elements.
ChainListsElements ==
  \A m \in Maps :
    /\ IsInjective(maps[m].chain.node)
    /\ Range(maps[m].chain.node) = Range(Addresses(maps[m]))
    /\ Size(maps[m]) = DataSize(maps[m])

\* The maps are what the code can build, and their chains list what is in them.
MapsListElements == TypeOK /\ ChainListsElements

\* An iterator the program holds, and that the map had the chance to set to
\* null, is null or still leads to an element of the key it was taken at.
HeldReachesKey ==
  \A i \in Iters : held[i].at # None /\ ~held[i].lost =>
    \E m \in Maps : /\ Resident(maps[m], held[i].at)
                    /\ ElementAt(maps[m], held[i].at).key = held[i].key
                    /\ maps[m].chain.gen = held[i].gen

KeysIn(s) == UNION {{e.key : e \in Range(s.bucket[b].elem)} : b \in DOMAIN s.bucket}

\* No key is in a map twice: an insertion finds the element that is there,
\* although the bucket a key belongs to depends on the size of the moment.
KeysUnique == \A m \in Maps : Cardinality(KeysIn(maps[m])) = Size(maps[m])

\* Every element is in the one bucket that a search among as many elements
\* as the map now has would look into.
BucketsFollowSize ==
  \A m \in Maps : \A b \in DOMAIN maps[m].bucket : \A e \in Range(maps[m].bucket[b].elem) :
    Hits(maps[m], Size(maps[m]), e.key) = {b}

\* Used with single insertions, in the memory the data is in, maps have every
\* key once, and in the bucket a search looks into (insert_impl, rehash).
SteadyLayout == steady => KeysUnique /\ BucketsFollowSize

\* operator[] finds every key that is in a map in default memory.
IndexFindsKeys ==
  \A m \in Maps : \A k \in KeysIn(maps[m]) :
    maps[m].mem = Default => Indexed(maps[m], k) # None

\* After the insertion of a list, all its keys are in the map.
ListIsInserted ==
  [][\A m \in Maps, mt \in MemTypes, r \in Ranges, i \in Iters :
       InsertList(m, mt, r, i) => \A e \in Range(r) : e.key \in KeysIn(maps'[m])]_vars

-----------------------------------------------------------------------------
(* The maps as functions from keys to values *)

\* What find() gives for each key.
Contents(s) ==
  [k \in {x \in Keys : Found(s, x) # NoIter} |-> ElementAt(s, Found(s, k).at).val]

Keyed == INSTANCE KeyedMap WITH
  entries <- [m \in Maps |-> Contents(maps[m])],
  place <- [m \in Maps |-> maps[m].mem]

\* An insertion gives its key the new value, whether the key was there or
\* not, through growth and rehash, and no other key another one.
InsertionPuts ==
  \A m \in Maps, k \in Keys, v \in Values, i \in Iters, mt \in MemTypes :
    mt \in OwnMem(m) /\ Insert(m, mt, k, v, i) => Keyed!Put(m, k, v, mt)

\* So used, the maps implement functions from keys to values: an insertion
\* puts its value at its key, whatever is found for a key is the last value
\* put, and no insertion, rehash, transfer, swap or move changes another key's.
SteadyActsAsKeyed ==
  /\ Keyed!Init
  /\ [][steady => InsertionPuts]_vars
  /\ [][steady => [Keyed!Next]_(Keyed!vars)]_vars
=============================================================================
