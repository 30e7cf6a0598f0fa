---------------------------- MODULE UnorderedMap ----------------------------
(***************************************************************************)
(* IvyUnorderedMap: an array of buckets, each with a hash and storage for  *)
(* its elements, and the chain of iterators over all elements.  A key      *)
(* belongs to the first bucket whose hash is congruent to its own, modulo  *)
(* a number that grows with the size of the map.                           *)
(*                                                                         *)
(* Storage of elements and chains is named by numbers; <<b, i>> is the     *)
(* address of element i in the storage b.  Programs hold copies of the     *)
(* chain's iterators, whose cells are set to null when the chain is        *)
(* invalidated.  One thread uses the maps, in the execution space where    *)
(* storage of all MemTypes is addressable.                                 *)
(***************************************************************************)
EXTENDS Integers, FiniteSets, SequencesExt

CONSTANTS
  Maps, Keys, Values,
  Hash,      \* std_ivy::hash, a number for each key
  Iters,     \* iterators the program holds
  MemTypes,  \* memory types of the data
  Default,   \* get_execution_default_memory()
  None,      \* a null pointer
  MaxBuckets, \* bound on the arguments of rehash()
  MaxSize     \* bound on the size of a map

ASSUME MapAssumption ==
  /\ IsFiniteSet(Maps) /\ IsFiniteSet(Iters)
  /\ Hash \in [Keys -> Nat]
  /\ Default \in MemTypes /\ MaxBuckets \in Nat /\ MaxSize \in Nat
  /\ None \notin Nat \cup Keys \cup Values \cup (Nat \X Nat)

VARIABLES
  steady, \* the program inserts single elements, in the memory the data is in
  maps,  \* mem: memory type; bcap: bucket capacity, 0 when there is no array;
         \* bucket: the buckets; chain: _iterator_builder
  held   \* the program's iterators: the chain that made them, the address in
         \* their cell, the key they were taken at, and whether the chain was
         \* replaced without telling them (history; not in the code)

vars == <<steady, maps, held>>

NoChain == [gen |-> None, room |-> 0, node |-> <<>>]
NoMap == [mem |-> Default, bcap |-> 0, bucket |-> <<>>, chain |-> NoChain]
NoIter == [gen |-> None, at |-> None, key |-> None, lost |-> FALSE]

Size(s) == Len(s.chain.node)

-----------------------------------------------------------------------------
(* The default IvyHashEqualEvalDefault: buckets by the square root of size *)

\* bucket_size(): floor(sqrt(n)) + 1
BucketSize(n) == CHOOSE r \in 1..(n + 1) : (r - 1) * (r - 1) <= n /\ n < r * r

\* preferred_data_capacity(), and the capacity of each of nb buckets.
Preferred(nb) == IF nb < 2 THEN 1 ELSE nb * nb - 1
BucketRoom(nb) == (Preferred(nb) + 1) \div nb

\* hash_equal::eval() for a map of n elements.
Congruent(n, a, b) == a % BucketSize(n) = b % BucketSize(n)

-----------------------------------------------------------------------------
(* Addresses *)

Ids(s) == {s.bucket[b].blk : b \in DOMAIN s.bucket}
            \cup {p[1] : p \in Range(s.chain.node)} \cup {s.chain.gen}

Busy == (UNION {Ids(maps[m]) : m \in Maps})
          \cup {held[i].gen : i \in Iters}
          \cup {held[i].at[1] : i \in {x \in Iters : held[x].at # None}}

\* Storage that nothing in the program has the address of.
FreshId(ids) == CHOOSE n \in 0..Cardinality(ids) : n \notin ids

\* The addresses of all elements, bucket by bucket.
Addresses(s) ==
  LET upto[b \in 0..Len(s.bucket)] ==
        IF b = 0 THEN <<>>
        ELSE upto[b - 1] \o [i \in DOMAIN s.bucket[b].elem |-> <<s.bucket[b].blk, i>>]
  IN  upto[Len(s.bucket)]

Resident(s, p) ==
  \E b \in DOMAIN s.bucket : s.bucket[b].blk = p[1] /\ p[2] \in DOMAIN s.bucket[b].elem

ElementAt(s, p) ==
  s.bucket[CHOOSE b \in DOMAIN s.bucket : s.bucket[b].blk = p[1]].elem[p[2]]

-----------------------------------------------------------------------------
(* Parts the member functions are made of; busy is the storage in use *)

\* reset_iterator_builder(): a new chain, in the order of the buckets.
Listed(s, busy) ==
  LET node == Addresses(s)
      room == Preferred(s.bcap)
  IN  [s EXCEPT !.chain =
         IF s.bucket = <<>> THEN NoChain
         ELSE [gen |-> FreshId(busy \cup Ids(s)), node |-> node,
               room |-> IF Len(node) > room THEN Len(node) + 1 ELSE room]]

\* _data.emplace_back(hash, ...): a bucket of its own for the element e.
AddBucket(s, busy, room, e) ==
  [s EXCEPT !.bcap = IF Len(s.bucket) = @ THEN @ + 2 ELSE @,
            !.bucket = Append(@, [hash |-> Hash[e.key], cap |-> room, elem |-> <<e>>,
                                  blk |-> FreshId(busy \cup Ids(s))])]

\* data_bucket.emplace_back(): full storage is replaced by a larger one.
AddToBucket(s, busy, b, e) ==
  LET full == Len(s.bucket[b].elem) = s.bucket[b].cap
  IN  [s EXCEPT !.bucket[b].elem = Append(@, e),
                !.bucket[b].cap = IF full THEN @ + 2 ELSE @,
                !.bucket[b].blk = IF full THEN FreshId(busy \cup Ids(s)) ELSE @]

\* The buckets a key's hash is congruent to in a map of n elements.
Hits(s, n, k) == {b \in DOMAIN s.bucket : Congruent(n, Hash[k], s.bucket[b].hash)}

First(S) == CHOOSE x \in S : \A y \in S : x <= y

\* Mutant of Distribute: buckets are told apart by hash, not by congruence.
DistributeByHash(s, busy, n, room, e) ==
  LET hits == {b \in DOMAIN s.bucket : s.bucket[b].hash = Hash[e.key]}
  IN  IF hits = {} THEN AddBucket(s, busy, room, e)
      ELSE AddToBucket(s, busy, First(hits), e)

\* An element finds its bucket, or gets one, in a map of n elements.
Distribute(s, busy, n, room, e) ==
  LET hits == Hits(s, n, e.key)
  IN  IF hits = {} THEN AddBucket(s, busy, room, e)
      ELSE AddToBucket(s, busy, First(hits), e)

\* get_rehashed_data(): all elements go to new buckets.
RehashedData(s, busy, nb) ==
  LET all == Addresses(s)
      moved[k \in 0..Len(all)] ==
        IF k = 0 THEN [NoMap EXCEPT !.mem = s.mem, !.bcap = nb]
        ELSE Distribute(moved[k - 1], busy \cup Ids(s), Size(s), BucketRoom(nb),
                        ElementAt(s, all[k]))
  IN  moved[Len(all)]

\* rehash(): only ever to more buckets.
Rehashed(s, busy, nb) ==
  IF s.bcap = 0 \/ nb <= s.bcap THEN s
  ELSE Listed([RehashedData(s, busy, nb) EXCEPT !.chain = s.chain], busy \cup Ids(s))

\* Mutant of Inserted: the chain is not told that a bucket's storage moved.
InsertedUntold(s, busy, mt, e) ==
  LET n == Size(s)
      nb == BucketSize(n + 1)
      hits == Hits(s, n, e.key)
      Pushed(t) == [t EXCEPT !.chain.node = Append(@, Addresses(t)[Len(Addresses(t))])]
  IN  IF s.bcap = 0 \/ s.mem # mt
      THEN Listed([AddBucket([NoMap EXCEPT !.bcap = nb], busy \cup Ids(s), BucketRoom(nb), e)
                     EXCEPT !.mem = mt, !.chain = s.chain], busy \cup Ids(s))
      ELSE LET t == Distribute(s, busy, n, BucketRoom(s.bcap), e)
           IN  IF n + 1 > s.chain.room THEN Listed(t, busy) ELSE Pushed(t)

\* insert_impl(): the value of a key that is there is replaced.  Data in
\* another memory type than the one asked for is replaced as a whole.
Inserted(s, busy, mt, e) ==
  LET n == Size(s)
      nb == BucketSize(n + 1)
      b == First(Hits(s, n, e.key))
      i == First({x \in DOMAIN s.bucket[b].elem : s.bucket[b].elem[x].key = e.key})
      grown == Distribute(s, busy, n, BucketRoom(s.bcap), e)
      moved == Hits(s, n, e.key) # {} /\ Len(s.bucket[b].elem) = s.bucket[b].cap
      place == IF Hits(s, n, e.key) = {} THEN <<grown.bucket[Len(grown.bucket)].blk, 1>>
               ELSE <<grown.bucket[b].blk, Len(grown.bucket[b].elem)>>
  IN  CASE s.bcap = 0 \/ s.mem # mt ->
             Listed([AddBucket([NoMap EXCEPT !.bcap = nb], busy \cup Ids(s), BucketRoom(nb), e)
                       EXCEPT !.mem = mt, !.chain = s.chain], busy \cup Ids(s))
        [] s.bcap > 0 /\ s.mem = mt /\ Hits(s, n, e.key) # {}
             /\ \E x \in DOMAIN s.bucket[b].elem : s.bucket[b].elem[x].key = e.key ->
             [s EXCEPT !.bucket[b].elem[i] = e]
        [] OTHER ->
             IF n + 1 > s.chain.room \/ moved THEN Listed(grown, busy)
             ELSE [grown EXCEPT !.chain.node = Append(@, place)]

\* find_iterator(): the first node, along the chain, at an element of key k.
Found(s, k) ==
  LET hits == {x \in DOMAIN s.chain.node : Resident(s, s.chain.node[x])
                                             /\ ElementAt(s, s.chain.node[x]).key = k}
  IN  IF hits = {} THEN NoIter
      ELSE [gen |-> s.chain.gen, at |-> s.chain.node[First(hits)], key |-> k, lost |-> FALSE]

\* The bucket operator[] looks at stays the same after one that is not
\* congruent, so that only the leading ones are searched.
Searched(s, k) ==
  {b \in DOMAIN s.bucket : \A a \in 1..b : Congruent(Size(s), Hash[k], s.bucket[a].hash)}

\* operator[]: the address of the value, None when an assertion fails.
Indexed(s, k) ==
  LET hits == {b \in Searched(s, k) : \E e \in Range(s.bucket[b].elem) : e.key = k}
      b == First(hits)
  IN  IF s.bcap = 0 \/ s.mem # Default \/ hits = {} THEN None
      ELSE <<b, First({x \in DOMAIN s.bucket[b].elem : s.bucket[b].elem[x].key = k})>>

\* calculate_data_size_capacity()
DataSize(s) ==
  Cardinality(UNION {{b} \X DOMAIN s.bucket[b].elem : b \in DOMAIN s.bucket})

-----------------------------------------------------------------------------
(* Member functions; i is the iterator that takes the result *)

\* Mutant of Told: the cells of the old chain are left alone.
ToldNone(m, s) == held

\* invalidate(): the cells of the chain that is replaced are set to null.
Told(m, s) ==
  [i \in Iters |->
     IF held[i].gen = maps[m].chain.gen /\ s.chain.gen # maps[m].chain.gen
     THEN NoIter ELSE held[i]]

\* The chain of m goes away without invalidate().
Untold(m) ==
  [i \in Iters |-> IF held[i].at # None /\ held[i].gen = maps[m].chain.gen
                   THEN [held[i] EXCEPT !.lost = TRUE] ELSE held[i]]

Becomes(m, s) == maps' = [maps EXCEPT ![m] = s]

\* insert_impl(), then rehash() as the new size asks for.
Put(m, mt, k, v) ==
  LET s == Inserted(maps[m], Busy, mt, [key |-> k, val |-> v])
  IN  Rehashed(s, Busy, BucketSize(Size(s)))

\* insert() and emplace()
Insert(m, mt, k, v, i) ==
  LET t == Put(m, mt, k, v)
  IN  /\ Size(maps[m]) < MaxSize
      /\ Becomes(m, t) /\ held' = [Told(m, t) EXCEPT ![i] = Found(t, k)]

\* operator()(): an insertion, then operator[], which must find the key.
Get(m, mt, k, v) ==
  LET t == Put(m, mt, k, v)
  IN  /\ Size(maps[m]) < MaxSize /\ Indexed(t, k) # None
      /\ Becomes(m, t) /\ held' = Told(m, t)

\* insert() of a range of elements: one rehash() at the end.
InsertRange(m, mt, range, i) ==
  LET with[k \in 0..Len(range)] ==
        IF k = 0 THEN maps[m] ELSE Inserted(with[k - 1], Busy, mt, range[k])
      s == with[Len(range)]
      t == Rehashed(s, Busy, BucketSize(Size(s)))
  IN  /\ range # <<>> /\ Size(maps[m]) + Len(range) <= MaxSize
      /\ Becomes(m, t) /\ held' = [Told(m, t) EXCEPT ![i] = Found(t, range[1].key)]

\* insert() of an initializer list, which returns at once from an empty map.
InsertList(m, mt, list, i) ==
  \/ /\ maps[m].bcap = 0 \/ list = <<>>
     /\ held' = [held EXCEPT ![i] = NoIter]
     /\ UNCHANGED maps
  \/ /\ maps[m].bcap > 0
     /\ InsertRange(m, mt, list, i)

Rehash(m, nb) ==
  LET t == Rehashed(maps[m], Busy, nb) IN Becomes(m, t) /\ held' = Told(m, t)

Clear(m) == Becomes(m, NoMap) /\ held' = Told(m, NoMap)

\* The destructor; the next map in this place is a new one.
Destroy(m) == Clear(m)

Find(m, k, i) ==
  /\ held' = [held EXCEPT ![i] = Found(maps[m], k)]
  /\ UNCHANGED maps

\* begin() and front() for the first node, back() for the last.
Ends(m, i) ==
  /\ \E p \in {maps[m].chain.node[x] : x \in {1, Size(maps[m])} \cap DOMAIN maps[m].chain.node} :
       held' = [held EXCEPT ![i] = [gen |-> maps[m].chain.gen, at |-> p, lost |-> FALSE,
                                    key |-> ElementAt(maps[m], p).key]]
  /\ UNCHANGED maps

\* An assignment to what operator[] returns.
Store(m, k, v) ==
  LET p == Indexed(maps[m], k)
  IN  /\ p # None
      /\ maps' = [maps EXCEPT ![m].bucket[p[1]].elem[p[2]].val = v]
      /\ UNCHANGED held

\* The buckets with their elements in other storage, one after the other.
MovedOver(s, busy, bucket) ==
  [s EXCEPT !.bucket = Append(@, [bucket EXCEPT !.blk = FreshId(busy \cup Ids(s))])]

Moved(s, busy, mt) ==
  LET moved[b \in 0..Len(s.bucket)] ==
        IF b = 0 THEN [s EXCEPT !.bucket = <<>>, !.mem = mt]
        ELSE MovedOver(moved[b - 1], busy, s.bucket[b])
  IN  moved[Len(s.bucket)]

\* transfer_internal_memory(): buckets and elements move to other storage;
\* the chain is moved, too, and its cells with it, before it is made anew.
Transfer(m, mt) ==
  LET s == maps[m]
  IN  IF s.bcap = 0 THEN UNCHANGED <<maps, held>>
      ELSE Becomes(m, Listed(Moved(s, Busy, mt), Busy)) /\ held' = Untold(m)

Swap(m, w) ==
  /\ m # w
  /\ maps' = [maps EXCEPT ![m] = maps[w], ![w] = maps[m]]
  /\ UNCHANGED held

\* Mutant of MoveAssign: the source keeps what it had.
MoveAssignShares(m, w) ==
  /\ m # w
  /\ maps' = [maps EXCEPT ![m] = maps[w]]
  /\ held' = Untold(m)

\* Moving: the target's chain goes away without invalidate().
MoveAssign(m, w) ==
  /\ m # w
  /\ maps' = [maps EXCEPT ![m] = maps[w], ![w] = NoMap]
  /\ held' = Untold(m)

\* The move constructor.
MoveInto(m, w) ==
  /\ m # w /\ maps[m] = NoMap
  /\ maps' = [maps EXCEPT ![m] = maps[w], ![w] = NoMap]
  /\ UNCHANGED held

-----------------------------------------------------------------------------
Init == steady \in BOOLEAN /\ maps = [m \in Maps |-> NoMap] /\ held = [i \in Iters |-> NoIter]

Pairs == [key : Keys, val : Values]
Ranges == {<<a, b>> : a, b \in Pairs} \cup {<<>>}

\* The memory type that keeps what is in the map.
OwnMem(m) == {mt \in MemTypes : maps[m].bcap = 0 \/ mt = maps[m].mem}

\* What a program does with some of the maps, keys and values: one element at
\* a time, in the memory the data is in ...
Steadily(ms, ks, vs, mts) ==
  \E m \in ms :
    \/ \E mt \in OwnMem(m) \cap mts, k \in ks, v \in vs :
         Get(m, mt, k, v) \/ \E i \in Iters : Insert(m, mt, k, v, i)
    \/ \E i \in Iters : Ends(m, i) \/ \E k \in ks : Find(m, k, i)
    \/ \E k \in ks, v \in vs : Store(m, k, v)
    \/ \E mt \in mts : Transfer(m, mt)
    \/ \E w \in ms : Swap(m, w) \/ MoveAssign(m, w) \/ MoveInto(m, w)
    \/ Clear(m) \/ Destroy(m)

\* ... and in every other way.
Otherwise(ms, ks, vs, mts) ==
  \E m \in ms :
    \/ \E mt \in mts, k \in ks, v \in vs, i \in Iters : Insert(m, mt, k, v, i)
    \/ \E mt \in mts, r \in Ranges, i \in Iters :
         /\ \A e \in Range(r) : e.key \in ks /\ e.val \in vs
         /\ InsertRange(m, mt, r, i) \/ InsertList(m, mt, r, i)
    \/ \E nb \in 0..MaxBuckets : Rehash(m, nb)

Next ==
  /\ \/ Steadily(Maps, Keys, Values, MemTypes)
     \/ ~steady /\ Otherwise(Maps, Keys, Values, MemTypes)
  /\ UNCHANGED steady

Spec == Init /\ [][Next]_vars
=============================================================================
