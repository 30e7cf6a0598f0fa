------------------------- MODULE UnorderedMapProofs -------------------------
(***************************************************************************)
(* Maps are consistent, their chains list their elements, and iterators    *)
(* held on them lead to their keys, for any numbers of maps, keys and      *)
(* values and any hash.  Used with single insertions, in the memory the    *)
(* data is in, buckets follow the size of the map, no key is twice in it,  *)
(* and the maps implement functions from keys to values.                   *)
(*                                                                         *)
(* MapOk is what the operations keep of one map (Places: the addresses of  *)
(* its elements; Elems: the elements); Layout is what single insertions    *)
(* keep.  An insertion is shown to be one of four things: the first one,   *)
(* another value for a key that is there, a new element in an old bucket   *)
(* or one in a new bucket; a rehash is elements put one after another into *)
(* empty buckets.  What find() gives is then determined by Elems.          *)
(***************************************************************************)
EXTENDS UnorderedMapProperties, FiniteSetTheorems, SequenceTheorems, WellFoundedInduction, TLAPS

-----------------------------------------------------------------------------
(* Induction *)

\* A set of naturals has a least element.
LEMMA LeastExists ==
  ASSUME NEW T \in SUBSET Nat, T # {}
  PROVE  \E x \in T : \A y \in T : x <= y
<1> DEFINE R == OpToRel(<, Nat)
<1>1. IsWellFoundedOn(R, Nat)
  BY NatLessThanWellFounded
<1>2. R = {ss \in Nat \X Nat : ss[1] < ss[2]}
  BY DEF OpToRel
<1> HIDE DEF R
<1>3. PICK x \in T : \A y \in T : ~ (<<y, x>> \in R)
  BY <1>1, WFMin
<1>4. ASSUME NEW y \in T PROVE x <= y
  <2>1. ~ (<<y, x>> \in R)
    BY <1>3
  <2>2. y \in Nat /\ x \in Nat
    OBVIOUS
  <2>3. <<y, x>> \in Nat \X Nat
    BY <2>2
  <2>4. ~ (y < x)
    BY <1>2, <2>1, <2>3
  <2> QED BY <2>2, <2>4
<1> QED BY <1>4

\* A set that has 0 and, with a number, the next one, up to k, has k.
LEMMA ByInduction ==
  ASSUME NEW S, NEW k \in Nat, 0 \in S, \A j \in 0 .. k - 1 : j \in S => j + 1 \in S
  PROVE  \A j \in 0 .. k : j \in S
<1> DEFINE Bad == {j \in 0 .. k : j \notin S}
<1>1. SUFFICES ASSUME Bad # {} PROVE FALSE
  OBVIOUS
<1>2. PICK x \in Bad : \A y \in Bad : x <= y
  <2>1. Bad \in SUBSET Nat
    OBVIOUS
  <2> HIDE DEF Bad
  <2> QED BY <1>1, <2>1, LeastExists
<1>3. x \in 0 .. k /\ x # 0 /\ x \notin S
  BY <1>2
<1>4. x - 1 \in 0 .. k - 1 /\ x - 1 \notin Bad
  BY <1>2, <1>3
<1>5. x - 1 \in S
  BY <1>3, <1>4
<1>6. x - 1 + 1 \in S
  BY <1>4, <1>5
<1>7. x - 1 + 1 = x
  BY <1>3
<1> QED BY <1>3, <1>6, <1>7

-----------------------------------------------------------------------------
(* What a map is made of *)

Bucket == [hash : Range(Hash), cap : Nat, elem : Seq(Pairs), blk : Nat]
ChainType == [gen : Nat \cup {None}, room : Nat, node : Seq(Nat \X Nat)]
MapType == [mem : MemTypes, bcap : Nat, bucket : Seq(Bucket), chain : ChainType]

\* Buckets are not empty, hold no more than they have room for, and lie in
\* storage of their own.
Filled(s) ==
  /\ Len(s.bucket) <= s.bcap
  /\ \A b \in DOMAIN s.bucket : Len(s.bucket[b].elem) \in 1 .. s.bucket[b].cap
  /\ \A a, b \in DOMAIN s.bucket : s.bucket[a].blk = s.bucket[b].blk => a = b
Data(s) == s \in MapType /\ Filled(s)

\* Element i of bucket b.
Slot(s, b, i) == b \in DOMAIN s.bucket /\ i \in DOMAIN s.bucket[b].elem

\* The addresses of elements, and the elements.
Places(s) == {p \in Nat \X Nat : Resident(s, p)}
Elems(s)  == {ElementAt(s, p) : p \in Places(s)}

\* The chain lists the elements.
Lists(s) == /\ IsInjective(s.chain.node) /\ Range(s.chain.node) = Places(s)
            /\ Size(s) <= s.chain.room

MapOk(s) == Data(s) /\ Lists(s) /\ (s.bcap > 0 => s.bucket # <<>> /\ s.chain.gen \in Nat)

-----------------------------------------------------------------------------
(* Buckets and places *)

LEMMA Buckets ==
  ASSUME NEW s \in MapType
  PROVE  /\ s.bucket \in Seq(Bucket) /\ Len(s.bucket) \in Nat /\ DOMAIN s.bucket = 1 .. Len(s.bucket)
         /\ \A b \in DOMAIN s.bucket :
              /\ s.bucket[b] \in Bucket /\ s.bucket[b].hash \in Range(Hash)
              /\ s.bucket[b].cap \in Nat /\ s.bucket[b].blk \in Nat
              /\ s.bucket[b].elem \in Seq(Pairs) /\ Len(s.bucket[b].elem) \in Nat
              /\ DOMAIN s.bucket[b].elem = 1 .. Len(s.bucket[b].elem)
              /\ \A i \in DOMAIN s.bucket[b].elem : s.bucket[b].elem[i] \in Pairs
<1>1. s.bucket \in Seq(Bucket) /\ Len(s.bucket) \in Nat /\ DOMAIN s.bucket = 1 .. Len(s.bucket)
  BY DEF MapType
<1>2. ASSUME NEW b \in DOMAIN s.bucket
      PROVE  /\ s.bucket[b] \in Bucket /\ s.bucket[b].hash \in Range(Hash)
             /\ s.bucket[b].cap \in Nat /\ s.bucket[b].blk \in Nat
             /\ s.bucket[b].elem \in Seq(Pairs) /\ Len(s.bucket[b].elem) \in Nat
             /\ DOMAIN s.bucket[b].elem = 1 .. Len(s.bucket[b].elem)
             /\ \A i \in DOMAIN s.bucket[b].elem : s.bucket[b].elem[i] \in Pairs
  <2>1. s.bucket[b] \in Bucket
    BY <1>1
  <2>2. s.bucket[b].elem \in Seq(Pairs)
    BY <2>1 DEF Bucket
  <2>3. /\ s.bucket[b].hash \in Range(Hash) /\ s.bucket[b].cap \in Nat /\ s.bucket[b].blk \in Nat
    BY <2>1 DEF Bucket
  <2>4. /\ Len(s.bucket[b].elem) \in Nat
        /\ DOMAIN s.bucket[b].elem = 1 .. Len(s.bucket[b].elem)
        /\ \A i \in DOMAIN s.bucket[b].elem : s.bucket[b].elem[i] \in Pairs
    BY <2>2
  <2> QED BY <2>1, <2>2, <2>3, <2>4
<1> QED BY <1>1, <1>2

LEMMA PlaceOf ==
  ASSUME NEW s, Data(s), NEW b, NEW i, Slot(s, b, i)
  PROVE  /\ <<s.bucket[b].blk, i>> \in Places(s)
         /\ ElementAt(s, <<s.bucket[b].blk, i>>) = s.bucket[b].elem[i]
<1> USE DEF Slot
<1> DEFINE p == <<s.bucket[b].blk, i>>
<1>1. s.bucket[b].blk \in Nat /\ i \in Nat
  BY Buckets DEF Data
<1>2. p \in Places(s)
  BY <1>1 DEF Places, Resident
<1>3. (CHOOSE a \in DOMAIN s.bucket : s.bucket[a].blk = p[1]) = b
  BY DEF Data, Filled
<1> QED BY <1>2, <1>3 DEF ElementAt

LEMMA PlaceIs ==
  ASSUME NEW s, Data(s), NEW p \in Places(s)
  PROVE  \E b, i : Slot(s, b, i) /\ p = <<s.bucket[b].blk, i>> /\ ElementAt(s, p) = s.bucket[b].elem[i]
<1>1. PICK b \in DOMAIN s.bucket : s.bucket[b].blk = p[1] /\ p[2] \in DOMAIN s.bucket[b].elem
  BY DEF Places, Resident
<1>2. p = <<s.bucket[b].blk, p[2]>>
  BY <1>1 DEF Places
<1> QED BY <1>1, <1>2, PlaceOf DEF Slot

LEMMA ElemOf ==
  ASSUME NEW s, Data(s)
  PROVE  \A e : e \in Elems(s) <=> \E b, i : Slot(s, b, i) /\ e = s.bucket[b].elem[i]
<1>1. ASSUME NEW e \in Elems(s)
      PROVE  \E b, i : Slot(s, b, i) /\ e = s.bucket[b].elem[i]
  BY <1>1, PlaceIs DEF Elems
<1>2. ASSUME NEW b, NEW i, Slot(s, b, i)
      PROVE  s.bucket[b].elem[i] \in Elems(s)
  <2>1. <<s.bucket[b].blk, i>> \in Places(s) /\ ElementAt(s, <<s.bucket[b].blk, i>>) = s.bucket[b].elem[i]
    BY <1>2, PlaceOf
  <2> QED BY <2>1 DEF Elems
<1> QED BY <1>1, <1>2

\* Resident speaks of places only.
LEMMA ResidentIs ==
  ASSUME NEW s, Data(s), NEW p \in Nat \X Nat
  PROVE  Resident(s, p) <=> p \in Places(s)
BY DEF Places

-----------------------------------------------------------------------------
(* Names of storage *)

LEMMA IsSequence ==
  ASSUME NEW T, NEW l \in Nat, NEW t \in [1 .. l -> T]
  PROVE  t \in Seq(T) /\ Len(t) = l
OBVIOUS

\* What a sequence lists is finite, and as many as it is long if it lists nothing twice.
LEMMA RangeIsFinite ==
  ASSUME NEW S, NEW q \in Seq(S)
  PROVE  IsFiniteSet(Range(q)) /\ (IsInjective(q) => Cardinality(Range(q)) = Len(q))
<1>1. Len(q) \in Nat /\ DOMAIN q = 1 .. Len(q) /\ q \in [1 .. Len(q) -> S]
  OBVIOUS
<1>2. q \in Surjection(1 .. Len(q), Range(q))
  BY <1>1 DEF Surjection, Range
<1>3. IsFiniteSet(1 .. Len(q)) /\ Cardinality(1 .. Len(q)) = Len(q)
  BY <1>1, FS_Interval
<1>4. IsFiniteSet(Range(q)) /\ (Cardinality(Range(q)) = Cardinality(1 .. Len(q)) <=> q \in Injection(1 .. Len(q), Range(q)))
  BY <1>2, <1>3, FS_Surjection
<1>5. ASSUME IsInjective(q) PROVE q \in Injection(1 .. Len(q), Range(q))
  BY <1>1, <1>2, <1>5 DEF Injection, IsInjective, Surjection
<1> QED BY <1>3, <1>4, <1>5

LEMMA FreshIsFree ==
  ASSUME NEW ids, IsFiniteSet(ids)
  PROVE  FreshId(ids) \in Nat /\ FreshId(ids) \notin ids
<1> DEFINE k == Cardinality(ids)
<1>1. k \in Nat
  BY FS_CardinalityType
<1>2. \E n \in 0 .. k : n \notin ids
  <2> SUFFICES ASSUME 0 .. k \in SUBSET ids PROVE FALSE
    OBVIOUS
  <2>1. Cardinality(0 .. k) <= k
    BY FS_Subset
  <2>2. Cardinality(0 .. k) = k + 1
    BY <1>1, FS_Interval
  <2> HIDE DEF k
  <2> QED BY <1>1, <2>1, <2>2
<1>3. FreshId(ids) \in 0 .. k /\ FreshId(ids) \notin ids
  BY <1>2 DEF FreshId
<1> QED BY <1>1, <1>3

LEMMA IdsAreFinite ==
  ASSUME NEW s \in MapType
  PROVE  IsFiniteSet(Ids(s)) /\ \A b \in DOMAIN s.bucket : s.bucket[b].blk \in Ids(s)
<1>1. s.bucket \in Seq(Bucket) /\ s.chain.node \in Seq(Nat \X Nat)
  BY DEF MapType, ChainType
<1>2. IsFiniteSet({s.bucket[b].blk : b \in DOMAIN s.bucket})
  <2> DEFINE f == [b \in DOMAIN s.bucket |-> s.bucket[b].blk]
             T == {s.bucket[b].blk : b \in DOMAIN s.bucket}
  <2>1. f \in Surjection(DOMAIN s.bucket, T)
    BY DEF Surjection
  <2>2. IsFiniteSet(DOMAIN s.bucket)
    BY <1>1, FS_Interval
  <2> HIDE DEF f, T
  <2>3. IsFiniteSet(T)
    BY <2>1, <2>2, FS_Surjection
  <2> QED BY <2>3 DEF T
<1>3. IsFiniteSet({p[1] : p \in Range(s.chain.node)})
  <2> DEFINE S == Range(s.chain.node)
             f == [p \in S |-> p[1]]
             T == {p[1] : p \in S}
  <2>1. f \in Surjection(S, T)
    BY DEF Surjection
  <2>2. IsFiniteSet(S)
    BY <1>1, RangeIsFinite
  <2> HIDE DEF f, T, S
  <2>3. IsFiniteSet(T)
    BY <2>1, <2>2, FS_Surjection
  <2> QED BY <2>3 DEF T, S
<1>4. IsFiniteSet({s.chain.gen})
  BY FS_Singleton
<1>5. IsFiniteSet({s.bucket[b].blk : b \in DOMAIN s.bucket} \cup {p[1] : p \in Range(s.chain.node)})
  BY <1>2, <1>3, FS_Union
<1> QED BY <1>4, <1>5, FS_Union DEF Ids

-----------------------------------------------------------------------------
(* The addresses, bucket by bucket *)

AddressesStep(s, f, b) ==
  IF b = 0 THEN <<>>
  ELSE f[b - 1] \o [i \in DOMAIN s.bucket[b].elem |-> <<s.bucket[b].blk, i>>]

LEMMA AddressesExist ==
  ASSUME NEW s, NEW n \in Nat
  PROVE  \E f : f = [b \in 0 .. n |-> AddressesStep(s, f, b)]
<1> DEFINE P(j) == \E f : f = [b \in 0 .. j |-> AddressesStep(s, f, b)]
           S == {j \in Nat : P(j)}
<1>1. P(0)
  <2> DEFINE g == [b \in 0 .. 0 |-> <<>>]
  <2>1. g = [b \in 0 .. 0 |-> AddressesStep(s, g, b)]
    BY DEF AddressesStep
  <2> QED BY <2>1
<1>2. ASSUME NEW j \in Nat, P(j) PROVE P(j + 1)
  <2>1. PICK f : f = [b \in 0 .. j |-> AddressesStep(s, f, b)]
    BY <1>2
  <2> DEFINE g == [b \in 0 .. j + 1 |-> IF b = j + 1 THEN AddressesStep(s, f, j + 1) ELSE f[b]]
  <2>2. \A b \in 0 .. j + 1 : b # 0 => g[b - 1] = f[b - 1]
    OBVIOUS
  <2>3. \A b \in 0 .. j + 1 : AddressesStep(s, g, b) = AddressesStep(s, f, b)
    BY <2>2 DEF AddressesStep
  <2>4. \A b \in 0 .. j : f[b] = AddressesStep(s, f, b)
    BY <2>1
  <2>5. \A b \in 0 .. j + 1 : g[b] = AddressesStep(s, g, b)
    BY <2>3, <2>4
  <2>6. g = [b \in 0 .. j + 1 |-> AddressesStep(s, g, b)]
    BY <2>5
  <2> QED BY <2>6
<1> HIDE DEF P
<1>3. 0 \in S /\ \A j \in 0 .. n - 1 : j \in S => j + 1 \in S
  BY <1>1, <1>2
<1> HIDE DEF S
<1>4. n \in S
  BY <1>3, ByInduction
<1> QED BY <1>4 DEF S, P

LEMMA AddressesUnfold ==
  ASSUME NEW s, Len(s.bucket) \in Nat
  PROVE  \E f : /\ Addresses(s) = f[Len(s.bucket)]
                /\ f[0] = <<>>
                /\ \A b \in 1 .. Len(s.bucket) :
                     f[b] = f[b - 1] \o [i \in DOMAIN s.bucket[b].elem |-> <<s.bucket[b].blk, i>>]
<1> DEFINE upto == CHOOSE f : f = [b \in 0 .. Len(s.bucket) |-> AddressesStep(s, f, b)]
<1>1. Addresses(s) = upto[Len(s.bucket)]
  BY DEF Addresses, AddressesStep
<1>2. upto = [b \in 0 .. Len(s.bucket) |-> AddressesStep(s, upto, b)]
  BY AddressesExist
<1> HIDE DEF upto
<1>3. \A b \in 0 .. Len(s.bucket) : upto[b] = AddressesStep(s, upto, b)
  BY <1>2
<1>4. upto[0] = <<>>
  <2>1. upto[0] = AddressesStep(s, upto, 0)
    BY <1>3
  <2>2. AddressesStep(s, upto, 0) = <<>>
    BY DEF AddressesStep
  <2> QED BY <2>1, <2>2
<1>5. ASSUME NEW b \in 1 .. Len(s.bucket)
      PROVE  upto[b] = upto[b - 1] \o [i \in DOMAIN s.bucket[b].elem |-> <<s.bucket[b].blk, i>>]
  <2>1. b \in 0 .. Len(s.bucket) /\ b # 0
    OBVIOUS
  <2>2. upto[b] = AddressesStep(s, upto, b)
    BY <1>3, <2>1
  <2> QED BY <2>1, <2>2 DEF AddressesStep
<1> QED BY <1>1, <1>4, <1>5

\* q lists the elements of the first b buckets.
ListsFirst(s, q, b) ==
  /\ q \in Seq(Nat \X Nat) /\ IsInjective(q)
  /\ \A p : p \in Range(q) <=> \E a, i : a \in 1 .. b /\ Slot(s, a, i) /\ p = <<s.bucket[a].blk, i>>

IsJoin(S, w, q, r) ==
  /\ w \in Seq(S) /\ Len(q) \in Nat /\ Len(r) \in Nat /\ DOMAIN w = 1 .. Len(q) + Len(r)
  /\ \A i \in 1 .. Len(q) : w[i] = q[i]
  /\ \A i \in 1 .. Len(r) : w[Len(q) + i] = r[i]

LEMMA Joined ==
  ASSUME NEW S, NEW q \in Seq(S), NEW r \in Seq(S)
  PROVE  IsJoin(S, q \o r, q, r)
<1>1. Len(q) \in Nat /\ Len(r) \in Nat
  OBVIOUS
<1>2. q \o r \in Seq(S) /\ Len(q \o r) = Len(q) + Len(r)
  BY ConcatProperties
<1>3. \A i \in 1 .. Len(q) + Len(r) : (q \o r)[i] = IF i <= Len(q) THEN q[i] ELSE r[i - Len(q)]
  BY ConcatProperties
<1>4. DOMAIN (q \o r) = 1 .. Len(q) + Len(r)
  BY <1>2, LenProperties
<1> DEFINE w == q \o r
           m == Len(q)
           n == Len(r)
<1>5. \A i \in 1 .. m + n : w[i] = IF i <= m THEN q[i] ELSE r[i - m]
  BY <1>3
<1>6. m \in Nat /\ n \in Nat
  BY <1>1
<1> HIDE DEF w, m, n
<1>7. \A i \in 1 .. m : w[i] = q[i]
  BY <1>5, <1>6
<1>8. ASSUME NEW i \in 1 .. n PROVE w[m + i] = r[i]
  <2> DEFINE x == m + i
  <2>1. x \in 1 .. m + n /\ ~ (x <= m) /\ x - m = i
    BY <1>6
  <2> HIDE DEF x
  <2>2. w[x] = IF x <= m THEN q[x] ELSE r[x - m]
    BY <1>5, <2>1
  <2>3. w[x] = r[x - m]
    BY <2>1, <2>2
  <2>4. w[x] = r[i]
    BY <2>1, <2>3
  <2> QED BY <2>4 DEF x
<1>9. IsJoin(S, w, q, r)
  BY <1>1, <1>2, <1>4, <1>7, <1>8 DEF IsJoin, w, m, n
<1> QED BY <1>9 DEF w

LEMMA AppendLists ==
  ASSUME NEW s, Data(s), NEW q, NEW r \in Seq(Nat \X Nat), NEW b \in DOMAIN s.bucket,
         ListsFirst(s, q, b - 1), Len(r) = Len(s.bucket[b].elem),
         \A i \in 1 .. Len(r) : r[i] = <<s.bucket[b].blk, i>>
  PROVE  ListsFirst(s, q \o r, b)
<1> DEFINE w == q \o r
<1>1. q \in Seq(Nat \X Nat) /\ IsInjective(q) /\ Len(q) \in Nat /\ DOMAIN q = 1 .. Len(q)
  BY DEF ListsFirst
<1>2. /\ w \in Seq(Nat \X Nat) /\ DOMAIN w = 1 .. Len(q) + Len(r) /\ Len(r) \in Nat
      /\ \A i \in 1 .. Len(q) : w[i] = q[i]
      /\ \A i \in 1 .. Len(r) : w[Len(q) + i] = r[i]
  <2>1. IsJoin(Nat \X Nat, w, q, r)
    BY <1>1, Joined
  <2> HIDE DEF w
  <2> QED BY <2>1 DEF IsJoin
<1>3. \A x : x \in Range(q) <=> \E i \in 1 .. Len(q) : x = q[i]
  BY <1>1 DEF Range
<1>4. \A x : x \in Range(w) <=> \E i \in 1 .. Len(q) + Len(r) : x = w[i]
  BY <1>2 DEF Range
<1> HIDE DEF w
<1>5. \A i \in 1 .. Len(q) : w[i] = q[i]
  BY <1>2
<1>6. ASSUME NEW i \in 1 .. Len(r)
      PROVE  Len(q) + i \in 1 .. Len(q) + Len(r) /\ w[Len(q) + i] = <<s.bucket[b].blk, i>>
  <2>1. Len(q) + i \in 1 .. Len(q) + Len(r)
    BY <1>1, <1>2
  <2> QED BY <1>2, <2>1
<1>7. \A i \in 1 .. Len(q) + Len(r) : i \in 1 .. Len(q) \/ \E j \in 1 .. Len(r) : i = Len(q) + j
  <2> TAKE i \in 1 .. Len(q) + Len(r)
  <2>1. CASE i <= Len(q)
    BY <2>1, <1>1
  <2>2. CASE i > Len(q)
    <3>1. i - Len(q) \in 1 .. Len(r) /\ i = Len(q) + (i - Len(q))
      BY <2>2, <1>1, <1>2
    <3> QED BY <3>1
  <2> QED BY <1>1, <2>1, <2>2
<1>8. \A x : x \in Range(w) <=> x \in Range(q) \/ \E i \in 1 .. Len(r) : x = <<s.bucket[b].blk, i>>
  <2>1. ASSUME NEW x \in Range(w) PROVE x \in Range(q) \/ \E i \in 1 .. Len(r) : x = <<s.bucket[b].blk, i>>
    <3>1. PICK i \in 1 .. Len(q) + Len(r) : x = w[i]
      BY <1>4, <2>1
    <3> QED BY <1>3, <1>5, <1>6, <1>7, <3>1
  <2>2. ASSUME NEW x \in Range(q) PROVE x \in Range(w)
    <3>1. PICK i \in 1 .. Len(q) : x = q[i]
      BY <1>3, <2>2
    <3>2. i \in 1 .. Len(q) + Len(r)
      BY <1>1, <1>2, <3>1
    <3> QED BY <1>4, <1>5, <3>1, <3>2
  <2>3. ASSUME NEW i \in 1 .. Len(r) PROVE <<s.bucket[b].blk, i>> \in Range(w)
    BY <1>4, <1>6, <2>3
  <2> QED BY <2>1, <2>2, <2>3
<1>9. \A i \in 1 .. Len(q), j \in 1 .. Len(r) : w[i] # w[Len(q) + j]
  <2> SUFFICES ASSUME NEW i \in 1 .. Len(q), NEW j \in 1 .. Len(r), w[i] = w[Len(q) + j] PROVE FALSE
    OBVIOUS
  <2>1. q[i] = <<s.bucket[b].blk, j>> /\ q[i] \in Range(q)
    BY <1>3, <1>5, <1>6
  <2>2. PICK a, x : a \in 1 .. b - 1 /\ Slot(s, a, x) /\ q[i] = <<s.bucket[a].blk, x>>
    BY <2>1 DEF ListsFirst
  <2>3. s.bucket[a].blk = s.bucket[b].blk
    BY <2>1, <2>2
  <2>4. a = b
    BY <2>2, <2>3 DEF Data, Filled, Slot
  <2>5. b \in Nat
    BY Buckets DEF Data
  <2> QED BY <2>2, <2>4, <2>5
<1>10. IsInjective(w)
  <2> SUFFICES ASSUME NEW x \in 1 .. Len(q) + Len(r), NEW y \in 1 .. Len(q) + Len(r), w[x] = w[y] PROVE x = y
    BY <1>2 DEF IsInjective
  <2>1. CASE x \in 1 .. Len(q) /\ y \in 1 .. Len(q)
    BY <1>1, <1>5, <2>1 DEF IsInjective
  <2>2. ASSUME NEW i \in 1 .. Len(r), NEW j \in 1 .. Len(r), x = Len(q) + i, y = Len(q) + j PROVE x = y
    <3>1. w[x] = <<s.bucket[b].blk, i>> /\ w[y] = <<s.bucket[b].blk, j>>
      BY <1>6, <2>2
    <3>2. <<s.bucket[b].blk, i>> = <<s.bucket[b].blk, j>>
      BY <3>1
    <3> QED BY <2>2, <3>2
  <2> QED BY <1>7, <1>9, <2>1, <2>2
<1>11. b - 1 \in Nat /\ b \in Nat /\ DOMAIN s.bucket[b].elem = 1 .. Len(r)
  BY Buckets DEF Data
<1>12. \A p : p \in Range(w) <=> \E a, i : a \in 1 .. b /\ Slot(s, a, i) /\ p = <<s.bucket[a].blk, i>>
  <2>1. ASSUME NEW p \in Range(w)
        PROVE  \E a, i : a \in 1 .. b /\ Slot(s, a, i) /\ p = <<s.bucket[a].blk, i>>
    <3>1. CASE p \in Range(q)
      <4>1. PICK a, i : a \in 1 .. b - 1 /\ Slot(s, a, i) /\ p = <<s.bucket[a].blk, i>>
        BY <3>1 DEF ListsFirst
      <4>2. a \in 1 .. b
        BY <1>11, <4>1
      <4> QED BY <4>1, <4>2
    <3>2. ASSUME NEW i \in 1 .. Len(r), p = <<s.bucket[b].blk, i>>
          PROVE  \E a, x : a \in 1 .. b /\ Slot(s, a, x) /\ p = <<s.bucket[a].blk, x>>
      <4>1. b \in 1 .. b /\ Slot(s, b, i)
        BY <1>11, Buckets DEF Data, Slot
      <4> QED BY <3>2, <4>1
    <3> QED BY <1>8, <2>1, <3>1, <3>2
  <2>2. ASSUME NEW a, NEW i, a \in 1 .. b, Slot(s, a, i) PROVE <<s.bucket[a].blk, i>> \in Range(w)
    <3>1. CASE a = b
      BY <1>8, <1>11, <2>2, <3>1 DEF Slot
    <3>2. CASE a # b
      <4>1. a \in 1 .. b - 1
        BY <1>11, <2>2, <3>2
      <4>2. <<s.bucket[a].blk, i>> \in Range(q)
        BY <2>2, <4>1 DEF ListsFirst
      <4> QED BY <1>8, <4>2
    <3> QED BY <3>1, <3>2
  <2> QED BY <2>1, <2>2
<1>13. w \in Seq(Nat \X Nat)
  BY <1>2
<1>14. ListsFirst(s, w, b)
  BY <1>10, <1>12, <1>13 DEF ListsFirst
<1> QED BY <1>14 DEF w

LEMMA AddressesList ==
  ASSUME NEW s, Data(s)
  PROVE  /\ Addresses(s) \in Seq(Nat \X Nat) /\ IsInjective(Addresses(s))
         /\ Range(Addresses(s)) = Places(s)
<1> DEFINE n == Len(s.bucket)
<1>1. n \in Nat /\ DOMAIN s.bucket = 1 .. n
  BY Buckets DEF Data
<1>2. PICK f : /\ Addresses(s) = f[n] /\ f[0] = <<>>
               /\ \A b \in 1 .. n :
                    f[b] = f[b - 1] \o [i \in DOMAIN s.bucket[b].elem |-> <<s.bucket[b].blk, i>>]
  BY <1>1, AddressesUnfold
<1> DEFINE S == {b \in 0 .. n : ListsFirst(s, f[b], b)}
<1>3. 0 \in S
  <2>1. ListsFirst(s, <<>>, 0)
    BY DEF ListsFirst, IsInjective, Range
  <2> QED BY <1>1, <1>2, <2>1
<1>4. ASSUME NEW j \in 0 .. n - 1, j \in S PROVE j + 1 \in S
  <2> DEFINE b == j + 1
             r == [i \in DOMAIN s.bucket[b].elem |-> <<s.bucket[b].blk, i>>]
             k == Len(s.bucket[b].elem)
  <2>1. b \in 1 .. n /\ b - 1 = j /\ b \in DOMAIN s.bucket
    BY <1>1
  <2>2. k \in Nat /\ DOMAIN s.bucket[b].elem = 1 .. k /\ s.bucket[b].blk \in Nat
    BY <2>1, Buckets DEF Data
  <2>3. r \in Seq(Nat \X Nat) /\ Len(r) = k /\ DOMAIN r = 1 .. k /\ \A i \in 1 .. k : r[i] = <<s.bucket[b].blk, i>>
    BY <2>2, IsSequence
  <2>4. f[b] = f[b - 1] \o r
    BY <1>2, <2>1
  <2>5. ListsFirst(s, f[b - 1], b - 1)
    BY <1>4, <2>1
  <2> HIDE DEF r, b
  <2>6. ListsFirst(s, f[b - 1] \o r, b)
    BY <2>1, <2>3, <2>5, AppendLists
  <2>7. ListsFirst(s, f[b], b)
    BY <2>4, <2>6
  <2> QED BY <2>1, <2>7 DEF b
<1>5. n \in S
  <2> HIDE DEF S, n
  <2>1. \A j \in 0 .. n : j \in S
    BY <1>1, <1>3, <1>4, ByInduction
  <2> QED BY <1>1, <2>1
<1>6. ListsFirst(s, Addresses(s), n)
  BY <1>2, <1>5
<1>7. \A p : p \in Range(Addresses(s)) <=> p \in Places(s)
  <2>1. ASSUME NEW p \in Range(Addresses(s)) PROVE p \in Places(s)
    <3>1. PICK a, i : Slot(s, a, i) /\ p = <<s.bucket[a].blk, i>>
      BY <1>6, <2>1 DEF ListsFirst
    <3> QED BY <3>1, PlaceOf
  <2>2. ASSUME NEW p \in Places(s) PROVE p \in Range(Addresses(s))
    <3>1. PICK a, i : Slot(s, a, i) /\ p = <<s.bucket[a].blk, i>>
      BY <2>2, PlaceIs
    <3>2. a \in 1 .. n
      BY <1>1, <3>1 DEF Slot
    <3> QED BY <1>6, <3>1, <3>2 DEF ListsFirst
  <2> QED BY <2>1, <2>2
<1> QED BY <1>6, <1>7 DEF ListsFirst

-----------------------------------------------------------------------------
(* A new chain *)

SameData(s, t) == t.mem = s.mem /\ t.bcap = s.bcap /\ t.bucket = s.bucket

LEMMA SameDataSamePlaces ==
  ASSUME NEW s, NEW t, SameData(s, t)
  PROVE  /\ \A p : (Resident(t, p) <=> Resident(s, p)) /\ ElementAt(t, p) = ElementAt(s, p)
         /\ Places(t) = Places(s) /\ Elems(t) = Elems(s)
         /\ Data(s) /\ t \in MapType => Data(t)
<1>1. \A p : (Resident(t, p) <=> Resident(s, p)) /\ ElementAt(t, p) = ElementAt(s, p)
  BY DEF SameData, Resident, ElementAt
<1>2. Places(t) = Places(s)
  BY <1>1 DEF Places
<1>3. Elems(t) = Elems(s)
  BY <1>1, <1>2 DEF Elems
<1>4. Data(s) /\ t \in MapType => Data(t)
  BY DEF Data, Filled, SameData
<1> QED BY <1>1, <1>2, <1>3, <1>4

\* t is s with a chain made anew.
Renewed(s, t, busy) ==
  SameData(s, t) /\ MapOk(t) /\ t.chain.gen \in Nat /\ t.chain.gen \notin busy

LEMMA ListedIsRenewed ==
  ASSUME NEW s, Data(s), s.bucket # <<>>, NEW busy, IsFiniteSet(busy)
  PROVE  Renewed(s, Listed(s, busy), busy)
<1> DEFINE node == Addresses(s)
           room == Preferred(s.bcap)
           gen  == FreshId(busy \cup Ids(s))
           long == IF Len(node) > room THEN Len(node) + 1 ELSE room
           c    == [gen |-> gen, node |-> node, room |-> long]
           t    == [s EXCEPT !.chain = c]
<1>1. Listed(s, busy) = t
  BY DEF Listed
<1>2. s \in MapType /\ s.bcap \in Nat
  BY DEF Data, MapType
<1>3. node \in Seq(Nat \X Nat) /\ IsInjective(node) /\ Range(node) = Places(s)
  BY AddressesList
<1>4. gen \in Nat /\ gen \notin busy
  <2>1. IsFiniteSet(busy \cup Ids(s))
    BY <1>2, IdsAreFinite, FS_Union
  <2> QED BY <2>1, FreshIsFree
<1>5. room \in Nat
  <2>1. s.bcap * s.bcap \in Nat /\ (s.bcap >= 2 => s.bcap * s.bcap >= 1)
    BY <1>2
  <2> QED BY <1>2, <2>1 DEF Preferred
<1>6. Len(node) \in Nat
  BY <1>3
<1> HIDE DEF node, room, gen
<1>7. long \in Nat /\ Len(node) <= long
  BY <1>5, <1>6
<1> HIDE DEF long
<1>8. c \in ChainType /\ c.gen = gen /\ c.node = node /\ c.room = long
  BY <1>3, <1>4, <1>7 DEF ChainType
<1> HIDE DEF c
<1>9. t \in MapType /\ t.chain = c /\ SameData(s, t)
  BY <1>2, <1>8 DEF MapType, SameData
<1> HIDE DEF t
<1>10. Data(t) /\ Places(t) = Places(s)
  BY <1>9, SameDataSamePlaces
<1>11. Lists(t)
  BY <1>3, <1>7, <1>8, <1>9, <1>10 DEF Lists, Size
<1>12. MapOk(t)
  BY <1>4, <1>8, <1>9, <1>10, <1>11 DEF MapOk, SameData
<1>13. Renewed(s, t, busy)
  BY <1>4, <1>8, <1>9, <1>12 DEF Renewed
<1> QED BY <1>1, <1>13

-----------------------------------------------------------------------------
(* An element goes to a bucket *)

\* t is s with one more bucket, or with another bucket b.
Extended(s, t, nb) ==
  t \in MapType /\ t.mem = s.mem /\ t.chain = s.chain /\ t.bucket = Append(s.bucket, nb)
Changed(s, t, b, nb) ==
  t \in MapType /\ t.mem = s.mem /\ t.chain = s.chain /\ t.bucket = [s.bucket EXCEPT ![b] = nb]

Sound(nb) == nb \in Bucket /\ Len(nb.elem) \in 1 .. nb.cap
Free(s, blk) == \A b \in DOMAIN s.bucket : s.bucket[b].blk # blk

LEMMA ExtendedIs ==
  ASSUME NEW s, Data(s), NEW t, NEW nb, Sound(nb), Extended(s, t, nb)
  PROVE  /\ DOMAIN t.bucket = DOMAIN s.bucket \cup {Len(s.bucket) + 1} /\ Len(s.bucket) + 1 \notin DOMAIN s.bucket
         /\ Len(t.bucket) = Len(s.bucket) + 1 /\ t.bucket # <<>>
         /\ t.bucket[Len(s.bucket) + 1] = nb
         /\ \A b \in DOMAIN s.bucket : t.bucket[b] = s.bucket[b]
<1> DEFINE q == s.bucket
           w == Append(q, nb)
<1>1. q \in Seq(Bucket) /\ nb \in Bucket /\ Len(q) \in Nat /\ DOMAIN q = 1 .. Len(q)
  BY Buckets DEF Data, Sound
<1> HIDE DEF q
<1>2. w \in Seq(Bucket) /\ Len(w) = Len(q) + 1 /\ w # <<>> /\ w[Len(q) + 1] = nb
  BY <1>1, AppendProperties
<1>3. \A i \in 1 .. Len(q) : w[i] = q[i]
  BY <1>1, AppendProperties
<1> HIDE DEF w
<1>4. DOMAIN w = DOMAIN q \cup {Len(q) + 1} /\ Len(q) + 1 \notin DOMAIN q
  BY <1>1, <1>2
<1>5. t.bucket = w
  BY DEF Extended, w, q
<1> QED BY <1>1, <1>2, <1>3, <1>4, <1>5 DEF q

LEMMA ExtendedIsData ==
  ASSUME NEW s, Data(s), NEW t, NEW nb, Sound(nb), Extended(s, t, nb), Free(s, nb.blk),
         Len(s.bucket) + 1 <= t.bcap
  PROVE  Data(t)
<1>1. \A b \in DOMAIN t.bucket : Len(t.bucket[b].elem) \in 1 .. t.bucket[b].cap
  <2> TAKE b \in DOMAIN t.bucket
  <2>1. CASE b \in DOMAIN s.bucket
    BY <2>1, ExtendedIs DEF Data, Filled
  <2>2. CASE b = Len(s.bucket) + 1
    BY <2>2, ExtendedIs DEF Sound
  <2> QED BY <2>1, <2>2, ExtendedIs
<1>2. \A a, b \in DOMAIN t.bucket : t.bucket[a].blk = t.bucket[b].blk => a = b
  <2> TAKE a, b \in DOMAIN t.bucket
  <2>1. CASE a \in DOMAIN s.bucket /\ b \in DOMAIN s.bucket
    BY <2>1, ExtendedIs DEF Data, Filled
  <2>2. CASE a = Len(s.bucket) + 1 /\ b \in DOMAIN s.bucket
    BY <2>2, ExtendedIs DEF Free
  <2>3. CASE b = Len(s.bucket) + 1 /\ a \in DOMAIN s.bucket
    BY <2>3, ExtendedIs DEF Free
  <2> QED BY <2>1, <2>2, <2>3, ExtendedIs
<1>3. Len(t.bucket) <= t.bcap
  BY ExtendedIs
<1> QED BY <1>1, <1>2, <1>3 DEF Data, Filled, Extended

LEMMA ChangedIs ==
  ASSUME NEW s, Data(s), NEW t, NEW b \in DOMAIN s.bucket, NEW nb, Sound(nb), Changed(s, t, b, nb)
  PROVE  /\ DOMAIN t.bucket = DOMAIN s.bucket /\ Len(t.bucket) = Len(s.bucket) /\ t.bucket # <<>>
         /\ t.bucket[b] = nb /\ \A a \in DOMAIN s.bucket : a # b => t.bucket[a] = s.bucket[a]
<1> DEFINE q == s.bucket
           w == [q EXCEPT ![b] = nb]
<1>1. q \in Seq(Bucket) /\ nb \in Bucket /\ Len(q) \in Nat /\ DOMAIN q = 1 .. Len(q) /\ b \in 1 .. Len(q)
  BY Buckets DEF Data, Sound
<1> HIDE DEF q
<1>2. w \in Seq(Bucket) /\ Len(w) = Len(q) /\ w[b] = nb /\ \A a \in 1 .. Len(q) : a # b => w[a] = q[a]
  BY <1>1
<1>3. DOMAIN w = DOMAIN q /\ w # <<>>
  BY <1>1, <1>2
<1>4. t.bucket = w
  BY DEF Changed, w, q
<1> QED BY <1>1, <1>2, <1>3, <1>4 DEF q

LEMMA ChangedIsData ==
  ASSUME NEW s, Data(s), NEW t, NEW b \in DOMAIN s.bucket, NEW nb, Sound(nb), Changed(s, t, b, nb),
         nb.blk = s.bucket[b].blk \/ Free(s, nb.blk), t.bcap = s.bcap
  PROVE  Data(t)
<1>0. /\ DOMAIN t.bucket = DOMAIN s.bucket /\ Len(t.bucket) = Len(s.bucket)
      /\ t.bucket[b] = nb /\ \A a \in DOMAIN s.bucket : a # b => t.bucket[a] = s.bucket[a]
  BY ChangedIs
<1>1. \A a \in DOMAIN t.bucket : Len(t.bucket[a].elem) \in 1 .. t.bucket[a].cap
  <2> TAKE a \in DOMAIN t.bucket
  <2>1. CASE a = b
    BY <1>0, <2>1 DEF Sound
  <2>2. CASE a # b
    BY <1>0, <2>2 DEF Data, Filled
  <2> QED BY <2>1, <2>2
<1>2. \A a, c \in DOMAIN t.bucket : t.bucket[a].blk = t.bucket[c].blk => a = c
  <2> TAKE a, c \in DOMAIN t.bucket
  <2>1. CASE a # b /\ c # b
    BY <1>0, <2>1 DEF Data, Filled
  <2>2. ASSUME NEW d \in DOMAIN s.bucket, d # b PROVE t.bucket[d].blk # nb.blk
    <3>1. s.bucket[d].blk # s.bucket[b].blk
      BY <2>2 DEF Data, Filled
    <3>2. t.bucket[d].blk = s.bucket[d].blk
      BY <1>0, <2>2
    <3> QED BY <3>1, <3>2 DEF Free
  <2> QED BY <1>0, <2>1, <2>2
<1>3. Len(t.bucket) <= t.bcap
  BY <1>0 DEF Data, Filled
<1> QED BY <1>1, <1>2, <1>3 DEF Data, Changed, Filled

\* t is s with one more element, e, in slot i of bucket b.
Grown(s, t, b, i, e) ==
  /\ Data(t) /\ t.mem = s.mem /\ t.chain = s.chain /\ t.bucket # <<>>
  /\ DOMAIN t.bucket = DOMAIN s.bucket \cup {b}
  /\ Slot(t, b, i) /\ ~Slot(s, b, i) /\ t.bucket[b].elem[i] = e
  /\ \A a, x : Slot(t, a, x) <=> Slot(s, a, x) \/ (a = b /\ x = i)
  /\ \A a, x : Slot(s, a, x) => t.bucket[a].elem[x] = s.bucket[a].elem[x]
  /\ \A a \in DOMAIN s.bucket : t.bucket[a].hash = s.bucket[a].hash
SameBlocks(s, t) == \A a \in DOMAIN s.bucket : t.bucket[a].blk = s.bucket[a].blk

LEMMA AddBucketGrows ==
  ASSUME NEW s, Data(s), NEW busy, IsFiniteSet(busy), NEW room \in Nat, room >= 1, NEW e \in Pairs
  PROVE  /\ Grown(s, AddBucket(s, busy, room, e), Len(s.bucket) + 1, 1, e)
         /\ SameBlocks(s, AddBucket(s, busy, room, e))
         /\ AddBucket(s, busy, room, e).bucket[Len(s.bucket) + 1].hash = Hash[e.key]
         /\ AddBucket(s, busy, room, e).bcap = IF Len(s.bucket) = s.bcap THEN s.bcap + 2 ELSE s.bcap
<1> DEFINE t == AddBucket(s, busy, room, e)
           blk == FreshId(busy \cup Ids(s))
           nb == [hash |-> Hash[e.key], cap |-> room, elem |-> <<e>>, blk |-> blk]
           cap == IF Len(s.bucket) = s.bcap THEN s.bcap + 2 ELSE s.bcap
           l == Len(s.bucket) + 1
<1>1. s \in MapType /\ s.bcap \in Nat /\ Len(s.bucket) \in Nat /\ s.bucket \in Seq(Bucket) /\ Len(s.bucket) <= s.bcap
  BY Buckets DEF Data, MapType, Filled
<1>2. blk \in Nat /\ Free(s, blk)
  <2>1. IsFiniteSet(busy \cup Ids(s))
    BY <1>1, IdsAreFinite, FS_Union
  <2>2. blk \in Nat /\ blk \notin busy \cup Ids(s)
    BY <2>1, FreshIsFree
  <2> QED BY <1>1, <2>2, IdsAreFinite DEF Free
<1> HIDE DEF blk
<1>3. nb \in Bucket /\ nb.hash = Hash[e.key] /\ nb.elem = <<e>> /\ nb.blk = blk /\ nb.cap = room
  <2>1. e.key \in Keys
    BY DEF Pairs
  <2>2. Hash[e.key] \in Range(Hash)
    BY <2>1, MapAssumption DEF Range
  <2> QED BY <1>2, <2>2 DEF Bucket
<1>4. t = [s EXCEPT !.bcap = cap, !.bucket = Append(s.bucket, nb)]
  BY DEF AddBucket, blk
<1> HIDE DEF nb, t
<1>5. Sound(nb)
  BY <1>3 DEF Sound
<1>6. cap \in Nat /\ l <= cap
  BY <1>1
<1> HIDE DEF cap
<1>7. Append(s.bucket, nb) \in Seq(Bucket)
  BY <1>1, <1>3
<1>8. t.bcap = cap /\ t.mem = s.mem /\ t.chain = s.chain /\ t.bucket = Append(s.bucket, nb) /\ t \in MapType
  BY <1>1, <1>4, <1>6, <1>7 DEF MapType
<1>9. Extended(s, t, nb)
  BY <1>8 DEF Extended
<1>10. Data(t)
  BY <1>2, <1>3, <1>5, <1>6, <1>8, <1>9, ExtendedIsData
<1>11. /\ DOMAIN t.bucket = DOMAIN s.bucket \cup {l} /\ l \notin DOMAIN s.bucket
       /\ t.bucket # <<>> /\ t.bucket[l] = nb
       /\ \A b \in DOMAIN s.bucket : t.bucket[b] = s.bucket[b]
  BY <1>5, <1>9, ExtendedIs
<1> HIDE DEF l
<1>12. DOMAIN nb.elem = {1} /\ nb.elem[1] = e
  BY <1>3
<1>13. Slot(t, l, 1) /\ ~Slot(s, l, 1) /\ t.bucket[l].elem[1] = e
  BY <1>11, <1>12 DEF Slot
<1>14. \A a, x : Slot(t, a, x) <=> Slot(s, a, x) \/ (a = l /\ x = 1)
  <2> TAKE a, x
  <2>1. CASE a = l
    BY <1>11, <1>12, <2>1 DEF Slot
  <2>2. CASE a # l
    BY <1>11, <2>2 DEF Slot
  <2> QED BY <2>1, <2>2
<1>15. \A a, x : Slot(s, a, x) => t.bucket[a].elem[x] = s.bucket[a].elem[x]
  BY <1>11 DEF Slot
<1>16. Grown(s, t, l, 1, e)
  BY <1>8, <1>10, <1>11, <1>13, <1>14, <1>15 DEF Grown
<1>17. SameBlocks(s, t)
  BY <1>11 DEF SameBlocks
<1> QED BY <1>3, <1>8, <1>11, <1>16, <1>17 DEF t, l, cap

LEMMA AddToBucketGrows ==
  ASSUME NEW s, Data(s), NEW busy, IsFiniteSet(busy), NEW b \in DOMAIN s.bucket, NEW e \in Pairs
  PROVE  /\ Grown(s, AddToBucket(s, busy, b, e), b, Len(s.bucket[b].elem) + 1, e)
         /\ AddToBucket(s, busy, b, e).bcap = s.bcap
         /\ Len(s.bucket[b].elem) # s.bucket[b].cap => SameBlocks(s, AddToBucket(s, busy, b, e))
<1> DEFINE t == AddToBucket(s, busy, b, e)
           fresh == FreshId(busy \cup Ids(s))
           q == s.bucket[b]
           k == Len(q.elem)
           blk == IF k = q.cap THEN fresh ELSE q.blk
           cap == IF k = q.cap THEN q.cap + 2 ELSE q.cap
           elem == Append(q.elem, e)
           nb == [q EXCEPT !.elem = elem, !.cap = cap, !.blk = blk]
<1>1. /\ s \in MapType /\ s.bucket \in Seq(Bucket) /\ q \in Bucket /\ k \in Nat /\ q.elem \in Seq(Pairs)
      /\ q.cap \in Nat /\ k <= q.cap /\ q.blk \in Nat /\ q.hash \in Range(Hash) /\ DOMAIN q.elem = 1 .. k
  BY Buckets DEF Data, Filled
<1>2. fresh \in Nat /\ Free(s, fresh)
  <2>1. IsFiniteSet(busy \cup Ids(s))
    BY <1>1, IdsAreFinite, FS_Union
  <2>2. fresh \in Nat /\ fresh \notin busy \cup Ids(s)
    BY <2>1, FreshIsFree
  <2> QED BY <1>1, <2>2, IdsAreFinite DEF Free
<1>3. t = [s EXCEPT !.bucket = [s.bucket EXCEPT ![b] = nb]]
  BY <1>1, Buckets DEF AddToBucket, MapType, Bucket
<1> HIDE DEF fresh, q
<1>4. /\ elem \in Seq(Pairs) /\ Len(elem) = k + 1 /\ DOMAIN elem = 1 .. k + 1 /\ elem[k + 1] = e
      /\ \A i \in 1 .. k : elem[i] = q.elem[i]
  BY <1>1, AppendProperties
<1>5. cap \in Nat /\ k + 1 <= cap /\ blk \in Nat /\ (blk = q.blk \/ Free(s, blk))
  BY <1>1, <1>2
<1>6. k # q.cap => blk = q.blk
  OBVIOUS
<1> HIDE DEF elem, cap, blk, t
<1>7. nb \in Bucket /\ nb.hash = q.hash /\ nb.cap = cap /\ nb.elem = elem /\ nb.blk = blk
  BY <1>1, <1>4, <1>5 DEF Bucket
<1> HIDE DEF nb
<1>8. Sound(nb)
  BY <1>1, <1>4, <1>5, <1>7 DEF Sound
<1>9. [s.bucket EXCEPT ![b] = nb] \in Seq(Bucket)
  <2>1. s.bucket \in [1 .. Len(s.bucket) -> Bucket] /\ Len(s.bucket) \in Nat
    BY <1>1
  <2>2. [s.bucket EXCEPT ![b] = nb] \in [1 .. Len(s.bucket) -> Bucket]
    BY <1>7, <2>1
  <2> QED BY <2>1, <2>2, IsSequence
<1>10. t \in MapType /\ t.mem = s.mem /\ t.chain = s.chain /\ t.bcap = s.bcap /\ t.bucket = [s.bucket EXCEPT ![b] = nb]
  BY <1>1, <1>3, <1>9 DEF MapType
<1>11. Changed(s, t, b, nb)
  BY <1>10 DEF Changed
<1>12. Data(t)
  BY <1>5, <1>7, <1>8, <1>10, <1>11, ChangedIsData DEF q
<1>13. /\ DOMAIN t.bucket = DOMAIN s.bucket /\ t.bucket # <<>>
       /\ t.bucket[b] = nb /\ \A a \in DOMAIN s.bucket : a # b => t.bucket[a] = s.bucket[a]
  BY <1>8, <1>11, ChangedIs
<1> HIDE DEF k
<1>14. Slot(t, b, k + 1) /\ ~Slot(s, b, k + 1) /\ t.bucket[b].elem[k + 1] = e
  BY <1>1, <1>4, <1>7, <1>13 DEF Slot, q
<1>15. \A a, x : Slot(t, a, x) <=> Slot(s, a, x) \/ (a = b /\ x = k + 1)
  <2> TAKE a, x
  <2>1. CASE a = b
    <3>1. Slot(t, a, x) <=> x \in 1 .. k + 1
      BY <1>4, <1>7, <1>13, <2>1 DEF Slot
    <3>2. Slot(s, a, x) <=> x \in 1 .. k
      BY <1>1, <2>1 DEF Slot, q
    <3> QED BY <1>1, <2>1, <3>1, <3>2
  <2>2. CASE a # b
    BY <1>13, <2>2 DEF Slot
  <2> QED BY <2>1, <2>2
<1>16. \A a, x : Slot(s, a, x) => t.bucket[a].elem[x] = s.bucket[a].elem[x]
  <2> SUFFICES ASSUME NEW a, NEW x, Slot(s, a, x) PROVE t.bucket[a].elem[x] = s.bucket[a].elem[x]
    OBVIOUS
  <2>1. CASE a = b
    BY <1>1, <1>4, <1>7, <1>13, <2>1 DEF Slot, q
  <2>2. CASE a # b
    BY <1>13, <2>2 DEF Slot
  <2> QED BY <2>1, <2>2
<1>17. \A a \in DOMAIN s.bucket : t.bucket[a].hash = s.bucket[a].hash
  BY <1>7, <1>13 DEF q
<1>18. Grown(s, t, b, k + 1, e)
  BY <1>10, <1>12, <1>13, <1>14, <1>15, <1>16, <1>17 DEF Grown
<1>19. k # q.cap => SameBlocks(s, t)
  BY <1>6, <1>7, <1>13 DEF SameBlocks, q
<1> QED BY <1>10, <1>18, <1>19 DEF t, q, k

LEMMA FirstIs ==
  ASSUME NEW S \in SUBSET Nat, S # {}
  PROVE  First(S) \in S /\ \A y \in S : First(S) <= y
<1>1. \E x \in S : \A y \in S : x <= y
  BY LeastExists
<1> QED BY <1>1 DEF First

LEMMA HitsAre ==
  ASSUME NEW s, Data(s), NEW n, NEW k
  PROVE  /\ Hits(s, n, k) \subseteq DOMAIN s.bucket
         /\ Hits(s, n, k) # {} => First(Hits(s, n, k)) \in Hits(s, n, k)
<1>1. Hits(s, n, k) \subseteq DOMAIN s.bucket
  BY DEF Hits
<1>2. DOMAIN s.bucket \subseteq Nat
  BY Buckets DEF Data
<1>3. Hits(s, n, k) \in SUBSET Nat
  BY <1>1, <1>2
<1> QED BY <1>1, <1>3, FirstIs

\* Where an element goes in a map of n elements.
InNewBucket(s, t, n, e, b, i) ==
  /\ Hits(s, n, e.key) = {} /\ b = Len(s.bucket) + 1 /\ i = 1 /\ SameBlocks(s, t)
  /\ t.bucket[b].hash = Hash[e.key]
  /\ t.bcap = IF Len(s.bucket) = s.bcap THEN s.bcap + 2 ELSE s.bcap
InFirstHit(s, t, n, e, b, i) ==
  /\ b = First(Hits(s, n, e.key)) /\ b \in Hits(s, n, e.key) /\ i = Len(s.bucket[b].elem) + 1
  /\ t.bcap = s.bcap
  /\ Len(s.bucket[b].elem) # s.bucket[b].cap => SameBlocks(s, t)
Distributed(s, t, n, e, b, i) ==
  Grown(s, t, b, i, e) /\ (InNewBucket(s, t, n, e, b, i) \/ InFirstHit(s, t, n, e, b, i))

LEMMA DistributeIs ==
  ASSUME NEW s, Data(s), NEW busy, IsFiniteSet(busy), NEW n, NEW room \in Nat, room >= 1, NEW e \in Pairs
  PROVE  \E b, i : Distributed(s, Distribute(s, busy, n, room, e), n, e, b, i)
<1>1. CASE Hits(s, n, e.key) = {}
  <2> DEFINE t == AddBucket(s, busy, room, e)
  <2>1. Distribute(s, busy, n, room, e) = t
    BY <1>1 DEF Distribute
  <2>2. /\ Grown(s, t, Len(s.bucket) + 1, 1, e) /\ SameBlocks(s, t)
        /\ t.bucket[Len(s.bucket) + 1].hash = Hash[e.key]
        /\ t.bcap = IF Len(s.bucket) = s.bcap THEN s.bcap + 2 ELSE s.bcap
    BY AddBucketGrows
  <2> HIDE DEF t
  <2>3. InNewBucket(s, t, n, e, Len(s.bucket) + 1, 1)
    BY <1>1, <2>2 DEF InNewBucket
  <2>4. Distributed(s, t, n, e, Len(s.bucket) + 1, 1)
    BY <2>2, <2>3 DEF Distributed
  <2> QED BY <2>1, <2>4
<1>2. CASE Hits(s, n, e.key) # {}
  <2> DEFINE b == First(Hits(s, n, e.key))
             t == AddToBucket(s, busy, b, e)
  <2>1. Distribute(s, busy, n, room, e) = t
    BY <1>2 DEF Distribute
  <2>2. b \in Hits(s, n, e.key) /\ b \in DOMAIN s.bucket
    BY <1>2, HitsAre
  <2> HIDE DEF b
  <2>3. /\ Grown(s, t, b, Len(s.bucket[b].elem) + 1, e) /\ t.bcap = s.bcap
        /\ Len(s.bucket[b].elem) # s.bucket[b].cap => SameBlocks(s, t)
    BY <2>2, AddToBucketGrows
  <2> HIDE DEF t
  <2>4. InFirstHit(s, t, n, e, b, Len(s.bucket[b].elem) + 1)
    BY <2>2, <2>3 DEF InFirstHit, b
  <2>5. Distributed(s, t, n, e, b, Len(s.bucket[b].elem) + 1)
    BY <2>3, <2>4 DEF Distributed
  <2> QED BY <2>1, <2>5
<1> QED BY <1>1, <1>2

LEMMA GrownElems ==
  ASSUME NEW s, Data(s), NEW t, NEW b, NEW i, NEW e, Grown(s, t, b, i, e)
  PROVE  Elems(t) = Elems(s) \cup {e}
<1>1. Data(t)
  BY DEF Grown
<1>2. ASSUME NEW x \in Elems(t) PROVE x \in Elems(s) \/ x = e
  <2>1. PICK a, j : Slot(t, a, j) /\ x = t.bucket[a].elem[j]
    BY <1>1, <1>2, ElemOf
  <2>2. CASE Slot(s, a, j)
    <3>1. x = s.bucket[a].elem[j]
      BY <2>1, <2>2 DEF Grown
    <3> QED BY <2>2, <3>1, ElemOf
  <2>3. CASE a = b /\ j = i
    BY <2>1, <2>3 DEF Grown
  <2> QED BY <2>1, <2>2, <2>3 DEF Grown
<1>3. ASSUME NEW x \in Elems(s) PROVE x \in Elems(t)
  <2>1. PICK a, j : Slot(s, a, j) /\ x = s.bucket[a].elem[j]
    BY <1>3, ElemOf
  <2>2. Slot(t, a, j) /\ x = t.bucket[a].elem[j]
    BY <2>1 DEF Grown
  <2> QED BY <1>1, <2>2, ElemOf
<1>4. e \in Elems(t)
  <2>1. Slot(t, b, i) /\ e = t.bucket[b].elem[i]
    BY DEF Grown
  <2> QED BY <1>1, <2>1, ElemOf
<1> QED BY <1>2, <1>3, <1>4

\* What is in s stays where it is in t, and p is where e is.
Kept(s, t, p, e) ==
  /\ p \in Nat \X Nat /\ p \notin Places(s) /\ Places(t) = Places(s) \cup {p} /\ ElementAt(t, p) = e
  /\ \A q \in Places(s) : ElementAt(t, q) = ElementAt(s, q)

LEMMA GrownKeeps ==
  ASSUME NEW s, Data(s), NEW t, NEW b, NEW i, NEW e, Grown(s, t, b, i, e), SameBlocks(s, t)
  PROVE  Kept(s, t, <<t.bucket[b].blk, i>>, e)
<1> DEFINE p == <<t.bucket[b].blk, i>>
<1>1. Data(t) /\ Slot(t, b, i) /\ ~Slot(s, b, i) /\ t.bucket[b].elem[i] = e
  BY DEF Grown
<1>2. p \in Places(t) /\ ElementAt(t, p) = e
  BY <1>1, PlaceOf
<1>3. ASSUME NEW q \in Places(s)
      PROVE  q \in Places(t) /\ ElementAt(t, q) = ElementAt(s, q) /\ q # p
  <2>1. PICK a, x : Slot(s, a, x) /\ q = <<s.bucket[a].blk, x>> /\ ElementAt(s, q) = s.bucket[a].elem[x]
    BY <1>3, PlaceIs
  <2>2. Slot(t, a, x) /\ t.bucket[a].blk = s.bucket[a].blk /\ t.bucket[a].elem[x] = s.bucket[a].elem[x]
    BY <2>1 DEF Grown, SameBlocks, Slot
  <2>3. q \in Places(t) /\ ElementAt(t, q) = t.bucket[a].elem[x]
    BY <1>1, <2>1, <2>2, PlaceOf
  <2>4. ASSUME q = p PROVE FALSE
    <3>1. t.bucket[a].blk = t.bucket[b].blk /\ x = i
      BY <2>1, <2>2, <2>4
    <3>2. a \in DOMAIN t.bucket /\ b \in DOMAIN t.bucket
      BY <1>1, <2>2 DEF Slot
    <3>3. a = b
      BY <1>1, <3>1, <3>2 DEF Data, Filled
    <3> QED BY <1>1, <2>1, <3>1, <3>3
  <2> QED BY <2>1, <2>2, <2>3, <2>4
<1>4. ASSUME NEW q \in Places(t) PROVE q \in Places(s) \/ q = p
  <2>1. PICK a, x : Slot(t, a, x) /\ q = <<t.bucket[a].blk, x>>
    BY <1>1, <1>4, PlaceIs
  <2>2. CASE Slot(s, a, x)
    <3>1. q = <<s.bucket[a].blk, x>>
      BY <2>1, <2>2 DEF SameBlocks, Slot
    <3> QED BY <2>2, <3>1, PlaceOf
  <2>3. CASE a = b /\ x = i
    BY <2>1, <2>3
  <2> QED BY <2>1, <2>2, <2>3 DEF Grown
<1>5. p \in Nat \X Nat
  BY <1>2 DEF Places
<1>6. p \notin Places(s)
  BY <1>3
<1>7. Places(t) = Places(s) \cup {p}
  BY <1>2, <1>3, <1>4
<1>8. \A q \in Places(s) : ElementAt(t, q) = ElementAt(s, q)
  BY <1>3
<1> HIDE DEF p
<1>9. Kept(s, t, p, e)
  BY <1>2, <1>5, <1>6, <1>7, <1>8 DEF Kept
<1> QED BY <1>9 DEF p

-----------------------------------------------------------------------------
(* Buckets by residue *)

LEMMA BucketSizeIs ==
  ASSUME NEW n \in Nat
  PROVE  LET r == BucketSize(n) IN r \in Nat /\ r >= 1 /\ (r - 1) * (r - 1) <= n /\ n < r * r
<1> DEFINE T == {x \in Nat : n < x * x}
<1>1. n + 1 \in T
  <2> DEFINE m == n + 1
  <2>1. m \in Nat /\ m >= 1 /\ n < m
    OBVIOUS
  <2> HIDE DEF m
  <2>2. m <= m * m
    BY <2>1
  <2>3. m * m \in Nat
    BY <2>1
  <2>4. m \in T
    BY <2>1, <2>2, <2>3
  <2> QED BY <2>4 DEF m
<1>2. PICK r \in T : \A x \in T : r <= x
  <2>1. T \in SUBSET Nat /\ T # {}
    BY <1>1
  <2> HIDE DEF T
  <2> QED BY <2>1, LeastExists
<1>3. r \in Nat /\ n < r * r /\ r <= n + 1
  BY <1>1, <1>2
<1>4. r # 0
  BY <1>3
<1>5. r \in 1 .. n + 1 /\ r - 1 \in Nat
  BY <1>3, <1>4
<1>6. (r - 1) * (r - 1) <= n
  <2> DEFINE m == r - 1
  <2>1. m \in Nat /\ ~ (r <= m)
    BY <1>5
  <2>2. m \notin T
    BY <1>2, <2>1
  <2> HIDE DEF m
  <2>3. m * m \in Nat /\ ~ (n < m * m)
    BY <2>1, <2>2
  <2>4. m * m <= n
    BY <2>3
  <2> QED BY <2>4 DEF m
<1>7. \E x \in 1 .. n + 1 : (x - 1) * (x - 1) <= n /\ n < x * x
  BY <1>3, <1>5, <1>6
<1>8. BucketSize(n) \in 1 .. n + 1 /\ (BucketSize(n) - 1) * (BucketSize(n) - 1) <= n /\ n < BucketSize(n) * BucketSize(n)
  BY <1>7 DEF BucketSize
<1> QED BY <1>8

LEMMA SquareOrder ==
  ASSUME NEW a \in Nat, NEW b \in Nat, a <= b
  PROVE  a * a <= b * b
<1>1. PICK d \in Nat : b = a + d
  <2>1. b - a \in Nat /\ b = a + (b - a)
    OBVIOUS
  <2> QED BY <2>1
<1>2. b * b = a * a + (a * d + d * a + d * d)
  BY <1>1
<1>3. a * d \in Nat /\ d * a \in Nat /\ d * d \in Nat /\ a * a \in Nat
  OBVIOUS
<1> QED BY <1>2, <1>3

LEMMA BucketSizeGrows ==
  ASSUME NEW m \in Nat, NEW n \in Nat, m <= n
  PROVE  BucketSize(m) <= BucketSize(n)
<1> DEFINE q == BucketSize(m)
           r == BucketSize(n)
<1>1. q \in Nat /\ q >= 1 /\ (q - 1) * (q - 1) <= m
  BY BucketSizeIs
<1>2. r \in Nat /\ n < r * r
  BY BucketSizeIs
<1> HIDE DEF q, r
<1>3. SUFFICES ASSUME ~ (q <= r) PROVE FALSE
  BY DEF q, r
<1>4. q - 1 \in Nat /\ r <= q - 1
  BY <1>1, <1>2, <1>3
<1>5. r * r <= (q - 1) * (q - 1)
  BY <1>2, <1>4, SquareOrder
<1>6. r * r \in Nat /\ (q - 1) * (q - 1) \in Nat
  BY <1>2, <1>4
<1> QED BY <1>1, <1>2, <1>5, <1>6

LEMMA BucketSizeOfOne == BucketSize(0) = 1 /\ BucketSize(1) = 2
<1>1. BucketSize(0) = 1
  <2> DEFINE r == BucketSize(0)
  <2>1. r \in Nat /\ r >= 1 /\ (r - 1) * (r - 1) <= 0
    BY BucketSizeIs
  <2> HIDE DEF r
  <2>2. r - 1 \in Nat
    BY <2>1
  <2>3. r >= 2 => 1 * 1 <= (r - 1) * (r - 1)
    <3>1. r >= 2 => 1 <= r - 1
      BY <2>1
    <3> QED BY <2>2, <3>1, SquareOrder
  <2>4. r = 1
    BY <2>1, <2>3
  <2> QED BY <2>4 DEF r
<1>2. BucketSize(1) = 2
  <2> DEFINE r == BucketSize(1)
  <2>1. r \in Nat /\ r >= 1 /\ (r - 1) * (r - 1) <= 1 /\ 1 < r * r
    BY BucketSizeIs
  <2> HIDE DEF r
  <2>2. r # 1
    BY <2>1
  <2>3. r >= 3 => 2 * 2 <= (r - 1) * (r - 1)
    <3>1. r >= 3 => r - 1 \in Nat /\ 2 <= r - 1
      BY <2>1
    <3> QED BY <3>1, SquareOrder
  <2>4. r = 2
    BY <2>1, <2>2, <2>3
  <2> QED BY <2>4 DEF r
<1> QED BY <1>1, <1>2

\* Different buckets have different residues, those of their elements' hashes.
ByResidue(s, r) ==
  /\ \A a, b \in DOMAIN s.bucket : s.bucket[a].hash % r = s.bucket[b].hash % r => a = b
  /\ \A b, i : Slot(s, b, i) => Hash[s.bucket[b].elem[i].key] % r = s.bucket[b].hash % r

\* No two elements have the same key.
KeysApart(s) ==
  \A a, i, b, j : Slot(s, a, i) /\ Slot(s, b, j) /\ s.bucket[a].elem[i].key = s.bucket[b].elem[j].key
                    => a = b /\ i = j

LEMMA HashesAre ==
  ASSUME NEW s, Data(s)
  PROVE  \A b \in DOMAIN s.bucket : s.bucket[b].hash \in Nat
<1>1. Range(Hash) \subseteq Nat
  BY MapAssumption DEF Range
<1> QED BY <1>1, Buckets DEF Data

LEMMA RoomForResidue ==
  ASSUME NEW s, Data(s), NEW r \in Nat, r >= 1, ByResidue(s, r), NEW h \in Nat,
         \A b \in DOMAIN s.bucket : s.bucket[b].hash % r # h % r
  PROVE  Len(s.bucket) + 1 <= r
<1> DEFINE n == Len(s.bucket) + 1
           D == 1 .. n
           R == 0 .. r - 1
           f == [b \in D |-> IF b = n THEN h % r ELSE s.bucket[b].hash % r]
<1>1. n \in Nat /\ DOMAIN s.bucket = 1 .. n - 1
  BY Buckets DEF Data
<1>2. \A x \in Nat : x % r \in R
  OBVIOUS
<1>3. f \in [D -> R]
  <2>1. ASSUME NEW b \in D PROVE f[b] \in R
    <3>1. CASE b = n
      BY <1>2, <3>1
    <3>2. CASE b # n
      <4>1. b \in DOMAIN s.bucket /\ f[b] = s.bucket[b].hash % r
        BY <1>1, <3>2
      <4> QED BY <1>2, <4>1, HashesAre
    <3> QED BY <3>1, <3>2
  <2> QED BY <2>1
<1>4. ASSUME NEW a \in D, NEW b \in D, f[a] = f[b] PROVE a = b
  <2>1. CASE a = n /\ b # n
    BY <1>1, <1>4, <2>1
  <2>2. CASE a # n /\ b = n
    BY <1>1, <1>4, <2>2
  <2>3. CASE a # n /\ b # n
    <3>1. a \in DOMAIN s.bucket /\ b \in DOMAIN s.bucket
      BY <1>1, <2>3
    <3>2. s.bucket[a].hash % r = s.bucket[b].hash % r
      BY <1>4, <2>3
    <3> QED BY <3>1, <3>2 DEF ByResidue
  <2> QED BY <2>1, <2>2, <2>3
<1>5. f \in Injection(D, R)
  <2> HIDE DEF f, D, R
  <2>1. \A a, b \in D : f[a] = f[b] => a = b
    BY <1>4
  <2> QED BY <1>3, <2>1 DEF Injection, IsInjective
<1>6. IsFiniteSet(R) /\ Cardinality(R) = r /\ Cardinality(D) = n
  <2>1. r - 1 \in Int /\ 0 \in Int /\ 0 <= r - 1 /\ (r - 1) - 0 + 1 = r
    OBVIOUS
  <2>2. IsFiniteSet(0 .. r - 1) /\ Cardinality(0 .. r - 1) = r
    BY <2>1, FS_Interval
  <2>3. 1 \in Int /\ n \in Int /\ 1 <= n /\ n - 1 + 1 = n
    BY Buckets DEF Data
  <2> HIDE DEF n
  <2>4. Cardinality(1 .. n) = n
    BY <2>3, FS_Interval
  <2> QED BY <2>2, <2>4
<1> HIDE DEF f, D, R
<1>7. Cardinality(D) <= Cardinality(R)
  BY <1>5, <1>6, FS_Injection
<1> QED BY <1>6, <1>7

LEMMA GrownByResidue ==
  ASSUME NEW s, Data(s), NEW n \in Nat, ByResidue(s, BucketSize(n)), BucketSize(n) <= s.bcap,
         NEW t, NEW b, NEW i, NEW e \in Pairs, Distributed(s, t, n, e, b, i)
  PROVE  ByResidue(t, BucketSize(n)) /\ t.bcap = s.bcap
<1> DEFINE r == BucketSize(n)
           h == Hash[e.key]
<1>1. r \in Nat /\ r >= 1
  BY BucketSizeIs
<1>2. h \in Nat
  BY MapAssumption DEF Pairs
<1>3. Hits(s, n, e.key) = {a \in DOMAIN s.bucket : h % r = s.bucket[a].hash % r}
  BY DEF Hits, Congruent
<1> HIDE DEF r, h
<1>4. Grown(s, t, b, i, e) /\ ByResidue(s, r) /\ r <= s.bcap /\ Len(s.bucket) \in Nat /\ s.bcap \in Nat
  BY Buckets DEF Distributed, r, Data, MapType
<1>5. DOMAIN t.bucket = DOMAIN s.bucket \cup {b} /\ \A a \in DOMAIN s.bucket : t.bucket[a].hash = s.bucket[a].hash
  BY <1>4 DEF Grown
<1>6. /\ \A a, x : Slot(t, a, x) <=> Slot(s, a, x) \/ (a = b /\ x = i)
      /\ \A a, x : Slot(s, a, x) => t.bucket[a].elem[x] = s.bucket[a].elem[x]
      /\ t.bucket[b].elem[i] = e
  BY <1>4 DEF Grown
<1>7. ASSUME h % r = t.bucket[b].hash % r,
             \A a, c \in DOMAIN t.bucket : t.bucket[a].hash % r = t.bucket[c].hash % r => a = c
      PROVE  ByResidue(t, r)
  <2>1. ASSUME NEW a, NEW x, Slot(t, a, x)
        PROVE  Hash[t.bucket[a].elem[x].key] % r = t.bucket[a].hash % r
    <3>1. CASE Slot(s, a, x)
      <4>1. t.bucket[a].hash = s.bucket[a].hash /\ t.bucket[a].elem[x] = s.bucket[a].elem[x]
        BY <1>5, <1>6, <3>1 DEF Slot
      <4> QED BY <1>4, <3>1, <4>1 DEF ByResidue
    <3>2. CASE a = b /\ x = i
      BY <1>6, <1>7, <3>2 DEF h
    <3> QED BY <1>6, <2>1, <3>1, <3>2
  <2> QED BY <1>7, <2>1 DEF ByResidue
<1>8. CASE InNewBucket(s, t, n, e, b, i)
  <2>1. \A a \in DOMAIN s.bucket : s.bucket[a].hash % r # h % r
    BY <1>3, <1>8 DEF InNewBucket
  <2>2. Len(s.bucket) + 1 <= r
    BY <1>1, <1>2, <1>4, <2>1, RoomForResidue
  <2>3. t.bcap = s.bcap
    BY <1>1, <1>4, <1>8, <2>2 DEF InNewBucket
  <2>4. t.bucket[b].hash = h
    BY <1>8 DEF InNewBucket, h
  <2>5. ASSUME NEW a \in DOMAIN t.bucket, NEW c \in DOMAIN t.bucket, t.bucket[a].hash % r = t.bucket[c].hash % r
        PROVE  a = c
    <3>1. CASE a \in DOMAIN s.bucket /\ c \in DOMAIN s.bucket
      BY <1>4, <1>5, <2>5, <3>1 DEF ByResidue
    <3>2. CASE a \in DOMAIN s.bucket /\ c = b
      BY <1>5, <2>1, <2>4, <2>5, <3>2
    <3>3. CASE a = b /\ c \in DOMAIN s.bucket
      BY <1>5, <2>1, <2>4, <2>5, <3>3
    <3> QED BY <1>5, <3>1, <3>2, <3>3
  <2> QED BY <1>7, <2>3, <2>4, <2>5 DEF r
<1>9. CASE InFirstHit(s, t, n, e, b, i)
  <2>1. b \in DOMAIN s.bucket /\ h % r = s.bucket[b].hash % r /\ t.bcap = s.bcap
    BY <1>3, <1>9 DEF InFirstHit
  <2>2. DOMAIN t.bucket = DOMAIN s.bucket /\ h % r = t.bucket[b].hash % r
    BY <1>5, <2>1
  <2>3. ASSUME NEW a \in DOMAIN t.bucket, NEW c \in DOMAIN t.bucket, t.bucket[a].hash % r = t.bucket[c].hash % r
        PROVE  a = c
    BY <1>4, <1>5, <2>2, <2>3 DEF ByResidue
  <2> QED BY <1>7, <2>1, <2>2, <2>3 DEF r
<1> QED BY <1>8, <1>9 DEF Distributed

LEMMA GrownApart ==
  ASSUME NEW s, Data(s), KeysApart(s), NEW t, NEW b, NEW i, NEW e, Grown(s, t, b, i, e),
         \A x \in Elems(s) : x.key # e.key
  PROVE  KeysApart(t)
<1>1. \A a, x : Slot(s, a, x) => s.bucket[a].elem[x].key # e.key
  <2> TAKE a, x
  <2>1. Slot(s, a, x) => s.bucket[a].elem[x] \in Elems(s)
    BY ElemOf
  <2> QED BY <2>1
<1>2. /\ \A a, x : Slot(t, a, x) <=> Slot(s, a, x) \/ (a = b /\ x = i)
      /\ \A a, x : Slot(s, a, x) => t.bucket[a].elem[x] = s.bucket[a].elem[x]
      /\ t.bucket[b].elem[i] = e
  BY DEF Grown
<1> SUFFICES ASSUME NEW a, NEW x, NEW c, NEW y, Slot(t, a, x), Slot(t, c, y),
                    t.bucket[a].elem[x].key = t.bucket[c].elem[y].key
             PROVE  a = c /\ x = y
  BY DEF KeysApart
<1>3. CASE Slot(s, a, x) /\ Slot(s, c, y)
  <2>1. t.bucket[a].elem[x] = s.bucket[a].elem[x] /\ t.bucket[c].elem[y] = s.bucket[c].elem[y]
    BY <1>2, <1>3
  <2>2. s.bucket[a].elem[x].key = s.bucket[c].elem[y].key
    BY <2>1
  <2> QED BY <1>3, <2>2 DEF KeysApart
<1>4. CASE Slot(s, a, x) /\ c = b /\ y = i
  <2>1. t.bucket[a].elem[x] = s.bucket[a].elem[x] /\ t.bucket[c].elem[y] = e
    BY <1>2, <1>4
  <2>2. s.bucket[a].elem[x].key = e.key
    BY <2>1
  <2> QED BY <1>1, <1>4, <2>2
<1>5. CASE Slot(s, c, y) /\ a = b /\ x = i
  <2>1. t.bucket[c].elem[y] = s.bucket[c].elem[y] /\ t.bucket[a].elem[x] = e
    BY <1>2, <1>5
  <2>2. s.bucket[c].elem[y].key = e.key
    BY <2>1
  <2> QED BY <1>1, <1>5, <2>2
<1> QED BY <1>2, <1>3, <1>4, <1>5

-----------------------------------------------------------------------------
(* get_rehashed_data() and rehash() *)

LEMMA BucketRoomIs ==
  ASSUME NEW nb \in Nat, nb >= 1
  PROVE  BucketRoom(nb) \in Nat /\ BucketRoom(nb) >= 1
<1> DEFINE a == Preferred(nb) + 1
           q == a \div nb
<1>1. a \in Nat /\ a >= nb
  <2>1. CASE nb < 2
    BY <2>1 DEF Preferred
  <2>2. CASE ~ (nb < 2)
    <3>1. a = nb * nb - 1 + 1
      BY <2>2 DEF Preferred
    <3>2. nb * nb \in Nat /\ nb * nb >= nb
      BY <2>2
    <3> HIDE DEF a
    <3> QED BY <3>1, <3>2
  <2> QED BY <2>1, <2>2
<1> HIDE DEF a
<1>2. q \in Int /\ nb * q <= a /\ a < nb * (q + 1)
  BY <1>1
<1> HIDE DEF q
<1>3. q >= 1
  <2> SUFFICES ASSUME ~ (q >= 1) PROVE FALSE
    OBVIOUS
  <2>1. PICK d \in Nat : q + 1 = 1 - d
    <3>1. 0 - q \in Nat /\ q + 1 = 1 - (0 - q)
      BY <1>2
    <3> QED BY <3>1
  <2>2. nb * (q + 1) = nb - nb * d /\ nb * d \in Nat
    BY <2>1
  <2> QED BY <1>1, <1>2, <2>2
<1> QED BY <1>2, <1>3 DEF BucketRoom, a, q

LEMMA PlacesApart ==
  ASSUME NEW s, Data(s), KeysApart(s), NEW p \in Places(s), NEW q \in Places(s),
         ElementAt(s, p).key = ElementAt(s, q).key
  PROVE  p = q
<1>1. PICK a, i : Slot(s, a, i) /\ p = <<s.bucket[a].blk, i>> /\ ElementAt(s, p) = s.bucket[a].elem[i]
  BY PlaceIs
<1>2. PICK b, j : Slot(s, b, j) /\ q = <<s.bucket[b].blk, j>> /\ ElementAt(s, q) = s.bucket[b].elem[j]
  BY PlaceIs
<1>3. s.bucket[a].elem[i].key = s.bucket[b].elem[j].key
  BY <1>1, <1>2
<1>4. a = b /\ i = j
  BY <1>1, <1>2, <1>3 DEF KeysApart
<1> QED BY <1>1, <1>2, <1>4

LEMMA ElementIs ==
  ASSUME NEW s, Data(s), NEW p \in Places(s)
  PROVE  ElementAt(s, p) \in Pairs
<1>1. PICK a, i : Slot(s, a, i) /\ ElementAt(s, p) = s.bucket[a].elem[i]
  BY PlaceIs
<1> QED BY <1>1, Buckets DEF Data, Slot

RehashStep(s, ids, nb, f, k) ==
  IF k = 0 THEN [NoMap EXCEPT !.mem = s.mem, !.bcap = nb]
  ELSE Distribute(f[k - 1], ids, Size(s), BucketRoom(nb), ElementAt(s, Addresses(s)[k]))

LEMMA RehashExists ==
  ASSUME NEW s, NEW ids, NEW nb, NEW n \in Nat
  PROVE  \E f : f = [k \in 0 .. n |-> RehashStep(s, ids, nb, f, k)]
<1> DEFINE P(j) == \E f : f = [k \in 0 .. j |-> RehashStep(s, ids, nb, f, k)]
           S == {j \in Nat : P(j)}
<1>1. P(0)
  <2> DEFINE g == [k \in 0 .. 0 |-> RehashStep(s, ids, nb, <<>>, 0)]
  <2>1. g = [k \in 0 .. 0 |-> RehashStep(s, ids, nb, g, k)]
    BY DEF RehashStep
  <2> QED BY <2>1
<1>2. ASSUME NEW j \in Nat, P(j) PROVE P(j + 1)
  <2>1. PICK f : f = [k \in 0 .. j |-> RehashStep(s, ids, nb, f, k)]
    BY <1>2
  <2> DEFINE g == [k \in 0 .. j + 1 |-> IF k = j + 1 THEN RehashStep(s, ids, nb, f, j + 1) ELSE f[k]]
  <2>2. \A k \in 0 .. j + 1 : k # 0 => g[k - 1] = f[k - 1]
    OBVIOUS
  <2>3. \A k \in 0 .. j + 1 : RehashStep(s, ids, nb, g, k) = RehashStep(s, ids, nb, f, k)
    BY <2>2 DEF RehashStep
  <2>4. \A k \in 0 .. j : f[k] = RehashStep(s, ids, nb, f, k)
    BY <2>1
  <2>5. \A k \in 0 .. j + 1 : g[k] = RehashStep(s, ids, nb, g, k)
    BY <2>3, <2>4
  <2>6. g = [k \in 0 .. j + 1 |-> RehashStep(s, ids, nb, g, k)]
    BY <2>5
  <2> QED BY <2>6
<1> HIDE DEF P
<1>3. 0 \in S /\ \A j \in 0 .. n - 1 : j \in S => j + 1 \in S
  BY <1>1, <1>2
<1> HIDE DEF S
<1>4. n \in S
  BY <1>3, ByInduction
<1> QED BY <1>4 DEF S, P

RehashRun(s, busy, nb, f) ==
  /\ RehashedData(s, busy, nb) = f[Len(Addresses(s))]
  /\ f[0] = [NoMap EXCEPT !.mem = s.mem, !.bcap = nb]
  /\ \A k \in 1 .. Len(Addresses(s)) :
       f[k] = Distribute(f[k - 1], busy \cup Ids(s), Size(s), BucketRoom(nb), ElementAt(s, Addresses(s)[k]))

LEMMA RehashUnfold ==
  ASSUME NEW s, NEW busy, NEW nb, Len(Addresses(s)) \in Nat
  PROVE  \E f : RehashRun(s, busy, nb, f)
<1> DEFINE n == Len(Addresses(s))
           ids == busy \cup Ids(s)
           moved == CHOOSE f : f = [k \in 0 .. n |-> RehashStep(s, ids, nb, f, k)]
<1>1. RehashedData(s, busy, nb) = moved[n]
  BY DEF RehashedData, RehashStep
<1>2. moved = [k \in 0 .. n |-> RehashStep(s, ids, nb, moved, k)]
  BY RehashExists
<1> HIDE DEF moved
<1>3. \A k \in 0 .. n : moved[k] = RehashStep(s, ids, nb, moved, k)
  BY <1>2
<1>4. moved[0] = [NoMap EXCEPT !.mem = s.mem, !.bcap = nb]
  <2>0. 0 \in 0 .. n
    OBVIOUS
  <2> HIDE DEF n
  <2>1. moved[0] = RehashStep(s, ids, nb, moved, 0)
    BY <1>3, <2>0
  <2>2. RehashStep(s, ids, nb, moved, 0) = [NoMap EXCEPT !.mem = s.mem, !.bcap = nb]
    BY DEF RehashStep
  <2> QED BY <2>1, <2>2
<1>5. ASSUME NEW k \in 1 .. n
      PROVE  moved[k] = Distribute(moved[k - 1], ids, Size(s), BucketRoom(nb), ElementAt(s, Addresses(s)[k]))
  <2>1. k \in 0 .. n /\ k # 0
    OBVIOUS
  <2>2. moved[k] = RehashStep(s, ids, nb, moved, k)
    BY <1>3, <2>1
  <2> QED BY <2>1, <2>2 DEF RehashStep
<1>6. RehashRun(s, busy, nb, moved)
  BY <1>1, <1>4, <1>5 DEF RehashRun
<1> QED BY <1>6

\* A map without buckets.
LEMMA NoBuckets ==
  ASSUME NEW s \in MapType, s.bucket = <<>>
  PROVE  Data(s) /\ Places(s) = {} /\ Elems(s) = {} /\ \A r : ByResidue(s, r) /\ KeysApart(s)
<1>1. s.bcap \in Nat
  BY DEF MapType
<1>2. DOMAIN s.bucket = {} /\ Len(s.bucket) = 0
  OBVIOUS
<1>3. Data(s)
  BY <1>1, <1>2 DEF Data, Filled
<1>4. Places(s) = {}
  BY <1>2 DEF Places, Resident
<1>5. Elems(s) = {}
  BY <1>4 DEF Elems
<1>6. \A r : ByResidue(s, r) /\ KeysApart(s)
  BY <1>2 DEF ByResidue, KeysApart, Slot
<1> QED BY <1>3, <1>4, <1>5, <1>6

LEMMA EmptyIsData ==
  ASSUME NEW mem \in MemTypes, NEW cap \in Nat, NEW c \in ChainType
  PROVE  LET s == [mem |-> mem, bcap |-> cap, bucket |-> <<>>, chain |-> c]
         IN  Data(s) /\ Places(s) = {} /\ Elems(s) = {} /\ \A r : ByResidue(s, r) /\ KeysApart(s)
<1> DEFINE s == [mem |-> mem, bcap |-> cap, bucket |-> <<>>, chain |-> c]
<1>1. s \in MapType /\ s.bucket = <<>>
  BY DEF MapType
<1> HIDE DEF s
<1>2. Data(s) /\ Places(s) = {} /\ Elems(s) = {} /\ \A r : ByResidue(s, r) /\ KeysApart(s)
  BY <1>1, NoBuckets
<1> QED BY <1>2 DEF s

NoChainIs == NoChain \in ChainType
LEMMA NoChainOk == NoChainIs
BY EmptySeq DEF NoChainIs, NoChain, ChainType

\* u has the elements at the first k addresses of s.
Rebuilt(s, nb, u, k) ==
  /\ Data(u) /\ u.mem = s.mem /\ (k > 0 => u.bucket # <<>>) /\ u.bcap >= nb
  /\ Elems(u) = {ElementAt(s, Addresses(s)[j]) : j \in 1 .. k}
  /\ KeysApart(s) /\ nb = BucketSize(Size(s)) => ByResidue(u, nb) /\ KeysApart(u) /\ u.bcap = nb

LEMMA RebuiltStep ==
  ASSUME NEW s, Data(s), NEW nb \in Nat, nb >= 1, Size(s) \in Nat, NEW k \in Nat, k + 1 \in DOMAIN Addresses(s),
         NEW u, Rebuilt(s, nb, u, k), NEW ids, IsFiniteSet(ids)
  PROVE  Rebuilt(s, nb, Distribute(u, ids, Size(s), BucketRoom(nb), ElementAt(s, Addresses(s)[k + 1])), k + 1)
<1> DEFINE all == Addresses(s)
           e == ElementAt(s, all[k + 1])
           n == Size(s)
           room == BucketRoom(nb)
           t == Distribute(u, ids, n, room, e)
<1>1. /\ all \in Seq(Nat \X Nat) /\ IsInjective(all) /\ Len(all) \in Nat /\ DOMAIN all = 1 .. Len(all)
      /\ \A j \in DOMAIN all : all[j] \in Places(s)
  BY AddressesList DEF Range
<1>2. e \in Pairs
  BY <1>1, ElementIs
<1>3. room \in Nat /\ room >= 1
  BY BucketRoomIs
<1>4. Data(u) /\ u.mem = s.mem /\ u.bcap >= nb /\ Elems(u) = {ElementAt(s, all[j]) : j \in 1 .. k}
  BY DEF Rebuilt
<1> HIDE DEF e, room
<1>5. PICK b, i : Distributed(u, t, n, e, b, i)
  BY <1>2, <1>3, <1>4, DistributeIs
<1> HIDE DEF t, all, n
<1>6. Grown(u, t, b, i, e)
  BY <1>5 DEF Distributed
<1>7. Data(t) /\ t.mem = s.mem /\ t.bucket # <<>>
  BY <1>4, <1>6 DEF Grown
<1>8. Elems(t) = Elems(u) \cup {e}
  BY <1>4, <1>6, GrownElems
<1>9. Elems(t) = {ElementAt(s, all[j]) : j \in 1 .. k + 1}
  <2>1. 1 .. k + 1 = (1 .. k) \cup {k + 1}
    OBVIOUS
  <2>2. e = ElementAt(s, all[k + 1])
    BY DEF e
  <2> QED BY <1>4, <1>8, <2>1, <2>2
<1>10. t.bcap >= nb
  <2>1. t.bcap >= u.bcap /\ u.bcap \in Nat /\ t.bcap \in Nat
    BY <1>4, <1>5, <1>7 DEF Distributed, InNewBucket, InFirstHit, Data, MapType
  <2> QED BY <1>4, <2>1
<1>11. ASSUME KeysApart(s), nb = BucketSize(n) PROVE ByResidue(t, nb) /\ KeysApart(t) /\ t.bcap = nb
  <2>1. ByResidue(u, nb) /\ KeysApart(u) /\ u.bcap = nb
    BY <1>11 DEF Rebuilt, n
  <2>2. ByResidue(t, nb) /\ t.bcap = nb
    <3>1. n \in Nat /\ ByResidue(u, BucketSize(n)) /\ BucketSize(n) <= u.bcap
      BY <1>11, <2>1 DEF n
    <3>2. ByResidue(t, BucketSize(n)) /\ t.bcap = u.bcap
      BY <1>2, <1>4, <1>5, <3>1, GrownByResidue
    <3> QED BY <1>11, <2>1, <3>2
  <2>3. ASSUME NEW x \in Elems(u), x.key = e.key PROVE FALSE
    <3>1. PICK j \in 1 .. k : x = ElementAt(s, all[j])
      BY <1>4, <2>3
    <3>2. j \in DOMAIN all /\ k + 1 \in DOMAIN all /\ j # k + 1
      BY <1>1 DEF all
    <3>3. all[j] \in Places(s) /\ all[k + 1] \in Places(s) /\ ElementAt(s, all[j]).key = ElementAt(s, all[k + 1]).key
      BY <1>1, <2>3, <3>1, <3>2 DEF e
    <3>4. all[j] = all[k + 1]
      BY <1>11, <3>3, PlacesApart
    <3> QED BY <1>1, <3>2, <3>4 DEF IsInjective
  <2>4. KeysApart(t)
    BY <1>4, <1>6, <2>1, <2>3, GrownApart
  <2> QED BY <2>2, <2>4
<1>12. Rebuilt(s, nb, t, k + 1)
  BY <1>7, <1>9, <1>10, <1>11 DEF Rebuilt, all, n
<1> QED BY <1>12 DEF t, n, room, e, all

LEMMA RehashedDataIs ==
  ASSUME NEW s, Data(s), NEW nb \in Nat, nb >= 1, Size(s) \in Nat, NEW busy, IsFiniteSet(busy)
  PROVE  Rebuilt(s, nb, RehashedData(s, busy, nb), Len(Addresses(s)))
<1> DEFINE n == Len(Addresses(s))
           ids == busy \cup Ids(s)
<1>1. n \in Nat /\ DOMAIN Addresses(s) = 1 .. n
  BY AddressesList
<1>0. PICK f : RehashRun(s, busy, nb, f)
  <2>1. Len(Addresses(s)) \in Nat
    BY <1>1
  <2> QED BY <2>1, RehashUnfold
<1>2. /\ RehashedData(s, busy, nb) = f[n]
      /\ f[0] = [NoMap EXCEPT !.mem = s.mem, !.bcap = nb]
      /\ \A k \in 1 .. n :
           f[k] = Distribute(f[k - 1], ids, Size(s), BucketRoom(nb), ElementAt(s, Addresses(s)[k]))
  BY <1>0 DEF RehashRun
<1>3. IsFiniteSet(ids)
  BY IdsAreFinite, FS_Union DEF Data
<1> HIDE DEF ids
<1> DEFINE S == {k \in 0 .. n : Rebuilt(s, nb, f[k], k)}
<1>4. 0 \in S
  <2> DEFINE u == [mem |-> s.mem, bcap |-> nb, bucket |-> <<>>, chain |-> NoChain]
  <2>1. f[0] = u
    BY <1>2 DEF NoMap
  <2>2. s.mem \in MemTypes /\ NoChain \in ChainType
    BY NoChainOk DEF NoChainIs, Data, MapType
  <2>3. Data(u) /\ Elems(u) = {} /\ ByResidue(u, nb) /\ KeysApart(u)
    BY <2>2, EmptyIsData
  <2>4. u.mem = s.mem /\ u.bcap = nb
    OBVIOUS
  <2> HIDE DEF u
  <2>5. {ElementAt(s, Addresses(s)[j]) : j \in 1 .. 0} = {}
    OBVIOUS
  <2>6. Rebuilt(s, nb, u, 0)
    BY <2>3, <2>4, <2>5 DEF Rebuilt
  <2> QED BY <1>1, <2>1, <2>6
<1>5. ASSUME NEW j \in 0 .. n - 1, j \in S PROVE j + 1 \in S
  <2> DEFINE e == ElementAt(s, Addresses(s)[j + 1])
             room == BucketRoom(nb)
  <2>1. j \in Nat /\ j + 1 \in 1 .. n /\ j + 1 - 1 = j /\ j + 1 \in DOMAIN Addresses(s)
    BY <1>1
  <2>2. f[j + 1] = Distribute(f[j + 1 - 1], ids, Size(s), room, e)
    BY <1>2, <2>1
  <2>3. f[j + 1] = Distribute(f[j], ids, Size(s), room, e)
    BY <2>1, <2>2
  <2>4. Rebuilt(s, nb, f[j], j)
    BY <1>5
  <2>5. Rebuilt(s, nb, Distribute(f[j], ids, Size(s), room, e), j + 1)
    BY <1>3, <2>1, <2>4, RebuiltStep
  <2>6. Rebuilt(s, nb, f[j + 1], j + 1)
    BY <2>3, <2>5
  <2> QED BY <2>1, <2>6
<1>6. n \in S
  <2> HIDE DEF S, n
  <2>1. \A j \in 0 .. n : j \in S
    BY <1>1, <1>4, <1>5, ByInduction
  <2> QED BY <1>1, <2>1
<1> QED BY <1>2, <1>6

\* What is left of a map when only its elements matter.
SameElems(s, t) == t.mem = s.mem /\ Elems(t) = Elems(s)

LEMMA RehashedIs ==
  ASSUME NEW s, MapOk(s), NEW nb \in Nat, NEW busy, IsFiniteSet(busy)
  PROVE  LET t == Rehashed(s, busy, nb)
         IN  /\ MapOk(t) /\ SameElems(s, t) /\ t.bcap >= s.bcap
             /\ t = s \/ t.chain.gen \in Nat \ (busy \cup Ids(s))
             /\ KeysApart(s) /\ nb = BucketSize(Size(s)) /\ s.bcap > 0 /\ s.bcap < nb
                  => ByResidue(t, nb) /\ KeysApart(t) /\ t.bcap = nb
<1>1. CASE s.bcap = 0 \/ nb <= s.bcap
  <2>1. Rehashed(s, busy, nb) = s
    BY <1>1 DEF Rehashed
  <2>2. s.bcap \in Nat
    BY DEF MapOk, Data, MapType
  <2> QED BY <1>1, <2>1, <2>2 DEF SameElems
<1>2. CASE ~ (s.bcap = 0 \/ nb <= s.bcap)
  <2> DEFINE u == RehashedData(s, busy, nb)
             v == [u EXCEPT !.chain = s.chain]
             ids == busy \cup Ids(s)
             t == Listed(v, ids)
             all == Addresses(s)
  <2>1. Rehashed(s, busy, nb) = t
    BY <1>2 DEF Rehashed
  <2>2. Data(s) /\ s \in MapType /\ s.bcap \in Nat /\ s.chain \in ChainType /\ s.bcap > 0 /\ nb >= 1 /\ s.bcap < nb
    BY <1>2 DEF MapOk, Data, MapType
  <2>3. Size(s) \in Nat
    BY <2>2 DEF Size, ChainType
  <2>4. IsFiniteSet(ids)
    BY <2>2, IdsAreFinite, FS_Union
  <2>5. Rebuilt(s, nb, u, Len(all))
    BY <2>2, <2>3, RehashedDataIs
  <2> HIDE DEF u, ids, t
  <2>6. all \in Seq(Nat \X Nat) /\ Range(all) = Places(s)
    BY <2>2, AddressesList
  <2>7. Len(all) > 0
    <3>1. 1 \in DOMAIN s.bucket
      BY <2>2, Buckets DEF MapOk
    <3>2. Slot(s, 1, 1)
      BY <2>2, <3>1 DEF Data, Filled, Slot
    <3>3. Range(all) # {}
      BY <2>2, <2>6, <3>2, PlaceOf
    <3> HIDE DEF all
    <3> QED BY <2>6, <3>3 DEF Range
  <2>8. Elems(u) = Elems(s)
    <3>1. Elems(u) = {ElementAt(s, all[j]) : j \in 1 .. Len(all)}
      BY <2>5 DEF Rebuilt
    <3> HIDE DEF all
    <3>2. Places(s) = {all[j] : j \in 1 .. Len(all)}
      BY <2>6 DEF Range
    <3> QED BY <3>1, <3>2 DEF Elems
  <2> HIDE DEF all
  <2>9. Data(u) /\ u.mem = s.mem /\ u.bucket # <<>> /\ u.bcap >= nb /\ u \in MapType
    BY <2>5, <2>7 DEF Rebuilt, Data
  <2>10. v \in MapType /\ SameData(u, v)
    BY <2>2, <2>9 DEF MapType, SameData
  <2> HIDE DEF v
  <2>11. Data(v) /\ Elems(v) = Elems(u) /\ v.bucket # <<>>
    BY <2>9, <2>10, SameDataSamePlaces DEF SameData
  <2>12. Renewed(v, t, ids)
    BY <2>4, <2>11, ListedIsRenewed DEF t
  <2>13. SameData(v, t) /\ MapOk(t) /\ t.chain.gen \in Nat \ ids
    BY <2>12 DEF Renewed
  <2>14. Elems(t) = Elems(v)
    BY <2>13, SameDataSamePlaces
  <2>15. SameElems(s, t)
    BY <2>8, <2>9, <2>10, <2>11, <2>13, <2>14 DEF SameElems, SameData
  <2>16. t.bcap >= s.bcap
    <3>1. t.bcap = u.bcap /\ u.bcap \in Nat
      BY <2>9, <2>10, <2>13 DEF SameData, MapType
    <3> QED BY <2>2, <2>9, <3>1
  <2>17. ASSUME KeysApart(s), nb = BucketSize(Size(s))
         PROVE  ByResidue(t, nb) /\ KeysApart(t) /\ t.bcap = nb
    <3>1. ByResidue(u, nb) /\ KeysApart(u) /\ u.bcap = nb
      BY <2>5, <2>17 DEF Rebuilt
    <3>2. t.bucket = u.bucket /\ t.bcap = u.bcap
      BY <2>10, <2>13 DEF SameData
    <3> QED BY <3>1, <3>2 DEF ByResidue, KeysApart, Slot
  <2> QED BY <2>1, <2>13, <2>15, <2>16, <2>17 DEF ids
<1> QED BY <1>1, <1>2

-----------------------------------------------------------------------------
(* insert_impl() *)

\* An iterator that s gave out is one of t, too, at an element of the same
\* key; or t has another chain, of which nothing in use knows.
Follows(busy, s, t) ==
  \/ /\ t.chain.gen = s.chain.gen
     /\ \A p \in Places(s) : p \in Places(t) /\ ElementAt(t, p).key = ElementAt(s, p).key
  \/ t.chain.gen \in Nat \ busy

\* Buckets follow the size of the map.
Layout(s) ==
  /\ KeysApart(s)
  /\ s.bcap > 0 => s.bcap = BucketSize(Size(s)) /\ ByResidue(s, s.bcap)

\* What an insertion does: in general; and, before a rehash, to a map with
\* that layout.
Puts(s, t, busy, mt) == MapOk(t) /\ t.bcap > 0 /\ t.mem = mt /\ Follows(busy, s, t)
Others(s, e) == {x \in Elems(s) : x.key # e.key}
Settles(s, t, e) ==
  /\ KeysApart(t) /\ ByResidue(t, t.bcap) /\ t.bcap <= BucketSize(Size(t))
  /\ Elems(t) = Others(s, e) \cup {e}

LEMMA ElemsAreFinite ==
  ASSUME NEW s, MapOk(s), KeysApart(s)
  PROVE  IsFiniteSet(Elems(s)) /\ Cardinality(Elems(s)) = Size(s)
<1> DEFINE P == Places(s)
           T == Elems(s)
           f == [p \in P |-> ElementAt(s, p)]
<1>1. Data(s) /\ Lists(s) /\ s.chain.node \in Seq(Nat \X Nat)
  BY DEF MapOk, Data, MapType, ChainType
<1>2. IsFiniteSet(P) /\ Cardinality(P) = Size(s)
  <2>1. IsFiniteSet(Range(s.chain.node)) /\ Cardinality(Range(s.chain.node)) = Len(s.chain.node)
    BY <1>1, RangeIsFinite DEF Lists
  <2> QED BY <1>1, <2>1 DEF Lists, Size
<1>3. f \in [P -> T] /\ \A x \in T : \E p \in P : f[p] = x
  BY DEF Elems
<1>4. \A p, q \in P : f[p] = f[q] => p = q
  <2> TAKE p, q \in P
  <2>1. ASSUME f[p] = f[q] PROVE p = q
    <3>1. ElementAt(s, p).key = ElementAt(s, q).key
      BY <2>1
    <3> QED BY <1>1, <3>1, PlacesApart
  <2> QED BY <2>1
<1> HIDE DEF f, P, T
<1>5. f \in Surjection(P, T) /\ f \in Injection(P, T)
  BY <1>3, <1>4 DEF Surjection, Injection, IsInjective
<1>6. IsFiniteSet(T) /\ Cardinality(T) = Cardinality(P)
  BY <1>2, <1>5, FS_Surjection
<1> QED BY <1>2, <1>6 DEF T

LEMMA InsertedFirst ==
  ASSUME NEW s, MapOk(s), NEW busy, IsFiniteSet(busy), NEW mt \in MemTypes, NEW e \in Pairs,
         s.bcap = 0 \/ s.mem # mt
  PROVE  /\ Puts(s, Inserted(s, busy, mt, e), busy, mt)
         /\ s.bcap = 0 => Settles(s, Inserted(s, busy, mt, e), e)
<1> DEFINE ids == busy \cup Ids(s)
           nb == BucketSize(Size(s) + 1)
           base == [NoMap EXCEPT !.bcap = nb]
           u == AddBucket(base, ids, BucketRoom(nb), e)
           v == [u EXCEPT !.mem = mt, !.chain = s.chain]
           t == Listed(v, ids)
<1>2. Data(s) /\ s \in MapType /\ s.chain \in ChainType /\ Size(s) \in Nat /\ s.bcap \in Nat
  BY DEF MapOk, Data, MapType, Size, ChainType
<1>1. Inserted(s, busy, mt, e) = t
  <2>1. ~ (s.bcap > 0 /\ s.mem = mt)
    BY <1>2
  <2> QED BY <2>1 DEF Inserted
<1>3. nb \in Nat /\ nb >= 1 /\ Size(s) + 1 \in Nat
  BY <1>2, BucketSizeIs
<1>4. IsFiniteSet(ids)
  BY <1>2, IdsAreFinite, FS_Union
<1>5. BucketRoom(nb) \in Nat /\ BucketRoom(nb) >= 1
  BY <1>3, BucketRoomIs
<1> HIDE DEF ids
<1>6. Data(base) /\ Elems(base) = {} /\ KeysApart(base) /\ base.bucket = <<>> /\ base.bcap = nb /\ Len(base.bucket) = 0
  <2> DEFINE z == [mem |-> Default, bcap |-> nb, bucket |-> <<>>, chain |-> NoChain]
  <2>1. base = z
    BY DEF NoMap
  <2>2. Default \in MemTypes /\ NoChain \in ChainType
    BY NoChainOk, MapAssumption DEF NoChainIs
  <2>3. Data(z) /\ Elems(z) = {} /\ KeysApart(z)
    BY <1>3, <2>2, EmptyIsData
  <2>4. z.bucket = <<>> /\ z.bcap = nb
    OBVIOUS
  <2> HIDE DEF z
  <2>5. Len(z.bucket) = 0
    BY <2>4
  <2> QED BY <2>1, <2>3, <2>4, <2>5
<1> HIDE DEF base
<1>7. Grown(base, u, 1, 1, e) /\ u.bcap = nb /\ u.bucket[1].hash = Hash[e.key]
  <2>1. Len(base.bucket) + 1 = 1
    BY <1>6
  <2>2. /\ Grown(base, AddBucket(base, ids, BucketRoom(nb), e), Len(base.bucket) + 1, 1, e)
        /\ AddBucket(base, ids, BucketRoom(nb), e).bucket[Len(base.bucket) + 1].hash = Hash[e.key]
        /\ AddBucket(base, ids, BucketRoom(nb), e).bcap = IF Len(base.bucket) = base.bcap THEN base.bcap + 2 ELSE base.bcap
    BY <1>4, <1>5, <1>6, AddBucketGrows
  <2> QED BY <1>3, <1>6, <2>1, <2>2
<1> HIDE DEF u, t, nb
<1>8. Data(u) /\ u \in MapType /\ u.bucket # <<>> /\ DOMAIN u.bucket = {1} /\ Elems(u) = {e}
  <2>1. Elems(u) = Elems(base) \cup {e}
    BY <1>6, <1>7, GrownElems
  <2>2. Data(u) /\ u.bucket # <<>> /\ DOMAIN u.bucket = DOMAIN base.bucket \cup {1}
    BY <1>7 DEF Grown
  <2> QED BY <1>6, <2>1, <2>2 DEF Data
<1>9. v \in MapType /\ v.mem = mt /\ v.bcap = u.bcap /\ v.bucket = u.bucket
  BY <1>2, <1>8 DEF MapType
<1>10. Data(v) /\ Elems(v) = {e} /\ v.bucket # <<>>
  <2> DEFINE w == [u EXCEPT !.chain = s.chain]
  <2>1. SameData(u, w) /\ w \in MapType
    BY <1>2, <1>8 DEF MapType, SameData
  <2>2. Elems(w) = {e} /\ w.bucket = u.bucket
    BY <1>8, <2>1, SameDataSamePlaces DEF SameData
  <2> HIDE DEF w, v
  <2>3. Elems(v) = Elems(w)
    BY <1>9, <2>2 DEF Elems, Places, Resident, ElementAt
  <2> QED BY <1>8, <1>9, <2>2, <2>3 DEF Data, Filled
<1> HIDE DEF v
<1>11. SameData(v, t) /\ MapOk(t) /\ t.chain.gen \in Nat \ ids
  BY <1>4, <1>10, ListedIsRenewed DEF t, Renewed
<1>12. Puts(s, t, busy, mt)
  <2>1. t.bcap = nb /\ t.mem = mt
    BY <1>7, <1>9, <1>11 DEF SameData
  <2>2. Follows(busy, s, t)
    BY <1>11 DEF Follows, ids
  <2> QED BY <1>3, <1>11, <2>1, <2>2 DEF Puts, nb
<1>13. ASSUME s.bcap = 0 PROVE Settles(s, t, e)
  <2>1. Elems(s) = {}
    <3>1. DOMAIN s.bucket = {}
      BY <1>2, <1>13, Buckets DEF Data, Filled
    <3> QED BY <3>1 DEF Elems, Places, Resident
  <2>2. Elems(t) = {e}
    BY <1>10, <1>11, SameDataSamePlaces
  <2>3. Elems(t) = Others(s, e) \cup {e}
    BY <2>1, <2>2 DEF Others
  <2>4. t.bucket = u.bucket /\ t.bcap = nb
    BY <1>7, <1>9, <1>11 DEF SameData
  <2>5. \A a, x : Slot(u, a, x) => a = 1 /\ x = 1 /\ u.bucket[a].elem[x] = e
    BY <1>6, <1>7 DEF Grown, Slot
  <2>6. KeysApart(u)
    BY <2>5 DEF KeysApart
  <2>7. ByResidue(u, nb)
    BY <1>7, <1>8, <2>5 DEF ByResidue
  <2>8. KeysApart(t) /\ ByResidue(t, t.bcap)
    BY <2>4, <2>6, <2>7 DEF KeysApart, ByResidue, Slot
  <2>9. Size(t) = 1
    <3>1. Size(t) = Cardinality(Elems(t))
      BY <1>11, <2>8, ElemsAreFinite
    <3> QED BY <2>2, <3>1, FS_Singleton
  <2>10. Size(s) = 0
    <3>1. Range(s.chain.node) = {}
      <4>1. DOMAIN s.bucket = {}
        BY <1>2, <1>13, Buckets DEF Data, Filled
      <4>2. Places(s) = {}
        BY <4>1 DEF Places, Resident
      <4> QED BY <4>2 DEF MapOk, Lists
    <3>2. s.chain.node \in Seq(Nat \X Nat)
      BY <1>2 DEF ChainType
    <3>3. Len(s.chain.node) \in Nat /\ DOMAIN s.chain.node = 1 .. Len(s.chain.node)
      BY <3>2
    <3>4. \A i \in DOMAIN s.chain.node : FALSE
      BY <3>1 DEF Range
    <3>5. ~ (1 \in 1 .. Len(s.chain.node))
      BY <3>3, <3>4
    <3>6. Len(s.chain.node) = 0
      BY <3>3, <3>5
    <3> QED BY <3>6 DEF Size
  <2>11. t.bcap <= BucketSize(Size(t))
    <3>1. nb = BucketSize(1)
      <4>1. Size(s) + 1 = 1
        BY <2>10
      <4> QED BY <4>1 DEF nb
    <3>2. t.bcap = BucketSize(Size(t)) /\ t.bcap \in Nat
      BY <1>3, <2>4, <2>9, <3>1
    <3> QED BY <3>2
  <2> QED BY <2>3, <2>8, <2>11 DEF Settles
<1> QED BY <1>1, <1>12, <1>13

\* The element of a key that is there is replaced.
Hit(s, e, b, i) == Slot(s, b, i) /\ s.bucket[b].elem[i].key = e.key
Replaced(s, t, b, i, e) ==
  /\ t.chain = s.chain /\ t.mem = s.mem /\ t.bcap = s.bcap /\ Data(t) /\ t.bucket # <<>>
  /\ DOMAIN t.bucket = DOMAIN s.bucket
  /\ \A a \in DOMAIN s.bucket : t.bucket[a].hash = s.bucket[a].hash /\ t.bucket[a].blk = s.bucket[a].blk
  /\ \A a, x : Slot(t, a, x) <=> Slot(s, a, x)
  /\ t.bucket[b].elem[i] = e
  /\ \A a, x : Slot(s, a, x) /\ ~(a = b /\ x = i) => t.bucket[a].elem[x] = s.bucket[a].elem[x]

LEMMA ReplaceIs ==
  ASSUME NEW s, Data(s), NEW b, NEW i, Slot(s, b, i), NEW e \in Pairs
  PROVE  Replaced(s, [s EXCEPT !.bucket[b].elem[i] = e], b, i, e)
<1> DEFINE t == [s EXCEPT !.bucket[b].elem[i] = e]
           q == s.bucket[b]
           elem == [q.elem EXCEPT ![i] = e]
           nb == [q EXCEPT !.elem = elem]
<1>1. /\ s \in MapType /\ s.bucket \in Seq(Bucket) /\ b \in DOMAIN s.bucket /\ q \in Bucket
      /\ q.elem \in Seq(Pairs) /\ Len(q.elem) \in Nat /\ DOMAIN q.elem = 1 .. Len(q.elem) /\ i \in DOMAIN q.elem
      /\ Len(q.elem) \in 1 .. q.cap
  BY Buckets DEF Data, Slot, Filled
<1>2. t = [s EXCEPT !.bucket = [s.bucket EXCEPT ![b] = nb]]
  BY <1>1 DEF MapType, Bucket
<1> HIDE DEF t, q
<1>3. elem \in Seq(Pairs) /\ Len(elem) = Len(q.elem) /\ DOMAIN elem = DOMAIN q.elem /\ elem[i] = e
      /\ \A x \in DOMAIN q.elem : x # i => elem[x] = q.elem[x]
  <2> DEFINE d == q.elem
  <2>1. d \in [1 .. Len(d) -> Pairs] /\ Len(d) \in Nat /\ i \in 1 .. Len(d) /\ DOMAIN d = 1 .. Len(d)
    BY <1>1
  <2> HIDE DEF d
  <2>2. [d EXCEPT ![i] = e] \in [1 .. Len(d) -> Pairs]
    BY <2>1
  <2>3. [d EXCEPT ![i] = e] \in Seq(Pairs) /\ Len([d EXCEPT ![i] = e]) = Len(d)
    BY <2>1, <2>2, IsSequence
  <2>4. elem = [d EXCEPT ![i] = e]
    BY DEF d
  <2>5. elem[i] = e /\ \A x \in DOMAIN d : x # i => elem[x] = d[x]
    BY <2>1, <2>4
  <2>6. DOMAIN elem = DOMAIN d
    BY <2>4
  <2> QED BY <2>3, <2>4, <2>5, <2>6 DEF d
<1> HIDE DEF elem
<1>4. nb \in Bucket /\ nb.hash = q.hash /\ nb.cap = q.cap /\ nb.elem = elem /\ nb.blk = q.blk
  BY <1>1, <1>3 DEF Bucket
<1> HIDE DEF nb
<1>5. Sound(nb)
  BY <1>1, <1>3, <1>4 DEF Sound
<1>6. [s.bucket EXCEPT ![b] = nb] \in Seq(Bucket)
  <2>1. s.bucket \in [1 .. Len(s.bucket) -> Bucket] /\ Len(s.bucket) \in Nat
    BY <1>1
  <2>2. [s.bucket EXCEPT ![b] = nb] \in [1 .. Len(s.bucket) -> Bucket]
    BY <1>4, <2>1
  <2> QED BY <2>1, <2>2, IsSequence
<1>7. t \in MapType /\ t.mem = s.mem /\ t.chain = s.chain /\ t.bcap = s.bcap /\ t.bucket = [s.bucket EXCEPT ![b] = nb]
  BY <1>1, <1>2, <1>6 DEF MapType
<1>8. Changed(s, t, b, nb)
  BY <1>7 DEF Changed
<1>9. Data(t)
  BY <1>1, <1>4, <1>5, <1>7, <1>8, ChangedIsData DEF q
<1>10. /\ DOMAIN t.bucket = DOMAIN s.bucket /\ t.bucket # <<>>
       /\ t.bucket[b] = nb /\ \A a \in DOMAIN s.bucket : a # b => t.bucket[a] = s.bucket[a]
  <2>1. b \in DOMAIN s.bucket
    BY <1>1
  <2> QED BY <1>5, <1>8, <2>1, ChangedIs
<1>11. \A a \in DOMAIN s.bucket : t.bucket[a].hash = s.bucket[a].hash /\ t.bucket[a].blk = s.bucket[a].blk
  BY <1>4, <1>10 DEF q
<1>12. \A a, x : Slot(t, a, x) <=> Slot(s, a, x)
  <2> TAKE a, x
  <2>1. CASE a = b
    BY <1>1, <1>3, <1>4, <1>10, <2>1 DEF Slot, q
  <2>2. CASE a # b
    BY <1>10, <2>2 DEF Slot
  <2> QED BY <2>1, <2>2
<1>13. \A a, x : Slot(s, a, x) /\ ~(a = b /\ x = i) => t.bucket[a].elem[x] = s.bucket[a].elem[x]
  <2> SUFFICES ASSUME NEW a, NEW x, Slot(s, a, x), ~(a = b /\ x = i) PROVE t.bucket[a].elem[x] = s.bucket[a].elem[x]
    OBVIOUS
  <2>1. CASE a = b
    BY <1>3, <1>4, <1>10, <2>1 DEF Slot, q
  <2>2. CASE a # b
    BY <1>10, <2>2 DEF Slot
  <2> QED BY <2>1, <2>2
<1>14. t.bucket[b].elem[i] = e
  BY <1>3, <1>4, <1>10
<1>15. Replaced(s, t, b, i, e)
  BY <1>7, <1>9, <1>10, <1>11, <1>12, <1>13, <1>14 DEF Replaced
<1> QED BY <1>15 DEF t

LEMMA ReplacedPlaces ==
  ASSUME NEW s, Data(s), NEW t, NEW b, NEW i, NEW e, Slot(s, b, i), Replaced(s, t, b, i, e)
  PROVE  /\ Places(t) = Places(s)
         /\ s.bucket[b].elem[i].key = e.key =>
              \A p \in Places(s) : ElementAt(t, p).key = ElementAt(s, p).key
<1>1. Data(t)
  BY DEF Replaced
<1>2. ASSUME NEW p \in Places(t) PROVE p \in Places(s)
  <2>1. PICK a, x : Slot(t, a, x) /\ p = <<t.bucket[a].blk, x>>
    BY <1>1, <1>2, PlaceIs
  <2>2. Slot(s, a, x) /\ p = <<s.bucket[a].blk, x>>
    BY <2>1 DEF Replaced, Slot
  <2> QED BY <2>2, PlaceOf
<1>3. ASSUME NEW p \in Places(s)
      PROVE  p \in Places(t) /\ (s.bucket[b].elem[i].key = e.key => ElementAt(t, p).key = ElementAt(s, p).key)
  <2>1. PICK a, x : Slot(s, a, x) /\ p = <<s.bucket[a].blk, x>> /\ ElementAt(s, p) = s.bucket[a].elem[x]
    BY <1>3, PlaceIs
  <2>2. Slot(t, a, x) /\ p = <<t.bucket[a].blk, x>>
    BY <2>1 DEF Replaced, Slot
  <2>3. p \in Places(t) /\ ElementAt(t, p) = t.bucket[a].elem[x]
    BY <1>1, <2>2, PlaceOf
  <2>4. CASE a = b /\ x = i
    BY <2>1, <2>3, <2>4 DEF Replaced
  <2>5. CASE ~(a = b /\ x = i)
    BY <2>1, <2>3, <2>5 DEF Replaced
  <2> QED BY <2>3, <2>4, <2>5
<1> QED BY <1>2, <1>3

LEMMA ReplacedLayout ==
  ASSUME NEW s, Data(s), KeysApart(s), NEW r, ByResidue(s, r),
         NEW t, NEW b, NEW i, NEW e, Hit(s, e, b, i), Replaced(s, t, b, i, e)
  PROVE  KeysApart(t) /\ ByResidue(t, r) /\ Elems(t) = Others(s, e) \cup {e}
<1>1. Data(t) /\ Slot(s, b, i) /\ s.bucket[b].elem[i].key = e.key
  BY DEF Replaced, Hit
<1>2. \A a, x : Slot(t, a, x) <=> Slot(s, a, x)
  BY DEF Replaced
<1>3. \A a, x : Slot(s, a, x) => t.bucket[a].elem[x].key = s.bucket[a].elem[x].key
  <2> TAKE a, x
  <2>1. CASE a = b /\ x = i
    BY <1>1, <2>1 DEF Replaced
  <2>2. CASE ~(a = b /\ x = i)
    <3>1. Slot(s, a, x) => t.bucket[a].elem[x] = s.bucket[a].elem[x]
      BY <2>2 DEF Replaced
    <3> QED BY <3>1
  <2> QED BY <2>1, <2>2
<1>4. KeysApart(t)
  <2> SUFFICES ASSUME NEW a, NEW x, NEW c, NEW y, Slot(t, a, x), Slot(t, c, y),
                      t.bucket[a].elem[x].key = t.bucket[c].elem[y].key
               PROVE  a = c /\ x = y
    BY DEF KeysApart
  <2>1. Slot(s, a, x) /\ Slot(s, c, y)
    BY <1>2
  <2>2. s.bucket[a].elem[x].key = s.bucket[c].elem[y].key
    BY <1>3, <2>1
  <2> QED BY <2>1, <2>2 DEF KeysApart
<1>5. ByResidue(t, r)
  <2>1. DOMAIN t.bucket = DOMAIN s.bucket /\ \A a \in DOMAIN s.bucket : t.bucket[a].hash = s.bucket[a].hash
    BY DEF Replaced
  <2>2. ASSUME NEW a, NEW x, Slot(t, a, x)
        PROVE  Hash[t.bucket[a].elem[x].key] % r = t.bucket[a].hash % r
    <3>1. Slot(s, a, x) /\ t.bucket[a].elem[x].key = s.bucket[a].elem[x].key /\ t.bucket[a].hash = s.bucket[a].hash
      BY <1>2, <1>3, <2>1, <2>2 DEF Slot
    <3>2. Hash[s.bucket[a].elem[x].key] % r = s.bucket[a].hash % r
      BY <3>1 DEF ByResidue
    <3> QED BY <3>1, <3>2
  <2>3. \A a, c \in DOMAIN t.bucket : t.bucket[a].hash % r = t.bucket[c].hash % r => a = c
    BY <2>1 DEF ByResidue
  <2> QED BY <2>2, <2>3 DEF ByResidue
<1>6. ASSUME NEW z \in Elems(t) PROVE z \in Others(s, e) \/ z = e
  <2>1. PICK a, x : Slot(t, a, x) /\ z = t.bucket[a].elem[x]
    BY <1>1, <1>6, ElemOf
  <2>2. CASE a = b /\ x = i
    BY <2>1, <2>2 DEF Replaced
  <2>3. CASE ~(a = b /\ x = i)
    <3>1. Slot(s, a, x) /\ z = s.bucket[a].elem[x]
      BY <1>2, <2>1, <2>3 DEF Replaced
    <3>2. z.key # e.key
      BY <1>1, <2>3, <3>1 DEF KeysApart
    <3> QED BY <3>1, <3>2, ElemOf DEF Others
  <2> QED BY <2>2, <2>3
<1>7. ASSUME NEW z \in Others(s, e) PROVE z \in Elems(t)
  <2>1. z \in Elems(s) /\ z.key # e.key
    BY <1>7 DEF Others
  <2>2. PICK a, x : Slot(s, a, x) /\ z = s.bucket[a].elem[x]
    BY <2>1, ElemOf
  <2>3. ~(a = b /\ x = i)
    BY <1>1, <2>1, <2>2
  <2>4. Slot(t, a, x) /\ z = t.bucket[a].elem[x]
    BY <1>2, <2>2, <2>3 DEF Replaced
  <2> QED BY <1>1, <2>4, ElemOf
<1>8. e \in Elems(t)
  <2>1. Slot(t, b, i) /\ e = t.bucket[b].elem[i]
    BY <1>1, <1>2 DEF Replaced
  <2> QED BY <1>1, <2>1, ElemOf
<1> QED BY <1>4, <1>5, <1>6, <1>7, <1>8

LEMMA InsertedOver ==
  ASSUME NEW s, MapOk(s), NEW busy, s.bcap > 0, NEW e \in Pairs, NEW b, NEW i, Hit(s, e, b, i)
  PROVE  /\ Puts(s, [s EXCEPT !.bucket[b].elem[i] = e], busy, s.mem)
         /\ Layout(s) => Settles(s, [s EXCEPT !.bucket[b].elem[i] = e], e)
<1> DEFINE t == [s EXCEPT !.bucket[b].elem[i] = e]
<1>1. Data(s) /\ Lists(s) /\ Slot(s, b, i) /\ s.bucket[b].elem[i].key = e.key
  BY DEF MapOk, Hit
<1>2. Replaced(s, t, b, i, e)
  BY <1>1, ReplaceIs
<1> HIDE DEF t
<1>3. /\ Data(t) /\ t.chain = s.chain /\ t.mem = s.mem /\ t.bcap = s.bcap /\ t.bucket # <<>>
      /\ Places(t) = Places(s) /\ \A p \in Places(s) : ElementAt(t, p).key = ElementAt(s, p).key
  BY <1>1, <1>2, ReplacedPlaces DEF Replaced
<1>4. Lists(t)
  BY <1>1, <1>3 DEF Lists, Size
<1>5. Puts(s, t, busy, s.mem)
  BY <1>3, <1>4 DEF Puts, MapOk, Follows
<1>6. ASSUME Layout(s) PROVE Settles(s, t, e)
  <2>1. KeysApart(s) /\ ByResidue(s, s.bcap) /\ s.bcap = BucketSize(Size(s))
    BY <1>6 DEF Layout
  <2>2. KeysApart(t) /\ ByResidue(t, s.bcap) /\ Elems(t) = Others(s, e) \cup {e}
    BY <1>1, <1>2, <2>1, ReplacedLayout
  <2>3. t.bcap = BucketSize(Size(t)) /\ t.bcap \in Nat
    BY <1>3, <2>1 DEF Size, Data, MapType
  <2> QED BY <1>3, <2>2, <2>3 DEF Settles
<1> QED BY <1>5, <1>6 DEF t

\* The chain gets a node for the element that was added.
LEMMA NodeAdded ==
  ASSUME NEW s, MapOk(s), s.bcap > 0, NEW u, Data(u), u.mem = s.mem, u.chain = s.chain, u.bucket # <<>>, NEW p, NEW e, Kept(s, u, p, e),
         Size(s) + 1 <= s.chain.room, NEW busy
  PROVE  LET t == [u EXCEPT !.chain.node = Append(@, p)]
         IN  SameData(u, t) /\ MapOk(t) /\ Follows(busy, s, t)
<1> DEFINE t == [u EXCEPT !.chain.node = Append(@, p)]
           node == s.chain.node
           w == Append(node, p)
           c == [gen |-> s.chain.gen, room |-> s.chain.room, node |-> w]
<1>1. /\ s \in MapType /\ u \in MapType /\ s.chain \in ChainType /\ node \in Seq(Nat \X Nat) /\ Len(node) \in Nat
      /\ DOMAIN node = 1 .. Len(node) /\ s.chain.room \in Nat /\ s.chain.gen \in Nat \cup {None}
  BY DEF MapOk, Data, MapType, ChainType
<1>2. p \in Nat \X Nat /\ p \notin Places(s) /\ Places(u) = Places(s) \cup {p}
      /\ \A q \in Places(s) : ElementAt(u, q) = ElementAt(s, q)
  BY DEF Kept
<1>3. IsInjective(node) /\ Range(node) = Places(s) /\ Len(node) + 1 <= s.chain.room
  BY DEF MapOk, Lists, Size
<1>4. t = [u EXCEPT !.chain = [s.chain EXCEPT !.node = w]]
  BY <1>1 DEF MapType
<1> HIDE DEF node
<1>5. /\ w \in Seq(Nat \X Nat) /\ Len(w) = Len(node) + 1 /\ DOMAIN w = 1 .. Len(node) + 1
      /\ w[Len(node) + 1] = p /\ \A x \in 1 .. Len(node) : w[x] = node[x]
  BY <1>1, <1>2, AppendProperties
<1> HIDE DEF w, t
<1>6. Range(w) = Range(node) \cup {p}
  <2>1. 1 .. Len(node) + 1 = (1 .. Len(node)) \cup {Len(node) + 1}
    BY <1>1
  <2>2. Range(node) = {node[x] : x \in 1 .. Len(node)} /\ Range(w) = {w[x] : x \in 1 .. Len(node) + 1}
    BY <1>1, <1>5 DEF Range
  <2>3. {w[x] : x \in 1 .. Len(node) + 1} = {w[x] : x \in 1 .. Len(node)} \cup {w[Len(node) + 1]}
    BY <2>1
  <2>4. {w[x] : x \in 1 .. Len(node)} = {node[x] : x \in 1 .. Len(node)}
    BY <1>5
  <2> QED BY <1>5, <2>2, <2>3, <2>4
<1>7. IsInjective(w)
  <2> SUFFICES ASSUME NEW x \in DOMAIN w, NEW y \in DOMAIN w, w[x] = w[y] PROVE x = y
    BY DEF IsInjective
  <2>1. \A z \in 1 .. Len(node) : w[z] # p
    <3> TAKE z \in 1 .. Len(node)
    <3>1. node[z] \in Range(node)
      BY <1>1 DEF Range
    <3> QED BY <1>2, <1>3, <1>5, <3>1
  <2>2. CASE x \in 1 .. Len(node) /\ y \in 1 .. Len(node)
    BY <1>1, <1>3, <1>5, <2>2 DEF IsInjective
  <2>3. \A z \in DOMAIN w : z \in 1 .. Len(node) \/ z = Len(node) + 1
    BY <1>1, <1>5
  <2> QED BY <1>5, <2>1, <2>2, <2>3
<1>8. [s.chain EXCEPT !.node = w] \in ChainType
  BY <1>1, <1>5 DEF ChainType
<1>9. t \in MapType /\ SameData(u, t) /\ t.chain.node = w /\ t.chain.gen = s.chain.gen /\ t.chain.room = s.chain.room
  BY <1>1, <1>4, <1>8 DEF MapType, SameData, ChainType
<1>10. Data(t) /\ Places(t) = Places(u) /\ \A q : ElementAt(t, q) = ElementAt(u, q)
  BY <1>9, SameDataSamePlaces
<1>11. Lists(t)
  BY <1>2, <1>3, <1>5, <1>6, <1>7, <1>9, <1>10 DEF Lists, Size
<1>12. MapOk(t)
  BY <1>9, <1>10, <1>11 DEF MapOk, SameData
<1>13. Follows(busy, s, t)
  BY <1>2, <1>9, <1>10 DEF Follows
<1> QED BY <1>9, <1>12, <1>13 DEF t

\* No element of a key is where a search looks for it, so there is none.
Missing(s, e) ==
  LET hits == Hits(s, Size(s), e.key)
  IN  hits # {} => \A x \in DOMAIN s.bucket[First(hits)].elem : s.bucket[First(hits)].elem[x].key # e.key

LEMMA MissingIsNew ==
  ASSUME NEW s, Data(s), s.bcap > 0, Layout(s), NEW e \in Pairs, Missing(s, e)
  PROVE  \A x \in Elems(s) : x.key # e.key
<1> SUFFICES ASSUME NEW x \in Elems(s), x.key = e.key PROVE FALSE
  OBVIOUS
<1> DEFINE r == BucketSize(Size(s))
           hits == Hits(s, Size(s), e.key)
<1>1. ByResidue(s, r)
  BY DEF Layout
<1>2. hits = {a \in DOMAIN s.bucket : Hash[e.key] % r = s.bucket[a].hash % r}
  BY DEF Hits, Congruent
<1> HIDE DEF r
<1>3. PICK a, i : Slot(s, a, i) /\ x = s.bucket[a].elem[i]
  BY ElemOf
<1>4. Hash[x.key] % r = s.bucket[a].hash % r
  BY <1>1, <1>3 DEF ByResidue
<1>5. a \in hits
  BY <1>2, <1>3, <1>4 DEF Slot
<1>6. First(hits) \in hits
  BY <1>5, HitsAre
<1>7. First(hits) = a
  BY <1>1, <1>2, <1>5, <1>6 DEF ByResidue
<1>8. hits # {} => \A y \in DOMAIN s.bucket[First(hits)].elem : s.bucket[First(hits)].elem[y].key # e.key
  BY DEF Missing
<1> HIDE DEF hits
<1> QED BY <1>3, <1>5, <1>7, <1>8 DEF Slot

\* The last part of insert_impl.
Place(s, u, e) ==
  LET hits == Hits(s, Size(s), e.key)
      b == First(hits)
  IN  IF hits = {} THEN <<u.bucket[Len(u.bucket)].blk, 1>> ELSE <<u.bucket[b].blk, Len(u.bucket[b].elem)>>
MovedOut(s, e) ==
  LET hits == Hits(s, Size(s), e.key)
  IN  hits # {} /\ Len(s.bucket[First(hits)].elem) = s.bucket[First(hits)].cap
Added(s, u, busy, e) ==
  IF Size(s) + 1 > s.chain.room \/ MovedOut(s, e) THEN Listed(u, busy)
  ELSE [u EXCEPT !.chain.node = Append(@, Place(s, u, e))]

LEMMA PlaceIsSlot ==
  ASSUME NEW s, Data(s), NEW u, NEW e, NEW b, NEW i, Distributed(s, u, Size(s), e, b, i)
  PROVE  Place(s, u, e) = <<u.bucket[b].blk, i>>
<1>1. Grown(s, u, b, i, e) /\ Data(u)
  BY DEF Distributed, Grown
<1>2. CASE InNewBucket(s, u, Size(s), e, b, i)
  <2>1. Len(u.bucket) = b
    <3> DEFINE l == Len(s.bucket)
               k == Len(u.bucket)
    <3>1. b = l + 1 /\ l \in Nat /\ k \in Nat /\ DOMAIN s.bucket = 1 .. l /\ DOMAIN u.bucket = 1 .. k
      BY <1>1, <1>2, Buckets DEF InNewBucket, Data
    <3>2. DOMAIN u.bucket = DOMAIN s.bucket \cup {b}
      BY <1>1 DEF Grown
    <3> HIDE DEF l, k
    <3>3. \A x : x \in 1 .. k <=> x \in 1 .. l \/ x = l + 1
      BY <3>1, <3>2
    <3>4. k = l + 1
      <4>1. l + 1 \in 1 .. k
        BY <3>3
      <4>2. k \in 1 .. l \/ k = l + 1
        BY <3>1, <3>3, <4>1
      <4> QED BY <3>1, <4>1, <4>2
    <3> QED BY <3>1, <3>4 DEF k
  <2> QED BY <1>2, <2>1 DEF InNewBucket, Place
<1>3. CASE InFirstHit(s, u, Size(s), e, b, i)
  <2>1. Len(u.bucket[b].elem) = i
    <3> DEFINE l == Len(s.bucket[b].elem)
               k == Len(u.bucket[b].elem)
    <3>1. b \in DOMAIN s.bucket
      BY <1>3, HitsAre DEF InFirstHit
    <3>2. b \in DOMAIN u.bucket
      BY <1>1, <3>1 DEF Grown
    <3>3. /\ i = l + 1 /\ l \in Nat /\ k \in Nat
          /\ DOMAIN s.bucket[b].elem = 1 .. l /\ DOMAIN u.bucket[b].elem = 1 .. k
      BY <1>1, <1>3, <3>1, <3>2, Buckets DEF InFirstHit, Data
    <3>4. \A x : Slot(u, b, x) <=> Slot(s, b, x) \/ x = i
      BY <1>1 DEF Grown
    <3> HIDE DEF l, k
    <3>5. \A x : x \in 1 .. k <=> x \in 1 .. l \/ x = i
      BY <3>1, <3>2, <3>3, <3>4 DEF Slot
    <3>6. k = l + 1
      <4>1. l + 1 \in 1 .. k
        BY <3>3, <3>5
      <4>2. k \in 1 .. l \/ k = l + 1
        BY <3>3, <3>5, <4>1
      <4> QED BY <3>3, <4>1, <4>2
    <3> QED BY <3>3, <3>6 DEF k
  <2> QED BY <1>3, <2>1 DEF InFirstHit, Place
<1> QED BY <1>2, <1>3 DEF Distributed

LEMMA AddedIs ==
  ASSUME NEW s, MapOk(s), NEW busy, IsFiniteSet(busy), s.bcap > 0, NEW e \in Pairs, NEW u, NEW b, NEW i,
         Distributed(s, u, Size(s), e, b, i)
  PROVE  /\ SameData(u, Added(s, u, busy, e)) /\ MapOk(Added(s, u, busy, e))
         /\ Follows(busy, s, Added(s, u, busy, e))
<1>1. Data(s) /\ Grown(s, u, b, i, e) /\ Data(u) /\ u.mem = s.mem /\ u.chain = s.chain /\ u.bucket # <<>>
  BY DEF Distributed, Grown, MapOk
<1>2. CASE Size(s) + 1 > s.chain.room \/ MovedOut(s, e)
  <2>1. Added(s, u, busy, e) = Listed(u, busy)
    BY <1>2 DEF Added
  <2>2. Renewed(u, Listed(u, busy), busy)
    BY <1>1, ListedIsRenewed
  <2> QED BY <2>1, <2>2 DEF Renewed, Follows
<1>3. CASE ~(Size(s) + 1 > s.chain.room \/ MovedOut(s, e))
  <2> DEFINE p == <<u.bucket[b].blk, i>>
             t == [u EXCEPT !.chain.node = Append(@, p)]
  <2>0. Place(s, u, e) = p
    BY <1>1, PlaceIsSlot
  <2>1. Added(s, u, busy, e) = t
    BY <1>3, <2>0 DEF Added
  <2>2. SameBlocks(s, u)
    BY <1>3 DEF Distributed, InNewBucket, InFirstHit, MovedOut
  <2>3. Kept(s, u, p, e)
    BY <1>1, <2>2, GrownKeeps
  <2>4. Size(s) + 1 <= s.chain.room
    BY <1>1, <1>3 DEF Size, Data, MapType, ChainType
  <2> HIDE DEF p
  <2>5. SameData(u, t) /\ MapOk(t) /\ Follows(busy, s, t)
    BY <1>1, <2>3, <2>4, NodeAdded
  <2> QED BY <2>1, <2>5
<1> QED BY <1>2, <1>3

LEMMA InsertedAnew ==
  ASSUME NEW s, MapOk(s), NEW busy, IsFiniteSet(busy), s.bcap > 0, NEW e \in Pairs, Missing(s, e)
  PROVE  LET t == Added(s, Distribute(s, busy, Size(s), BucketRoom(s.bcap), e), busy, e)
         IN  Puts(s, t, busy, s.mem) /\ (Layout(s) => Settles(s, t, e))
<1> DEFINE n == Size(s)
           u == Distribute(s, busy, n, BucketRoom(s.bcap), e)
           t == Added(s, u, busy, e)
<1>1. Data(s) /\ s.bcap \in Nat /\ s.bcap >= 1 /\ n \in Nat
  BY DEF MapOk, Data, MapType, Size, ChainType
<1>2. BucketRoom(s.bcap) \in Nat /\ BucketRoom(s.bcap) >= 1
  BY <1>1, BucketRoomIs
<1>3. PICK b, i : Distributed(s, u, n, e, b, i)
  BY <1>1, <1>2, DistributeIs
<1> HIDE DEF u
<1>4. SameData(u, t) /\ MapOk(t) /\ Follows(busy, s, t)
  BY <1>3, AddedIs
<1> HIDE DEF t
<1>5. Grown(s, u, b, i, e) /\ Data(u) /\ u.mem = s.mem
  BY <1>3 DEF Distributed, Grown
<1>6. u.bcap >= s.bcap
  <2>1. u.bcap = s.bcap \/ u.bcap = s.bcap + 2
    BY <1>3 DEF Distributed, InNewBucket, InFirstHit
  <2> QED BY <1>1, <2>1
<1>7. Puts(s, t, busy, s.mem)
  <2>1. t.bcap = u.bcap /\ t.mem = u.mem /\ u.bcap \in Nat
    BY <1>4, <1>5 DEF SameData, Data, MapType
  <2> QED BY <1>1, <1>4, <1>5, <1>6, <2>1 DEF Puts
<1>8. ASSUME Layout(s) PROVE Settles(s, t, e)
  <2>1. KeysApart(s) /\ s.bcap = BucketSize(n) /\ ByResidue(s, BucketSize(n)) /\ BucketSize(n) <= s.bcap
    BY <1>1, <1>8 DEF Layout
  <2>2. ByResidue(u, BucketSize(n)) /\ u.bcap = s.bcap
    BY <1>1, <1>3, <2>1, GrownByResidue
  <2>3. \A x \in Elems(s) : x.key # e.key
    BY <1>1, <1>8, MissingIsNew
  <2>4. KeysApart(u)
    BY <1>1, <1>5, <2>1, <2>3, GrownApart
  <2>5. Elems(u) = Elems(s) \cup {e}
    BY <1>1, <1>5, GrownElems
  <2>6. t.bucket = u.bucket /\ t.bcap = u.bcap /\ Elems(t) = Elems(u)
    BY <1>4, SameDataSamePlaces DEF SameData
  <2>7. KeysApart(t) /\ ByResidue(t, t.bcap)
    BY <2>1, <2>2, <2>4, <2>6 DEF KeysApart, ByResidue, Slot
  <2>8. Others(s, e) = Elems(s)
    BY <2>3 DEF Others
  <2>9. n <= Size(t) /\ Size(t) \in Nat
    <3>1. Size(t) = Cardinality(Elems(t)) /\ IsFiniteSet(Elems(t))
      BY <1>4, <2>7, ElemsAreFinite
    <3>2. n = Cardinality(Elems(s))
      BY <2>1, ElemsAreFinite
    <3>3. Elems(s) \in SUBSET Elems(t)
      BY <2>5, <2>6
    <3>4. Cardinality(Elems(s)) <= Cardinality(Elems(t)) /\ Cardinality(Elems(t)) \in Nat
      BY <3>1, <3>3, FS_Subset, FS_CardinalityType
    <3> QED BY <3>1, <3>2, <3>4
  <2>10. t.bcap <= BucketSize(Size(t))
    <3>1. BucketSize(n) <= BucketSize(Size(t))
      BY <1>1, <2>9, BucketSizeGrows
    <3>2. t.bcap = BucketSize(n)
      BY <2>1, <2>2, <2>6
    <3> HIDE DEF n
    <3> QED BY <3>1, <3>2
  <2> QED BY <2>5, <2>6, <2>7, <2>8, <2>10 DEF Settles
<1> QED BY <1>7, <1>8 DEF t, u

Overwritten(s, e) ==
  LET b == First(Hits(s, Size(s), e.key))
      i == First({x \in DOMAIN s.bucket[b].elem : s.bucket[b].elem[x].key = e.key})
  IN  [s EXCEPT !.bucket[b].elem[i] = e]

LEMMA InsertedCases ==
  ASSUME NEW s, s.bcap \in Nat, s.bcap > 0, NEW busy, NEW e
  PROVE  /\ ~Missing(s, e) => Inserted(s, busy, s.mem, e) = Overwritten(s, e)
         /\ Missing(s, e) => Inserted(s, busy, s.mem, e)
                               = Added(s, Distribute(s, busy, Size(s), BucketRoom(s.bcap), e), busy, e)
<1> DEFINE hits == Hits(s, Size(s), e.key)
           b == First(hits)
           i == First({x \in DOMAIN s.bucket[b].elem : s.bucket[b].elem[x].key = e.key})
           there == hits # {} /\ \E x \in DOMAIN s.bucket[b].elem : s.bucket[b].elem[x].key = e.key
           u == Distribute(s, busy, Size(s), BucketRoom(s.bcap), e)
<1>1. Missing(s, e) <=> ~there
  BY DEF Missing
<1>4. ~(s.bcap = 0 \/ s.mem # s.mem) /\ s.bcap > 0 /\ s.mem = s.mem
  OBVIOUS
<1>2. ASSUME there PROVE Inserted(s, busy, s.mem, e) = Overwritten(s, e)
  BY <1>2, <1>4, Zenon DEF Inserted, Overwritten
<1>3. ASSUME ~there PROVE Inserted(s, busy, s.mem, e) = Added(s, u, busy, e)
  BY <1>3, <1>4, Zenon DEF Inserted, Added, Place, MovedOut
<1> QED BY <1>1, <1>2, <1>3

LEMMA InsertedIs ==
  ASSUME NEW s, MapOk(s), NEW busy, IsFiniteSet(busy), NEW mt \in MemTypes, NEW e \in Pairs
  PROVE  /\ Puts(s, Inserted(s, busy, mt, e), busy, mt)
         /\ Layout(s) /\ (s.bcap = 0 \/ s.mem = mt) => Settles(s, Inserted(s, busy, mt, e), e)
<1>0. s.bcap \in Nat
  BY DEF MapOk, Data, MapType
<1>1. CASE s.bcap = 0 \/ s.mem # mt
  BY <1>1, InsertedFirst
<1>2. CASE s.bcap > 0 /\ s.mem = mt
  <2> DEFINE hits == Hits(s, Size(s), e.key)
             b == First(hits)
             there == {x \in DOMAIN s.bucket[b].elem : s.bucket[b].elem[x].key = e.key}
             i == First(there)
  <2>1. CASE Missing(s, e)
    <3> DEFINE t == Added(s, Distribute(s, busy, Size(s), BucketRoom(s.bcap), e), busy, e)
    <3>1. Inserted(s, busy, s.mem, e) = t
      BY <1>0, <1>2, <2>1, InsertedCases
    <3>2. Puts(s, t, busy, s.mem) /\ (Layout(s) => Settles(s, t, e))
      BY <1>2, <2>1, InsertedAnew
    <3> QED BY <1>2, <3>1, <3>2
  <2>2. CASE ~Missing(s, e)
    <3> DEFINE t == [s EXCEPT !.bucket[b].elem[i] = e]
    <3>1. Inserted(s, busy, s.mem, e) = t
      <4>1. Inserted(s, busy, s.mem, e) = Overwritten(s, e)
        BY <1>0, <1>2, <2>2, InsertedCases
      <4> QED BY <4>1 DEF Overwritten
    <3>2. hits # {} /\ there # {}
      BY <2>2 DEF Missing
    <3>3. b \in DOMAIN s.bucket
      BY <3>2, HitsAre DEF MapOk
    <3> HIDE DEF b, hits
    <3>4. there \in SUBSET Nat
      BY <3>3, Buckets DEF MapOk, Data
    <3>5. i \in there
      <4> HIDE DEF there
      <4> QED BY <3>2, <3>4, FirstIs
    <3>6. Hit(s, e, b, i)
      BY <3>3, <3>5 DEF Hit, Slot
    <3> HIDE DEF i
    <3>7. Puts(s, t, busy, s.mem) /\ (Layout(s) => Settles(s, t, e))
      BY <1>2, <3>6, InsertedOver
    <3> QED BY <1>2, <3>1, <3>7 DEF i, b, hits
  <2> QED BY <2>1, <2>2
<1> QED BY <1>0, <1>1, <1>2

-----------------------------------------------------------------------------
(* An insertion and the rehash() after it *)

LEMMA FollowsFollows ==
  ASSUME NEW busy, NEW s, NEW t, NEW u, Follows(busy, s, t), Follows(busy, t, u)
  PROVE  Follows(busy, s, u)
BY DEF Follows

Settled(s, busy, mt, e) ==
  LET u == Inserted(s, busy, mt, e) IN Rehashed(u, busy, BucketSize(Size(u)))

LEMMA SettledIs ==
  ASSUME NEW s, MapOk(s), NEW busy, IsFiniteSet(busy), NEW mt \in MemTypes, NEW e \in Pairs
  PROVE  /\ Puts(s, Settled(s, busy, mt, e), busy, mt)
         /\ Layout(s) /\ (s.bcap = 0 \/ s.mem = mt)
              => /\ Layout(Settled(s, busy, mt, e))
                 /\ Elems(Settled(s, busy, mt, e)) = Others(s, e) \cup {e}
<1> DEFINE u == Inserted(s, busy, mt, e)
           nb == BucketSize(Size(u))
           t == Rehashed(u, busy, nb)
<1>1. Puts(s, u, busy, mt) /\ (Layout(s) /\ (s.bcap = 0 \/ s.mem = mt) => Settles(s, u, e))
  BY InsertedIs
<1> HIDE DEF u
<1>2. MapOk(u) /\ u.bcap > 0 /\ u.mem = mt /\ Follows(busy, s, u) /\ u.bcap \in Nat /\ Size(u) \in Nat
  BY <1>1 DEF Puts, MapOk, Data, MapType, Size, ChainType
<1>3. nb \in Nat /\ nb >= 1
  BY <1>2, BucketSizeIs
<1> HIDE DEF nb
<1>4. /\ MapOk(t) /\ SameElems(u, t) /\ t.bcap >= u.bcap
      /\ t = u \/ t.chain.gen \in Nat \ (busy \cup Ids(u))
      /\ KeysApart(u) /\ nb = BucketSize(Size(u)) /\ u.bcap > 0 /\ u.bcap < nb
           => ByResidue(t, nb) /\ KeysApart(t) /\ t.bcap = nb
  BY <1>2, <1>3, RehashedIs
<1>5. nb <= u.bcap => t = u
  BY DEF Rehashed
<1> HIDE DEF t
<1>6. Follows(busy, s, t)
  <2>1. CASE t = u
    BY <1>2, <2>1
  <2>2. CASE t.chain.gen \in Nat \ (busy \cup Ids(u))
    BY <2>2 DEF Follows
  <2> QED BY <1>4, <2>1, <2>2
<1>7. Puts(s, t, busy, mt)
  <2>1. t.bcap > 0
    <3>1. t.bcap \in Nat
      BY <1>4 DEF MapOk, Data, MapType
    <3> QED BY <1>2, <1>4, <3>1
  <2> QED BY <1>2, <1>4, <1>6, <2>1 DEF Puts, SameElems
<1>8. ASSUME Layout(s), s.bcap = 0 \/ s.mem = mt
      PROVE  Layout(t) /\ Elems(t) = Others(s, e) \cup {e}
  <2>1. Settles(s, u, e)
    BY <1>1, <1>8
  <2>2. KeysApart(u) /\ ByResidue(u, u.bcap) /\ u.bcap <= nb /\ Elems(u) = Others(s, e) \cup {e}
    BY <2>1 DEF Settles, nb
  <2>3. Elems(t) = Others(s, e) \cup {e}
    BY <1>4, <2>2 DEF SameElems
  <2>4. CASE u.bcap = nb
    <3>1. t = u
      BY <1>3, <1>5, <2>4
    <3>2. Layout(u)
      BY <2>2, <2>4 DEF Layout, nb
    <3> QED BY <2>3, <3>1, <3>2
  <2>5. CASE u.bcap # nb
    <3>1. u.bcap < nb
      BY <1>2, <1>3, <2>2, <2>5
    <3>2. ByResidue(t, nb) /\ KeysApart(t) /\ t.bcap = nb
      BY <1>2, <1>4, <2>2, <3>1 DEF nb
    <3>3. Size(t) = Size(u)
      <4>1. Size(t) = Cardinality(Elems(t))
        BY <1>4, <3>2, ElemsAreFinite
      <4>2. Size(u) = Cardinality(Elems(u))
        BY <1>2, <2>2, ElemsAreFinite
      <4> QED BY <1>4, <4>1, <4>2 DEF SameElems
    <3>4. Layout(t)
      BY <3>2, <3>3 DEF Layout, nb
    <3> QED BY <2>3, <3>4
  <2> QED BY <2>4, <2>5
<1>9. Settled(s, busy, mt, e) = t
  BY DEF Settled, t, nb, u
<1> QED BY <1>7, <1>8, <1>9

-----------------------------------------------------------------------------
(* insert() of a range *)

RangeStep(s, busy, mt, range, f, k) ==
  IF k = 0 THEN s ELSE Inserted(f[k - 1], busy, mt, range[k])

LEMMA RangeExists ==
  ASSUME NEW s, NEW busy, NEW mt, NEW range, NEW n \in Nat
  PROVE  \E f : f = [k \in 0 .. n |-> RangeStep(s, busy, mt, range, f, k)]
<1> DEFINE P(j) == \E f : f = [k \in 0 .. j |-> RangeStep(s, busy, mt, range, f, k)]
           S == {j \in Nat : P(j)}
<1>1. P(0)
  <2> DEFINE g == [k \in 0 .. 0 |-> s]
  <2>1. g = [k \in 0 .. 0 |-> RangeStep(s, busy, mt, range, g, k)]
    BY DEF RangeStep
  <2> QED BY <2>1
<1>2. ASSUME NEW j \in Nat, P(j) PROVE P(j + 1)
  <2>1. PICK f : f = [k \in 0 .. j |-> RangeStep(s, busy, mt, range, f, k)]
    BY <1>2
  <2> DEFINE g == [k \in 0 .. j + 1 |-> IF k = j + 1 THEN RangeStep(s, busy, mt, range, f, j + 1) ELSE f[k]]
  <2>2. \A k \in 0 .. j + 1 : k # 0 => g[k - 1] = f[k - 1]
    OBVIOUS
  <2>3. \A k \in 0 .. j + 1 : RangeStep(s, busy, mt, range, g, k) = RangeStep(s, busy, mt, range, f, k)
    BY <2>2 DEF RangeStep
  <2>4. \A k \in 0 .. j : f[k] = RangeStep(s, busy, mt, range, f, k)
    BY <2>1
  <2>5. \A k \in 0 .. j + 1 : g[k] = RangeStep(s, busy, mt, range, g, k)
    BY <2>3, <2>4
  <2>6. g = [k \in 0 .. j + 1 |-> RangeStep(s, busy, mt, range, g, k)]
    BY <2>5
  <2> QED BY <2>6
<1> HIDE DEF P
<1>3. 0 \in S /\ \A j \in 0 .. n - 1 : j \in S => j + 1 \in S
  BY <1>1, <1>2
<1> HIDE DEF S
<1>4. n \in S
  BY <1>3, ByInduction
<1> QED BY <1>4 DEF S, P

\* The map after the elements of a range have been inserted.
Ranged(s, busy, mt, range) ==
  LET with[k \in 0 .. Len(range)] ==
        IF k = 0 THEN s ELSE Inserted(with[k - 1], busy, mt, range[k])
  IN  with[Len(range)]

LEMMA RangedIs ==
  ASSUME NEW s, MapOk(s), NEW busy, IsFiniteSet(busy), NEW mt \in MemTypes, NEW range \in Seq(Pairs)
  PROVE  MapOk(Ranged(s, busy, mt, range)) /\ Follows(busy, s, Ranged(s, busy, mt, range))
<1> DEFINE n == Len(range)
           f == CHOOSE f : f = [k \in 0 .. n |-> RangeStep(s, busy, mt, range, f, k)]
           S == {k \in 0 .. n : MapOk(f[k]) /\ Follows(busy, s, f[k])}
<1>1. n \in Nat /\ \A k \in 1 .. n : range[k] \in Pairs
  OBVIOUS
<1>2. Ranged(s, busy, mt, range) = f[n]
  BY DEF Ranged, RangeStep
<1>3. f = [k \in 0 .. n |-> RangeStep(s, busy, mt, range, f, k)]
  BY <1>1, RangeExists
<1> HIDE DEF f, n
<1>4. \A k \in 0 .. n : f[k] = RangeStep(s, busy, mt, range, f, k)
  BY <1>3
<1>5. 0 \in S
  <2>1. 0 \in 0 .. n
    BY <1>1
  <2>2. f[0] = RangeStep(s, busy, mt, range, f, 0)
    BY <1>4, <2>1
  <2>3. f[0] = s
    BY <2>2 DEF RangeStep
  <2>4. Follows(busy, s, s)
    BY DEF Follows
  <2> QED BY <2>1, <2>3, <2>4
<1>6. ASSUME NEW j \in 0 .. n - 1, j \in S PROVE j + 1 \in S
  <2>1. j + 1 \in 0 .. n /\ j + 1 \in 1 .. n /\ j + 1 # 0 /\ j + 1 - 1 = j
    BY <1>1
  <2>2. f[j + 1] = RangeStep(s, busy, mt, range, f, j + 1)
    BY <1>4, <2>1
  <2>3. f[j + 1] = Inserted(f[j], busy, mt, range[j + 1])
    BY <2>1, <2>2 DEF RangeStep
  <2>4. range[j + 1] \in Pairs
    BY <1>1, <2>1
  <2>5. MapOk(f[j]) /\ Follows(busy, s, f[j])
    BY <1>6
  <2>6. Puts(f[j], Inserted(f[j], busy, mt, range[j + 1]), busy, mt)
    BY <2>4, <2>5, InsertedIs
  <2>7. MapOk(f[j + 1]) /\ Follows(busy, f[j], f[j + 1])
    BY <2>3, <2>6 DEF Puts
  <2>8. Follows(busy, s, f[j + 1])
    BY <2>5, <2>7, FollowsFollows
  <2> QED BY <2>1, <2>7, <2>8
<1>7. n \in S
  <2> HIDE DEF S
  <2>1. \A j \in 0 .. n : j \in S
    BY <1>1, <1>5, <1>6, ByInduction
  <2> QED BY <1>1, <2>1
<1> QED BY <1>2, <1>7

LEMMA RehashFollows ==
  ASSUME NEW s, MapOk(s), NEW busy, IsFiniteSet(busy), NEW nb \in Nat
  PROVE  MapOk(Rehashed(s, busy, nb)) /\ Follows(busy, s, Rehashed(s, busy, nb))
<1> DEFINE t == Rehashed(s, busy, nb)
<1>1. MapOk(t) /\ (t = s \/ t.chain.gen \in Nat \ (busy \cup Ids(s)))
  BY RehashedIs
<1> HIDE DEF t
<1>2. Follows(busy, s, t)
  BY <1>1 DEF Follows
<1> QED BY <1>1, <1>2 DEF t

-----------------------------------------------------------------------------
(* transfer_internal_memory() *)

MoveStep(s, busy, mt, f, b) ==
  IF b = 0 THEN [s EXCEPT !.bucket = <<>>, !.mem = mt]
  ELSE MovedOver(f[b - 1], busy, s.bucket[b])

LEMMA MoveExists ==
  ASSUME NEW s, NEW busy, NEW mt, NEW n \in Nat
  PROVE  \E f : f = [b \in 0 .. n |-> MoveStep(s, busy, mt, f, b)]
<1> DEFINE P(j) == \E f : f = [b \in 0 .. j |-> MoveStep(s, busy, mt, f, b)]
           S == {j \in Nat : P(j)}
<1>1. P(0)
  <2> DEFINE g == [b \in 0 .. 0 |-> MoveStep(s, busy, mt, <<>>, 0)]
  <2>1. g = [b \in 0 .. 0 |-> MoveStep(s, busy, mt, g, b)]
    BY DEF MoveStep
  <2> QED BY <2>1
<1>2. ASSUME NEW j \in Nat, P(j) PROVE P(j + 1)
  <2>1. PICK f : f = [b \in 0 .. j |-> MoveStep(s, busy, mt, f, b)]
    BY <1>2
  <2> DEFINE g == [b \in 0 .. j + 1 |-> IF b = j + 1 THEN MoveStep(s, busy, mt, f, j + 1) ELSE f[b]]
  <2>2. \A b \in 0 .. j + 1 : b # 0 => g[b - 1] = f[b - 1]
    OBVIOUS
  <2>3. \A b \in 0 .. j + 1 : MoveStep(s, busy, mt, g, b) = MoveStep(s, busy, mt, f, b)
    BY <2>2 DEF MoveStep
  <2>4. \A b \in 0 .. j : f[b] = MoveStep(s, busy, mt, f, b)
    BY <2>1
  <2>5. \A b \in 0 .. j + 1 : g[b] = MoveStep(s, busy, mt, g, b)
    BY <2>3, <2>4
  <2>6. g = [b \in 0 .. j + 1 |-> MoveStep(s, busy, mt, g, b)]
    BY <2>5
  <2> QED BY <2>6
<1> HIDE DEF P
<1>3. 0 \in S /\ \A j \in 0 .. n - 1 : j \in S => j + 1 \in S
  BY <1>1, <1>2
<1> HIDE DEF S
<1>4. n \in S
  BY <1>3, ByInduction
<1> QED BY <1>4 DEF S, P

\* The first n buckets of s are in other storage.
MovedTo(s, u, n, mt) ==
  /\ Data(u) /\ u.mem = mt /\ u.bcap = s.bcap /\ u.chain = s.chain /\ DOMAIN u.bucket = 1 .. n /\ Len(u.bucket) = n
  /\ \A a \in 1 .. n : u.bucket[a].hash = s.bucket[a].hash /\ u.bucket[a].elem = s.bucket[a].elem

LEMMA MovedStep ==
  ASSUME NEW s, Data(s), NEW busy, IsFiniteSet(busy), NEW mt, NEW b \in Nat, b + 1 \in DOMAIN s.bucket,
         NEW u, MovedTo(s, u, b, mt)
  PROVE  MovedTo(s, MovedOver(u, busy, s.bucket[b + 1]), b + 1, mt)
<1> DEFINE blk == FreshId(busy \cup Ids(u))
           q == s.bucket[b + 1]
           nb == [q EXCEPT !.blk = blk]
           t == [u EXCEPT !.bucket = Append(@, nb)]
<1>0. MovedOver(u, busy, s.bucket[b + 1]) = t
  BY DEF MovedOver
<1>1. /\ Data(u) /\ u \in MapType /\ u.mem = mt /\ u.bcap = s.bcap /\ u.chain = s.chain /\ DOMAIN u.bucket = 1 .. b
      /\ Len(u.bucket) = b /\ u.bucket \in Seq(Bucket)
      /\ \A a \in 1 .. b : u.bucket[a].hash = s.bucket[a].hash /\ u.bucket[a].elem = s.bucket[a].elem
  BY Buckets DEF MovedTo, Data
<1>2. blk \in Nat /\ Free(u, blk)
  <2>1. IsFiniteSet(busy \cup Ids(u))
    BY <1>1, IdsAreFinite, FS_Union
  <2>2. blk \in Nat /\ blk \notin busy \cup Ids(u)
    BY <2>1, FreshIsFree
  <2> QED BY <1>1, <2>2, IdsAreFinite DEF Free
<1>3. q \in Bucket /\ Len(q.elem) \in 1 .. q.cap /\ b + 1 <= s.bcap
  <2>1. q \in Bucket /\ Len(q.elem) \in 1 .. q.cap
    BY Buckets DEF Data, Filled
  <2>2. b + 1 <= Len(s.bucket) /\ Len(s.bucket) <= s.bcap /\ Len(s.bucket) \in Nat /\ s.bcap \in Nat
    BY Buckets DEF Data, Filled, MapType
  <2>3. b + 1 <= s.bcap
    BY <2>2
  <2> QED BY <2>1, <2>3
<1> HIDE DEF blk, q
<1>4. nb \in Bucket /\ nb.hash = q.hash /\ nb.elem = q.elem /\ nb.cap = q.cap /\ nb.blk = blk
  BY <1>2, <1>3 DEF Bucket
<1> HIDE DEF nb
<1>5. Sound(nb)
  BY <1>3, <1>4 DEF Sound
<1>6. Append(u.bucket, nb) \in Seq(Bucket)
  BY <1>1, <1>4
<1>7. t \in MapType /\ t.mem = u.mem /\ t.chain = u.chain /\ t.bcap = u.bcap /\ t.bucket = Append(u.bucket, nb)
  BY <1>1, <1>6 DEF MapType
<1> HIDE DEF t
<1>8. Extended(u, t, nb)
  BY <1>7 DEF Extended
<1>9. Data(t)
  <2>1. Free(u, nb.blk) /\ Len(u.bucket) + 1 <= t.bcap
    BY <1>1, <1>2, <1>3, <1>4, <1>7
  <2> QED BY <1>1, <1>5, <1>8, <2>1, ExtendedIsData
<1>10. /\ DOMAIN t.bucket = DOMAIN u.bucket \cup {Len(u.bucket) + 1} /\ Len(t.bucket) = Len(u.bucket) + 1
       /\ t.bucket[Len(u.bucket) + 1] = nb /\ \A a \in DOMAIN u.bucket : t.bucket[a] = u.bucket[a]
  BY <1>1, <1>5, <1>8, ExtendedIs
<1>11. 1 .. b + 1 = (1 .. b) \cup {b + 1}
  OBVIOUS
<1>12. ASSUME NEW a \in 1 .. b + 1
       PROVE  t.bucket[a].hash = s.bucket[a].hash /\ t.bucket[a].elem = s.bucket[a].elem
  <2>1. CASE a \in 1 .. b
    BY <1>1, <1>10, <2>1
  <2>2. CASE a = b + 1
    BY <1>1, <1>4, <1>10, <2>2 DEF q
  <2> QED BY <1>11, <2>1, <2>2
<1>13. MovedTo(s, t, b + 1, mt)
  BY <1>1, <1>7, <1>9, <1>10, <1>11, <1>12 DEF MovedTo
<1> QED BY <1>0, <1>13

LEMMA MovedIs ==
  ASSUME NEW s, Data(s), NEW busy, IsFiniteSet(busy), NEW mt \in MemTypes
  PROVE  MovedTo(s, Moved(s, busy, mt), Len(s.bucket), mt)
<1> DEFINE n == Len(s.bucket)
           f == CHOOSE f : f = [b \in 0 .. n |-> MoveStep(s, busy, mt, f, b)]
           S == {b \in 0 .. n : MovedTo(s, f[b], b, mt)}
<1>1. n \in Nat /\ DOMAIN s.bucket = 1 .. n
  BY Buckets DEF Data
<1>2. Moved(s, busy, mt) = f[n]
  BY DEF Moved, MoveStep
<1>3. f = [b \in 0 .. n |-> MoveStep(s, busy, mt, f, b)]
  BY <1>1, MoveExists
<1> HIDE DEF f, n
<1>4. \A b \in 0 .. n : f[b] = MoveStep(s, busy, mt, f, b)
  BY <1>3
<1>5. 0 \in S
  <2>1. 0 \in 0 .. n
    BY <1>1
  <2>2. f[0] = MoveStep(s, busy, mt, f, 0)
    BY <1>4, <2>1
  <2>3. f[0] = [s EXCEPT !.bucket = <<>>, !.mem = mt]
    BY <2>2 DEF MoveStep
  <2> DEFINE z == [s EXCEPT !.bucket = <<>>, !.mem = mt]
  <2>4. z \in MapType /\ z.bucket = <<>> /\ z.mem = mt /\ z.bcap = s.bcap /\ z.chain = s.chain
    BY EmptySeq DEF Data, MapType
  <2> HIDE DEF z
  <2>5. Data(z)
    BY <2>4, NoBuckets
  <2>6. DOMAIN z.bucket = 1 .. 0 /\ Len(z.bucket) = 0
    BY <2>4
  <2>7. MovedTo(s, z, 0, mt)
    BY <2>4, <2>5, <2>6 DEF MovedTo
  <2> QED BY <2>1, <2>3, <2>7 DEF z
<1>6. ASSUME NEW j \in 0 .. n - 1, j \in S PROVE j + 1 \in S
  <2>1. j \in Nat /\ j + 1 \in 0 .. n /\ j + 1 \in DOMAIN s.bucket /\ j + 1 # 0 /\ j + 1 - 1 = j
    BY <1>1
  <2> DEFINE u == f[j]
             t == MovedOver(u, busy, s.bucket[j + 1])
  <2>2. f[j + 1] = MoveStep(s, busy, mt, f, j + 1)
    BY <1>4, <2>1
  <2>3. f[j + 1] = t
    BY <2>1, <2>2 DEF MoveStep
  <2>4. MovedTo(s, u, j, mt)
    BY <1>6
  <2> HIDE DEF u
  <2>5. MovedTo(s, t, j + 1, mt)
    BY <2>1, <2>4, MovedStep
  <2> QED BY <2>1, <2>3, <2>5
<1>7. n \in S
  <2> HIDE DEF S
  <2>1. \A j \in 0 .. n : j \in S
    BY <1>1, <1>5, <1>6, ByInduction
  <2> QED BY <1>1, <2>1
<1> QED BY <1>2, <1>7 DEF n

LEMMA TransferIs ==
  ASSUME NEW s, MapOk(s), s.bcap > 0, NEW busy, IsFiniteSet(busy), NEW mt \in MemTypes
  PROVE  LET t == Listed(Moved(s, busy, mt), busy)
         IN  MapOk(t) /\ t.mem = mt /\ Elems(t) = Elems(s) /\ (Layout(s) => Layout(t))
<1> DEFINE u == Moved(s, busy, mt)
           t == Listed(u, busy)
           n == Len(s.bucket)
<1>1. Data(s) /\ s.bucket # <<>> /\ n \in Nat /\ DOMAIN s.bucket = 1 .. n
  BY Buckets DEF MapOk, Data
<1>2. MovedTo(s, u, n, mt)
  BY <1>1, MovedIs
<1> HIDE DEF u, n
<1>3. /\ Data(u) /\ u.mem = mt /\ u.bcap = s.bcap /\ DOMAIN u.bucket = DOMAIN s.bucket
      /\ \A a \in DOMAIN s.bucket : u.bucket[a].hash = s.bucket[a].hash /\ u.bucket[a].elem = s.bucket[a].elem
  BY <1>1, <1>2 DEF MovedTo
<1>4. u.bucket # <<>>
  <2>1. 1 \in DOMAIN s.bucket
    <3>1. s.bucket \in Seq(Bucket)
      BY <1>1, Buckets DEF Data
    <3> QED BY <1>1, <3>1 DEF n
  <2> QED BY <1>3, <2>1
<1>5. Renewed(u, t, busy)
  BY <1>3, <1>4, ListedIsRenewed
<1> HIDE DEF t
<1>6. SameData(u, t) /\ MapOk(t) /\ Elems(t) = Elems(u)
  BY <1>5, SameDataSamePlaces DEF Renewed
<1>7. /\ \A a, x : Slot(u, a, x) <=> Slot(s, a, x)
      /\ \A a, x : Slot(s, a, x) => u.bucket[a].elem[x] = s.bucket[a].elem[x]
  BY <1>3 DEF Slot
<1>8. Elems(u) = Elems(s)
  <2>1. \A e : e \in Elems(u) <=> \E b, i : Slot(u, b, i) /\ e = u.bucket[b].elem[i]
    BY <1>3, ElemOf
  <2>2. \A e : e \in Elems(s) <=> \E b, i : Slot(s, b, i) /\ e = s.bucket[b].elem[i]
    BY <1>1, ElemOf
  <2>3. \A e : e \in Elems(u) <=> e \in Elems(s)
    BY <1>7, <2>1, <2>2
  <2> QED BY <2>3
<1>9. ASSUME Layout(s) PROVE Layout(t)
  <2>1. KeysApart(s) /\ (s.bcap > 0 => s.bcap = BucketSize(Size(s)) /\ ByResidue(s, s.bcap))
    BY <1>9 DEF Layout
  <2>2. KeysApart(u)
    <3> SUFFICES ASSUME NEW a, NEW x, NEW c, NEW y, Slot(u, a, x), Slot(u, c, y),
                        u.bucket[a].elem[x].key = u.bucket[c].elem[y].key
                 PROVE  a = c /\ x = y
      BY DEF KeysApart
    <3>1. Slot(s, a, x) /\ Slot(s, c, y) /\ s.bucket[a].elem[x].key = s.bucket[c].elem[y].key
      BY <1>7
    <3> QED BY <2>1, <3>1 DEF KeysApart
  <2>3. ByResidue(u, s.bcap)
    <3>1. ByResidue(s, s.bcap)
      BY <2>1
    <3>2. \A a, c \in DOMAIN u.bucket : u.bucket[a].hash % s.bcap = u.bucket[c].hash % s.bcap => a = c
      BY <1>3, <3>1 DEF ByResidue
    <3>3. ASSUME NEW a, NEW x, Slot(u, a, x)
          PROVE  Hash[u.bucket[a].elem[x].key] % s.bcap = u.bucket[a].hash % s.bcap
      <4>1. Slot(s, a, x) /\ u.bucket[a].elem[x] = s.bucket[a].elem[x] /\ u.bucket[a].hash = s.bucket[a].hash
        BY <1>3, <1>7, <3>3 DEF Slot
      <4>2. Hash[s.bucket[a].elem[x].key] % s.bcap = s.bucket[a].hash % s.bcap
        BY <3>1, <4>1 DEF ByResidue
      <4> QED BY <4>1, <4>2
    <3> QED BY <3>2, <3>3 DEF ByResidue
  <2>4. t.bucket = u.bucket /\ t.bcap = s.bcap
    BY <1>3, <1>6 DEF SameData
  <2>5. KeysApart(t) /\ ByResidue(t, t.bcap)
    BY <2>2, <2>3, <2>4 DEF KeysApart, ByResidue, Slot
  <2>6. Size(t) = Size(s)
    <3>1. Size(t) = Cardinality(Elems(t))
      BY <1>6, <2>5, ElemsAreFinite
    <3>2. Size(s) = Cardinality(Elems(s))
      BY <2>1, ElemsAreFinite
    <3> QED BY <1>6, <1>8, <3>1, <3>2
  <2> QED BY <2>1, <2>4, <2>5, <2>6 DEF Layout
<1> QED BY <1>3, <1>6, <1>8, <1>9 DEF SameData, t, u

-----------------------------------------------------------------------------
(* The maps of a program and the iterators it holds *)

HeldType == [gen : Nat \cup {None}, at : Pointer, key : Keys \cup {None}, lost : BOOLEAN]

\* The iterator h leads to an element of s that has its key.
Reaches(s, h) == h.at \in Places(s) /\ ElementAt(s, h.at).key = h.key /\ s.chain.gen = h.gen
Live(h) == h.at # None /\ ~h.lost

Good(ms, hs) ==
  /\ ms \in [Maps -> MapType] /\ \A m \in Maps : MapOk(ms[m])
  /\ hs \in [Iters -> HeldType]
  /\ \A i \in Iters : Live(hs[i]) => \E m \in Maps : Reaches(ms[m], hs[i])

\* What the program holds of s is good in t, or t has another chain.
Supersedes(s, t) ==
  t.chain.gen = s.chain.gen =>
    \A p \in Places(s) : p \in Places(t) /\ ElementAt(t, p).key = ElementAt(s, p).key

LEMMA NoIterIs == NoIter \in HeldType /\ ~Live(NoIter) /\ NoIter.at = None
BY DEF NoIter, HeldType, Pointer, Live

LEMMA PlacesArePointers ==
  ASSUME NEW s, Data(s), NEW p \in Places(s)
  PROVE  p \in Pointer /\ p # None
<1>1. PICK b, i : Slot(s, b, i) /\ p = <<s.bucket[b].blk, i>>
  BY PlaceIs
<1>2. s.bucket[b].blk \in Nat /\ i \in Nat \ {0}
  BY <1>1, Buckets DEF Data, Slot
<1>3. p \in Nat \X (Nat \ {0}) /\ p \in Nat \X Nat
  BY <1>1, <1>2
<1> QED BY <1>3, MapAssumption DEF Pointer

LEMMA NoMapIs == MapOk(NoMap) /\ Places(NoMap) = {} /\ Elems(NoMap) = {} /\ Layout(NoMap)
<1>1. NoMap \in MapType /\ NoMap.bucket = <<>> /\ NoMap.chain = NoChain /\ NoMap.bcap = 0
  BY NoChainOk, EmptySeq, MapAssumption DEF NoMap, MapType, NoChainIs
<1>2. Data(NoMap) /\ Places(NoMap) = {} /\ Elems(NoMap) = {} /\ KeysApart(NoMap)
  BY <1>1, NoBuckets
<1>3. Lists(NoMap)
  BY <1>1, <1>2 DEF Lists, NoChain, IsInjective, Range, Size
<1> QED BY <1>1, <1>2, <1>3 DEF MapOk, Layout

\* A map with elements has a chain.
LEMMA HasChain ==
  ASSUME NEW s, MapOk(s), Places(s) # {}
  PROVE  s.chain.gen \in Nat /\ s.bcap > 0
<1>1. PICK p \in Places(s) : TRUE
  OBVIOUS
<1>2. Data(s)
  BY DEF MapOk
<1>3. PICK b, i : Slot(s, b, i)
  BY <1>1, <1>2, PlaceIs
<1>4. b \in 1 .. Len(s.bucket) /\ Len(s.bucket) \in Nat /\ Len(s.bucket) <= s.bcap /\ s.bcap \in Nat
  BY <1>2, <1>3, Buckets DEF Data, Filled, MapType, Slot
<1>5. s.bcap > 0
  BY <1>4
<1> QED BY <1>5 DEF MapOk

LEMMA NoMapSupersedes ==
  ASSUME NEW s, MapOk(s)
  PROVE  Supersedes(s, NoMap)
<1>1. NoMap.chain.gen = None /\ None \notin Nat
  BY MapAssumption DEF NoMap, NoChain
<1>2. Places(s) # {} => s.chain.gen # NoMap.chain.gen
  BY <1>1, HasChain
<1> QED BY <1>2 DEF Supersedes

LEMMA FollowerSupersedes ==
  ASSUME NEW busy, NEW s, NEW t, Follows(busy, s, t), s.chain.gen \in busy
  PROVE  Supersedes(s, t)
BY DEF Follows, Supersedes

LEMMA FoundIs ==
  ASSUME NEW s, MapOk(s), NEW k \in Keys
  PROVE  /\ Found(s, k) \in HeldType
         /\ Live(Found(s, k)) => Reaches(s, Found(s, k))
         /\ Found(s, k) # NoIter <=> \E e \in Elems(s) : e.key = k
         /\ Found(s, k) # NoIter =>
              Found(s, k).at \in Places(s) /\ ElementAt(s, Found(s, k).at).key = k
<1> DEFINE node == s.chain.node
           hits == {x \in DOMAIN node : Resident(s, node[x]) /\ ElementAt(s, node[x]).key = k}
           x == First(hits)
           h == [gen |-> s.chain.gen, at |-> node[x], key |-> k, lost |-> FALSE]
<1>1. /\ Data(s) /\ node \in Seq(Nat \X Nat) /\ DOMAIN node \subseteq Nat /\ Range(node) = Places(s)
      /\ s.chain.gen \in Nat \cup {None}
  BY DEF MapOk, Data, Lists, MapType, ChainType
<1> HIDE DEF node
<1>2. \A y \in DOMAIN node : node[y] \in Places(s)
  BY <1>1 DEF Range
<1>3. hits = {} => Found(s, k) = NoIter
  BY DEF Found, node
<1>4. hits # {} => Found(s, k) = h
  BY DEF Found, node
<1>5. hits # {} <=> \E e \in Elems(s) : e.key = k
  <2>1. ASSUME NEW y \in hits PROVE \E e \in Elems(s) : e.key = k
    BY <1>2, <2>1 DEF Elems
  <2>2. ASSUME NEW e \in Elems(s), e.key = k PROVE hits # {}
    <3>1. PICK p \in Places(s) : e = ElementAt(s, p)
      BY <2>2 DEF Elems
    <3>2. PICK y \in DOMAIN node : p = node[y]
      BY <1>1, <3>1 DEF Range
    <3>3. y \in hits
      BY <2>2, <3>1, <3>2 DEF Places
    <3> QED BY <3>3
  <2> QED BY <2>1, <2>2
<1>6. ASSUME hits # {} PROVE x \in DOMAIN node /\ ElementAt(s, node[x]).key = k
  <2>1. hits \in SUBSET Nat
    BY <1>1
  <2>2. x \in hits
    <3> HIDE DEF hits
    <3> QED BY <1>6, <2>1, FirstIs
  <2> QED BY <2>2
<1> HIDE DEF hits, x
<1>7. ASSUME hits # {}
      PROVE  h \in HeldType /\ h # NoIter /\ h.at \in Places(s) /\ ElementAt(s, h.at).key = k /\ Reaches(s, h)
  <2>1. node[x] \in Places(s) /\ node[x] \in Pointer /\ node[x] # None
    BY <1>1, <1>2, <1>6, <1>7, PlacesArePointers
  <2>2. h.at = node[x] /\ h.gen = s.chain.gen /\ h.key = k
    OBVIOUS
  <2>3. h \in HeldType
    BY <1>1, <2>1 DEF HeldType
  <2> HIDE DEF h
  <2>4. h # NoIter
    BY <2>1, <2>2, NoIterIs
  <2> QED BY <1>6, <1>7, <2>1, <2>2, <2>3, <2>4 DEF Reaches
<1> HIDE DEF h
<1> QED BY <1>3, <1>4, <1>5, <1>7, NoIterIs

LEMMA BusyIsFinite ==
  ASSUME Good(maps, held)
  PROVE  IsFiniteSet(Busy) /\ \A m \in Maps : maps[m].chain.gen \in Busy
<1> DEFINE A == {Ids(maps[m]) : m \in Maps}
           B == {held[i].gen : i \in Iters}
           J == {i \in Iters : held[i].at # None}
           C == {held[i].at[1] : i \in J}
<1>1. IsFiniteSet(UNION A)
  <2> DEFINE f == [m \in Maps |-> Ids(maps[m])]
  <2>1. f \in Surjection(Maps, A)
    BY DEF Surjection
  <2>2. \A T \in A : IsFiniteSet(T)
    BY IdsAreFinite DEF Good
  <2> HIDE DEF f, A
  <2>3. IsFiniteSet(A)
    BY <2>1, MapAssumption, FS_Surjection
  <2> QED BY <2>2, <2>3, FS_UNION
<1>2. IsFiniteSet(B)
  <2> DEFINE f == [i \in Iters |-> held[i].gen]
  <2>1. f \in Surjection(Iters, B)
    BY DEF Surjection
  <2> HIDE DEF f, B
  <2> QED BY <2>1, MapAssumption, FS_Surjection
<1>3. IsFiniteSet(C)
  <2> DEFINE f == [i \in J |-> held[i].at[1]]
  <2>1. f \in Surjection(J, C)
    BY DEF Surjection
  <2>2. IsFiniteSet(J)
    BY MapAssumption, FS_Subset
  <2> HIDE DEF f, J, C
  <2> QED BY <2>1, <2>2, FS_Surjection
<1>4. Busy = (UNION A) \cup B \cup C
  BY DEF Busy
<1>5. \A m \in Maps : maps[m].chain.gen \in UNION A
  BY DEF Ids
<1> HIDE DEF A, B, C
<1>6. IsFiniteSet((UNION A) \cup B)
  BY <1>1, <1>2, FS_Union
<1>7. IsFiniteSet((UNION A) \cup B \cup C)
  BY <1>3, <1>6, FS_Union
<1> QED BY <1>4, <1>5, <1>7

LEMMA ToldIsGood ==
  ASSUME Good(maps, held), NEW m \in Maps, NEW t, MapOk(t), Supersedes(maps[m], t)
  PROVE  Good([maps EXCEPT ![m] = t], Told(m, t))
<1> DEFINE ms == [maps EXCEPT ![m] = t]
           hs == Told(m, t)
<1>1. ms \in [Maps -> MapType] /\ ms[m] = t /\ \A w \in Maps \ {m} : ms[w] = maps[w]
  BY DEF Good, MapOk, Data
<1>2. \A w \in Maps : MapOk(ms[w])
  BY <1>1 DEF Good
<1>3. hs \in [Iters -> HeldType]
  BY NoIterIs DEF Told, Good
<1>4. ASSUME NEW i \in Iters, Live(hs[i]) PROVE \E w \in Maps : Reaches(ms[w], hs[i])
  <2>1. hs[i] = held[i] /\ ~(held[i].gen = maps[m].chain.gen /\ t.chain.gen # maps[m].chain.gen)
    <3>1. hs[i] = IF held[i].gen = maps[m].chain.gen /\ t.chain.gen # maps[m].chain.gen THEN NoIter ELSE held[i]
      BY DEF Told
    <3> QED BY <1>4, <3>1, NoIterIs
  <2>2. PICK w \in Maps : Reaches(maps[w], held[i])
    BY <1>4, <2>1 DEF Good
  <2>3. CASE w = m
    <3>1. held[i].gen = maps[m].chain.gen /\ held[i].at \in Places(maps[m]) /\ ElementAt(maps[m], held[i].at).key = held[i].key
      BY <2>2, <2>3 DEF Reaches
    <3>2. t.chain.gen = maps[m].chain.gen
      BY <2>1, <3>1
    <3>3. Reaches(t, held[i])
      BY <3>1, <3>2 DEF Supersedes, Reaches
    <3> QED BY <1>1, <2>1, <3>3
  <2>4. CASE w # m
    BY <1>1, <2>1, <2>2, <2>4
  <2> QED BY <2>3, <2>4
<1> QED BY <1>1, <1>2, <1>3, <1>4 DEF Good

LEMMA TakenIsGood ==
  ASSUME NEW ms, NEW hs, Good(ms, hs), NEW i \in Iters, NEW h \in HeldType,
         Live(h) => \E m \in Maps : Reaches(ms[m], h)
  PROVE  Good(ms, [hs EXCEPT ![i] = h])
<1> DEFINE g == [hs EXCEPT ![i] = h]
<1>1. g \in [Iters -> HeldType] /\ g[i] = h /\ \A j \in Iters \ {i} : g[j] = hs[j]
  BY DEF Good
<1> HIDE DEF g
<1>2. \A j \in Iters : Live(g[j]) => \E m \in Maps : Reaches(ms[m], g[j])
  BY <1>1 DEF Good
<1>3. Good(ms, g)
  BY <1>1, <1>2 DEF Good
<1> QED BY <1>3 DEF g

\* The chain of m has gone away; what was in the other maps still is.
LEMMA UntoldIsGood ==
  ASSUME Good(maps, held), NEW m \in Maps, NEW ms \in [Maps -> MapType], \A w \in Maps : MapOk(ms[w]),
         \A w \in Maps \ {m} : \E x \in Maps : ms[x] = maps[w]
  PROVE  Good(ms, Untold(m))
<1> DEFINE hs == Untold(m)
<1>1. \A i \in Iters : hs[i] = IF held[i].at # None /\ held[i].gen = maps[m].chain.gen
                               THEN [held[i] EXCEPT !.lost = TRUE] ELSE held[i]
  BY DEF Untold
<1>2. hs \in [Iters -> HeldType]
  <2>1. ASSUME NEW i \in Iters PROVE hs[i] \in HeldType
    <3>1. held[i] \in HeldType
      BY DEF Good
    <3>2. [held[i] EXCEPT !.lost = TRUE] \in HeldType
      BY <3>1 DEF HeldType
    <3> QED BY <1>1, <3>1, <3>2
  <2> QED BY <2>1 DEF Untold
<1> HIDE DEF hs
<1>3. ASSUME NEW i \in Iters, Live(hs[i]) PROVE \E w \in Maps : Reaches(ms[w], hs[i])
  <2>1. held[i] \in HeldType
    BY DEF Good
  <2>2. [held[i] EXCEPT !.lost = TRUE].lost = TRUE
    BY <2>1 DEF HeldType
  <2>3. hs[i] = held[i] /\ ~(held[i].at # None /\ held[i].gen = maps[m].chain.gen)
    BY <1>1, <1>3, <2>2 DEF Live
  <2>4. PICK w \in Maps : Reaches(maps[w], held[i])
    BY <1>3, <2>3 DEF Good
  <2>5. w # m
    BY <1>3, <2>3, <2>4 DEF Reaches, Live
  <2>6. PICK x \in Maps : ms[x] = maps[w]
    BY <2>5
  <2> QED BY <2>3, <2>4, <2>6
<1>4. Good(ms, hs)
  BY <1>2, <1>3 DEF Good
<1> QED BY <1>4 DEF hs

\* No iterator changes, and what was in the maps is, in one or another.
LEMMA MovedIsGood ==
  ASSUME Good(maps, held), NEW ms \in [Maps -> MapType], \A w \in Maps : MapOk(ms[w]),
         \A w \in Maps : Places(maps[w]) # {} => \E x \in Maps : ms[x] = maps[w]
  PROVE  Good(ms, held)
<1>1. ASSUME NEW i \in Iters, Live(held[i]) PROVE \E w \in Maps : Reaches(ms[w], held[i])
  <2>1. PICK w \in Maps : Reaches(maps[w], held[i])
    BY <1>1 DEF Good
  <2>2. Places(maps[w]) # {}
    BY <2>1 DEF Reaches
  <2> QED BY <2>1, <2>2
<1> QED BY <1>1 DEF Good

-----------------------------------------------------------------------------
(* Member functions *)

Elem(k, v) == [key |-> k, val |-> v]

LEMMA PutIs ==
  ASSUME Good(maps, held), NEW m \in Maps, NEW mt \in MemTypes, NEW k \in Keys, NEW v \in Values
  PROVE  /\ MapOk(Put(m, mt, k, v)) /\ Supersedes(maps[m], Put(m, mt, k, v)) /\ Put(m, mt, k, v).mem = mt
         /\ Layout(maps[m]) /\ mt \in OwnMem(m)
              => /\ Layout(Put(m, mt, k, v))
                 /\ Elems(Put(m, mt, k, v)) = Others(maps[m], Elem(k, v)) \cup {Elem(k, v)}
<1> DEFINE e == Elem(k, v)
           s == maps[m]
           t == Settled(s, Busy, mt, e)
<1>1. Put(m, mt, k, v) = t
  BY DEF Put, Settled, Elem
<1>2. e \in Pairs
  BY DEF Elem, Pairs
<1>3. MapOk(s) /\ IsFiniteSet(Busy) /\ s.chain.gen \in Busy
  BY BusyIsFinite DEF Good
<1> HIDE DEF e
<1>4. /\ Puts(s, t, Busy, mt)
      /\ Layout(s) /\ (s.bcap = 0 \/ s.mem = mt) => Layout(t) /\ Elems(t) = Others(s, e) \cup {e}
  BY <1>2, <1>3, SettledIs
<1>5. mt \in OwnMem(m) => s.bcap = 0 \/ s.mem = mt
  BY DEF OwnMem
<1> HIDE DEF t
<1>6. Supersedes(s, t)
  BY <1>3, <1>4, FollowerSupersedes DEF Puts
<1> QED BY <1>1, <1>4, <1>5, <1>6 DEF Puts, e

\* The iterator that an insertion or a search returns.
LEMMA FoundIsGood ==
  ASSUME NEW ms, NEW hs, Good(ms, hs), NEW m \in Maps, NEW i \in Iters, NEW k \in Keys
  PROVE  Good(ms, [hs EXCEPT ![i] = Found(ms[m], k)])
<1> DEFINE h == Found(ms[m], k)
<1>1. MapOk(ms[m])
  BY DEF Good
<1>2. h \in HeldType /\ (Live(h) => Reaches(ms[m], h))
  BY <1>1, FoundIs
<1> HIDE DEF h
<1>3. Good(ms, [hs EXCEPT ![i] = h])
  BY <1>2, TakenIsGood
<1> QED BY <1>3 DEF h

LEMMA InsertIsGood ==
  ASSUME Good(maps, held), NEW m \in Maps, NEW mt \in MemTypes, NEW k \in Keys, NEW v \in Values,
         NEW i \in Iters, Insert(m, mt, k, v, i)
  PROVE  Good(maps', held')
<1> DEFINE t == Put(m, mt, k, v)
           ms == [maps EXCEPT ![m] = t]
           hs == Told(m, t)
<1>1. maps' = ms /\ held' = [hs EXCEPT ![i] = Found(t, k)]
  BY DEF Insert, Becomes
<1>2. MapOk(t) /\ Supersedes(maps[m], t)
  BY PutIs
<1> HIDE DEF t
<1>3. Good(ms, hs)
  BY <1>2, ToldIsGood
<1>4. ms[m] = t
  BY DEF Good
<1> HIDE DEF ms, hs
<1>5. Good(ms, [hs EXCEPT ![i] = Found(ms[m], k)])
  BY <1>3, FoundIsGood
<1> QED BY <1>1, <1>4, <1>5

LEMMA GetIsGood ==
  ASSUME Good(maps, held), NEW m \in Maps, NEW mt \in MemTypes, NEW k \in Keys, NEW v \in Values,
         Get(m, mt, k, v)
  PROVE  Good(maps', held')
<1> DEFINE t == Put(m, mt, k, v)
<1>1. maps' = [maps EXCEPT ![m] = t] /\ held' = Told(m, t)
  BY DEF Get, Becomes
<1>2. MapOk(t) /\ Supersedes(maps[m], t)
  BY PutIs
<1> HIDE DEF t
<1>3. Good([maps EXCEPT ![m] = t], Told(m, t))
  BY <1>2, ToldIsGood
<1> QED BY <1>1, <1>3

LEMMA RangeIsGood ==
  ASSUME Good(maps, held), NEW m \in Maps, NEW mt \in MemTypes, NEW r \in Ranges,
         NEW i \in Iters, InsertRange(m, mt, r, i)
  PROVE  Good(maps', held')
<1> DEFINE s == Ranged(maps[m], Busy, mt, r)
           nb == BucketSize(Size(s))
           t == Rehashed(s, Busy, nb)
           ms == [maps EXCEPT ![m] = t]
           hs == Told(m, t)
<1>1. maps' = ms /\ held' = [hs EXCEPT ![i] = Found(t, r[1].key)] /\ r # <<>>
  BY DEF InsertRange, Ranged, Becomes
<1>2. r \in Seq(Pairs) /\ r[1].key \in Keys
  <2>1. PICK a, b \in Pairs : r = <<a, b>>
    BY <1>1 DEF Ranges
  <2>2. r[1] = a /\ a.key \in Keys
    BY <2>1 DEF Pairs
  <2> QED BY <2>1, <2>2
<1>3. MapOk(maps[m]) /\ IsFiniteSet(Busy) /\ maps[m].chain.gen \in Busy
  BY BusyIsFinite DEF Good
<1>4. MapOk(s) /\ Follows(Busy, maps[m], s)
  BY <1>2, <1>3, RangedIs
<1> HIDE DEF s
<1>5. nb \in Nat
  <2>1. Size(s) \in Nat
    BY <1>4 DEF MapOk, Data, MapType, ChainType, Size
  <2> QED BY <2>1, BucketSizeIs
<1> HIDE DEF nb
<1>6. MapOk(t) /\ Follows(Busy, s, t)
  BY <1>3, <1>4, <1>5, RehashFollows
<1> HIDE DEF t
<1>7. Supersedes(maps[m], t)
  <2>1. Follows(Busy, maps[m], t)
    BY <1>4, <1>6, FollowsFollows
  <2> QED BY <1>3, <2>1, FollowerSupersedes
<1>8. Good(ms, hs)
  BY <1>6, <1>7, ToldIsGood
<1>9. ms[m] = t
  BY DEF Good
<1> HIDE DEF ms, hs
<1>10. Good(ms, [hs EXCEPT ![i] = Found(ms[m], r[1].key)])
  BY <1>2, <1>8, FoundIsGood
<1> QED BY <1>1, <1>9, <1>10

LEMMA ListIsGood ==
  ASSUME Good(maps, held), NEW m \in Maps, NEW mt \in MemTypes, NEW r \in Ranges,
         NEW i \in Iters, InsertList(m, mt, r, i)
  PROVE  Good(maps', held')
<1>1. CASE held' = [held EXCEPT ![i] = NoIter] /\ maps' = maps
  <2>1. Good(maps, [held EXCEPT ![i] = NoIter])
    BY NoIterIs, TakenIsGood
  <2> QED BY <1>1, <2>1
<1>2. CASE InsertRange(m, mt, r, i)
  BY <1>2, RangeIsGood
<1> QED BY <1>1, <1>2 DEF InsertList

LEMMA RehashIsGood ==
  ASSUME Good(maps, held), NEW m \in Maps, NEW nb \in Nat, Rehash(m, nb)
  PROVE  Good(maps', held')
<1> DEFINE t == Rehashed(maps[m], Busy, nb)
<1>1. maps' = [maps EXCEPT ![m] = t] /\ held' = Told(m, t)
  BY DEF Rehash, Becomes
<1>2. MapOk(maps[m]) /\ IsFiniteSet(Busy) /\ maps[m].chain.gen \in Busy
  BY BusyIsFinite DEF Good
<1>3. MapOk(t) /\ Follows(Busy, maps[m], t)
  BY <1>2, RehashFollows
<1> HIDE DEF t
<1>4. Supersedes(maps[m], t)
  BY <1>2, <1>3, FollowerSupersedes
<1>5. Good([maps EXCEPT ![m] = t], Told(m, t))
  BY <1>3, <1>4, ToldIsGood
<1> QED BY <1>1, <1>5

LEMMA ClearIsGood ==
  ASSUME Good(maps, held), NEW m \in Maps, Clear(m)
  PROVE  Good(maps', held')
<1>1. maps' = [maps EXCEPT ![m] = NoMap] /\ held' = Told(m, NoMap)
  BY DEF Clear, Becomes
<1>2. MapOk(maps[m])
  BY DEF Good
<1>3. MapOk(NoMap) /\ Supersedes(maps[m], NoMap)
  BY <1>2, NoMapIs, NoMapSupersedes
<1>4. Good([maps EXCEPT ![m] = NoMap], Told(m, NoMap))
  BY <1>3, ToldIsGood
<1> QED BY <1>1, <1>4

LEMMA FindIsGood ==
  ASSUME Good(maps, held), NEW m \in Maps, NEW k \in Keys, NEW i \in Iters, Find(m, k, i)
  PROVE  Good(maps', held')
<1>1. maps' = maps /\ held' = [held EXCEPT ![i] = Found(maps[m], k)]
  BY DEF Find
<1>2. Good(maps, [held EXCEPT ![i] = Found(maps[m], k)])
  BY FoundIsGood
<1> QED BY <1>1, <1>2

LEMMA EndsIsGood ==
  ASSUME Good(maps, held), NEW m \in Maps, NEW i \in Iters, Ends(m, i)
  PROVE  Good(maps', held')
<1> DEFINE s == maps[m]
<1>1. PICK x \in DOMAIN s.chain.node :
        /\ held' = [held EXCEPT ![i] = [gen |-> s.chain.gen, at |-> s.chain.node[x], lost |-> FALSE,
                                        key |-> ElementAt(s, s.chain.node[x]).key]]
        /\ maps' = maps
  BY DEF Ends
<1> DEFINE p == s.chain.node[x]
           h == [gen |-> s.chain.gen, at |-> p, lost |-> FALSE, key |-> ElementAt(s, p).key]
<1>2. MapOk(s) /\ Data(s) /\ s.chain.gen \in Nat \cup {None}
  BY DEF Good, MapOk, Data, MapType, ChainType
<1>3. p \in Places(s)
  BY <1>2 DEF MapOk, Lists, Range
<1> HIDE DEF p, s
<1>4. p \in Pointer /\ ElementAt(s, p).key \in Keys
  BY <1>2, <1>3, PlacesArePointers, ElementIs DEF Pairs
<1>5. h \in HeldType /\ h.at = p /\ h.gen = s.chain.gen /\ h.key = ElementAt(s, p).key
  BY <1>2, <1>4 DEF HeldType
<1> HIDE DEF h
<1>6. Reaches(s, h)
  BY <1>3, <1>5 DEF Reaches
<1>7. Good(maps, [held EXCEPT ![i] = h])
  BY <1>5, <1>6, TakenIsGood DEF s
<1> QED BY <1>1, <1>7 DEF h, p, s

LEMMA IndexedIs ==
  ASSUME NEW s, Data(s), NEW k, Indexed(s, k) # None
  PROVE  \E b, i : /\ Indexed(s, k) = <<b, i>> /\ Slot(s, b, i)
                   /\ s.bucket[b].elem[i].key = k /\ b \in Searched(s, k)
<1> DEFINE hits == {b \in Searched(s, k) : \E e \in Range(s.bucket[b].elem) : e.key = k}
           b == First(hits)
           there == {x \in DOMAIN s.bucket[b].elem : s.bucket[b].elem[x].key = k}
           i == First(there)
<1>1. hits # {} /\ Indexed(s, k) = <<b, i>>
  BY DEF Indexed
<1>2. DOMAIN s.bucket \subseteq Nat
  BY Buckets DEF Data
<1>3. hits \in SUBSET Nat
  BY <1>2 DEF Searched
<1>4. b \in hits
  <2> HIDE DEF hits
  <2> QED BY <1>1, <1>3, FirstIs
<1>5. b \in DOMAIN s.bucket /\ b \in Searched(s, k) /\ \E e \in Range(s.bucket[b].elem) : e.key = k
  BY <1>4 DEF Searched
<1> HIDE DEF hits, b
<1>6. there \in SUBSET Nat /\ there # {}
  <2>1. DOMAIN s.bucket[b].elem \subseteq Nat
    BY <1>5, Buckets DEF Data
  <2>2. there # {}
    BY <1>5 DEF Range
  <2> QED BY <2>1, <2>2
<1>7. i \in there
  <2> HIDE DEF there
  <2> QED BY <1>6, FirstIs
<1>8. Slot(s, b, i) /\ s.bucket[b].elem[i].key = k
  BY <1>5, <1>7 DEF Slot
<1> HIDE DEF i
<1> QED BY <1>1, <1>5, <1>8

\* s with the value v at an element.
Stored(s, b, i, v) == [s EXCEPT !.bucket[b].elem[i] = [s.bucket[b].elem[i] EXCEPT !.val = v]]

\* t is s with the element e in place of the one that had its key.
Overlaid(s, t, e) ==
  /\ MapOk(t) /\ Supersedes(s, t) /\ t.chain = s.chain /\ t.mem = s.mem /\ e \in Pairs
  /\ Layout(s) => Layout(t) /\ Elems(t) = Others(s, e) \cup {e}

LEMMA StoredIs ==
  ASSUME NEW s, MapOk(s), NEW b, NEW i, Slot(s, b, i), NEW v \in Values
  PROVE  Overlaid(s, Stored(s, b, i, v), Elem(s.bucket[b].elem[i].key, v))
<1> DEFINE t == Stored(s, b, i, v)
           x == s.bucket[b].elem[i]
           e == [x EXCEPT !.val = v]
<1>1. Data(s) /\ Lists(s)
  BY DEF MapOk
<1>2. x \in Pairs
  BY <1>1, Buckets DEF Data, Slot
<1> HIDE DEF x
<1>3. e \in Pairs /\ e.key = x.key /\ e.val = v
  BY <1>2 DEF Pairs
<1>4. t = [s EXCEPT !.bucket[b].elem[i] = e]
  BY DEF Stored, x
<1> HIDE DEF e, t
<1>5. Replaced(s, t, b, i, e)
  BY <1>1, <1>3, <1>4, ReplaceIs
<1>6. /\ Data(t) /\ t.chain = s.chain /\ t.mem = s.mem /\ t.bcap = s.bcap /\ t.bucket # <<>>
      /\ Places(t) = Places(s) /\ \A p \in Places(s) : ElementAt(t, p).key = ElementAt(s, p).key
  <2>1. s.bucket[b].elem[i].key = e.key
    BY <1>3 DEF x
  <2> QED BY <1>1, <1>5, <2>1, ReplacedPlaces DEF Replaced
<1>7. MapOk(t)
  BY <1>1, <1>6 DEF Lists, Size, MapOk
<1>8. Supersedes(s, t)
  BY <1>6 DEF Supersedes
<1>9. ASSUME Layout(s) PROVE Layout(t) /\ Elems(t) = Others(s, e) \cup {e}
  <2>1. Hit(s, e, b, i)
    BY <1>3 DEF Hit, x
  <2>2. s.bcap > 0
    <3>1. b \in 1 .. Len(s.bucket) /\ Len(s.bucket) \in Nat /\ Len(s.bucket) <= s.bcap /\ s.bcap \in Nat
      BY <1>1, Buckets DEF Data, Filled, MapType, Slot
    <3> QED BY <3>1
  <2>3. KeysApart(s) /\ s.bcap = BucketSize(Size(s)) /\ ByResidue(s, s.bcap)
    BY <1>9, <2>2 DEF Layout
  <2>4. KeysApart(t) /\ ByResidue(t, s.bcap) /\ Elems(t) = Others(s, e) \cup {e}
    BY <1>1, <1>5, <2>1, <2>3, ReplacedLayout
  <2> QED BY <1>6, <2>3, <2>4 DEF Layout, Size
<1>10. e = Elem(s.bucket[b].elem[i].key, v)
  <2>1. Elem(x.key, v) \in Pairs /\ Elem(x.key, v).key = x.key /\ Elem(x.key, v).val = v
    BY <1>2 DEF Elem, Pairs
  <2>2. e = Elem(x.key, v)
    BY <1>3, <2>1 DEF Pairs
  <2> QED BY <2>2 DEF x
<1> QED BY <1>3, <1>6, <1>7, <1>8, <1>9, <1>10 DEF t, Overlaid

LEMMA StoreIs ==
  ASSUME Good(maps, held), NEW m \in Maps, NEW k, NEW v \in Values, Store(m, k, v)
  PROVE  \E b, i : /\ Slot(maps[m], b, i) /\ maps[m].bucket[b].elem[i].key = k
                   /\ maps' = [maps EXCEPT ![m] = Stored(maps[m], b, i, v)] /\ held' = held
<1> DEFINE s == maps[m]
<1>1. Data(s) /\ s \in MapType /\ maps \in [Maps -> MapType]
  BY DEF Good, MapOk, Data
<1>2. PICK b, i : Indexed(s, k) = <<b, i>> /\ Slot(s, b, i) /\ s.bucket[b].elem[i].key = k
  BY <1>1, IndexedIs DEF Store
<1>3. maps' = [maps EXCEPT ![m].bucket[b].elem[i].val = v] /\ held' = held
  BY <1>2 DEF Store
<1>4. [maps EXCEPT ![m].bucket[b].elem[i].val = v] = [maps EXCEPT ![m] = Stored(s, b, i, v)]
  BY DEF Stored
<1> QED BY <1>2, <1>3, <1>4

LEMMA StoreIsGood ==
  ASSUME Good(maps, held), NEW m \in Maps, NEW k, NEW v \in Values, Store(m, k, v)
  PROVE  Good(maps', held')
<1>1. PICK b, i : /\ Slot(maps[m], b, i) /\ held' = held
                  /\ maps' = [maps EXCEPT ![m] = Stored(maps[m], b, i, v)]
  BY StoreIs
<1> DEFINE t == Stored(maps[m], b, i, v)
<1>2. MapOk(maps[m]) /\ Slot(maps[m], b, i)
  BY <1>1 DEF Good
<1>3. MapOk(t) /\ Supersedes(maps[m], t) /\ t.chain = maps[m].chain
  <2>1. Overlaid(maps[m], t, Elem(maps[m].bucket[b].elem[i].key, v))
    BY <1>2, StoredIs
  <2> QED BY <2>1 DEF Overlaid
<1>4. maps' = [maps EXCEPT ![m] = t]
  BY <1>1
<1> HIDE DEF t
<1>5. Good([maps EXCEPT ![m] = t], Told(m, t))
  BY <1>3, ToldIsGood
<1>6. Told(m, t) = held
  <2>1. held \in [Iters -> HeldType]
    BY DEF Good
  <2> QED BY <1>3, <2>1 DEF Told
<1> QED BY <1>1, <1>4, <1>5, <1>6

LEMMA TransferIsGood ==
  ASSUME Good(maps, held), NEW m \in Maps, NEW mt \in MemTypes, Transfer(m, mt)
  PROVE  Good(maps', held')
<1>1. CASE maps[m].bcap = 0
  BY <1>1 DEF Transfer
<1>2. CASE maps[m].bcap # 0
  <2> DEFINE t == Listed(Moved(maps[m], Busy, mt), Busy)
             ms == [maps EXCEPT ![m] = t]
  <2>1. maps' = ms /\ held' = Untold(m)
    BY <1>2 DEF Transfer, Becomes
  <2>2. MapOk(maps[m]) /\ maps[m].bcap > 0 /\ IsFiniteSet(Busy)
    <3>1. MapOk(maps[m])
      BY DEF Good
    <3>2. maps[m].bcap \in Nat
      BY <3>1 DEF MapOk, Data, MapType
    <3> QED BY <1>2, <3>1, <3>2, BusyIsFinite
  <2>3. MapOk(t)
    BY <2>2, TransferIs
  <2> HIDE DEF t
  <2>4. ms \in [Maps -> MapType] /\ \A w \in Maps : MapOk(ms[w])
    BY <2>3 DEF Good, MapOk, Data
  <2>5. \A w \in Maps \ {m} : \E x \in Maps : ms[x] = maps[w]
    BY DEF Good
  <2> HIDE DEF ms
  <2>6. Good(ms, Untold(m))
    BY <2>4, <2>5, UntoldIsGood
  <2> QED BY <2>1, <2>6
<1> QED BY <1>1, <1>2

LEMMA SwapIsGood ==
  ASSUME Good(maps, held), NEW m \in Maps, NEW w \in Maps, Swap(m, w)
  PROVE  Good(maps', held')
<1> DEFINE ms == [maps EXCEPT ![m] = maps[w], ![w] = maps[m]]
<1>1. maps' = ms /\ held' = held /\ m # w
  BY DEF Swap
<1>2. maps \in [Maps -> MapType] /\ \A x \in Maps : MapOk(maps[x])
  BY DEF Good
<1>3. ms \in [Maps -> MapType] /\ ms[m] = maps[w] /\ ms[w] = maps[m] /\ \A x \in Maps \ {m, w} : ms[x] = maps[x]
  BY <1>1, <1>2
<1> HIDE DEF ms
<1>4. \A x \in Maps : MapOk(ms[x])
  BY <1>2, <1>3
<1>5. \A x \in Maps : \E y \in Maps : ms[y] = maps[x]
  BY <1>3
<1>6. Good(ms, held)
  BY <1>3, <1>4, <1>5, MovedIsGood
<1> QED BY <1>1, <1>6

LEMMA MoveAssignIsGood ==
  ASSUME Good(maps, held), NEW m \in Maps, NEW w \in Maps, MoveAssign(m, w)
  PROVE  Good(maps', held')
<1> DEFINE ms == [maps EXCEPT ![m] = maps[w], ![w] = NoMap]
<1>1. maps' = ms /\ held' = Untold(m) /\ m # w
  BY DEF MoveAssign
<1>2. maps \in [Maps -> MapType] /\ \A x \in Maps : MapOk(maps[x])
  BY DEF Good
<1>3. ms \in [Maps -> MapType] /\ ms[m] = maps[w] /\ ms[w] = NoMap /\ \A x \in Maps \ {m, w} : ms[x] = maps[x]
  BY <1>1, <1>2, NoMapIs DEF MapOk, Data
<1> HIDE DEF ms
<1>4. \A x \in Maps : MapOk(ms[x])
  BY <1>2, <1>3, NoMapIs
<1>5. \A x \in Maps \ {m} : \E y \in Maps : ms[y] = maps[x]
  BY <1>3
<1>6. Good(ms, Untold(m))
  BY <1>3, <1>4, <1>5, UntoldIsGood
<1> QED BY <1>1, <1>6

LEMMA MoveIntoIsGood ==
  ASSUME Good(maps, held), NEW m \in Maps, NEW w \in Maps, MoveInto(m, w)
  PROVE  Good(maps', held')
<1> DEFINE ms == [maps EXCEPT ![m] = maps[w], ![w] = NoMap]
<1>1. maps' = ms /\ held' = held /\ m # w /\ maps[m] = NoMap
  BY DEF MoveInto
<1>2. maps \in [Maps -> MapType] /\ \A x \in Maps : MapOk(maps[x])
  BY DEF Good
<1>3. ms \in [Maps -> MapType] /\ ms[m] = maps[w] /\ ms[w] = NoMap /\ \A x \in Maps \ {m, w} : ms[x] = maps[x]
  BY <1>1, <1>2, NoMapIs DEF MapOk, Data
<1> HIDE DEF ms
<1>4. \A x \in Maps : MapOk(ms[x])
  BY <1>2, <1>3, NoMapIs
<1>5. \A x \in Maps : Places(maps[x]) # {} => \E y \in Maps : ms[y] = maps[x]
  <2> TAKE x \in Maps
  <2>1. CASE x = m
    BY <1>1, <2>1, NoMapIs
  <2>2. CASE x # m
    BY <1>3, <2>2
  <2> QED BY <2>1, <2>2
<1>6. Good(ms, held)
  BY <1>3, <1>4, <1>5, MovedIsGood
<1> QED BY <1>1, <1>6

-----------------------------------------------------------------------------
(* The invariant *)

LEMMA InitIsGood ==
  ASSUME Init
  PROVE  Good(maps, held)
<1>1. maps = [m \in Maps |-> NoMap] /\ held = [i \in Iters |-> NoIter]
  BY DEF Init
<1>2. NoMap \in MapType
  BY NoMapIs DEF MapOk, Data
<1> QED BY <1>1, <1>2, NoMapIs, NoIterIs DEF Good

LEMMA SteadilyIsGood ==
  ASSUME Good(maps, held), Steadily(Maps, Keys, Values, MemTypes)
  PROVE  Good(maps', held')
<1>1. PICK m \in Maps :
        \/ \E mt \in OwnMem(m) \cap MemTypes, k \in Keys, v \in Values :
             Get(m, mt, k, v) \/ \E i \in Iters : Insert(m, mt, k, v, i)
        \/ \E i \in Iters : Ends(m, i) \/ \E k \in Keys : Find(m, k, i)
        \/ \E k \in Keys, v \in Values : Store(m, k, v)
        \/ \E mt \in MemTypes : Transfer(m, mt)
        \/ \E w \in Maps : Swap(m, w) \/ MoveAssign(m, w) \/ MoveInto(m, w)
        \/ Clear(m) \/ Destroy(m)
  BY DEF Steadily
<1>2. ASSUME NEW mt \in MemTypes, NEW k \in Keys, NEW v \in Values, Get(m, mt, k, v)
      PROVE  Good(maps', held')
  BY <1>2, GetIsGood
<1>3. ASSUME NEW mt \in MemTypes, NEW k \in Keys, NEW v \in Values, NEW i \in Iters, Insert(m, mt, k, v, i)
      PROVE  Good(maps', held')
  BY <1>3, InsertIsGood
<1>4. ASSUME NEW i \in Iters, Ends(m, i) PROVE Good(maps', held')
  BY <1>4, EndsIsGood
<1>5. ASSUME NEW i \in Iters, NEW k \in Keys, Find(m, k, i) PROVE Good(maps', held')
  BY <1>5, FindIsGood
<1>6. ASSUME NEW k \in Keys, NEW v \in Values, Store(m, k, v) PROVE Good(maps', held')
  BY <1>6, StoreIsGood
<1>7. ASSUME NEW mt \in MemTypes, Transfer(m, mt) PROVE Good(maps', held')
  BY <1>7, TransferIsGood
<1>8. ASSUME NEW w \in Maps, Swap(m, w) PROVE Good(maps', held')
  BY <1>8, SwapIsGood
<1>9. ASSUME NEW w \in Maps, MoveAssign(m, w) PROVE Good(maps', held')
  BY <1>9, MoveAssignIsGood
<1>10. ASSUME NEW w \in Maps, MoveInto(m, w) PROVE Good(maps', held')
  BY <1>10, MoveIntoIsGood
<1>11. ASSUME Clear(m) \/ Destroy(m) PROVE Good(maps', held')
  BY <1>11, ClearIsGood DEF Destroy
<1> QED BY <1>1, <1>2, <1>3, <1>4, <1>5, <1>6, <1>7, <1>8, <1>9, <1>10, <1>11

LEMMA OtherwiseIsGood ==
  ASSUME Good(maps, held), Otherwise(Maps, Keys, Values, MemTypes)
  PROVE  Good(maps', held')
<1>1. PICK m \in Maps :
        \/ \E mt \in MemTypes, k \in Keys, v \in Values, i \in Iters : Insert(m, mt, k, v, i)
        \/ \E mt \in MemTypes, r \in Ranges, i \in Iters : InsertRange(m, mt, r, i) \/ InsertList(m, mt, r, i)
        \/ \E nb \in 0 .. MaxBuckets : Rehash(m, nb)
  BY DEF Otherwise
<1>2. ASSUME NEW mt \in MemTypes, NEW k \in Keys, NEW v \in Values, NEW i \in Iters, Insert(m, mt, k, v, i)
      PROVE  Good(maps', held')
  BY <1>2, InsertIsGood
<1>3. ASSUME NEW mt \in MemTypes, NEW r \in Ranges, NEW i \in Iters, InsertRange(m, mt, r, i)
      PROVE  Good(maps', held')
  BY <1>3, RangeIsGood
<1>4. ASSUME NEW mt \in MemTypes, NEW r \in Ranges, NEW i \in Iters, InsertList(m, mt, r, i)
      PROVE  Good(maps', held')
  BY <1>4, ListIsGood
<1>5. ASSUME NEW nb \in 0 .. MaxBuckets, Rehash(m, nb) PROVE Good(maps', held')
  <2>1. nb \in Nat
    BY <1>5
  <2> QED BY <1>5, <2>1, RehashIsGood
<1> QED BY <1>1, <1>2, <1>3, <1>4, <1>5

\* The maps are consistent, and so is what the program holds of them.
THEOREM MapsStayGood == Spec => []Good(maps, held)
<1>1. Init => Good(maps, held)
  BY InitIsGood
<1>2. Good(maps, held) /\ [Next]_vars => Good(maps, held)'
  <2> SUFFICES ASSUME Good(maps, held), [Next]_vars PROVE Good(maps', held')
    BY DEF Good, HeldType, MapType, ChainType, Bucket, Pairs, Pointer
  <2>1. CASE Steadily(Maps, Keys, Values, MemTypes)
    BY <2>1, SteadilyIsGood
  <2>2. CASE Otherwise(Maps, Keys, Values, MemTypes)
    BY <2>2, OtherwiseIsGood
  <2>3. CASE UNCHANGED vars
    BY <2>3 DEF vars
  <2> QED BY <2>1, <2>2, <2>3 DEF Next
<1> QED BY <1>1, <1>2, PTL DEF Spec

-----------------------------------------------------------------------------
(* The chain lists the elements, and what is held leads to its key *)

\* The slots, as a set.
SlotsOf(s) == UNION {{b} \X DOMAIN s.bucket[b].elem : b \in DOMAIN s.bucket}
PlaceAt(s, d) == <<s.bucket[d[1]].blk, d[2]>>
SlotAt(s, p) == CHOOSE d \in SlotsOf(s) : PlaceAt(s, d) = p

LEMMA SlotsAre ==
  ASSUME NEW s
  PROVE  /\ \A b, i : Slot(s, b, i) => <<b, i>> \in SlotsOf(s)
         /\ \A d \in SlotsOf(s) : Slot(s, d[1], d[2]) /\ d = <<d[1], d[2]>>
<1>1. ASSUME NEW b, NEW i, Slot(s, b, i) PROVE <<b, i>> \in SlotsOf(s)
  <2>1. <<b, i>> \in {b} \X DOMAIN s.bucket[b].elem /\ b \in DOMAIN s.bucket
    BY <1>1 DEF Slot
  <2> QED BY <2>1 DEF SlotsOf
<1>2. ASSUME NEW d \in SlotsOf(s) PROVE Slot(s, d[1], d[2]) /\ d = <<d[1], d[2]>>
  <2>1. PICK b \in DOMAIN s.bucket : d \in {b} \X DOMAIN s.bucket[b].elem
    BY <1>2 DEF SlotsOf
  <2> QED BY <2>1 DEF Slot
<1> QED BY <1>1, <1>2

LEMMA DataSizeIs ==
  ASSUME NEW s, MapOk(s)
  PROVE  DataSize(s) = Size(s)
<1> DEFINE P == Places(s)
           D == SlotsOf(s)
           g == [p \in P |-> SlotAt(s, p)]
<1>1. Data(s) /\ Lists(s) /\ s.chain.node \in Seq(Nat \X Nat)
  BY DEF MapOk, Data, MapType, ChainType
<1>2. IsFiniteSet(P) /\ Cardinality(P) = Size(s)
  <2>1. IsFiniteSet(Range(s.chain.node)) /\ Cardinality(Range(s.chain.node)) = Len(s.chain.node)
    BY <1>1, RangeIsFinite DEF Lists
  <2> QED BY <1>1, <2>1 DEF Lists, Size
<1>3. ASSUME NEW p \in P PROVE SlotAt(s, p) \in D /\ PlaceAt(s, SlotAt(s, p)) = p
  <2>1. PICK b, i : Slot(s, b, i) /\ p = <<s.bucket[b].blk, i>>
    BY <1>1, PlaceIs
  <2>2. <<b, i>> \in D /\ PlaceAt(s, <<b, i>>) = p
    BY <2>1, SlotsAre DEF PlaceAt
  <2> QED BY <2>2 DEF SlotAt
<1>4. ASSUME NEW d \in D PROVE PlaceAt(s, d) \in P /\ SlotAt(s, PlaceAt(s, d)) = d
  <2>1. Slot(s, d[1], d[2]) /\ d = <<d[1], d[2]>>
    BY SlotsAre
  <2>2. PlaceAt(s, d) \in P
    BY <1>1, <2>1, PlaceOf DEF PlaceAt
  <2>3. SlotAt(s, PlaceAt(s, d)) \in D /\ PlaceAt(s, SlotAt(s, PlaceAt(s, d))) = PlaceAt(s, d)
    BY <1>3, <2>2
  <2>4. ASSUME NEW c \in D, PlaceAt(s, c) = PlaceAt(s, d) PROVE c = d
    <3>1. Slot(s, c[1], c[2]) /\ c = <<c[1], c[2]>>
      BY SlotsAre
    <3>2. s.bucket[c[1]].blk = s.bucket[d[1]].blk /\ c[2] = d[2]
      BY <2>4 DEF PlaceAt
    <3>3. c[1] = d[1]
      BY <1>1, <2>1, <3>1, <3>2 DEF Data, Filled, Slot
    <3> QED BY <2>1, <3>1, <3>2, <3>3
  <2> QED BY <2>2, <2>3, <2>4
<1>5. g \in [P -> D] /\ \A d \in D : \E p \in P : g[p] = d
  BY <1>3, <1>4
<1>6. \A p, q \in P : g[p] = g[q] => p = q
  BY <1>3
<1>7. DataSize(s) = Cardinality(D)
  BY DEF DataSize, SlotsOf
<1> HIDE DEF g, P, D
<1>8. g \in Surjection(P, D) /\ g \in Injection(P, D)
  BY <1>5, <1>6 DEF Surjection, Injection, IsInjective
<1>9. IsFiniteSet(D) /\ Cardinality(D) = Cardinality(P)
  BY <1>2, <1>8, FS_Surjection
<1> QED BY <1>2, <1>7, <1>9

\* What every consistent map is, as the type invariant says it.
LEMMA OkIsTyped ==
  ASSUME NEW s, MapOk(s)
  PROVE  /\ s.mem \in MemTypes /\ s.bcap \in Nat /\ Len(s.bucket) <= s.bcap
         /\ s.chain.gen \in Nat \cup {None} /\ Size(s) <= s.chain.room
         /\ \A x \in DOMAIN s.chain.node : s.chain.node[x] \in Nat \X Nat
         /\ \A b \in DOMAIN s.bucket :
              /\ s.bucket[b].hash \in Range(Hash) /\ s.bucket[b].blk \in Nat
              /\ Len(s.bucket[b].elem) \in 1 .. s.bucket[b].cap
              /\ Range(s.bucket[b].elem) \subseteq Pairs
<1>1. Data(s) /\ Lists(s) /\ s \in MapType
  BY DEF MapOk, Data
<1>2. /\ s.mem \in MemTypes /\ s.bcap \in Nat /\ Len(s.bucket) <= s.bcap
      /\ s.chain.gen \in Nat \cup {None} /\ Size(s) <= s.chain.room
  BY <1>1 DEF Lists, Data, Filled, MapType, ChainType
<1>3. \A x \in DOMAIN s.chain.node : s.chain.node[x] \in Nat \X Nat
  <2>1. s.chain.node \in Seq(Nat \X Nat)
    BY <1>1 DEF MapType, ChainType
  <2> QED BY <2>1
<1>4. ASSUME NEW b \in DOMAIN s.bucket
      PROVE  /\ s.bucket[b].hash \in Range(Hash) /\ s.bucket[b].blk \in Nat
             /\ Len(s.bucket[b].elem) \in 1 .. s.bucket[b].cap
             /\ Range(s.bucket[b].elem) \subseteq Pairs
  <2>1. s.bucket[b].hash \in Range(Hash) /\ s.bucket[b].blk \in Nat
    BY <1>1, <1>4, Buckets
  <2>2. Len(s.bucket[b].elem) \in 1 .. s.bucket[b].cap
    BY <1>1, <1>4 DEF Data, Filled
  <2>3. \A i \in DOMAIN s.bucket[b].elem : s.bucket[b].elem[i] \in Pairs
    BY <1>1, <1>4, Buckets
  <2> QED BY <2>1, <2>2, <2>3 DEF Range
<1> QED BY <1>2, <1>3, <1>4

\* After every sequence of insertions, rehashes, transfers, moves and swaps,
\* storage has room for what is in it, and the chain of each map has one node
\* for each element, so that size() counts them (IvyUnorderedMap).
THEOREM ChainsListElements == Spec => []MapsListElements
<1>1. Good(maps, held) => MapsListElements
  <2> SUFFICES ASSUME Good(maps, held) PROVE TypeOK /\ ChainListsElements
    BY DEF MapsListElements
  <2>1. TypeOK
    <3>1. \A m \in Maps : MapOk(maps[m])
      BY DEF Good
    <3>2. ASSUME NEW i \in Iters
          PROVE  /\ held[i].gen \in Nat \cup {None} /\ held[i].at \in Pointer
                 /\ held[i].key \in Keys \cup {None} /\ held[i].lost \in BOOLEAN
      <4>1. held[i] \in HeldType
        BY DEF Good
      <4> QED BY <4>1 DEF HeldType
    <3> QED BY <3>1, <3>2, OkIsTyped DEF TypeOK
  <2>2. ASSUME NEW m \in Maps
        PROVE  /\ IsInjective(maps[m].chain.node)
               /\ Range(maps[m].chain.node) = Range(Addresses(maps[m]))
               /\ Size(maps[m]) = DataSize(maps[m])
    <3>1. MapOk(maps[m])
      BY DEF Good
    <3>2. Data(maps[m]) /\ Lists(maps[m])
      BY <3>1 DEF MapOk
    <3> QED BY <3>1, <3>2, DataSizeIs, AddressesList DEF Lists
  <2> QED BY <2>1, <2>2 DEF ChainListsElements
<1> QED BY <1>1, MapsStayGood, PTL

\* No insertion, growth of a bucket, rehash, swap or move leaves an iterator
\* that was not set to null at another element or at storage that is gone.
THEOREM HeldIteratorsReachTheirKey == Spec => []HeldReachesKey
<1>1. Good(maps, held) => HeldReachesKey
  <2> SUFFICES ASSUME Good(maps, held), NEW i \in Iters, held[i].at # None, ~held[i].lost
               PROVE  \E m \in Maps : /\ Resident(maps[m], held[i].at)
                                      /\ ElementAt(maps[m], held[i].at).key = held[i].key
                                      /\ maps[m].chain.gen = held[i].gen
    BY DEF HeldReachesKey
  <2>1. PICK m \in Maps : Reaches(maps[m], held[i])
    BY DEF Good, Live
  <2> QED BY <2>1 DEF Reaches, Places
<1> QED BY <1>1, MapsStayGood, PTL

-----------------------------------------------------------------------------
(* Single insertions in the memory the data is in *)

LEMMA KeyDecides ==
  ASSUME NEW s, Data(s), KeysApart(s), NEW e \in Elems(s), NEW f \in Elems(s), e.key = f.key
  PROVE  e = f
<1>1. PICK p \in Places(s) : e = ElementAt(s, p)
  BY DEF Elems
<1>2. PICK q \in Places(s) : f = ElementAt(s, q)
  BY DEF Elems
<1>3. p = q
  BY <1>1, <1>2, PlacesApart
<1> QED BY <1>1, <1>2, <1>3

LEMMA KeysInAre ==
  ASSUME NEW s, Data(s)
  PROVE  \A k : k \in KeysIn(s) <=> \E e \in Elems(s) : e.key = k
<1>1. ASSUME NEW k \in KeysIn(s) PROVE \E e \in Elems(s) : e.key = k
  <2>1. PICK b \in DOMAIN s.bucket : k \in {e.key : e \in Range(s.bucket[b].elem)}
    BY <1>1 DEF KeysIn
  <2>2. PICK e \in Range(s.bucket[b].elem) : k = e.key
    BY <2>1
  <2>3. PICK i \in DOMAIN s.bucket[b].elem : e = s.bucket[b].elem[i]
    BY <2>2 DEF Range
  <2>4. e \in Elems(s)
    BY <2>3, ElemOf DEF Slot
  <2> QED BY <2>2, <2>4
<1>2. ASSUME NEW e \in Elems(s) PROVE e.key \in KeysIn(s)
  <2>1. PICK b, i : Slot(s, b, i) /\ e = s.bucket[b].elem[i]
    BY <1>2, ElemOf
  <2>2. e \in Range(s.bucket[b].elem) /\ b \in DOMAIN s.bucket
    BY <2>1 DEF Slot, Range
  <2> QED BY <2>2 DEF KeysIn
<1> QED BY <1>1, <1>2

LEMMA KeysAreCounted ==
  ASSUME NEW s, MapOk(s), KeysApart(s)
  PROVE  Cardinality(KeysIn(s)) = Size(s)
<1> DEFINE T == Elems(s)
           K == KeysIn(s)
           f == [e \in T |-> e.key]
<1>1. Data(s)
  BY DEF MapOk
<1>2. f \in [T -> K] /\ \A k \in K : \E e \in T : f[e] = k
  BY <1>1, KeysInAre
<1>3. \A d, e \in T : f[d] = f[e] => d = e
  BY <1>1, KeyDecides
<1>4. IsFiniteSet(T) /\ Cardinality(T) = Size(s)
  BY ElemsAreFinite
<1> HIDE DEF f, T, K
<1>5. f \in Surjection(T, K) /\ f \in Injection(T, K)
  BY <1>2, <1>3 DEF Surjection, Injection, IsInjective
<1>6. IsFiniteSet(K) /\ Cardinality(K) = Cardinality(T)
  BY <1>4, <1>5, FS_Surjection
<1> QED BY <1>4, <1>6 DEF K

LEMMA LayoutIs ==
  ASSUME NEW s, MapOk(s), Layout(s), NEW b \in DOMAIN s.bucket, NEW e \in Range(s.bucket[b].elem)
  PROVE  Hits(s, Size(s), e.key) = {b}
<1>1. Data(s)
  BY DEF MapOk
<1>2. PICK i : Slot(s, b, i) /\ e = s.bucket[b].elem[i]
  BY DEF Range, Slot
<1>3. s.bcap > 0
  <2>1. Places(s) # {}
    BY <1>1, <1>2, PlaceOf
  <2> QED BY <2>1, HasChain
<1>4. ByResidue(s, BucketSize(Size(s)))
  BY <1>3 DEF Layout
<1>5. \A a \in DOMAIN s.bucket : Congruent(Size(s), Hash[e.key], s.bucket[a].hash) <=> a = b
  <2>1. Hash[e.key] % BucketSize(Size(s)) = s.bucket[b].hash % BucketSize(Size(s))
    BY <1>2, <1>4 DEF ByResidue
  <2>2. ASSUME NEW a \in DOMAIN s.bucket, Congruent(Size(s), Hash[e.key], s.bucket[a].hash) PROVE a = b
    <3>1. s.bucket[a].hash % BucketSize(Size(s)) = s.bucket[b].hash % BucketSize(Size(s))
      BY <2>1, <2>2 DEF Congruent
    <3> QED BY <1>4, <2>2, <3>1 DEF ByResidue
  <2> QED BY <2>1, <2>2 DEF Congruent
<1> QED BY <1>5 DEF Hits

\* What a step of a program so used does to one map, or to two.
Steps(ms, ns) ==
  \/ ns = ms
  \/ \E m \in Maps, e \in Pairs : \E t :
       /\ ns = [ms EXCEPT ![m] = t] /\ Layout(t) /\ t.mem \in MemTypes
       /\ Elems(t) = Others(ms[m], e) \cup {e}
       /\ Elems(ms[m]) = {} \/ t.mem = ms[m].mem
  \/ \E m \in Maps : \E t :
       ns = [ms EXCEPT ![m] = t] /\ Layout(t) /\ t.mem \in MemTypes /\ Elems(t) = Elems(ms[m])
  \/ \E m \in Maps : ns = [ms EXCEPT ![m] = NoMap]
  \/ \E m, w \in Maps : m # w /\ ns = [ms EXCEPT ![m] = ms[w], ![w] = ms[m]]
  \/ \E m, w \in Maps : m # w /\ ns = [ms EXCEPT ![m] = ms[w], ![w] = NoMap]

Laid(ms) == \A m \in Maps : Layout(ms[m])

LEMMA ElementPut ==
  ASSUME NEW m \in Maps, NEW e \in Pairs, NEW t, Layout(t), t.mem \in MemTypes,
         Elems(t) = Others(maps[m], e) \cup {e}, Elems(maps[m]) = {} \/ t.mem = maps[m].mem
  PROVE  Steps(maps, [maps EXCEPT ![m] = t])
BY DEF Steps

LEMMA NoBucketsNoElems ==
  ASSUME NEW s, MapOk(s), s.bcap = 0
  PROVE  Elems(s) = {}
<1>1. Places(s) = {}
  BY HasChain
<1> QED BY <1>1 DEF Elems

LEMMA PutSteps ==
  ASSUME Good(maps, held), Laid(maps), NEW m \in Maps, NEW mt \in OwnMem(m), NEW k \in Keys, NEW v \in Values
  PROVE  Steps(maps, [maps EXCEPT ![m] = Put(m, mt, k, v)])
<1> DEFINE t == Put(m, mt, k, v)
           e == Elem(k, v)
<1>1. mt \in MemTypes /\ e \in Pairs /\ Layout(maps[m]) /\ MapOk(maps[m])
  BY DEF OwnMem, Elem, Pairs, Laid, Good
<1>2. Layout(t) /\ t.mem = mt /\ Elems(t) = Others(maps[m], e) \cup {e}
  BY <1>1, PutIs
<1>3. Elems(maps[m]) = {} \/ mt = maps[m].mem
  BY <1>1, NoBucketsNoElems DEF OwnMem
<1> HIDE DEF t, e
<1>4. Steps(maps, [maps EXCEPT ![m] = t])
  BY <1>1, <1>2, <1>3, ElementPut
<1> QED BY <1>4 DEF t

LEMMA StoreSteps ==
  ASSUME Good(maps, held), Laid(maps), NEW m \in Maps, NEW k \in Keys, NEW v \in Values, Store(m, k, v)
  PROVE  Steps(maps, maps')
<1>1. PICK b, i : /\ Slot(maps[m], b, i)
                  /\ maps' = [maps EXCEPT ![m] = Stored(maps[m], b, i, v)]
  BY StoreIs
<1> DEFINE t == Stored(maps[m], b, i, v)
           e == Elem(maps[m].bucket[b].elem[i].key, v)
<1>2. MapOk(maps[m]) /\ Slot(maps[m], b, i) /\ Layout(maps[m]) /\ maps[m].mem \in MemTypes
  BY <1>1, OkIsTyped DEF Good, Laid
<1>3. Overlaid(maps[m], t, e)
  BY <1>2, StoredIs
<1>4. maps' = [maps EXCEPT ![m] = t]
  BY <1>1
<1> HIDE DEF t, e
<1>5. e \in Pairs /\ Layout(t) /\ t.mem = maps[m].mem /\ Elems(t) = Others(maps[m], e) \cup {e}
  BY <1>2, <1>3 DEF Overlaid
<1>6. Steps(maps, [maps EXCEPT ![m] = t])
  BY <1>2, <1>5, ElementPut
<1> QED BY <1>4, <1>6

LEMMA TransferSteps ==
  ASSUME Good(maps, held), Laid(maps), NEW m \in Maps, NEW mt \in MemTypes, Transfer(m, mt)
  PROVE  Steps(maps, maps')
<1>1. CASE maps[m].bcap = 0
  BY <1>1 DEF Transfer, Steps
<1>2. CASE maps[m].bcap # 0
  <2> DEFINE t == Listed(Moved(maps[m], Busy, mt), Busy)
  <2>1. maps' = [maps EXCEPT ![m] = t]
    BY <1>2 DEF Transfer, Becomes
  <2>2. MapOk(maps[m]) /\ maps[m].bcap > 0 /\ IsFiniteSet(Busy) /\ Layout(maps[m])
    <3>1. MapOk(maps[m])
      BY DEF Good
    <3>2. maps[m].bcap \in Nat
      BY <3>1 DEF MapOk, Data, MapType
    <3> QED BY <1>2, <3>1, <3>2, BusyIsFinite DEF Laid
  <2>3. t.mem = mt /\ Elems(t) = Elems(maps[m]) /\ Layout(t)
    BY <2>2, TransferIs
  <2> HIDE DEF t
  <2> QED BY <2>1, <2>3 DEF Steps
<1> QED BY <1>1, <1>2

LEMMA SteadilySteps ==
  ASSUME Good(maps, held), Laid(maps), Steadily(Maps, Keys, Values, MemTypes)
  PROVE  Steps(maps, maps')
<1>1. PICK m \in Maps :
        \/ \E mt \in OwnMem(m) \cap MemTypes, k \in Keys, v \in Values :
             Get(m, mt, k, v) \/ \E i \in Iters : Insert(m, mt, k, v, i)
        \/ \E i \in Iters : Ends(m, i) \/ \E k \in Keys : Find(m, k, i)
        \/ \E k \in Keys, v \in Values : Store(m, k, v)
        \/ \E mt \in MemTypes : Transfer(m, mt)
        \/ \E w \in Maps : Swap(m, w) \/ MoveAssign(m, w) \/ MoveInto(m, w)
        \/ Clear(m) \/ Destroy(m)
  BY DEF Steadily
<1>2. ASSUME NEW mt \in OwnMem(m), NEW k \in Keys, NEW v \in Values,
             Get(m, mt, k, v) \/ \E i \in Iters : Insert(m, mt, k, v, i)
      PROVE  Steps(maps, maps')
  <2>1. maps' = [maps EXCEPT ![m] = Put(m, mt, k, v)]
    BY <1>2 DEF Get, Insert, Becomes
  <2> QED BY <2>1, PutSteps
<1>3. ASSUME NEW i \in Iters, Ends(m, i) \/ \E k \in Keys : Find(m, k, i) PROVE Steps(maps, maps')
  BY <1>3 DEF Ends, Find, Steps
<1>4. ASSUME NEW k \in Keys, NEW v \in Values, Store(m, k, v) PROVE Steps(maps, maps')
  BY <1>4, StoreSteps
<1>5. ASSUME NEW mt \in MemTypes, Transfer(m, mt) PROVE Steps(maps, maps')
  BY <1>5, TransferSteps
<1>6. ASSUME NEW w \in Maps, Swap(m, w) PROVE Steps(maps, maps')
  BY <1>6 DEF Swap, Steps
<1>7. ASSUME NEW w \in Maps, MoveAssign(m, w) \/ MoveInto(m, w) PROVE Steps(maps, maps')
  BY <1>7 DEF MoveAssign, MoveInto, Steps
<1>8. ASSUME Clear(m) \/ Destroy(m) PROVE Steps(maps, maps')
  BY <1>8 DEF Clear, Destroy, Becomes, Steps
<1> QED BY <1>1, <1>2, <1>3, <1>4, <1>5, <1>6, <1>7, <1>8

LEMMA StepsKeepLayout ==
  ASSUME NEW ms \in [Maps -> MapType], Laid(ms), NEW ns, Steps(ms, ns)
  PROVE  Laid(ns)
<1>1. ASSUME NEW m \in Maps, NEW t, ns = [ms EXCEPT ![m] = t], Layout(t) PROVE Laid(ns)
  BY <1>1 DEF Laid
<1>2. ASSUME NEW m \in Maps, NEW w \in Maps, NEW s, NEW t, Layout(s), Layout(t), m # w,
             ns = [ms EXCEPT ![m] = s, ![w] = t]
      PROVE  Laid(ns)
  BY <1>2 DEF Laid
<1>3. Layout(NoMap) /\ \A m \in Maps : Layout(ms[m])
  BY NoMapIs DEF Laid
<1>4. ASSUME NEW m \in Maps, NEW w \in Maps, m # w, ns = [ms EXCEPT ![m] = ms[w], ![w] = ms[m]] PROVE Laid(ns)
  BY <1>2, <1>3, <1>4
<1>5. ASSUME NEW m \in Maps, NEW w \in Maps, m # w, ns = [ms EXCEPT ![m] = ms[w], ![w] = NoMap] PROVE Laid(ns)
  BY <1>2, <1>3, <1>5
<1> QED BY <1>1, <1>3, <1>4, <1>5 DEF Steps

SteadyGood(st, ms, hs) == st \in BOOLEAN /\ Good(ms, hs) /\ (st => Laid(ms))

LEMMA StaysSteadyGood ==
  ASSUME SteadyGood(steady, maps, held), [Next]_vars
  PROVE  SteadyGood(steady', maps', held')
<1>1. CASE Next
  <2>1. Steadily(Maps, Keys, Values, MemTypes) \/ (~steady /\ Otherwise(Maps, Keys, Values, MemTypes))
    BY <1>1 DEF Next
  <2>2. steady' = steady
    BY <1>1 DEF Next
  <2>3. Good(maps, held) /\ steady \in BOOLEAN /\ maps \in [Maps -> MapType]
    BY DEF SteadyGood, Good
  <2>4. Good(maps', held')
    BY <2>1, <2>3, SteadilyIsGood, OtherwiseIsGood
  <2>5. ASSUME steady PROVE Laid(maps')
    <3>1. Laid(maps) /\ Steadily(Maps, Keys, Values, MemTypes)
      BY <2>1, <2>5 DEF SteadyGood
    <3>2. Steps(maps, maps')
      BY <2>3, <3>1, SteadilySteps
    <3> QED BY <2>3, <3>1, <3>2, StepsKeepLayout
  <2> QED BY <2>2, <2>3, <2>4, <2>5 DEF SteadyGood
<1>2. CASE UNCHANGED vars
  BY <1>2 DEF vars, SteadyGood
<1> QED BY <1>1, <1>2

LEMMA InitIsSteadyGood ==
  ASSUME Init
  PROVE  SteadyGood(steady, maps, held)
<1>1. Good(maps, held) /\ steady \in BOOLEAN /\ maps = [m \in Maps |-> NoMap]
  BY InitIsGood DEF Init
<1>2. Laid(maps)
  BY <1>1, NoMapIs DEF Laid
<1> QED BY <1>1, <1>2 DEF SteadyGood

\* Used with single insertions, buckets follow the size of each map.
THEOREM MapsStaySteady == Spec => []SteadyGood(steady, maps, held)
<1>1. Init => SteadyGood(steady, maps, held)
  BY InitIsSteadyGood
<1>2. SteadyGood(steady, maps, held) /\ [Next]_vars => SteadyGood(steady, maps, held)'
  <2> SUFFICES ASSUME SteadyGood(steady, maps, held), [Next]_vars PROVE SteadyGood(steady', maps', held')
    BY DEF SteadyGood, Laid, Layout, Good, HeldType, MapType, ChainType, Bucket, Pairs, Pointer
  <2> QED BY StaysSteadyGood
<1> QED BY <1>1, <1>2, PTL DEF Spec

\* So used, a map never holds a key twice, and a search looks into the bucket
\* the key is in, although that bucket depends on the size of the moment
\* (insert_impl(), rehash(), find_iterator()).
THEOREM SteadyMapsKeepLayout == Spec => []SteadyLayout
<1>1. SteadyGood(steady, maps, held) => SteadyLayout
  <2> SUFFICES ASSUME SteadyGood(steady, maps, held), steady PROVE KeysUnique /\ BucketsFollowSize
    BY DEF SteadyLayout
  <2>1. \A m \in Maps : MapOk(maps[m]) /\ Layout(maps[m]) /\ KeysApart(maps[m])
    BY DEF SteadyGood, Good, Laid, Layout
  <2>2. KeysUnique
    BY <2>1, KeysAreCounted DEF KeysUnique
  <2>3. BucketsFollowSize
    BY <2>1, LayoutIs DEF BucketsFollowSize
  <2> QED BY <2>2, <2>3
<1> QED BY <1>1, MapsStaySteady, PTL

-----------------------------------------------------------------------------
(* The maps as functions from keys to values *)

\* c is the function from keys to values that the elements E make.
MadeOf(c, E) ==
  /\ c = [k \in DOMAIN c |-> c[k]]
  /\ \A k : k \in DOMAIN c <=> \E e \in E : e.key = k
  /\ \A e \in E : c[e.key] = e.val

LEMMA ContentsAre ==
  ASSUME NEW s, MapOk(s), KeysApart(s)
  PROVE  MadeOf(Contents(s), Elems(s))
<1> DEFINE c == Contents(s)
           D == {x \in Keys : Found(s, x) # NoIter}
<1>1. Data(s)
  BY DEF MapOk
<1>2. c = [k \in D |-> ElementAt(s, Found(s, k).at).val]
  BY DEF Contents
<1> HIDE DEF c
<1>3. \A e \in Elems(s) : e.key \in Keys
  <2>1. ASSUME NEW e \in Elems(s) PROVE e.key \in Keys
    <3>1. PICK p \in Places(s) : e = ElementAt(s, p)
      BY DEF Elems
    <3>2. e \in Pairs
      BY <1>1, <3>1, ElementIs
    <3> QED BY <3>2 DEF Pairs
  <2> QED BY <2>1
<1>4. \A k : k \in D <=> \E e \in Elems(s) : e.key = k
  BY <1>3, FoundIs
<1>5. ASSUME NEW e \in Elems(s) PROVE c[e.key] = e.val
  <2> DEFINE p == Found(s, e.key).at
  <2>1. e.key \in Keys /\ e.key \in D /\ Found(s, e.key) # NoIter
    BY <1>3, <1>4
  <2>2. p \in Places(s) /\ ElementAt(s, p).key = e.key
    BY <2>1, FoundIs
  <2>3. ElementAt(s, p) \in Elems(s)
    BY <2>2 DEF Elems
  <2>4. ElementAt(s, p) = e
    <3> HIDE DEF p
    <3> QED BY <1>1, <2>2, <2>3, KeyDecides
  <2>5. c[e.key] = ElementAt(s, p).val
    BY <1>2, <2>1
  <2> QED BY <2>4, <2>5
<1>6. DOMAIN c = D /\ c = [k \in DOMAIN c |-> c[k]]
  BY <1>2
<1> HIDE DEF D
<1> QED BY <1>4, <1>5, <1>6 DEF MadeOf, c

LEMMA MadeOnce ==
  ASSUME NEW c, NEW d, NEW E, MadeOf(c, E), MadeOf(d, E)
  PROVE  c = d
<1>1. DOMAIN c = DOMAIN d
  BY DEF MadeOf
<1>2. \A k \in DOMAIN c : c[k] = d[k]
  BY DEF MadeOf
<1> QED BY <1>1, <1>2 DEF MadeOf

LEMMA MadeOfNone ==
  ASSUME NEW c
  PROVE  MadeOf(c, {}) => c = Keyed!Nothing
<1> SUFFICES ASSUME MadeOf(c, {}) PROVE c = Keyed!Nothing
  OBVIOUS
<1>1. DOMAIN c = {} /\ c = [k \in DOMAIN c |-> c[k]]
  BY DEF MadeOf
<1>2. [k \in {} |-> c[k]] = [k \in {} |-> k]
  OBVIOUS
<1> QED BY <1>1, <1>2 DEF Keyed!Nothing

\* c with v at k.
With(c, k, v) == [x \in DOMAIN c \cup {k} |-> IF x = k THEN v ELSE c[x]]

LEMMA MadeWith ==
  ASSUME NEW s, NEW e, NEW c, MadeOf(c, Elems(s)), NEW d, MadeOf(d, Others(s, e) \cup {e})
  PROVE  d = With(c, e.key, e.val)
<1> DEFINE T == Others(s, e) \cup {e}
<1>1. \A x \in T : x = e \/ (x \in Elems(s) /\ x.key # e.key)
  BY DEF Others
<1>2. \A x \in Elems(s) : x.key # e.key => x \in T
  BY DEF Others
<1>3. e \in T
  OBVIOUS
<1> HIDE DEF T
<1>4. MadeOf(d, T)
  BY DEF T
<1>5. \A k : k \in DOMAIN d <=> k \in DOMAIN c \cup {e.key}
  <2>1. ASSUME NEW k \in DOMAIN d PROVE k \in DOMAIN c \cup {e.key}
    BY <1>1, <1>4, <2>1 DEF MadeOf
  <2>2. ASSUME NEW k \in DOMAIN c \cup {e.key} PROVE k \in DOMAIN d
    BY <1>2, <1>3, <1>4, <2>2 DEF MadeOf
  <2> QED BY <2>1, <2>2
<1>6. ASSUME NEW k \in DOMAIN d PROVE d[k] = IF k = e.key THEN e.val ELSE c[k]
  <2>1. d[e.key] = e.val
    BY <1>3, <1>4 DEF MadeOf
  <2>2. ASSUME k # e.key PROVE d[k] = c[k]
    <3>1. PICK x \in T : x.key = k
      BY <1>4, <1>6 DEF MadeOf
    <3>2. x \in Elems(s)
      BY <1>1, <2>2, <3>1
    <3> QED BY <1>4, <3>1, <3>2 DEF MadeOf
  <2> QED BY <2>1, <2>2
<1>7. DOMAIN d = DOMAIN c \cup {e.key} /\ d = [k \in DOMAIN d |-> d[k]]
  BY <1>4, <1>5 DEF MadeOf
<1>8. d = [k \in DOMAIN d |-> IF k = e.key THEN e.val ELSE c[k]]
  BY <1>6, <1>7
<1> QED BY <1>7, <1>8 DEF With

\* What the abstract specification sees of the maps.
Entries(ms) == [m \in Maps |-> Contents(ms[m])]
Homes(ms) == [m \in Maps |-> ms[m].mem]

Sees(ms, ns, m, t) ==
  /\ Entries(ns) = [Entries(ms) EXCEPT ![m] = Contents(t)]
  /\ Homes(ns) = [Homes(ms) EXCEPT ![m] = t.mem]
SeesTwo(ms, ns, m, s, w, t) ==
  /\ Entries(ns) = [Entries(ms) EXCEPT ![m] = Contents(s), ![w] = Contents(t)]
  /\ Homes(ns) = [Homes(ms) EXCEPT ![m] = s.mem, ![w] = t.mem]

LEMMA OneMap ==
  ASSUME NEW ms \in [Maps -> MapType], NEW m \in Maps, NEW t
  PROVE  Sees(ms, [ms EXCEPT ![m] = t], m, t)
BY DEF Entries, Homes, Sees

LEMMA TwoMaps ==
  ASSUME NEW ms \in [Maps -> MapType], NEW m \in Maps, NEW w \in Maps, m # w, NEW s, NEW t
  PROVE  SeesTwo(ms, [ms EXCEPT ![m] = s, ![w] = t], m, s, w, t)
BY DEF Entries, Homes, SeesTwo

LEMMA NoMapIsNothing == Contents(NoMap) = Keyed!Nothing /\ NoMap.mem = Default
<1>1. KeysApart(NoMap)
  BY NoMapIs DEF Layout
<1>2. MadeOf(Contents(NoMap), {})
  BY <1>1, NoMapIs, ContentsAre
<1> QED BY <1>2, MadeOfNone DEF NoMap

LEMMA KeyedPut ==
  ASSUME Good(maps, held), Laid(maps), NEW m \in Maps, NEW e \in Pairs, NEW t, maps' = [maps EXCEPT ![m] = t],
         MapOk(t), Layout(t), Elems(t) = Others(maps[m], e) \cup {e}, Elems(maps[m]) = {} \/ t.mem = maps[m].mem
  PROVE  Keyed!Put(m, e.key, e.val, t.mem)
<1>1. maps \in [Maps -> MapType] /\ MapOk(maps[m]) /\ KeysApart(maps[m]) /\ KeysApart(t)
  BY DEF Good, Laid, Layout
<1>2. MadeOf(Contents(maps[m]), Elems(maps[m])) /\ MadeOf(Contents(t), Others(maps[m], e) \cup {e})
  BY <1>1, ContentsAre
<1>3. Contents(t) = With(Contents(maps[m]), e.key, e.val)
  BY <1>2, MadeWith
<1>4. Elems(maps[m]) = {} => Contents(maps[m]) = Keyed!Nothing
  BY <1>2, MadeOfNone
<1>5. /\ Entries(maps') = [Entries(maps) EXCEPT ![m] = With(Contents(maps[m]), e.key, e.val)]
      /\ Homes(maps') = [Homes(maps) EXCEPT ![m] = t.mem]
  <2>1. Sees(maps, [maps EXCEPT ![m] = t], m, t)
    BY <1>1, OneMap
  <2>2. Sees(maps, maps', m, t)
    BY <2>1
  <2> QED BY <1>3, <2>2 DEF Sees
<1>6. Entries(maps)[m] = Contents(maps[m]) /\ Homes(maps)[m] = maps[m].mem
  BY DEF Entries, Homes
<1>7. Entries(maps)[m] = Keyed!Nothing \/ t.mem = Homes(maps)[m]
  BY <1>4, <1>6
<1>8. Entries(maps') = [Entries(maps) EXCEPT ![m] =
         [x \in DOMAIN @ \cup {e.key} |-> IF x = e.key THEN e.val ELSE @[x]]]
  BY <1>5, <1>6 DEF With
<1> QED BY <1>5, <1>7, <1>8 DEF Keyed!Put, Entries, Homes

LEMMA KeyedSame ==
  ASSUME Good(maps, held), Laid(maps), NEW m \in Maps, NEW t, maps' = [maps EXCEPT ![m] = t],
         MapOk(t), Layout(t), Elems(t) = Elems(maps[m])
  PROVE  Keyed!Relocate(m, t.mem)
<1>1. maps \in [Maps -> MapType] /\ MapOk(maps[m]) /\ KeysApart(maps[m]) /\ KeysApart(t)
  BY DEF Good, Laid, Layout
<1>2. MadeOf(Contents(maps[m]), Elems(maps[m])) /\ MadeOf(Contents(t), Elems(maps[m]))
  <2>1. MadeOf(Contents(t), Elems(t))
    BY <1>1, ContentsAre
  <2> QED BY <1>1, <2>1, ContentsAre
<1>3. Contents(t) = Contents(maps[m])
  BY <1>2, MadeOnce
<1>4. Sees(maps, maps', m, t)
  <2>1. Sees(maps, [maps EXCEPT ![m] = t], m, t)
    BY <1>1, OneMap
  <2> QED BY <2>1
<1>5. Entries(maps)[m] = Contents(maps[m])
  BY DEF Entries
<1>6. [Entries(maps) EXCEPT ![m] = Entries(maps)[m]] = Entries(maps)
  BY DEF Entries
<1>7. Entries(maps') = Entries(maps) /\ Homes(maps') = [Homes(maps) EXCEPT ![m] = t.mem]
  BY <1>3, <1>4, <1>5, <1>6 DEF Sees
<1> QED BY <1>7 DEF Keyed!Relocate, Entries, Homes

LEMMA KeyedDrop ==
  ASSUME Good(maps, held), NEW m \in Maps, maps' = [maps EXCEPT ![m] = NoMap]
  PROVE  Keyed!Drop(m)
<1>1. maps \in [Maps -> MapType]
  BY DEF Good
<1>2. Sees(maps, [maps EXCEPT ![m] = NoMap], m, NoMap)
  BY <1>1, OneMap
<1>3. Sees(maps, maps', m, NoMap)
  BY <1>2
<1>4. /\ Entries(maps') = [Entries(maps) EXCEPT ![m] = Keyed!Nothing]
      /\ Homes(maps') = [Homes(maps) EXCEPT ![m] = Default]
  BY <1>3, NoMapIsNothing DEF Sees
<1> QED BY <1>4 DEF Keyed!Drop, Entries, Homes

LEMMA KeyedExchange ==
  ASSUME Good(maps, held), NEW m \in Maps, NEW w \in Maps, m # w,
         maps' = [maps EXCEPT ![m] = maps[w], ![w] = maps[m]]
  PROVE  Keyed!Exchange(m, w)
<1>1. maps \in [Maps -> MapType]
  BY DEF Good
<1>2. SeesTwo(maps, [maps EXCEPT ![m] = maps[w], ![w] = maps[m]], m, maps[w], w, maps[m])
  BY <1>1, TwoMaps
<1>3. SeesTwo(maps, maps', m, maps[w], w, maps[m])
  BY <1>2
<1>4. \A x \in Maps : Entries(maps)[x] = Contents(maps[x]) /\ Homes(maps)[x] = maps[x].mem
  BY DEF Entries, Homes
<1>5. /\ Entries(maps') = [Entries(maps) EXCEPT ![m] = Entries(maps)[w], ![w] = Entries(maps)[m]]
      /\ Homes(maps') = [Homes(maps) EXCEPT ![m] = Homes(maps)[w], ![w] = Homes(maps)[m]]
  BY <1>3, <1>4 DEF SeesTwo
<1> QED BY <1>5 DEF Keyed!Exchange, Entries, Homes

LEMMA KeyedTakeOver ==
  ASSUME Good(maps, held), NEW m \in Maps, NEW w \in Maps, m # w,
         maps' = [maps EXCEPT ![m] = maps[w], ![w] = NoMap]
  PROVE  Keyed!TakeOver(m, w)
<1>1. maps \in [Maps -> MapType]
  BY DEF Good
<1>2. SeesTwo(maps, [maps EXCEPT ![m] = maps[w], ![w] = NoMap], m, maps[w], w, NoMap)
  BY <1>1, TwoMaps
<1>3. SeesTwo(maps, maps', m, maps[w], w, NoMap)
  BY <1>2
<1>4. \A x \in Maps : Entries(maps)[x] = Contents(maps[x]) /\ Homes(maps)[x] = maps[x].mem
  BY DEF Entries, Homes
<1>5. /\ Entries(maps') = [Entries(maps) EXCEPT ![m] = Entries(maps)[w], ![w] = Keyed!Nothing]
      /\ Homes(maps') = [Homes(maps) EXCEPT ![m] = Homes(maps)[w], ![w] = Default]
  BY <1>3, <1>4, NoMapIsNothing DEF SeesTwo
<1> QED BY <1>5 DEF Keyed!TakeOver, Entries, Homes

LEMMA StepsAreKeyed ==
  ASSUME Good(maps, held), Laid(maps), Good(maps', held'), Steps(maps, maps')
  PROVE  [Keyed!Next]_(Keyed!vars)
<1>1. maps \in [Maps -> MapType]
  BY DEF Good
<1>2. CASE maps' = maps
  BY <1>2 DEF Keyed!vars
<1>3. ASSUME NEW m \in Maps, NEW t, maps' = [maps EXCEPT ![m] = t] PROVE MapOk(t)
  <2>1. maps'[m] = t
    BY <1>1, <1>3
  <2> QED BY <2>1 DEF Good
<1>4. ASSUME NEW m \in Maps, NEW e \in Pairs, NEW t, maps' = [maps EXCEPT ![m] = t], Layout(t),
             t.mem \in MemTypes, Elems(t) = Others(maps[m], e) \cup {e},
             Elems(maps[m]) = {} \/ t.mem = maps[m].mem
      PROVE  Keyed!Next
  <2>1. MapOk(t)
    BY <1>3, <1>4
  <2>2. Keyed!Put(m, e.key, e.val, t.mem)
    BY <1>4, <2>1, KeyedPut
  <2>3. e.key \in Keys /\ e.val \in Values
    BY DEF Pairs
  <2> QED BY <1>4, <2>2, <2>3 DEF Keyed!Next
<1>5. ASSUME NEW m \in Maps, NEW t, maps' = [maps EXCEPT ![m] = t], Layout(t), t.mem \in MemTypes,
             Elems(t) = Elems(maps[m])
      PROVE  Keyed!Next
  <2>1. MapOk(t)
    BY <1>3, <1>5
  <2>2. Keyed!Relocate(m, t.mem)
    BY <1>5, <2>1, KeyedSame
  <2> QED BY <1>5, <2>2 DEF Keyed!Next
<1>6. ASSUME NEW m \in Maps, maps' = [maps EXCEPT ![m] = NoMap] PROVE Keyed!Next
  <2>1. Keyed!Drop(m)
    BY <1>6, KeyedDrop
  <2> QED BY <2>1 DEF Keyed!Next
<1>7. ASSUME NEW m \in Maps, NEW w \in Maps, m # w, maps' = [maps EXCEPT ![m] = maps[w], ![w] = maps[m]]
      PROVE  Keyed!Next
  <2>1. Keyed!Exchange(m, w)
    BY <1>7, KeyedExchange
  <2> QED BY <1>7, <2>1 DEF Keyed!Next
<1>8. ASSUME NEW m \in Maps, NEW w \in Maps, m # w, maps' = [maps EXCEPT ![m] = maps[w], ![w] = NoMap]
      PROVE  Keyed!Next
  <2>1. Keyed!TakeOver(m, w)
    BY <1>8, KeyedTakeOver
  <2> QED BY <1>8, <2>1 DEF Keyed!Next
<1> QED BY <1>2, <1>4, <1>5, <1>6, <1>7, <1>8 DEF Steps

LEMMA InsertsPut ==
  ASSUME Good(maps, held), Laid(maps)
  PROVE  InsertionPuts
<1> SUFFICES ASSUME NEW m \in Maps, NEW k \in Keys, NEW v \in Values, NEW i \in Iters, NEW mt \in MemTypes,
                    mt \in OwnMem(m), Insert(m, mt, k, v, i)
             PROVE  Keyed!Put(m, k, v, mt)
  BY DEF InsertionPuts
<1> DEFINE e == Elem(k, v)
<1>1. PICK t : t = Put(m, mt, k, v)
  OBVIOUS
<1>2. maps' = [maps EXCEPT ![m] = t]
  BY <1>1 DEF Insert, Becomes
<1>3. mt \in MemTypes /\ e \in Pairs /\ Layout(maps[m]) /\ MapOk(maps[m]) /\ e.key = k /\ e.val = v
  BY DEF Elem, Pairs, Laid, Good
<1>4. MapOk(t) /\ Layout(t) /\ t.mem = mt /\ Elems(t) = Others(maps[m], e) \cup {e}
  BY <1>1, <1>3, PutIs
<1>5. Elems(maps[m]) = {} \/ t.mem = maps[m].mem
  BY <1>3, <1>4, NoBucketsNoElems DEF OwnMem
<1>6. PICK d \in Pairs : d = e
  BY <1>3
<1> HIDE DEF e
<1>7. Keyed!Put(m, d.key, d.val, t.mem)
  <2>1. Elems(t) = Others(maps[m], d) \cup {d}
    BY <1>4, <1>6
  <2> QED BY <1>2, <1>4, <1>5, <2>1, KeyedPut
<1>8. d.key = k /\ d.val = v /\ t.mem = mt
  BY <1>3, <1>4, <1>6
<1> QED BY <1>7, <1>8

LEMMA NextIsKeyed ==
  ASSUME SteadyGood(steady, maps, held), [Next]_vars
  PROVE  (steady => InsertionPuts) /\ (steady => [Keyed!Next]_(Keyed!vars))
<1> SUFFICES ASSUME steady PROVE InsertionPuts /\ [Keyed!Next]_(Keyed!vars)
  OBVIOUS
<1>1. Good(maps, held) /\ Laid(maps)
  BY DEF SteadyGood
<1>2. InsertionPuts
  BY <1>1, InsertsPut
<1>3. CASE Next
  <2>1. Steadily(Maps, Keys, Values, MemTypes)
    BY <1>3 DEF Next
  <2>2. Good(maps', held') /\ Steps(maps, maps')
    BY <1>1, <2>1, SteadilyIsGood, SteadilySteps
  <2>3. [Keyed!Next]_(Keyed!vars)
    BY <1>1, <2>2, StepsAreKeyed
  <2> QED BY <1>2, <2>3
<1>4. CASE UNCHANGED vars
  <2>1. maps' = maps
    BY <1>4 DEF vars
  <2> QED BY <1>2, <2>1 DEF Keyed!vars
<1> QED BY <1>3, <1>4

\* So used, the maps implement functions from keys to values: an insertion
\* puts its value at its key through growth and rehash, what find() gives for
\* a key is the last value put, and no other step changes it
\* (insert_impl(), rehash(), transfer_internal_memory(), swap(), moves).
THEOREM SteadyMapsAreKeyed == Spec => SteadyActsAsKeyed
<1>1. Init => Keyed!Init
  <2> SUFFICES ASSUME Init PROVE Keyed!Init
    OBVIOUS
  <2>1. \A m \in Maps : maps[m] = NoMap
    BY DEF Init
  <2> QED BY <2>1, NoMapIsNothing DEF Keyed!Init
<1>2. SteadyGood(steady, maps, held) /\ [Next]_vars => [steady => InsertionPuts]_vars
  BY NextIsKeyed
<1>3. SteadyGood(steady, maps, held) /\ [Next]_vars => [steady => [Keyed!Next]_(Keyed!vars)]_vars
  BY NextIsKeyed
<1> QED BY <1>1, <1>2, <1>3, MapsStaySteady, PTL DEF Spec, SteadyActsAsKeyed

=============================================================================
