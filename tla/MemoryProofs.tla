---------------------------- MODULE MemoryProofs ----------------------------
(***************************************************************************)
(* The storage of resizable pointers, and pointers inside the objects that *)
(* pointers manage.                                                        *)
(*                                                                         *)
(* Owners of one block of ResizableStorage agree on its storage and size,  *)
(* and each constructed element is an element at one place: SInv is        *)
(* inductive under Careful, for every value of the constants.  Each        *)
(* operation changes one block and its owners, or releases one and starts  *)
(* another, so that one lemma on such changes carries the induction.  What *)
(* the owners of the block see after it is a step of SharedSequences,      *)
(* which ResizableStorage refines.                                         *)
(*                                                                         *)
(* The counts of LinkedPointers are the owners there are, however far a    *)
(* release goes on, and nothing but cycles leaks, for any numbers of roots *)
(* and nodes.  Chain and Reached are recursive functions of naturals, so   *)
(* what they are has to be shown by induction.  The induction theorems of  *)
(* the library take a predicate as parameter, which the provers cannot     *)
(* instantiate; the least element of a set of naturals does the same       *)
(* (ByInduction).                                                          *)
(***************************************************************************)
EXTENDS ResizableStorage, LinkedPointers, Integers, FiniteSetTheorems, SequenceTheorems,
        WellFoundedInduction, TLAPS

-----------------------------------------------------------------------------
(* THE STORAGE OF RESIZABLE POINTERS *)

-----------------------------------------------------------------------------
(* The invariant *)

\* The types of a handle and of a control block.
HandleType == [cb : Blocks \cup {None}, ptr : Addresses \cup {None}]
BlockType == [refs : Nat, size : Nat, capacity : 0 .. MaxCapacity, mem : Spaces]

\* The first n of the cells are different objects.
Holds(cells, n) ==
  /\ cells \in Seq(Cells) /\ n \in 0 .. Len(cells)
  /\ \A i \in 1 .. n : cells[i] \in Objects
  /\ \A i, j \in 1 .. n : cells[i] = cells[j] => i = j

\* These objects.
Elems(cells, n) == {cells[i] : i \in 1 .. n}

\* The cells at an address, of a handle's storage, and the objects in them.
CellsAt(p, S) == IF p = None THEN <<>> ELSE S[p]
ElemsOf(k, B, S) == IF k.cb = None THEN {} ELSE Elems(CellsAt(k.ptr, S), B[k.cb].size)

\* What the handle k names is there and agrees.
Held(k, B, S) ==
  /\ k.cb = None => k.ptr = None
  /\ k.ptr # None => S[k.ptr] # None
  /\ k.cb # None => /\ B[k.cb] # None /\ Holds(CellsAt(k.ptr, S), B[k.cb].size)
                    /\ Len(CellsAt(k.ptr, S)) = B[k.cb].capacity

\* Owners of one block have the same storage, others nothing in common.
Agree(k, l, B, S) ==
  /\ k.cb = l.cb => k.ptr = l.ptr
  /\ k.cb # l.cb => /\ k.ptr = None \/ k.ptr # l.ptr
                    /\ ElemsOf(k, B, S) \cap ElemsOf(l, B, S) = {}

\* The owners of the block b.
Owners(b, H) == {h \in Handles : H[h].cb = b}

\* Objects, storage and blocks are somebody's.
Accounted(H, B, S, A) ==
  /\ A = UNION {ElemsOf(H[h], B, S) : h \in Handles}
  /\ \A a \in Addresses : S[a] # None => \E h \in Handles : H[h].ptr = a
  /\ \A b \in Blocks : B[b] # None => /\ B[b].refs = Cardinality(Owners(b, H))
                                      /\ Owners(b, H) # {}

\* Handles, blocks, storage and the objects alive are in step.
Sound(H, B, S, A) ==
  /\ H \in [Handles -> HandleType] /\ B \in [Blocks -> BlockType \cup {None}]
  /\ S \in [Addresses -> Seq(Cells) \cup {None}] /\ A \subseteq Objects
  /\ \A h \in Handles : Held(H[h], B, S)
  /\ \A h, g \in Handles : Agree(H[h], H[g], B, S)
  /\ Accounted(H, B, S, A)

\* The inductive invariant.
SInv == Sound(handle, block, storage, alive) /\ misread = FALSE

-----------------------------------------------------------------------------
(* Sets and numbers *)

\* None names nothing there is.
LEMMA NoneIsNothing ==
  /\ None \notin Blocks /\ None \notin Addresses /\ None \notin Seq(Cells) /\ None \notin BlockType
<1>1. Cardinality(Handles) \in Nat
  BY StorageAssumption, FS_CardinalityType
<1>2. None \notin Blocks /\ None \notin Addresses
  BY <1>1, StorageAssumption DEF Blocks, Addresses
<1>3. None \notin Seq(Cells)
  <2>1. Cells \subseteq Nat
    BY StorageAssumption DEF Cells, Objects, Raw
  <2>2. Seq(Cells) \subseteq Seq(Nat)
    <3> HIDE DEF Cells
    <3> QED BY <2>1, SeqMonotonic
  <2> QED BY <2>2, StorageAssumption
<1>4. None \notin BlockType
  <2>1. BlockType \subseteq [refs : Nat, size : Nat, capacity : Nat, mem : Spaces]
    BY StorageAssumption DEF BlockType
  <2> QED BY <2>1, StorageAssumption
<1> QED BY <1>2, <1>3, <1>4

\* The owners of a block, counted, and without one of them.
LEMMA OwnersCount ==
  ASSUME NEW T \in SUBSET Handles, NEW h \in T
  PROVE  /\ IsFiniteSet(T) /\ Cardinality(T) \in Nat \ {0}
         /\ Cardinality(T) <= Cardinality(Handles) /\ Cardinality(Handles) \in Nat
         /\ Cardinality(T \ {h}) = Cardinality(T) - 1
         /\ Cardinality(T) <= 1 => T = {h}
         /\ Cardinality(T) > 1 => T \ {h} # {}
<1>1. /\ IsFiniteSet(Handles) /\ IsFiniteSet(T) /\ Cardinality(T) \in Nat
      /\ Cardinality(T) <= Cardinality(Handles) /\ Cardinality(Handles) \in Nat
  BY StorageAssumption, FS_Subset, FS_CardinalityType
<1>2. IsFiniteSet(T \ {h}) /\ Cardinality(T \ {h}) = Cardinality(T) - 1
  BY <1>1, FS_RemoveElement
<1>3. Cardinality(T \ {h}) \in Nat
  BY <1>2, FS_CardinalityType
<1>4. T \ {h} = {} <=> Cardinality(T \ {h}) = 0
  BY <1>2, FS_EmptySet
<1>5. Cardinality(T) # 0
  BY <1>1, FS_EmptySet
<1> QED BY <1>1, <1>2, <1>3, <1>4, <1>5

\* One more owner.
LEMMA OwnersGrow ==
  ASSUME NEW T \in SUBSET Handles, NEW h \in Handles, h \notin T
  PROVE  Cardinality(T \cup {h}) = Cardinality(T) + 1
<1>1. IsFiniteSet(T)
  BY StorageAssumption, FS_Subset
<1> QED BY <1>1, FS_AddElement

\* As many different objects as cells.
LEMMA FewObjects ==
  ASSUME NEW cells, NEW n, Holds(cells, n)
  PROVE  n \in 0 .. MaxObjects
<1>1. n \in Nat /\ MaxObjects \in Nat
  BY StorageAssumption DEF Holds
<1> DEFINE f == [i \in 1 .. n |-> cells[i]]
<1>2. f \in Injection(1 .. n, Objects)
  BY DEF Holds, Injection, IsInjective
<1>3. /\ IsFiniteSet(1 .. n) /\ Cardinality(1 .. n) = n
      /\ IsFiniteSet(Objects) /\ Cardinality(Objects) = MaxObjects
  <2>1. /\ IsFiniteSet(1 .. n) /\ Cardinality(1 .. n) = IF 1 > n THEN 0 ELSE n - 1 + 1
    BY <1>1, FS_Interval
  <2>2. IsFiniteSet(1 .. MaxObjects)
        /\ Cardinality(1 .. MaxObjects) = IF 1 > MaxObjects THEN 0 ELSE MaxObjects - 1 + 1
    BY <1>1, FS_Interval
  <2> QED BY <1>1, <2>1, <2>2 DEF Objects
<1>4. Cardinality(1 .. n) <= Cardinality(Objects)
  <2> HIDE DEF f
  <2> QED BY <1>2, <1>3, FS_Injection
<1> QED BY <1>1, <1>3, <1>4

-----------------------------------------------------------------------------
(* Changes of one block *)

\* A handle that owns nothing.
Empty == [cb |-> None, ptr |-> None]

\* The sequence that the handle k shows, and what the owners of b see.
Shows(k, B, S) == IF k.cb = None THEN <<>> ELSE SubSeq(CellsAt(k.ptr, S), 1, B[k.cb].size)
ContentsIn(b, H, B, S) == IF \E h \in Handles : H[h].cb = b
                          THEN Shows(H[CHOOSE h \in Handles : H[h].cb = b], B, S) ELSE <<>>

\* The elements the owners of b have.
Has(b, H, B, S) == UNION {ElemsOf(H[k], B, S) : k \in Owners(b, H)}

\* The block b, its owners and their storage, from here on at a, change; its
\* owners and those of nothing may become owners of nothing or of it.
OneBlock(b, a, H, B, S, H1, B1, S1) ==
  /\ H1 \in [Handles -> HandleType] /\ B1 \in [Blocks -> BlockType \cup {None}]
  /\ S1 \in [Addresses -> Seq(Cells) \cup {None}]
  /\ \A k \in Handles : IF H[k].cb \in {b, None} THEN H1[k] \in {Empty, [cb |-> b, ptr |-> a]}
                        ELSE H1[k] = H[k]
  /\ \A c \in Blocks \ {b} : B1[c] = B[c]
  /\ a # None => \A k \in Handles : H[k].ptr = a => H[k].cb = b
  /\ \A x \in Addresses \ {a} :
       S1[x] = IF \E k \in Owners(b, H) : H[k].ptr = x THEN None ELSE S[x]
  /\ Owners(b, H1) = {} => B1[b] = None /\ a = None
  /\ Owners(b, H1) # {} =>
       /\ B1[b] # None /\ B1[b].refs = Cardinality(Owners(b, H1)) /\ (a # None => S1[a] # None)
       /\ Holds(CellsAt(a, S1), B1[b].size) /\ Len(CellsAt(a, S1)) = B1[b].capacity

\* Where block and storage stay, so does what the handle owns.
LEMMA HeldStays ==
  ASSUME NEW k \in HandleType, NEW B, NEW S, NEW B1, NEW S1, Held(k, B, S),
         k.cb # None => B1[k.cb] = B[k.cb],
         k.ptr # None => S1[k.ptr] = S[k.ptr]
  PROVE  Held(k, B1, S1) /\ ElemsOf(k, B1, S1) = ElemsOf(k, B, S)
BY DEF Held, ElemsOf, CellsAt

\* Owners of other blocks see nothing of such a change.
LEMMA OthersStay ==
  ASSUME NEW H, NEW B, NEW S, NEW A, Sound(H, B, S, A),
         NEW b \in Blocks, NEW a \in Addresses \cup {None}, NEW H1, NEW B1, NEW S1,
         OneBlock(b, a, H, B, S, H1, B1, S1),
         NEW k \in Handles, H[k].cb \notin {b, None}
  PROVE  /\ H1[k] = H[k] /\ Held(H[k], B1, S1)
         /\ ElemsOf(H[k], B1, S1) = ElemsOf(H[k], B, S)
         /\ ElemsOf(H[k], B, S) \cap Has(b, H, B, S) = {}
         /\ H[k].ptr # None => H[k].ptr # a
<1>1. /\ H1[k] = H[k] /\ H[k] \in HandleType /\ Held(H[k], B, S)
      /\ \A j \in Owners(b, H) : Agree(H[k], H[j], B, S)
  BY DEF Sound, OneBlock, Owners
<1>2. H[k].ptr # None => H[k].ptr # a
  BY DEF OneBlock
<1>3. H[k].cb # None => B1[H[k].cb] = B[H[k].cb]
  BY <1>1 DEF OneBlock, HandleType
<1>4. \A j \in Owners(b, H) : /\ H[k].ptr # None => H[k].ptr # H[j].ptr
                              /\ ElemsOf(H[k], B, S) \cap ElemsOf(H[j], B, S) = {}
  BY <1>1 DEF Agree, Owners
<1>5. H[k].ptr # None => S1[H[k].ptr] = S[H[k].ptr]
  BY <1>1, <1>2, <1>4 DEF OneBlock, HandleType
<1>6. Held(H[k], B1, S1) /\ ElemsOf(H[k], B1, S1) = ElemsOf(H[k], B, S)
  BY <1>1, <1>3, <1>5, HeldStays
<1>7. ElemsOf(H[k], B, S) \cap Has(b, H, B, S) = {}
  BY <1>4 DEF Has
<1> QED BY <1>1, <1>2, <1>6, <1>7

\* What the owners of b share after such a change.
LEMMA OwnersAfter ==
  ASSUME NEW b \in Blocks, NEW a \in Addresses \cup {None}, NEW H, NEW B, NEW S,
         NEW H1, NEW B1, NEW S1, OneBlock(b, a, H, B, S, H1, B1, S1),
         NEW k \in Handles, H1[k].cb = b, NEW A, Sound(H, B, S, A)
  PROVE  /\ H1[k] = [cb |-> b, ptr |-> a] /\ Held(H1[k], B1, S1)
         /\ ElemsOf(H1[k], B1, S1) = Has(b, H1, B1, S1)
<1>1. b # None
  BY NoneIsNothing
<1>2. \A j \in Owners(b, H1) : H1[j] = [cb |-> b, ptr |-> a]
  <2> SUFFICES ASSUME NEW j \in Handles, H1[j].cb = b
               PROVE  H1[j] = [cb |-> b, ptr |-> a]
    BY DEF Owners
  <2>1. H1[j] # Empty
    BY <1>1 DEF Empty
  <2>2. CASE H[j].cb \in {b, None}
    BY <2>1, <2>2 DEF OneBlock
  <2>3. CASE H[j].cb \notin {b, None}
    BY <2>3, OthersStay
  <2> QED BY <2>2, <2>3
<1>3. k \in Owners(b, H1)
  BY DEF Owners
<1>4. Held(H1[k], B1, S1)
  <2>1. H1[k] = [cb |-> b, ptr |-> a]
    BY <1>2, <1>3
  <2> QED BY <1>1, <1>3, <2>1 DEF OneBlock, Held
<1>5. ElemsOf(H1[k], B1, S1) = Has(b, H1, B1, S1)
  <2>1. \A j \in Owners(b, H1) : ElemsOf(H1[j], B1, S1) = ElemsOf(H1[k], B1, S1)
    BY <1>2, <1>3
  <2> QED BY <1>3, <2>1 DEF Has
<1> QED BY <1>2, <1>3, <1>4, <1>5

\* Such a change keeps everything sound, if the objects alive change with it and
\* what the owners of b get was not alive.
LEMMA OneBlockKeeps ==
  ASSUME NEW H, NEW B, NEW S, NEW A, Sound(H, B, S, A),
         NEW b \in Blocks, NEW a \in Addresses \cup {None}, NEW H1, NEW B1, NEW S1, NEW A1,
         OneBlock(b, a, H, B, S, H1, B1, S1),
         Has(b, H1, B1, S1) \cap A \subseteq Has(b, H, B, S),
         A1 = (A \ Has(b, H, B, S)) \cup Has(b, H1, B1, S1)
  PROVE  Sound(H1, B1, S1, A1)
<1> DEFINE had == Has(b, H, B, S)
           has == Has(b, H1, B1, S1)
           Other(k) == H1[k] = H[k] /\ H[k].cb \notin {b, None}
           Owner(k) == H1[k] = [cb |-> b, ptr |-> a]
<1>1. /\ H \in [Handles -> HandleType] /\ B \in [Blocks -> BlockType \cup {None}]
      /\ S \in [Addresses -> Seq(Cells) \cup {None}] /\ A \subseteq Objects
      /\ \A k \in Handles : Held(H[k], B, S)
      /\ \A k, l \in Handles : Agree(H[k], H[l], B, S)
      /\ Accounted(H, B, S, A)
  BY DEF Sound
<1>2. /\ H1 \in [Handles -> HandleType] /\ B1 \in [Blocks -> BlockType \cup {None}]
      /\ S1 \in [Addresses -> Seq(Cells) \cup {None}]
  BY DEF OneBlock
<1>3. b # None
  BY NoneIsNothing
<1>4. ASSUME NEW k \in Handles PROVE Other(k) \/ Owner(k) \/ H1[k] = Empty
  <2>1. CASE H[k].cb \in {b, None}
    BY <2>1 DEF OneBlock
  <2>2. CASE H[k].cb \notin {b, None}
    BY <2>2 DEF OneBlock
  <2> QED BY <2>1, <2>2
<1>5. ASSUME NEW k \in Handles, Other(k)
      PROVE  /\ Held(H1[k], B1, S1) /\ ElemsOf(H1[k], B1, S1) = ElemsOf(H[k], B, S)
             /\ ElemsOf(H1[k], B1, S1) \cap had = {} /\ ElemsOf(H1[k], B1, S1) \subseteq A
             /\ H1[k].cb # b /\ H1[k].cb # None /\ (H1[k].ptr # None => H1[k].ptr # a)
  <2>1. /\ H1[k] = H[k] /\ Held(H[k], B1, S1)
        /\ ElemsOf(H[k], B1, S1) = ElemsOf(H[k], B, S)
        /\ ElemsOf(H[k], B, S) \cap had = {}
        /\ H[k].ptr # None => H[k].ptr # a
    BY <1>5, OthersStay
  <2>2. ElemsOf(H[k], B, S) \subseteq A
    BY <1>1 DEF Accounted
  <2> QED BY <1>5, <2>1, <2>2
<1>6. ASSUME NEW k \in Handles, H1[k] = Empty
      PROVE  /\ Held(H1[k], B1, S1) /\ ElemsOf(H1[k], B1, S1) = {}
             /\ H1[k].cb = None /\ H1[k].ptr = None
  BY <1>6 DEF Held, ElemsOf, Empty
<1>7. ASSUME NEW k \in Handles, Owner(k)
      PROVE  /\ Held(H1[k], B1, S1) /\ ElemsOf(H1[k], B1, S1) = has
             /\ H1[k].cb = b /\ H1[k].ptr = a
  <2>1. H1[k].cb = b /\ H1[k].ptr = a
    BY <1>7
  <2>2. Held(H1[k], B1, S1)
    BY <2>1, OwnersAfter, ZenonT(30)
  <2>3. ElemsOf(H1[k], B1, S1) = has
    <3> HIDE DEF had
    <3>1. /\ H1[k] = [cb |-> b, ptr |-> a] /\ Held(H1[k], B1, S1)
          /\ ElemsOf(H1[k], B1, S1) = Has(b, H1, B1, S1)
      BY <2>1, OwnersAfter
    <3> QED BY <3>1
  <2> QED BY <2>1, <2>2, <2>3
<1>8. has \subseteq Objects
  <2> SUFFICES ASSUME NEW k \in Owners(b, H1) PROVE ElemsOf(H1[k], B1, S1) \subseteq Objects
    BY DEF Has
  <2>1. k \in Handles /\ H1[k].cb = b
    BY DEF Owners
  <2>2. H1[k] = [cb |-> b, ptr |-> a]
    BY <2>1, OwnersAfter
  <2> QED BY <2>2, <1>3 DEF ElemsOf, Elems, OneBlock, Holds
<1> HIDE DEF had, has
<1>9. \A k \in Handles : Held(H1[k], B1, S1)
  BY <1>4, <1>5, <1>6, <1>7
<1>10. ASSUME NEW k \in Handles, NEW l \in Handles PROVE Agree(H1[k], H1[l], B1, S1)
  <2>1. CASE H1[k] = Empty \/ H1[l] = Empty
    <3>1. CASE H1[k] = Empty /\ H1[l] = Empty
      BY <1>6, <3>1 DEF Agree
    <3>2. CASE H1[k] = Empty /\ H1[l] # Empty
      BY <1>4, <1>5, <1>6, <1>7, <1>3, <3>2 DEF Agree
    <3>3. CASE H1[k] # Empty /\ H1[l] = Empty
      BY <1>4, <1>5, <1>6, <1>7, <1>3, <3>3 DEF Agree
    <3> QED BY <2>1, <3>1, <3>2, <3>3
  <2>2. CASE Other(k) /\ Other(l)
    <3>1. Agree(H[k], H[l], B, S)
      BY <1>1
    <3>2. /\ ElemsOf(H1[k], B1, S1) = ElemsOf(H[k], B, S)
          /\ ElemsOf(H1[l], B1, S1) = ElemsOf(H[l], B, S)
          /\ H1[k] = H[k] /\ H1[l] = H[l]
      BY <1>5, <2>2
    <3> QED BY <3>1, <3>2 DEF Agree
  <2>3. CASE Owner(k) /\ Owner(l)
    BY <1>7, <2>3 DEF Agree
  <2>4. ASSUME NEW i \in Handles, Other(i) PROVE ElemsOf(H1[i], B1, S1) \cap has = {}
    BY <1>5, <2>4 DEF had, has
  <2>5. CASE Owner(k) /\ Other(l)
    <3>1. H1[k].cb = b /\ H1[k].ptr = a /\ ElemsOf(H1[k], B1, S1) = has
      BY <1>7, <2>5
    <3>2. /\ H1[l].cb # b /\ (H1[l].ptr # None => H1[l].ptr # a)
          /\ ElemsOf(H1[l], B1, S1) \cap has = {}
      BY <1>5, <2>4, <2>5
    <3> QED BY <3>1, <3>2 DEF Agree
  <2>6. CASE Other(k) /\ Owner(l)
    <3>1. H1[l].cb = b /\ H1[l].ptr = a /\ ElemsOf(H1[l], B1, S1) = has
      BY <1>7, <2>6
    <3>2. /\ H1[k].cb # b /\ (H1[k].ptr # None => H1[k].ptr # a)
          /\ ElemsOf(H1[k], B1, S1) \cap has = {}
      BY <1>5, <2>4, <2>6
    <3> QED BY <3>1, <3>2 DEF Agree
  <2> QED BY <1>4, <2>1, <2>2, <2>3, <2>5, <2>6
<1>11. A1 = UNION {ElemsOf(H1[k], B1, S1) : k \in Handles}
  <2>1. ASSUME NEW x \in A1 PROVE \E k \in Handles : x \in ElemsOf(H1[k], B1, S1)
    <3>1. CASE x \in has
      BY <3>1 DEF has, Has, Owners
    <3>2. CASE x \notin has
      <4>1. x \in A /\ x \notin had
        BY <3>2 DEF had, has
      <4>2. PICK k \in Handles : x \in ElemsOf(H[k], B, S)
        BY <1>1, <4>1 DEF Accounted
      <4>3. H[k].cb # b
        BY <4>1, <4>2 DEF had, Has, Owners
      <4>4. H[k].cb # None
        BY <4>2 DEF ElemsOf
      <4>5. Other(k)
        BY <4>3, <4>4 DEF OneBlock
      <4>6. ElemsOf(H1[k], B1, S1) = ElemsOf(H[k], B, S)
        BY <1>5, <4>5
      <4> QED BY <4>2, <4>6
    <3> QED BY <3>1, <3>2
  <2>2. ASSUME NEW k \in Handles PROVE ElemsOf(H1[k], B1, S1) \subseteq A1
    <3>1. CASE H1[k] = Empty
      BY <1>6, <3>1
    <3>2. CASE Owner(k)
      <4>1. ElemsOf(H1[k], B1, S1) = has
        BY <1>7, <3>2
      <4> QED BY <4>1 DEF has
    <3>3. CASE Other(k)
      <4>1. ElemsOf(H1[k], B1, S1) \cap had = {} /\ ElemsOf(H1[k], B1, S1) \subseteq A
        BY <1>5, <3>3
      <4> QED BY <4>1 DEF had
    <3> QED BY <1>4, <3>1, <3>2, <3>3
  <2> QED BY <2>1, <2>2
<1>12. ASSUME NEW x \in Addresses, S1[x] # None PROVE \E k \in Handles : H1[k].ptr = x
  <2>1. CASE x = a
    <3>1. x # None
      BY NoneIsNothing
    <3>2. PICK k \in Handles : H1[k].cb = b
      BY <2>1, <3>1 DEF OneBlock, Owners
    <3>3. H1[k] = [cb |-> b, ptr |-> a]
      BY <3>2, OwnersAfter
    <3> QED BY <2>1, <3>3
  <2>2. CASE x # a
    <3>1. S[x] # None /\ \A k \in Owners(b, H) : H[k].ptr # x
      BY <1>12, <2>2 DEF OneBlock
    <3>2. PICK k \in Handles : H[k].ptr = x
      BY <1>1, <3>1 DEF Accounted
    <3>3. H[k].cb # b
      BY <3>1, <3>2 DEF Owners
    <3>4. H[k].cb # None
      BY <1>1, <3>2, NoneIsNothing DEF Held
    <3>5. H1[k] = H[k]
      BY <3>3, <3>4 DEF OneBlock
    <3> QED BY <3>2, <3>5
  <2> QED BY <2>1, <2>2
<1>13. ASSUME NEW c \in Blocks, B1[c] # None
       PROVE  B1[c].refs = Cardinality(Owners(c, H1)) /\ Owners(c, H1) # {}
  <2>1. CASE c = b
    BY <1>13, <2>1 DEF OneBlock
  <2>2. CASE c # b
    <3>1. B1[c] = B[c]
      BY <2>2 DEF OneBlock
    <3>2. ASSUME NEW k \in Handles PROVE H1[k].cb = c <=> H[k].cb = c
      <4>1. c # None
        BY NoneIsNothing
      <4>2. CASE H[k].cb \in {b, None}
        <5>1. H1[k] \in {Empty, [cb |-> b, ptr |-> a]}
          BY <4>2 DEF OneBlock
        <5>2. H1[k].cb # c
          BY <2>2, <4>1, <5>1 DEF Empty
        <5> QED BY <2>2, <4>1, <4>2, <5>2
      <4>3. CASE H[k].cb \notin {b, None}
        BY <4>3 DEF OneBlock
      <4> QED BY <4>2, <4>3
    <3>3. Owners(c, H1) = Owners(c, H)
      BY <3>2 DEF Owners
    <3> QED BY <1>1, <1>13, <3>1, <3>3 DEF Accounted
  <2> QED BY <2>1, <2>2
<1>14. Accounted(H1, B1, S1, A1)
  BY <1>11, <1>12, <1>13 DEF Accounted
<1>15. A1 \subseteq Objects
  BY <1>1, <1>8 DEF has
<1> QED BY <1>2, <1>9, <1>10, <1>14, <1>15 DEF Sound

\* Owners of a block see the same.
LEMMA OwnerSees ==
  ASSUME NEW H, NEW B, NEW S, NEW A, Sound(H, B, S, A), NEW b \in Blocks,
         NEW k \in Handles, H[k].cb = b
  PROVE  ContentsIn(b, H, B, S) = Shows(H[k], B, S)
<1> DEFINE g == CHOOSE h \in Handles : H[h].cb = b
<1>1. g \in Handles /\ H[g].cb = b
  OBVIOUS
<1>2. ContentsIn(b, H, B, S) = Shows(H[g], B, S)
  BY DEF ContentsIn
<1> HIDE DEF g
<1>3. H[g] \in HandleType /\ H[k] \in HandleType /\ H[g].ptr = H[k].ptr
  BY <1>1 DEF Sound, Agree
<1>4. H[g] = H[k]
  BY <1>1, <1>3 DEF HandleType
<1> QED BY <1>2, <1>4

\* Nobody sees a block without an owner.
LEMMA NobodySees ==
  ASSUME NEW H, NEW B, NEW S, NEW b, \A k \in Handles : H[k].cb # b
  PROVE  ContentsIn(b, H, B, S) = <<>>
BY DEF ContentsIn

\* Everything stays sound, the owners of b see s, and owners of other blocks what
\* they saw before.
Gives(b, s, H, B, S, H1, B1, S1, A1) ==
  /\ Sound(H1, B1, S1, A1)
  /\ \A d \in Blocks : ContentsIn(d, H1, B1, S1) = IF d = b THEN s ELSE ContentsIn(d, H, B, S)

\* Owners of other blocks do not see such a change.
LEMMA OthersSee ==
  ASSUME NEW H, NEW B, NEW S, NEW A, Sound(H, B, S, A),
         NEW b \in Blocks, NEW a \in Addresses \cup {None}, NEW H1, NEW B1, NEW S1, NEW A1,
         OneBlock(b, a, H, B, S, H1, B1, S1), Sound(H1, B1, S1, A1),
         NEW d \in Blocks \ {b}
  PROVE  ContentsIn(d, H1, B1, S1) = ContentsIn(d, H, B, S)
<1>1. d # None /\ b # None
  BY NoneIsNothing
<1>2. CASE \E k \in Handles : H[k].cb = d
  <2>1. PICK k \in Handles : H[k].cb = d
    BY <1>2
  <2>2. H[k].cb \notin {b, None}
    BY <1>1, <2>1
  <2>3. /\ H1[k] = H[k] /\ (H[k].ptr # None => H[k].ptr # a)
        /\ \A j \in Owners(b, H) : H[k].ptr # None => H[k].ptr # H[j].ptr
    <3>1. H1[k] = H[k] /\ (H[k].ptr # None => H[k].ptr # a)
      BY <2>2, OthersStay
    <3>2. \A j \in Handles : Agree(H[k], H[j], B, S)
      BY DEF Sound
    <3> QED BY <2>2, <3>1, <3>2 DEF Agree, Owners
  <2>4. H[k] \in HandleType
    BY DEF Sound
  <2>5. B1[d] = B[d] /\ (H[k].ptr # None => S1[H[k].ptr] = S[H[k].ptr])
    BY <2>3, <2>4 DEF OneBlock, HandleType
  <2>6. Shows(H1[k], B1, S1) = Shows(H[k], B, S)
    BY <2>1, <2>3, <2>5 DEF Shows, CellsAt
  <2>7. ContentsIn(d, H, B, S) = Shows(H[k], B, S)
    BY <2>1, OwnerSees
  <2>8. ContentsIn(d, H1, B1, S1) = Shows(H1[k], B1, S1)
    BY <2>1, <2>3, OwnerSees
  <2> QED BY <2>6, <2>7, <2>8
<1>3. CASE ~ \E k \in Handles : H[k].cb = d
  <2>1. ASSUME NEW k \in Handles PROVE H1[k].cb # d
    <3>1. CASE H[k].cb \in {b, None}
      <4>1. H1[k] \in {Empty, [cb |-> b, ptr |-> a]}
        BY <3>1 DEF OneBlock
      <4> QED BY <1>1, <4>1 DEF Empty
    <3>2. CASE H[k].cb \notin {b, None}
      <4>1. H1[k] = H[k]
        BY <3>2 DEF OneBlock
      <4> QED BY <1>3, <4>1
    <3> QED BY <3>1, <3>2
  <2> QED BY <1>3, <2>1, NobodySees
<1> QED BY <1>2, <1>3

\* Such a change gives the owners of b what they then see.
LEMMA OneBlockGives ==
  ASSUME NEW H, NEW B, NEW S, NEW A, Sound(H, B, S, A),
         NEW b \in Blocks, NEW a \in Addresses \cup {None}, NEW H1, NEW B1, NEW S1, NEW A1,
         OneBlock(b, a, H, B, S, H1, B1, S1), Sound(H1, B1, S1, A1),
         NEW s, ContentsIn(b, H1, B1, S1) = s
  PROVE  Gives(b, s, H, B, S, H1, B1, S1, A1)
<1>1. \A d \in Blocks \ {b} : ContentsIn(d, H1, B1, S1) = ContentsIn(d, H, B, S)
  BY OthersSee
<1> QED BY <1>1 DEF Gives

\* What is known of h and the other owners of its block b.
Shares(h, b, H, B, S, A) ==
  /\ b \in Blocks /\ B[b] \in BlockType /\ B[b].refs = Cardinality(Owners(b, H))
  /\ B[b] # None
  /\ H[h] \in HandleType /\ h \in Owners(b, H) /\ Owners(b, H) \in SUBSET Handles
  /\ \A k \in Handles : H[k].cb = b => H[k] = [cb |-> b, ptr |-> H[h].ptr]
  /\ Has(b, H, B, S) = ElemsOf(H[h], B, S)
  /\ Has(b, H, B, S) \subseteq A
  /\ H[h].ptr # None => \A k \in Handles : H[k].ptr = H[h].ptr => H[k].cb = b
  /\ Held(H[h], B, S)

\* It is known of the owner h of a block.
LEMMA OwnersAlike ==
  ASSUME NEW H, NEW B, NEW S, NEW A, Sound(H, B, S, A), NEW h \in Handles,
         NEW b, b = H[h].cb, b # None
  PROVE  Shares(h, b, H, B, S, A)
<1>1. /\ H \in [Handles -> HandleType] /\ B \in [Blocks -> BlockType \cup {None}]
      /\ \A k \in Handles : Held(H[k], B, S)
      /\ \A k, l \in Handles : Agree(H[k], H[l], B, S)
      /\ Accounted(H, B, S, A)
  BY DEF Sound
<1>2. H[h] \in HandleType /\ b \in Blocks /\ B[b] # None /\ B[b] \in BlockType
  BY <1>1 DEF HandleType, Held
<1>3. B[b].refs = Cardinality(Owners(b, H))
  BY <1>1, <1>2 DEF Accounted
<1>4. h \in Owners(b, H) /\ Owners(b, H) \in SUBSET Handles
  BY DEF Owners
<1>5. ASSUME NEW k \in Handles, H[k].cb = b PROVE H[k] = [cb |-> b, ptr |-> H[h].ptr]
  <2>1. H[k].ptr = H[h].ptr /\ H[k] \in HandleType
    BY <1>1, <1>5 DEF Agree
  <2> QED BY <1>5, <2>1 DEF HandleType
<1>6. Has(b, H, B, S) = ElemsOf(H[h], B, S)
  <2>1. \A k \in Owners(b, H) : H[k] = H[h]
    BY <1>4, <1>5 DEF Owners
  <2>2. \A k \in Owners(b, H) : ElemsOf(H[k], B, S) = ElemsOf(H[h], B, S)
    BY <2>1
  <2> QED BY <1>4, <2>2 DEF Has
<1>7. ElemsOf(H[h], B, S) \subseteq A
  BY <1>1 DEF Accounted
<1>8. H[h].ptr # None => \A k \in Handles : H[k].ptr = H[h].ptr => H[k].cb = b
  BY <1>1 DEF Agree
<1> QED BY <1>1, <1>2, <1>3, <1>4, <1>5, <1>6, <1>7, <1>8 DEF Shares

\* A handle without a block is empty.
LEMMA EmptyHandles ==
  ASSUME NEW H, NEW B, NEW S, NEW A, Sound(H, B, S, A), NEW k \in Handles, H[k].cb = None
  PROVE  H[k] = Empty
<1>1. H[k] \in HandleType /\ Held(H[k], B, S)
  BY DEF Sound
<1> QED BY <1>1 DEF HandleType, Held, Empty

\* A block there is not has no owners.
LEMMA NobodyHas ==
  ASSUME NEW H, NEW B, NEW S, NEW A, Sound(H, B, S, A), NEW b \in Blocks, B[b] = None
  PROVE  Owners(b, H) = {} /\ Has(b, H, B, S) = {}
<1>1. ASSUME NEW k \in Handles PROVE H[k].cb # b
  <2>1. Held(H[k], B, S)
    BY DEF Sound
  <2> QED BY <2>1, NoneIsNothing DEF Held
<1>2. Owners(b, H) = {}
  BY <1>1 DEF Owners
<1> QED BY <1>2 DEF Has

\* The empty handle h becomes the owner of a new block and of new storage with n
\* elements that were not alive.
Takes(h, b, a, cells, n, m, H, B, S, A, H1, B1, S1, A1) ==
  /\ H[h] = Empty /\ b \in Blocks /\ B[b] = None /\ a \in Addresses /\ S[a] = None
  /\ Holds(cells, n) /\ Len(cells) <= MaxCapacity /\ m \in Spaces
  /\ Elems(cells, n) \cap A = {}
  /\ H1 = [H EXCEPT ![h] = [cb |-> b, ptr |-> a]]
  /\ B1 = [B EXCEPT ![b] = [refs |-> 1, size |-> n, capacity |-> Len(cells), mem |-> m]]
  /\ S1 = [S EXCEPT ![a] = cells]
  /\ A1 = A \cup Elems(cells, n)

\* So it keeps everything sound, and the new block shows these elements.
LEMMA TakeKeeps ==
  ASSUME NEW H, NEW B, NEW S, NEW A, Sound(H, B, S, A), NEW h \in Handles,
         NEW b, NEW a, NEW cells, NEW n, NEW m, NEW H1, NEW B1, NEW S1, NEW A1,
         Takes(h, b, a, cells, n, m, H, B, S, A, H1, B1, S1, A1)
  PROVE  Gives(b, SubSeq(cells, 1, n), H, B, S, H1, B1, S1, A1)
<1>0. /\ H[h] = Empty /\ b \in Blocks /\ B[b] = None /\ a \in Addresses /\ S[a] = None
      /\ Holds(cells, n) /\ Len(cells) <= MaxCapacity /\ m \in Spaces
      /\ Elems(cells, n) \cap A = {}
      /\ H1 = [H EXCEPT ![h] = [cb |-> b, ptr |-> a]]
      /\ B1 = [B EXCEPT ![b] = [refs |-> 1, size |-> n, capacity |-> Len(cells), mem |-> m]]
      /\ S1 = [S EXCEPT ![a] = cells]
      /\ A1 = A \cup Elems(cells, n)
  BY DEF Takes
<1> DEFINE k1 == [cb |-> b, ptr |-> a]
           new == [refs |-> 1, size |-> n, capacity |-> Len(cells), mem |-> m]
<1>1. /\ H \in [Handles -> HandleType] /\ B \in [Blocks -> BlockType \cup {None}]
      /\ S \in [Addresses -> Seq(Cells) \cup {None}]
      /\ \A k \in Handles : Held(H[k], B, S)
  BY DEF Sound
<1>2. Owners(b, H) = {} /\ Has(b, H, B, S) = {} /\ b # None /\ a # None
  BY <1>0, NobodyHas, NoneIsNothing
<1>3. cells \in Seq(Cells) /\ n \in Nat /\ Len(cells) \in 0 .. MaxCapacity /\ cells # None
  BY <1>0, NoneIsNothing, StorageAssumption DEF Holds
<1>4. new \in BlockType /\ new.refs = 1 /\ new.size = n /\ new.capacity = Len(cells) /\ new # None
  <2> DEFINE l == Len(cells)
  <2>1. l \in 0 .. MaxCapacity
    BY <1>3
  <2> HIDE DEF l
  <2>2. [refs |-> 1, size |-> n, capacity |-> l, mem |-> m] \in BlockType
    BY <1>0, <1>3, <2>1 DEF BlockType
  <2>3. new \in BlockType
    BY <2>2 DEF l
  <2> QED BY <2>3, NoneIsNothing
<1>5. k1 \in HandleType /\ k1.cb = b /\ k1.ptr = a
  BY <1>0 DEF HandleType
<1> HIDE DEF new, k1
<1>6. /\ H1 \in [Handles -> HandleType] /\ H1[h] = k1 /\ \A k \in Handles \ {h} : H1[k] = H[k]
  BY <1>0, <1>1, <1>5 DEF k1
<1>7. /\ B1 \in [Blocks -> BlockType \cup {None}] /\ B1[b] = new
      /\ \A c \in Blocks \ {b} : B1[c] = B[c]
  BY <1>0, <1>1, <1>4 DEF new
<1>8. /\ S1 \in [Addresses -> Seq(Cells) \cup {None}] /\ S1[a] = cells
      /\ \A x \in Addresses \ {a} : S1[x] = S[x]
  BY <1>0, <1>1, <1>3
<1>9. Owners(b, H1) = {h}
  <2>1. \A k \in Handles : H[k].cb # b
    BY <1>2 DEF Owners
  <2> QED BY <1>5, <1>6, <2>1 DEF Owners
<1>10. Cardinality({h}) = 1
  BY FS_Singleton
<1>11. CellsAt(a, S1) = cells
  BY <1>2, <1>8 DEF CellsAt
<1>12. ASSUME NEW k \in Handles
       PROVE  IF H[k].cb \in {b, None} THEN H1[k] \in {Empty, [cb |-> b, ptr |-> a]}
              ELSE H1[k] = H[k]
  <2>1. CASE k = h
    <3>1. H[k].cb = None
      BY <1>0, <2>1 DEF Empty
    <3> QED BY <1>6, <2>1, <3>1 DEF k1
  <2>2. CASE k # h
    <3>1. H[k].cb # b
      BY <1>2 DEF Owners
    <3>2. H[k].cb = None => H[k] = Empty
      BY EmptyHandles
    <3> QED BY <1>6, <2>2, <3>1, <3>2
  <2> QED BY <2>1, <2>2
<1>13. \A k \in Handles : H[k].ptr # a
  BY <1>0, <1>1, <1>2 DEF Held
<1>14. OneBlock(b, a, H, B, S, H1, B1, S1)
  <2>1. \A x \in Addresses \ {a} :
          S1[x] = IF \E k \in Owners(b, H) : H[k].ptr = x THEN None ELSE S[x]
    BY <1>2, <1>8
  <2>2. /\ Owners(b, H1) # {} /\ B1[b] # None /\ B1[b].refs = Cardinality(Owners(b, H1))
        /\ S1[a] # None
        /\ Holds(CellsAt(a, S1), B1[b].size) /\ Len(CellsAt(a, S1)) = B1[b].capacity
    BY <1>0, <1>3, <1>4, <1>7, <1>8, <1>9, <1>10, <1>11
  <2> QED BY <1>6, <1>7, <1>8, <1>12, <1>13, <2>1, <2>2 DEF OneBlock
<1>15. Has(b, H1, B1, S1) = Elems(cells, n)
  <2>1. ElemsOf(H1[h], B1, S1) = Elems(cells, n)
    BY <1>2, <1>4, <1>5, <1>6, <1>7, <1>11 DEF ElemsOf
  <2> QED BY <1>9, <2>1 DEF Has
<1>16. a \in Addresses \cup {None}
  BY <1>0
<1>17. /\ Has(b, H1, B1, S1) \cap A \subseteq Has(b, H, B, S)
       /\ A1 = (A \ Has(b, H, B, S)) \cup Has(b, H1, B1, S1)
  BY <1>0, <1>2, <1>15
<1>18. Sound(H1, B1, S1, A1)
  BY <1>0, <1>14, <1>16, <1>17, OneBlockKeeps
<1>19. ContentsIn(b, H1, B1, S1) = SubSeq(cells, 1, n)
  <2>1. H1[h].cb = b /\ H1[h].ptr = a /\ B1[b].size = n
    BY <1>4, <1>5, <1>6, <1>7
  <2>2. Shows(H1[h], B1, S1) = SubSeq(cells, 1, n)
    BY <1>2, <1>11, <2>1 DEF Shows
  <2>3. b \in Blocks
    BY <1>0
  <2>4. ContentsIn(b, H1, B1, S1) = Shows(H1[h], B1, S1)
    BY <1>18, <2>1, <2>3, OwnerSees
  <2> QED BY <2>2, <2>4
<1> QED BY <1>0, <1>14, <1>16, <1>18, <1>19, OneBlockGives

\* The owners of the block b of h get the cells of which n are elements, in place
\* or, if there is one owner only, at another address.
Changes(h, b, a, a1, cells, n, H, B, S, A, H1, B1, S1, A1) ==
  /\ b = H[h].cb /\ b # None /\ a = H[h].ptr /\ a # None /\ a1 \in Addresses \cup {None}
  /\ a1 # a => Owners(b, H) = {h} /\ (a1 # None => S[a1] = None)
  /\ Holds(cells, n) /\ Len(cells) <= MaxCapacity /\ (a1 = None => cells = <<>>)
  /\ Elems(cells, n) \cap A \subseteq ElemsOf(H[h], B, S)
  /\ H1 = [H EXCEPT ![h].ptr = a1]
  /\ B1 = [B EXCEPT ![b].size = n, ![b].capacity = Len(cells)]
  /\ S1 \in [Addresses -> Seq(Cells) \cup {None}]
  /\ \A x \in Addresses : S1[x] = IF x = a1 THEN cells ELSE IF x = a THEN None ELSE S[x]
  /\ A1 = (A \ ElemsOf(H[h], B, S)) \cup Elems(cells, n)

\* Such a change keeps everything sound, and the owners see the new elements.
LEMMA ChangeKeeps ==
  ASSUME NEW H, NEW B, NEW S, NEW A, Sound(H, B, S, A), NEW h \in Handles,
         NEW b, NEW a, NEW a1, NEW cells, NEW n, NEW H1, NEW B1, NEW S1, NEW A1,
         Changes(h, b, a, a1, cells, n, H, B, S, A, H1, B1, S1, A1)
  PROVE  Gives(b, SubSeq(cells, 1, n), H, B, S, H1, B1, S1, A1)
<1>0. /\ b = H[h].cb /\ b # None /\ a = H[h].ptr /\ a # None /\ a1 \in Addresses \cup {None}
      /\ a1 # a => Owners(b, H) = {h} /\ (a1 # None => S[a1] = None)
      /\ Holds(cells, n) /\ Len(cells) <= MaxCapacity /\ (a1 = None => cells = <<>>)
      /\ Elems(cells, n) \cap A \subseteq ElemsOf(H[h], B, S)
      /\ H1 = [H EXCEPT ![h].ptr = a1]
      /\ B1 = [B EXCEPT ![b].size = n, ![b].capacity = Len(cells)]
      /\ S1 \in [Addresses -> Seq(Cells) \cup {None}]
      /\ \A x \in Addresses : S1[x] = IF x = a1 THEN cells ELSE IF x = a THEN None ELSE S[x]
      /\ A1 = (A \ ElemsOf(H[h], B, S)) \cup Elems(cells, n)
  BY DEF Changes
<1> DEFINE k1 == [cb |-> b, ptr |-> a1]
           new == [B[b] EXCEPT !.size = n, !.capacity = Len(cells)]
<1>1. /\ H \in [Handles -> HandleType] /\ B \in [Blocks -> BlockType \cup {None}]
      /\ S \in [Addresses -> Seq(Cells) \cup {None}]
      /\ \A k \in Handles : Held(H[k], B, S)
  BY DEF Sound
<1>2. /\ b \in Blocks /\ B[b] \in BlockType /\ B[b].refs = Cardinality(Owners(b, H))
      /\ H[h] \in HandleType /\ h \in Owners(b, H) /\ Owners(b, H) \in SUBSET Handles
      /\ \A k \in Handles : H[k].cb = b => H[k] = [cb |-> b, ptr |-> a]
      /\ Has(b, H, B, S) = ElemsOf(H[h], B, S)
      /\ \A k \in Handles : H[k].ptr = a => H[k].cb = b
      /\ Held(H[h], B, S)
  <2>1. Shares(h, b, H, B, S, A)
    BY <1>0, OwnersAlike
  <2> QED BY <1>0, <2>1 DEF Shares
<1>3. cells \in Seq(Cells) /\ n \in Nat /\ Len(cells) \in 0 .. MaxCapacity /\ cells # None
  BY <1>0, NoneIsNothing, StorageAssumption DEF Holds
<1>4. /\ new \in BlockType /\ new.refs = B[b].refs /\ new.size = n /\ new.capacity = Len(cells)
      /\ new # None
  <2> DEFINE l == Len(cells)
  <2>1. l \in 0 .. MaxCapacity
    BY <1>3
  <2> HIDE DEF l
  <2>2. DEFINE rec == [B[b] EXCEPT !.size = n, !.capacity = l]
  <2>3. rec \in BlockType /\ rec.refs = B[b].refs /\ rec.size = n /\ rec.capacity = l
    BY <1>2, <1>3, <2>1 DEF BlockType
  <2>4. new = rec
    BY DEF l
  <2> HIDE DEF new, rec
  <2> QED BY <2>3, <2>4, NoneIsNothing DEF l
<1>5. k1 \in HandleType /\ k1.cb = b /\ k1.ptr = a1
  BY <1>0, <1>2 DEF HandleType
<1>6. B1 = [B EXCEPT ![b] = new]
  BY <1>0, <1>1, <1>2
<1>7. H1 = [H EXCEPT ![h] = k1]
  <2>1. H[h] = [cb |-> b, ptr |-> a]
    BY <1>0, <1>2
  <2>2. [H[h] EXCEPT !.ptr = a1] = k1
    BY <2>1
  <2> QED BY <1>0, <1>1, <2>2
<1> HIDE DEF new, k1
<1>8. /\ H1 \in [Handles -> HandleType] /\ H1[h] = k1 /\ \A k \in Handles \ {h} : H1[k] = H[k]
  BY <1>1, <1>5, <1>7
<1>9. /\ B1 \in [Blocks -> BlockType \cup {None}] /\ B1[b] = new
      /\ \A c \in Blocks \ {b} : B1[c] = B[c]
  <2>1. [B EXCEPT ![b] = new] \in [Blocks -> BlockType \cup {None}]
    BY <1>1, <1>4
  <2> QED BY <1>1, <1>2, <1>6, <2>1
<1>10. ASSUME NEW k \in Handles
       PROVE  /\ H1[k].cb = H[k].cb /\ (H[k].cb # b => H1[k] = H[k])
              /\ H[k].cb = b => H1[k] = k1
  <2>1. CASE k = h
    BY <1>0, <1>5, <1>8, <2>1
  <2>2. CASE k # h
    <3>1. H[k].cb = b => H[k] = [cb |-> b, ptr |-> a]
      BY <1>2
    <3>2. H[k].cb = b => a1 = a
      <4>1. ASSUME H[k].cb = b PROVE k \in Owners(b, H)
        BY <4>1 DEF Owners
      <4> QED BY <1>0, <2>2, <4>1
    <3> QED BY <1>8, <2>2, <3>1, <3>2 DEF k1
  <2> QED BY <2>1, <2>2
<1>11. Owners(b, H1) = Owners(b, H)
  BY <1>10 DEF Owners
<1>12. CellsAt(a1, S1) = cells
  BY <1>0, NoneIsNothing DEF CellsAt
<1>13. ASSUME NEW k \in Handles
       PROVE  IF H[k].cb \in {b, None} THEN H1[k] \in {Empty, [cb |-> b, ptr |-> a1]}
              ELSE H1[k] = H[k]
  <2>1. H[k].cb = None => H[k] = Empty
    BY EmptyHandles
  <2> QED BY <1>10, <2>1 DEF k1
<1>14. ASSUME a1 # None, NEW k \in Handles, H[k].ptr = a1 PROVE H[k].cb = b
  <2>1. CASE a1 = a
    BY <1>2, <1>14, <2>1
  <2>2. CASE a1 # a
    BY <1>0, <1>1, <1>14, <2>2 DEF Held
  <2> QED BY <2>1, <2>2
<1>15. ASSUME NEW x \in Addresses \ {a1}
       PROVE  S1[x] = IF \E k \in Owners(b, H) : H[k].ptr = x THEN None ELSE S[x]
  <2>1. (\E k \in Owners(b, H) : H[k].ptr = x) <=> x = a
    BY <1>2 DEF Owners
  <2> QED BY <1>0, <2>1
<1>16. OneBlock(b, a1, H, B, S, H1, B1, S1)
  <2>1. Owners(b, H1) # {}
    BY <1>2, <1>11
  <2>2. /\ B1[b] # None /\ B1[b].refs = Cardinality(Owners(b, H1))
        /\ Holds(CellsAt(a1, S1), B1[b].size) /\ Len(CellsAt(a1, S1)) = B1[b].capacity
    BY <1>0, <1>2, <1>4, <1>9, <1>11, <1>12
  <2>3. a1 # None => S1[a1] # None
    BY <1>0, <1>3
  <2> QED BY <1>0, <1>8, <1>9, <1>13, <1>14, <1>15, <2>1, <2>2, <2>3 DEF OneBlock
<1>17. Has(b, H1, B1, S1) = Elems(cells, n)
  <2>1. ASSUME NEW k \in Owners(b, H1) PROVE ElemsOf(H1[k], B1, S1) = Elems(cells, n)
    <3>1. H1[k] = k1
      BY <1>10, <1>11 DEF Owners
    <3>2. H1[k].cb = b /\ H1[k].ptr = a1 /\ B1[b].size = n
      BY <1>4, <1>5, <1>9, <3>1
    <3> QED BY <1>0, <1>12, <3>2 DEF ElemsOf
  <2>2. {ElemsOf(H1[k], B1, S1) : k \in Owners(b, H1)} = {Elems(cells, n)}
    BY <1>2, <1>11, <2>1
  <2> QED BY <2>2 DEF Has
<1>18. Has(b, H1, B1, S1) \cap A \subseteq Has(b, H, B, S)
  BY <1>0, <1>2, <1>17
<1>19. A1 = (A \ Has(b, H, B, S)) \cup Has(b, H1, B1, S1)
  BY <1>0, <1>2, <1>17
<1>20. Sound(H1, B1, S1, A1)
  BY <1>0, <1>2, <1>16, <1>18, <1>19, OneBlockKeeps
<1>21. ContentsIn(b, H1, B1, S1) = SubSeq(cells, 1, n)
  <2>1. H1[h].cb = b /\ H1[h].ptr = a1 /\ B1[b].size = n
    BY <1>4, <1>5, <1>8, <1>9
  <2>2. Shows(H1[h], B1, S1) = SubSeq(cells, 1, n)
    BY <1>0, <1>12, <2>1 DEF Shows
  <2>3. b \in Blocks
    BY <1>2
  <2>4. ContentsIn(b, H1, B1, S1) = Shows(H1[h], B1, S1)
    BY <1>20, <2>1, <2>3, OwnerSees
  <2> QED BY <2>2, <2>4
<1>22. b \in Blocks /\ a1 \in Addresses \cup {None}
  BY <1>0, <1>2
<1> QED BY <1>16, <1>20, <1>21, <1>22, OneBlockGives

\* The owner l of b names what the owner k did, and the block is as big.
SameView(k, l, b, B, B1) == l = k /\ k.cb = b /\ B1[b].size = B[b].size

\* Then the owners see the same.
LEMMA SeenBy ==
  ASSUME NEW H, NEW B, NEW S, NEW A, Sound(H, B, S, A), NEW H1, NEW B1, NEW A1,
         Sound(H1, B1, S, A1), NEW b \in Blocks, NEW g \in Handles, NEW h \in Handles,
         SameView(H[g], H1[h], b, B, B1)
  PROVE  ContentsIn(b, H1, B1, S) = ContentsIn(b, H, B, S)
<1>1. H1[h] = H[g] /\ H[g].cb = b /\ H1[h].cb = b /\ B1[b].size = B[b].size
  BY DEF SameView
<1>2. ContentsIn(b, H1, B1, S) = Shows(H1[h], B1, S)
  BY <1>1, OwnerSees
<1>3. ContentsIn(b, H, B, S) = Shows(H[g], B, S)
  BY <1>1, OwnerSees
<1>4. Shows(H1[h], B1, S) = Shows(H[g], B, S)
  BY <1>1 DEF Shows
<1> QED BY <1>2, <1>3, <1>4

\* The empty handle h becomes an owner of b, which g owns.
Joined(h, g, b, H, B, S, A, H1, B1) ==
  /\ b \in Blocks /\ H[g].ptr \in Addresses \cup {None}
  /\ OneBlock(b, H[g].ptr, H, B, S, H1, B1, S)
  /\ Sound(H1, B1, S, A) /\ SameView(H[g], H1[h], b, B, B1)

\* An empty handle becomes an owner of what others see.
LEMMA JoinKeeps ==
  ASSUME NEW H, NEW B, NEW S, NEW A, Sound(H, B, S, A),
         NEW h \in Handles, H[h] = Empty, NEW g \in Handles, NEW b, b = H[g].cb, b # None,
         NEW H1, H1 = [H EXCEPT ![h] = H[g]],
         NEW B1, B1 = [B EXCEPT ![b].refs = @ + 1]
  PROVE  Joined(h, g, b, H, B, S, A, H1, B1)
<1> DEFINE a == H[g].ptr
           T == Owners(b, H)
           r == B[b].refs + 1
           new == [B[b] EXCEPT !.refs = r]
<1>1. /\ H \in [Handles -> HandleType] /\ B \in [Blocks -> BlockType \cup {None}]
      /\ S \in [Addresses -> Seq(Cells) \cup {None}]
      /\ \A k \in Handles : Held(H[k], B, S)
  BY DEF Sound
<1>2. /\ b \in Blocks /\ B[b] \in BlockType /\ B[b].refs = Cardinality(T)
      /\ H[g] \in HandleType /\ g \in T /\ T \in SUBSET Handles
      /\ \A k \in Handles : H[k].cb = b => H[k] = [cb |-> b, ptr |-> a]
      /\ Has(b, H, B, S) = ElemsOf(H[g], B, S)
      /\ Has(b, H, B, S) \subseteq A
      /\ a # None => \A k \in Handles : H[k].ptr = a => H[k].cb = b
      /\ Held(H[g], B, S)
  <2>1. Shares(g, b, H, B, S, A)
    BY OwnersAlike
  <2> QED BY <2>1 DEF Shares
<1>3. r \in Nat
  BY <1>2 DEF BlockType
<1> HIDE DEF r
<1>4. /\ new \in BlockType /\ new.refs = r /\ new.size = B[b].size /\ new.capacity = B[b].capacity
  BY <1>2, <1>3 DEF BlockType
<1>5. B1 = [B EXCEPT ![b] = new]
  BY <1>1, <1>2 DEF r
<1> HIDE DEF new, T
<1>6. new # None
  BY <1>4, NoneIsNothing
<1>7. /\ B1 \in [Blocks -> BlockType \cup {None}] /\ B1[b] = new
      /\ \A c \in Blocks \ {b} : B1[c] = B[c]
  BY <1>1, <1>2, <1>4, <1>5
<1>8. /\ H1 \in [Handles -> HandleType] /\ H1[h] = H[g] /\ \A k \in Handles \ {h} : H1[k] = H[k]
  BY <1>1
<1>9. Owners(b, H1) = T \cup {h} /\ h \notin T
  <2>1. H[h].cb # b
    BY DEF Empty
  <2>2. \A k \in Handles : H1[k].cb = b <=> k = h \/ H[k].cb = b
    BY <1>8
  <2> QED BY <2>1, <2>2 DEF T, Owners
<1>10. Cardinality(Owners(b, H1)) = r
  BY <1>2, <1>9, OwnersGrow DEF r
<1>11. \A k \in Owners(b, H1) : H1[k] = [cb |-> b, ptr |-> a]
  BY <1>2, <1>8 DEF Owners
<1>12. a \in Addresses \cup {None}
  BY <1>2 DEF HandleType
<1>13. OneBlock(b, a, H, B, S, H1, B1, S)
  <2>1. ASSUME NEW k \in Handles
        PROVE  IF H[k].cb \in {b, None} THEN H1[k] \in {Empty, [cb |-> b, ptr |-> a]}
               ELSE H1[k] = H[k]
    <3>1. H[k].cb = None => H[k] = Empty
      BY EmptyHandles
    <3>2. H[h].cb = None
      BY DEF Empty
    <3>3. H[g] = [cb |-> b, ptr |-> a] /\ (H[k].cb = b => H[k] = [cb |-> b, ptr |-> a])
      BY <1>2
    <3> QED BY <1>8, <3>1, <3>2, <3>3
  <2>2. \A x \in Addresses \ {a} :
          S[x] = IF \E k \in Owners(b, H) : H[k].ptr = x THEN None ELSE S[x]
    BY <1>2 DEF Owners
  <2>3. /\ Owners(b, H1) # {} /\ B1[b] # None /\ B1[b].refs = Cardinality(Owners(b, H1))
    BY <1>4, <1>6, <1>7, <1>9, <1>10
  <2>4. /\ a # None => S[a] # None
        /\ Holds(CellsAt(a, S), B1[b].size) /\ Len(CellsAt(a, S)) = B1[b].capacity
    BY <1>2, <1>4, <1>7 DEF Held
  <2> QED BY <1>1, <1>2, <1>7, <1>8, <2>1, <2>2, <2>3, <2>4 DEF OneBlock
<1>14. Has(b, H1, B1, S) = Has(b, H, B, S)
  <2>1. ElemsOf(H[g], B1, S) = ElemsOf(H[g], B, S)
    BY <1>4, <1>7 DEF ElemsOf
  <2>2. \A k \in Owners(b, H1) : H1[k] = H[g]
    BY <1>2, <1>11
  <2>3. \A k \in Owners(b, H1) : ElemsOf(H1[k], B1, S) = ElemsOf(H[g], B, S)
    BY <2>1, <2>2
  <2>4. {ElemsOf(H1[k], B1, S) : k \in Owners(b, H1)} = {ElemsOf(H[g], B, S)}
    BY <1>9, <2>3
  <2> QED BY <1>2, <2>4 DEF Has
<1>15. A = (A \ Has(b, H, B, S)) \cup Has(b, H1, B1, S)
  BY <1>2, <1>14
<1>16. Sound(H1, B1, S, A)
  BY <1>2, <1>12, <1>13, <1>14, <1>15, OneBlockKeeps
<1>17. SameView(H[g], H1[h], b, B, B1)
  BY <1>4, <1>7, <1>8 DEF SameView
<1> QED BY <1>2, <1>13, <1>12, <1>16, <1>17 DEF Joined

\* It sees what the others see, and they see no difference.
LEMMA JoinGives ==
  ASSUME NEW H, NEW B, NEW S, NEW A, Sound(H, B, S, A), NEW h \in Handles, NEW g \in Handles,
         NEW b, NEW H1, NEW B1, Joined(h, g, b, H, B, S, A, H1, B1)
  PROVE  Gives(b, ContentsIn(b, H, B, S), H, B, S, H1, B1, S, A)
<1> DEFINE a == H[g].ptr
<1>1. /\ b \in Blocks /\ a \in Addresses \cup {None} /\ OneBlock(b, a, H, B, S, H1, B1, S)
      /\ Sound(H1, B1, S, A) /\ SameView(H[g], H1[h], b, B, B1)
  BY DEF Joined
<1>2. ContentsIn(b, H1, B1, S) = ContentsIn(b, H, B, S)
  BY <1>1, SeenBy
<1> HIDE DEF a
<1> QED BY <1>1, <1>2, OneBlockGives

\* The objects that the last owner of a block destructs.
LEMMA ElementsOfSet ==
  ASSUME NEW s, NEW n, Holds(s, n)
  PROVE  ToSet(SubSeq(s, 1, n)) = Elems(s, n)
<1>1. s \in Seq(Cells) /\ n \in 0 .. Len(s)
  BY DEF Holds
<1>2. /\ DOMAIN SubSeq(s, 1, n) = 1 .. n /\ \A i \in 1 .. n : SubSeq(s, 1, n)[i] = s[i]
  BY <1>1
<1> QED BY <1>2 DEF ToSet, Elems

\* What is seen of a block when h no longer has its own.
LeftOf(d, h, H, B, S) == IF \E g \in Handles \ {h} : H[g].cb = d THEN ContentsIn(d, H, B, S)
                         ELSE <<>>

\* Blocks that h does not have are left as they are.
LEMMA OthersLeft ==
  ASSUME NEW H, NEW B, NEW S, NEW h \in Handles, NEW d, H[h].cb # d
  PROVE  LeftOf(d, h, H, B, S) = ContentsIn(d, H, B, S)
<1>1. CASE \E g \in Handles \ {h} : H[g].cb = d
  BY <1>1 DEF LeftOf
<1>2. CASE ~ \E g \in Handles \ {h} : H[g].cb = d
  <2>1. \A g \in Handles : H[g].cb # d
    BY <1>2
  <2> QED BY <1>2, <2>1, NobodySees DEF LeftOf
<1> QED BY <1>1, <1>2

\* What release() leaves of blocks, storage, objects and sequences.
ReleasedBlock(h, B, S, A) ==
  /\ Sound([handle EXCEPT ![h] = Empty], B, S, A)
  /\ \A d \in Blocks : ContentsIn(d, [handle EXCEPT ![h] = Empty], B, S)
                        = LeftOf(d, h, handle, block, storage)
  /\ \A a \in Addresses : storage[a] = None => S[a] = None
  /\ A \subseteq alive

\* release(): the handle is empty; its block is one owner short, or is gone with
\* its storage and its elements, which only the other owners see from here on.
LEMMA ReleaseKeeps ==
  ASSUME SInv, NEW h \in Handles
  PROVE  ReleasedBlock(h, Release(h).block, Release(h).storage, Release(h).alive)
<1> DEFINE b == handle[h].cb
           a == handle[h].ptr
           H1 == [handle EXCEPT ![h] = Empty]
           B1 == Release(h).block
           S1 == Release(h).storage
           A1 == Release(h).alive
           T == Owners(b, handle)
           E == ElemsOf(handle[h], block, storage)
<1>0. Sound(handle, block, storage, alive)
  BY DEF SInv
<1>1. /\ handle \in [Handles -> HandleType] /\ block \in [Blocks -> BlockType \cup {None}]
      /\ storage \in [Addresses -> Seq(Cells) \cup {None}] /\ alive \subseteq Objects
  BY <1>0 DEF Sound
<1>2. /\ Empty \in HandleType /\ H1 \in [Handles -> HandleType] /\ H1[h] = Empty
      /\ \A k \in Handles \ {h} : H1[k] = handle[k]
  BY <1>1 DEF Empty, HandleType
<1>3. CASE b = None
  <2>1. handle[h] = Empty
    BY <1>0, <1>3, EmptyHandles
  <2>2. H1 = handle
    BY <1>1, <2>1
  <2>3. B1 = block /\ S1 = storage /\ A1 = alive
    BY <1>3 DEF Release
  <2>4. \A d \in Blocks : LeftOf(d, h, handle, block, storage) = ContentsIn(d, handle, block, storage)
    BY <1>3, NoneIsNothing, OthersLeft
  <2> QED BY <1>0, <2>2, <2>3, <2>4 DEF ReleasedBlock
<1>4. ASSUME b # None
      PROVE  /\ b \in Blocks /\ block[b] \in BlockType /\ block[b] # None
             /\ block[b].refs = Cardinality(T) /\ h \in T /\ T \in SUBSET Handles
             /\ \A k \in Handles : handle[k].cb = b => handle[k] = [cb |-> b, ptr |-> a]
             /\ Has(b, handle, block, storage) = E /\ E \subseteq alive
             /\ a # None => \A k \in Handles : handle[k].ptr = a => handle[k].cb = b
             /\ Held(handle[h], block, storage)
             /\ a \in Addresses \cup {None}
  <2> DEFINE c == b
  <2>1. c = handle[h].cb /\ c # None
    BY <1>4
  <2> HIDE DEF c, T, E
  <2>4. Shares(h, c, handle, block, storage, alive)
    BY <1>0, <2>1, OwnersAlike
  <2>2. /\ c \in Blocks /\ block[c] \in BlockType /\ block[c].refs = Cardinality(Owners(c, handle))
        /\ block[c] # None
        /\ handle[h] \in HandleType /\ h \in Owners(c, handle) /\ Owners(c, handle) \in SUBSET Handles
        /\ \A k \in Handles : handle[k].cb = c => handle[k] = [cb |-> c, ptr |-> handle[h].ptr]
        /\ Has(c, handle, block, storage) = ElemsOf(handle[h], block, storage)
        /\ Has(c, handle, block, storage) \subseteq alive
        /\ handle[h].ptr # None => \A k \in Handles : handle[k].ptr = handle[h].ptr => handle[k].cb = c
        /\ Held(handle[h], block, storage)
    BY <2>4 DEF Shares
  <2>3. a \in Addresses \cup {None}
    BY <2>2 DEF HandleType
  <2> QED BY <2>2, <2>3 DEF c, T, E
<1>5. ASSUME b # None
      PROVE  /\ Owners(b, H1) = T \ {h} /\ Cardinality(T) \in Nat \ {0}
             /\ Cardinality(T \ {h}) = Cardinality(T) - 1
             /\ Cardinality(T) <= 1 => T = {h}
             /\ Cardinality(T) > 1 => T \ {h} # {}
  <2>1. Owners(b, H1) = T \ {h}
    BY <1>2, <1>5 DEF Owners, Empty
  <2> HIDE DEF T
  <2> QED BY <1>4, <1>5, <2>1, OwnersCount
<1>6. ASSUME b # None, NEW k \in Handles
      PROVE  IF handle[k].cb \in {b, None} THEN H1[k] \in {Empty, [cb |-> b, ptr |-> a]}
             ELSE H1[k] = handle[k]
  <2>1. handle[k].cb = None => handle[k] = Empty
    BY <1>0, EmptyHandles
  <2> QED BY <1>2, <1>4, <1>6, <2>1
<1>7. ASSUME b # None, NEW x \in Addresses, x # a
      PROVE  ~ \E k \in Owners(b, handle) : handle[k].ptr = x
  <2> SUFFICES ASSUME NEW k \in Handles, handle[k].cb = b PROVE handle[k].ptr # x
    BY DEF Owners
  <2>1. handle[k] = [cb |-> b, ptr |-> a]
    BY <1>4, <1>7
  <2> QED BY <1>7, <2>1
<1>8. CASE b # None /\ block[b].refs > 1
  <2>1. B1 = [block EXCEPT ![b].refs = @ - 1] /\ S1 = storage /\ A1 = alive
    BY <1>8 DEF Release
  <2>2. /\ B1 \in [Blocks -> BlockType \cup {None}] /\ B1[b].refs = Cardinality(T) - 1
        /\ B1[b].size = block[b].size /\ B1[b].capacity = block[b].capacity /\ B1[b] # None
        /\ \A c \in Blocks \ {b} : B1[c] = block[c]
    <3> DEFINE r == block[b].refs - 1
               new == [block[b] EXCEPT !.refs = r]
    <3>1. r \in Nat /\ r = Cardinality(T) - 1
      BY <1>4, <1>5, <1>8
    <3>2. B1 = [block EXCEPT ![b] = new]
      BY <2>1
    <3> HIDE DEF r
    <3>3. /\ new \in BlockType /\ new.refs = r /\ new.size = block[b].size
          /\ new.capacity = block[b].capacity
      BY <1>4, <1>8, <3>1 DEF BlockType
    <3> HIDE DEF new, B1
    <3>4. new # None
      BY <3>3, NoneIsNothing
    <3> QED BY <1>1, <1>4, <1>8, <3>1, <3>2, <3>3, <3>4
  <2> HIDE DEF B1, S1, A1, H1, T, E, a, b
  <2>3. Owners(b, H1) # {} /\ Cardinality(Owners(b, H1)) = B1[b].refs
    BY <1>4, <1>5, <1>8, <2>2
  <2>4. OneBlock(b, a, handle, block, storage, H1, B1, S1)
    <3>1. /\ a # None => S1[a] # None
          /\ Holds(CellsAt(a, S1), B1[b].size) /\ Len(CellsAt(a, S1)) = B1[b].capacity
      BY <1>4, <1>8, <2>1, <2>2 DEF Held, a, b
    <3>2. \A x \in Addresses \ {a} :
            S1[x] = IF \E k \in Owners(b, handle) : handle[k].ptr = x THEN None ELSE storage[x]
      BY <1>7, <1>8, <2>1
    <3> QED BY <1>1, <1>2, <1>4, <1>6, <1>8, <2>1, <2>2, <2>3, <3>1, <3>2 DEF OneBlock
  <2>5. Has(b, H1, B1, S1) = E
    <3>1. ASSUME NEW k \in Owners(b, H1) PROVE ElemsOf(H1[k], B1, S1) = E
      <4>1. k \in Handles \ {h} /\ handle[k].cb = b
        BY <1>5, <1>8 DEF T, Owners
      <4>2. H1[k] = handle[k] /\ handle[k] = handle[h]
        BY <1>2, <1>4, <1>8, <4>1 DEF b, a
      <4>3. ElemsOf(H1[k], B1, S1) = ElemsOf(handle[h], block, storage)
        BY <1>8, <2>1, <2>2, <4>2 DEF ElemsOf, b
      <4> QED BY <4>3 DEF E
    <3> QED BY <2>3, <3>1 DEF Has
  <2>6. alive = (alive \ E) \cup E
    BY <1>4, <1>8
  <2>7. Sound(H1, B1, S1, A1)
    BY <1>0, <1>4, <1>8, <2>1, <2>4, <2>5, <2>6, OneBlockKeeps
  <2>8. /\ h \in Handles /\ handle[h].cb = b /\ b \in Blocks
        /\ a \in Addresses \cup {None}
    BY <1>4, <1>8 DEF b
  <2>9. PICK k \in Handles \ {h} : H1[k].cb = b /\ handle[k].cb = b /\ H1[k] = handle[k]
    BY <1>2, <1>5, <1>8, <2>3 DEF Owners, T
  <2>10. ContentsIn(b, H1, B1, S1) = LeftOf(b, h, handle, block, storage)
    <3>1. Shows(H1[k], B1, S1) = Shows(handle[k], block, storage)
      BY <2>1, <2>2, <2>9 DEF Shows
    <3>2. ContentsIn(b, H1, B1, S1) = Shows(H1[k], B1, S1)
      BY <2>7, <2>8, <2>9, OwnerSees
    <3>3. ContentsIn(b, handle, block, storage) = Shows(handle[k], block, storage)
      BY <1>0, <2>8, <2>9, OwnerSees
    <3> QED BY <2>9, <3>1, <3>2, <3>3 DEF LeftOf
  <2>11. Gives(b, LeftOf(b, h, handle, block, storage), handle, block, storage, H1, B1, S1, A1)
    BY <1>0, <2>4, <2>7, <2>8, <2>10, OneBlockGives
  <2>12. \A d \in Blocks : ContentsIn(d, H1, B1, S1) = LeftOf(d, h, handle, block, storage)
    BY <2>8, <2>11, OthersLeft DEF Gives
  <2> QED BY <2>1, <2>7, <2>12 DEF ReleasedBlock, H1, B1, S1, A1
<1>9. CASE b # None /\ ~(block[b].refs > 1)
  <2>1. /\ B1 = [block EXCEPT ![b] = None]
        /\ S1 = IF a = None THEN storage ELSE [storage EXCEPT ![a] = None]
        /\ A1 = alive \ ToSet(SubSeq(Data(h), 1, block[b].size))
    BY <1>9 DEF Release
  <2>2. A1 = alive \ E
    <3>1. Data(h) = CellsAt(a, storage) /\ Holds(Data(h), block[b].size)
      BY <1>4, <1>9 DEF Data, CellsAt, Held
    <3>2. E = Elems(Data(h), block[b].size)
      BY <1>9, <3>1 DEF ElemsOf
    <3> QED BY <2>1, <3>1, <3>2, ElementsOfSet
  <2>3. Owners(b, H1) = {}
    <3>1. /\ Owners(b, H1) = T \ {h} /\ block[b].refs = Cardinality(T)
          /\ Cardinality(T) \in Nat /\ (Cardinality(T) <= 1 => T = {h})
      BY <1>4, <1>5, <1>9
    <3> HIDE DEF T, b, H1
    <3>2. Cardinality(T) <= 1
      BY <1>9, <3>1
    <3> QED BY <3>1, <3>2
  <2>4. Has(b, H1, B1, S1) = {}
    BY <2>3 DEF Has
  <2>5. B1 \in [Blocks -> BlockType \cup {None}] /\ B1[b] = None
        /\ \A c \in Blocks \ {b} : B1[c] = block[c]
    BY <1>1, <1>4, <1>9, <2>1
  <2>6. S1 \in [Addresses -> Seq(Cells) \cup {None}]
        /\ \A x \in Addresses : S1[x] = IF x = a THEN None ELSE storage[x]
    BY <1>1, <1>4, <1>9, <2>1, NoneIsNothing
  <2> HIDE DEF B1, S1, A1, H1, T, E, a, b
  <2>7. OneBlock(b, None, handle, block, storage, H1, B1, S1)
    <3>1. ASSUME NEW k \in Handles
          PROVE  IF handle[k].cb \in {b, None} THEN H1[k] \in {Empty, [cb |-> b, ptr |-> None]}
                 ELSE H1[k] = handle[k]
      <4>1. CASE k = h
        BY <1>2, <1>9, <4>1 DEF b
      <4>2. CASE k # h
        <5>1. handle[k].cb # b
          BY <1>4, <1>5, <1>9, <4>2 DEF T, Owners
        <5>2. handle[k].cb = None => handle[k] = Empty
          BY <1>0, EmptyHandles
        <5> QED BY <1>2, <4>2, <5>1, <5>2
      <4> QED BY <4>1, <4>2
    <3>2. ASSUME NEW x \in Addresses \ {None}
          PROVE  S1[x] = IF \E k \in Owners(b, handle) : handle[k].ptr = x
                         THEN None ELSE storage[x]
      <4>1. CASE x = a
        <5>1. h \in Owners(b, handle) /\ handle[h].ptr = a
          BY <1>4, <1>9 DEF T, a
        <5> QED BY <2>6, <4>1, <5>1
      <4>2. CASE x # a
        BY <1>7, <1>9, <2>6, <4>2
      <4> QED BY <4>1, <4>2
    <3> QED BY <1>2, <1>9, <2>3, <2>5, <2>6, <3>1, <3>2 DEF OneBlock
  <2>8. Sound(H1, B1, S1, A1)
    <3>1. Has(b, H1, B1, S1) \cap alive \subseteq Has(b, handle, block, storage)
      BY <2>4
    <3>2. A1 = (alive \ Has(b, handle, block, storage)) \cup Has(b, H1, B1, S1)
      BY <1>4, <1>9, <2>2, <2>4
    <3> QED BY <1>0, <1>4, <1>9, <2>7, <3>1, <3>2, OneBlockKeeps
  <2>9. (\A x \in Addresses : storage[x] = None => S1[x] = None) /\ A1 \subseteq alive
    BY <2>2, <2>6
  <2>10. /\ h \in Handles /\ handle[h].cb = b /\ b \in Blocks /\ None \in Addresses \cup {None}
    BY <1>4, <1>9 DEF b
  <2>11. ContentsIn(b, H1, B1, S1) = LeftOf(b, h, handle, block, storage)
    <3>1. \A k \in Handles : H1[k].cb # b
      BY <2>3 DEF Owners
    <3>2. \A k \in Handles \ {h} : handle[k].cb # b
      BY <1>2, <3>1
    <3>3. LeftOf(b, h, handle, block, storage) = <<>>
      BY <3>2 DEF LeftOf
    <3> QED BY <3>1, <3>3, NobodySees
  <2>12. Gives(b, LeftOf(b, h, handle, block, storage), handle, block, storage, H1, B1, S1, A1)
    BY <1>0, <2>7, <2>8, <2>10, <2>11, OneBlockGives
  <2>13. \A d \in Blocks : ContentsIn(d, H1, B1, S1) = LeftOf(d, h, handle, block, storage)
    BY <2>10, <2>12, OthersLeft DEF Gives
  <2> QED BY <2>8, <2>9, <2>13 DEF ReleasedBlock, H1, B1, S1, A1
<1> QED BY <1>3, <1>8, <1>9

-----------------------------------------------------------------------------
(* What is free *)

\* There is an address without storage: each address that has some has an owner
\* that no other address has.
LEMMA AddressIsFree ==
  ASSUME SInv
  PROVE  FreeAddress \in Addresses /\ storage[FreeAddress] = None
<1> DEFINE N == Cardinality(Handles)
           f == [h \in Handles |-> handle[h].ptr]
           R == {f[h] : h \in Handles}
<1>1. N \in Nat /\ IsFiniteSet(Handles)
  BY StorageAssumption, FS_CardinalityType
<1>2. IsFiniteSet(R) /\ Cardinality(R) <= N
  <2>1. f \in Surjection(Handles, R)
    BY DEF Surjection
  <2> HIDE DEF f, R
  <2> QED BY <1>1, <2>1, FS_Surjection
<1>3. IsFiniteSet(Addresses) /\ Cardinality(Addresses) = N + 1
  <2>1. /\ IsFiniteSet(1 .. N + 1)
        /\ Cardinality(1 .. N + 1) = IF 1 > N + 1 THEN 0 ELSE N + 1 - 1 + 1
    BY <1>1, FS_Interval
  <2> QED BY <1>1, <2>1 DEF Addresses
<1>4. ~(Addresses \subseteq R)
  <2>1. Cardinality(R) \in Nat
    BY <1>2, FS_CardinalityType
  <2>2. Addresses \subseteq R => Cardinality(Addresses) <= Cardinality(R)
    BY <1>2, FS_Subset
  <2> HIDE DEF N, R
  <2> QED BY <1>1, <1>2, <1>3, <2>1, <2>2
<1>5. PICK a \in Addresses : a \notin R
  BY <1>4
<1>6. storage[a] = None
  <2>1. Accounted(handle, block, storage, alive)
    BY DEF SInv, Sound
  <2> QED BY <1>5, <2>1 DEF Accounted
<1> QED BY <1>6 DEF FreeAddress

\* There is a control block that none of the others has.
LEMMA BlockIsFree ==
  ASSUME NEW H, NEW B, NEW S, NEW A, Sound(H, B, S, A), NEW h \in Handles, H[h].cb = None
  PROVE  \E b \in Blocks : B[b] = None
<1> DEFINE N == Cardinality(Handles)
           Others == Handles \ {h}
           f == [g \in Others |-> H[g].cb]
           R == {f[g] : g \in Others}
<1>1. /\ N \in Nat /\ IsFiniteSet(Others) /\ Cardinality(Others) = N - 1 /\ N # 0
  <2>1. IsFiniteSet(Handles) /\ h \in Handles
    BY StorageAssumption
  <2> QED BY <2>1, FS_RemoveElement, FS_CardinalityType, FS_EmptySet
<1>2. IsFiniteSet(R) /\ Cardinality(R) <= N - 1
  <2>1. f \in Surjection(Others, R)
    BY DEF Surjection
  <2> HIDE DEF f, R, Others
  <2> QED BY <1>1, <2>1, FS_Surjection
<1>3. IsFiniteSet(Blocks) /\ Cardinality(Blocks) = N
  <2>1. IsFiniteSet(1 .. N) /\ Cardinality(1 .. N) = IF 1 > N THEN 0 ELSE N - 1 + 1
    BY <1>1, FS_Interval
  <2> QED BY <1>1, <2>1 DEF Blocks
<1>4. ~(Blocks \subseteq R)
  <2>1. Cardinality(R) \in Nat
    BY <1>2, FS_CardinalityType
  <2>2. Blocks \subseteq R => Cardinality(Blocks) <= Cardinality(R)
    BY <1>2, FS_Subset
  <2> HIDE DEF N, R
  <2> QED BY <1>1, <1>2, <1>3, <2>1, <2>2
<1>5. PICK b \in Blocks : b \notin R
  BY <1>4
<1>6. Owners(b, H) = {}
  <2>1. \A g \in Others : H[g].cb # b
    BY <1>5
  <2> QED BY <2>1, NoneIsNothing DEF Owners
<1>7. B[b] = None
  BY <1>6 DEF Sound, Accounted
<1> QED BY <1>7

\* There are n objects that are not alive, if so many are left.
LEMMA ObjectsAreFree ==
  ASSUME SInv, NEW n \in Nat, Cardinality(alive) + n <= MaxObjects
  PROVE  FreeObjects(n) \in [1 .. n -> Objects \ alive] /\ IsInjective(FreeObjects(n))
<1> DEFINE left == Objects \ alive
           N == Cardinality(left)
<1>1. alive \in SUBSET Objects /\ MaxObjects \in Nat
  BY StorageAssumption DEF SInv, Sound
<1>2. IsFiniteSet(Objects) /\ Cardinality(Objects) = MaxObjects
  <2>1. IsFiniteSet(1 .. MaxObjects)
        /\ Cardinality(1 .. MaxObjects) = IF 1 > MaxObjects THEN 0 ELSE MaxObjects - 1 + 1
    BY <1>1, FS_Interval
  <2> QED BY <1>1, <2>1 DEF Objects
<1>3. IsFiniteSet(alive) /\ Cardinality(alive) \in Nat
  BY <1>1, <1>2, FS_Subset, FS_CardinalityType
<1>4. IsFiniteSet(left) /\ N = Cardinality(Objects) - Cardinality(Objects \cap alive)
  BY <1>2, FS_Difference
<1>5. Objects \cap alive = alive
  BY <1>1
<1>6. N \in Nat /\ n <= N /\ ExistsBijection(1 .. N, left)
  <2>1. N \in Nat /\ ExistsBijection(1 .. N, left)
    BY <1>4, FS_CardinalityType
  <2>2. N = MaxObjects - Cardinality(alive)
    BY <1>2, <1>4, <1>5
  <2>3. n <= N
    <3> HIDE DEF N
    <3> QED BY <1>1, <1>3, <2>1, <2>2
  <2> QED BY <2>1, <2>3
<1> HIDE DEF N
<1>7. PICK f \in [1 .. N -> left] : IsInjective(f)
  BY <1>6 DEF ExistsBijection, Bijection, Injection
<1> DEFINE s == [k \in 1 .. n |-> f[k]]
<1>8. s \in [1 .. n -> left] /\ IsInjective(s)
  BY <1>6, <1>7 DEF IsInjective
<1> HIDE DEF s
<1> QED BY <1>8 DEF FreeObjects

-----------------------------------------------------------------------------
(* reset() *)

\* h has left its block.
Left(h) == /\ \A k \in Handles : handle'[k].cb = IF k = h THEN None ELSE handle[k].cb
           /\ \A d \in Blocks : ContentsIn(d, handle', block', storage')
                                 = LeftOf(d, h, handle, block, storage)

\* h has left its block and is the only owner of a block with these elements.
Began(h, s) ==
  \E b \in Blocks :
    /\ \A k \in Handles \ {h} : handle[k].cb # b
    /\ \A k \in Handles : handle'[k].cb = IF k = h THEN b ELSE handle[k].cb
    /\ \A d \in Blocks : ContentsIn(d, handle', block', storage')
                          = IF d = b THEN s ELSE LeftOf(d, h, handle, block, storage)

\* reset() with new storage: what was owned is released, then taken.
LEMMA ResetToKeeps ==
  ASSUME SInv, NEW h \in Handles, NEW a \in Addresses, storage[a] = None,
         NEW cells, NEW n, NEW m \in Spaces, NEW born,
         Holds(cells, n), Len(cells) <= MaxCapacity,
         Elems(cells, n) = born, born \cap alive = {},
         ResetTo(h, a, cells, n, m, born)
  PROVE  Sound(handle', block', storage', alive') /\ Began(h, SubSeq(cells, 1, n))
<1> DEFINE r == Release(h)
           b == CHOOSE c \in Blocks : r.block[c] = None
           H == [handle EXCEPT ![h] = Empty]
<1>1. /\ Sound(H, r.block, r.storage, r.alive) /\ r.storage[a] = None /\ r.alive \subseteq alive
      /\ \A d \in Blocks : ContentsIn(d, H, r.block, r.storage) = LeftOf(d, h, handle, block, storage)
  BY ReleaseKeeps DEF ReleasedBlock
<1>2. handle \in [Handles -> HandleType]
  BY DEF SInv, Sound
<1>3. /\ H[h] = Empty /\ H[h].cb = None /\ H \in [Handles -> HandleType]
      /\ \A k \in Handles \ {h} : H[k] = handle[k]
  BY <1>2 DEF Empty, HandleType
<1>4. a # None
  BY NoneIsNothing
<1>5. /\ alive' = r.alive \cup born
      /\ handle' = [handle EXCEPT ![h] = [cb |-> b, ptr |-> a]]
      /\ block' = [r.block EXCEPT ![b] = [refs |-> 1, size |-> n,
                                          capacity |-> Len(cells), mem |-> m]]
      /\ storage' = [r.storage EXCEPT ![a] = cells]
  BY <1>4 DEF ResetTo
<1>6. [handle EXCEPT ![h] = [cb |-> b, ptr |-> a]] = [H EXCEPT ![h] = [cb |-> b, ptr |-> a]]
  BY <1>2
<1> HIDE DEF r, H
<1>7. b \in Blocks /\ r.block[b] = None
  BY <1>1, <1>3, BlockIsFree
<1> HIDE DEF b
<1>8. Elems(cells, n) \cap r.alive = {}
  BY <1>1
<1>9. Takes(h, b, a, cells, n, m, H, r.block, r.storage, r.alive,
            handle', block', storage', alive')
  BY <1>1, <1>3, <1>5, <1>6, <1>7, <1>8 DEF Takes
<1>10. Gives(b, SubSeq(cells, 1, n), H, r.block, r.storage, handle', block', storage', alive')
  BY <1>1, <1>9, TakeKeeps
<1>11. Began(h, SubSeq(cells, 1, n))
  <2>1. ASSUME NEW k \in Handles \ {h} PROVE handle[k].cb # b
    <3>1. \A j \in Handles : H[j].cb # b
      BY <1>1, <1>7, NobodyHas DEF Owners
    <3> QED BY <1>3, <3>1
  <2>2. \A k \in Handles : handle'[k].cb = IF k = h THEN b ELSE handle[k].cb
    BY <1>2, <1>5
  <2>3. \A d \in Blocks : ContentsIn(d, handle', block', storage')
                          = IF d = b THEN SubSeq(cells, 1, n)
                            ELSE LeftOf(d, h, handle, block, storage)
    BY <1>1, <1>10 DEF Gives
  <2> QED BY <1>7, <2>1, <2>2, <2>3 DEF Began
<1> QED BY <1>10, <1>11 DEF Gives

\* reset() to nothing.
LEMMA ResetToNothingKeeps ==
  ASSUME SInv, NEW h \in Handles, NEW cells, NEW n, NEW m, ResetTo(h, None, cells, n, m, {})
  PROVE  Sound(handle', block', storage', alive') /\ Left(h)
<1>1. /\ alive' = Release(h).alive \cup {} /\ handle' = [handle EXCEPT ![h] = Empty]
      /\ block' = Release(h).block /\ storage' = Release(h).storage
  BY DEF ResetTo, Empty
<1>2. /\ Sound([handle EXCEPT ![h] = Empty], Release(h).block, Release(h).storage, Release(h).alive)
      /\ \A d \in Blocks : ContentsIn(d, [handle EXCEPT ![h] = Empty], Release(h).block, Release(h).storage)
                            = LeftOf(d, h, handle, block, storage)
  BY ReleaseKeeps DEF ReleasedBlock
<1>3. alive' = Release(h).alive
  BY <1>1
<1>4. handle \in [Handles -> HandleType]
  BY DEF SInv, Sound
<1>5. \A k \in Handles : handle'[k].cb = IF k = h THEN None ELSE handle[k].cb
  BY <1>1, <1>4 DEF Empty
<1>6. Left(h)
  BY <1>1, <1>2, <1>5 DEF Left
<1> QED BY <1>1, <1>2, <1>3, <1>6

-----------------------------------------------------------------------------
(* Cells *)

\* What a handle that owns anything, or nothing, has.
LEMMA DataOf ==
  ASSUME SInv, NEW h \in Handles
  PROVE  /\ Holds(Data(h), Size(h)) /\ Len(Data(h)) = Capacity(h)
         /\ Capacity(h) \in 0 .. MaxCapacity /\ Size(h) \in 0 .. Capacity(h)
         /\ ElemsOf(handle[h], block, storage) = Elems(Data(h), Size(h))
         /\ Elems(Data(h), Size(h)) \subseteq alive /\ Memory(h) \in Spaces
<1>0. Sound(handle, block, storage, alive)
  BY DEF SInv
<1>1. Held(handle[h], block, storage) /\ Data(h) = CellsAt(handle[h].ptr, storage)
  BY <1>0 DEF Sound, Data, CellsAt
<1>2. CASE handle[h].cb = None
  <2>1. Data(h) = <<>> /\ Size(h) = 0 /\ Capacity(h) = 0 /\ Memory(h) = "host"
    BY <1>1, <1>2 DEF Held, Data, Size, Capacity, Memory
  <2>2. Elems(Data(h), Size(h)) = {} /\ ElemsOf(handle[h], block, storage) = {}
    BY <1>2, <2>1 DEF Elems, ElemsOf
  <2> QED BY <2>1, <2>2, StorageAssumption DEF Holds
<1>3. CASE handle[h].cb # None
  <2>1. /\ block[handle[h].cb] \in BlockType /\ ElemsOf(handle[h], block, storage) \subseteq alive
    <3> DEFINE b == handle[h].cb
    <3>1. b = handle[h].cb /\ b # None
      BY <1>3
    <3> HIDE DEF b
    <3>3. Shares(h, b, handle, block, storage, alive)
      BY <1>0, <3>1, OwnersAlike
    <3>2. /\ block[b] \in BlockType
          /\ Has(b, handle, block, storage) = ElemsOf(handle[h], block, storage)
          /\ Has(b, handle, block, storage) \subseteq alive
      BY <3>3 DEF Shares
    <3> QED BY <3>2 DEF b
  <2>2. /\ Size(h) = block[handle[h].cb].size /\ Capacity(h) = block[handle[h].cb].capacity
        /\ Memory(h) = block[handle[h].cb].mem
    BY <1>3 DEF Size, Capacity, Memory, Cb
  <2>3. /\ Holds(Data(h), Size(h)) /\ Len(Data(h)) = Capacity(h)
        /\ ElemsOf(handle[h], block, storage) = Elems(Data(h), Size(h))
    BY <1>1, <1>3, <2>2 DEF Held, ElemsOf
  <2>4. Capacity(h) \in 0 .. MaxCapacity /\ Memory(h) \in Spaces
    BY <2>1, <2>2 DEF BlockType
  <2>5. Size(h) \in 0 .. Capacity(h)
    BY <2>3 DEF Holds
  <2> QED BY <2>1, <2>3, <2>4, <2>5
<1> QED BY <1>2, <1>3

\* What the cells hold that were raw, or are given up, does not matter.
LEMMA SameHolds ==
  ASSUME NEW s, NEW n, Holds(s, n), NEW t \in Seq(Cells), n <= Len(t),
         \A i \in 1 .. n : t[i] = s[i]
  PROVE  Holds(t, n) /\ Elems(t, n) = Elems(s, n)
<1>1. n \in Nat
  BY DEF Holds
<1> QED BY <1>1 DEF Holds, Elems

\* Nor does it for the sequence of elements.
LEMMA SamePrefix ==
  ASSUME NEW s, NEW n, Holds(s, n), NEW t \in Seq(Cells), n <= Len(t),
         \A i \in 1 .. n : t[i] = s[i]
  PROVE  SubSeq(t, 1, n) = SubSeq(s, 1, n)
<1>1. s \in Seq(Cells) /\ n \in 0 .. Len(s) /\ n \in Nat
  BY DEF Holds
<1>2. SubSeq(s, 1, n) = [i \in 1 .. n |-> s[i]]
  BY <1>1
<1>3. SubSeq(t, 1, n) = [i \in 1 .. n |-> t[i]]
  BY <1>1
<1> QED BY <1>2, <1>3

\* A function on the first l numbers is a sequence of length l.
LEMMA IsSequence ==
  ASSUME NEW T, NEW l \in Nat, NEW t \in [1 .. l -> T]
  PROVE  t \in Seq(T) /\ Len(t) = l
OBVIOUS

\* t has m cells, the first n of which are elements and those of s.
Copied(t, s, n, m) ==
  Holds(t, n) /\ Len(t) = m /\ Elems(t, n) = Elems(s, n) /\ SubSeq(t, 1, n) = SubSeq(s, 1, n)

\* reserve()
LEMMA MovedHolds ==
  ASSUME SInv, NEW h \in Handles, NEW m \in Nat, Capacity(h) <= m
  PROVE  Copied(Moved(h, m), Data(h), Size(h), m)
<1>1. /\ Holds(Data(h), Size(h)) /\ Len(Data(h)) = Capacity(h)
      /\ Capacity(h) \in Nat /\ Size(h) \in 0 .. Capacity(h)
  BY DataOf
<1> DEFINE t == Moved(h, m)
           s == Data(h)
           n == Size(h)
           c == Capacity(h)
<1>2. s \in Seq(Cells)
  BY <1>1 DEF Holds
<1>3. ASSUME NEW i \in 1 .. m PROVE (IF i <= c THEN s[i] ELSE Raw) \in Cells
  BY <1>1, <1>2 DEF Cells
<1>4. t \in Seq(Cells) /\ Len(t) = m
  <2> HIDE DEF s, c
  <2>1. t = [i \in 1 .. m |-> IF i <= c THEN s[i] ELSE Raw]
    BY DEF Moved, s, c
  <2> HIDE DEF t
  <2> QED BY <1>3, <2>1
<1>5. \A i \in 1 .. n : t[i] = s[i]
  BY <1>1 DEF Moved
<1> HIDE DEF t, s, n, c
<1>6. Holds(s, n) /\ n <= Len(t)
  BY <1>1, <1>4 DEF s, n, c
<1>7. Holds(t, n) /\ Elems(t, n) = Elems(s, n)
  BY <1>4, <1>5, <1>6, SameHolds
<1>8. SubSeq(t, 1, n) = SubSeq(s, 1, n)
  BY <1>4, <1>5, <1>6, SamePrefix
<1> QED BY <1>4, <1>7, <1>8 DEF t, s, n, Copied

\* shrink_to_fit()
LEMMA ShrunkHolds ==
  ASSUME NEW s, NEW n, Holds(s, n)
  PROVE  /\ Holds(SubSeq(s, 1, n), n) /\ Len(SubSeq(s, 1, n)) = n
         /\ Elems(SubSeq(s, 1, n), n) = Elems(s, n)
         /\ SubSeq(SubSeq(s, 1, n), 1, n) = SubSeq(s, 1, n)
<1>1. s \in Seq(Cells) /\ n \in 0 .. Len(s)
  BY DEF Holds
<1> DEFINE t == SubSeq(s, 1, n)
<1>2. t \in Seq(Cells) /\ Len(t) = n /\ \A i \in 1 .. n : t[i] = s[i]
  BY <1>1
<1> HIDE DEF t
<1>3. n <= Len(t)
  BY <1>1, <1>2
<1>4. Holds(t, n) /\ Elems(t, n) = Elems(s, n)
  BY <1>2, <1>3, SameHolds
<1>5. SubSeq(t, 1, n) = SubSeq(s, 1, n)
  BY <1>2, <1>3, SamePrefix
<1> QED BY <1>2, <1>4, <1>5 DEF t

\* New storage.
LEMMA RawHolds ==
  ASSUME NEW n \in Nat
  PROVE  /\ Holds(RawCells(n), 0) /\ Len(RawCells(n)) = n /\ Elems(RawCells(n), 0) = {}
<1>1. Raw \in Cells
  BY DEF Cells
<1>2. RawCells(n) \in Seq(Cells) /\ Len(RawCells(n)) = n
  BY <1>1 DEF RawCells
<1> QED BY <1>2 DEF Holds, Elems

\* New storage with elements.
LEMMA BuiltHolds ==
  ASSUME NEW n \in Nat, NEW m \in Nat, NEW new \in [1 .. n -> Objects], IsInjective(new)
  PROVE  /\ Holds(new \o RawCells(m), n) /\ Len(new \o RawCells(m)) = n + m
         /\ Elems(new \o RawCells(m), n) = ToSet(new)
<1>1. Raw \in Cells /\ Objects \subseteq Cells
  BY DEF Cells
<1>2. RawCells(m) \in Seq(Cells) /\ Len(RawCells(m)) = m
  BY <1>1 DEF RawCells
<1>3. new \in Seq(Objects) /\ new \in Seq(Cells) /\ Len(new) = n
  <2>1. new \in [1 .. n -> Cells]
    BY <1>1
  <2> QED BY <2>1, IsSequence
<1> DEFINE t == new \o RawCells(m)
<1>4. t \in Seq(Cells) /\ Len(t) = n + m /\ \A i \in 1 .. n : t[i] = new[i]
  BY <1>2, <1>3
<1> HIDE DEF t
<1>5. \A i, j \in 1 .. n : new[i] = new[j] => i = j
  BY DEF IsInjective
<1>6. Holds(t, n)
  <2>1. n \in 0 .. Len(t) /\ \A i \in 1 .. n : t[i] \in Objects
    BY <1>4
  <2>2. \A i, j \in 1 .. n : t[i] = t[j] => i = j
    BY <1>4, <1>5
  <2> QED BY <1>4, <2>1, <2>2 DEF Holds
<1>7. Elems(t, n) = ToSet(new)
  BY <1>3, <1>4 DEF Elems, ToSet
<1> QED BY <1>4, <1>6, <1>7 DEF t

\* pop_back()
LEMMA PoppedHolds ==
  ASSUME NEW s, NEW n, Holds(s, n), n > 0
  PROVE  /\ Holds(s, n - 1) /\ Elems(s, n - 1) = Elems(s, n) \ {s[n]} /\ s[n] \in Elems(s, n)
<1>1. s \in Seq(Cells) /\ n \in 1 .. Len(s) /\ Len(s) \in Nat
  BY DEF Holds
<1>2. \A i \in 1 .. n - 1 : i \in 1 .. n /\ i # n
  BY <1>1
<1>3. Holds(s, n - 1)
  BY <1>1, <1>2 DEF Holds
<1>4. \A i \in 1 .. n : i = n \/ i \in 1 .. n - 1
  BY <1>1
<1>5. n \in 1 .. n
  BY <1>1
<1>6. \A i \in 1 .. n : s[i] = s[n] => i = n
  BY <1>5 DEF Holds
<1>7. Elems(s, n - 1) = Elems(s, n) \ {s[n]}
  BY <1>2, <1>4, <1>6 DEF Elems
<1> QED BY <1>3, <1>5, <1>7 DEF Elems

\* t has the n elements of s and x, which is the one at p.
Grown(t, s, n, p, x) ==
  /\ Holds(t, n + 1) /\ Len(t) = Len(s) /\ Elems(t, n + 1) = Elems(s, n) \cup {x}
  /\ \A i \in 1 .. n + 1 : t[i] = IF i < p THEN s[i] ELSE IF i = p THEN x ELSE s[i - 1]

\* emplace_back()
LEMMA AppendedHolds ==
  ASSUME NEW s, NEW n, Holds(s, n), n < Len(s), NEW x \in Objects, x \notin Elems(s, n),
         NEW t, t = [s EXCEPT ![n + 1] = x]
  PROVE  Grown(t, s, n, n + 1, x)
<1>1. s \in Seq(Cells) /\ n \in Nat /\ Len(s) \in Nat /\ n + 1 \in 1 .. Len(s)
  BY DEF Holds
<1>2. x \in Cells
  BY DEF Cells
<1>3. t \in Seq(Cells) /\ Len(t) = Len(s) /\ t[n + 1] = x /\ \A i \in 1 .. n : t[i] = s[i]
  BY <1>1, <1>2
<1>4. \A i \in 1 .. n + 1 : i = n + 1 \/ i \in 1 .. n
  BY <1>1
<1>5. \A i \in 1 .. n : i \in 1 .. n + 1 /\ s[i] # x /\ s[i] \in Objects
  BY <1>1 DEF Elems, Holds
<1>6. \A i, j \in 1 .. n : s[i] = s[j] => i = j
  BY DEF Holds
<1>7. n + 1 \in 1 .. n + 1 /\ n + 1 \in 0 .. Len(t)
  BY <1>1, <1>3
<1> HIDE DEF Elems
<1>8. Holds(t, n + 1)
  <2>1. \A i \in 1 .. n + 1 : t[i] \in Objects
    BY <1>3, <1>4, <1>5
  <2>2. \A i, j \in 1 .. n + 1 : t[i] = t[j] => i = j
    BY <1>3, <1>4, <1>5, <1>6
  <2> QED BY <1>3, <1>7, <2>1, <2>2 DEF Holds
<1>9. Elems(t, n + 1) = Elems(s, n) \cup {x}
  BY <1>3, <1>4, <1>5, <1>7 DEF Elems
<1>10. \A i \in 1 .. n + 1 : t[i] = IF i < n + 1 THEN s[i] ELSE IF i = n + 1 THEN x ELSE s[i - 1]
  BY <1>1, <1>3, <1>4
<1> QED BY <1>3, <1>8, <1>9, <1>10 DEF Grown

\* insert()
LEMMA OpenedHolds ==
  ASSUME NEW s, NEW n, Holds(s, n), n < Len(s), NEW p \in 1 .. n,
         NEW x \in Objects, x \notin Elems(s, n),
         NEW t, t = [Opened(s, p, n) EXCEPT ![p] = x]
  PROVE  Grown(t, s, n, p, x)
<1>1. /\ s \in Seq(Cells) /\ n \in Nat /\ p \in Nat /\ p >= 1 /\ p <= n
  BY DEF Holds
<1> DEFINE l == Len(s)
           o == Opened(s, p, n)
<1>2. l \in Nat /\ n < l /\ DOMAIN s = 1 .. l
  BY <1>1
<1>3. o = [i \in 1 .. l |-> IF i > p /\ i <= n + 1 THEN s[i - 1] ELSE s[i]]
  BY <1>2 DEF Opened
<1>4. \A i \in 1 .. l : s[i] \in Cells
  BY <1>1
<1> HIDE DEF l, o
<1>5. o \in [1 .. l -> Cells]
  <2>1. ASSUME NEW i \in 1 .. l
        PROVE  (IF i > p /\ i <= n + 1 THEN s[i - 1] ELSE s[i]) \in Cells
    <3>1. i > p => i - 1 \in 1 .. l
      BY <1>1, <1>2
    <3> QED BY <1>4, <3>1
  <2> QED BY <1>3, <2>1
<1>6. t = [o EXCEPT ![p] = x]
  BY DEF o
<1>7. x \in Cells
  BY DEF Cells
<1>8. t \in [1 .. l -> Cells]
  BY <1>5, <1>6, <1>7
<1>9. t \in Seq(Cells) /\ Len(t) = l
  BY <1>2, <1>8, IsSequence
<1>10. ASSUME NEW i \in 1 .. n + 1
       PROVE  t[i] = IF i < p THEN s[i] ELSE IF i = p THEN x ELSE s[i - 1]
  <2>1. i \in 1 .. l
    BY <1>1, <1>2
  <2>2. o[i] = IF i > p /\ i <= n + 1 THEN s[i - 1] ELSE s[i]
    BY <1>3, <2>1
  <2>3. t[i] = IF i = p THEN x ELSE o[i]
    BY <1>5, <1>6, <2>1
  <2> QED BY <1>1, <2>2, <2>3
<1> DEFINE from(i) == IF i < p THEN i ELSE i - 1
<1>11. ASSUME NEW i \in 1 .. n + 1, i # p
       PROVE  /\ from(i) \in 1 .. n /\ t[i] = s[from(i)]
  BY <1>1, <1>10, <1>11
<1>12. \A i, j \in 1 .. n + 1 : i # p /\ j # p /\ from(i) = from(j) => i = j
  BY <1>1
<1>13. \A i \in 1 .. n : s[i] \in Objects /\ s[i] # x
  BY DEF Holds, Elems
<1>14. \A i, j \in 1 .. n : s[i] = s[j] => i = j
  BY DEF Holds
<1>15. p \in 1 .. n + 1 /\ t[p] = x
  BY <1>1, <1>10
<1>16. ASSUME NEW i \in 1 .. n PROVE \E j \in 1 .. n + 1 : j # p /\ from(j) = i
  <2>1. CASE i < p
    BY <1>1, <2>1
  <2>2. CASE i >= p
    BY <1>1, <2>2
  <2> QED BY <1>1, <2>1, <2>2
<1>17. n + 1 \in 0 .. l
  BY <1>1, <1>2
<1> HIDE DEF from
<1>18. Holds(t, n + 1)
  <2>1. \A i \in 1 .. n + 1 : t[i] \in Objects
    BY <1>11, <1>13, <1>15
  <2>2. \A i, j \in 1 .. n + 1 : t[i] = t[j] => i = j
    BY <1>11, <1>12, <1>13, <1>14, <1>15
  <2> QED BY <1>9, <1>17, <2>1, <2>2 DEF Holds
<1>19. Elems(t, n + 1) = Elems(s, n) \cup {x}
  <2>1. \A i \in 1 .. n : \E j \in 1 .. n + 1 : t[j] = s[i]
    BY <1>11, <1>16
  <2>2. \A i \in 1 .. n + 1 : t[i] = x \/ \E j \in 1 .. n : t[i] = s[j]
    BY <1>11, <1>15
  <2> QED BY <1>15, <2>1, <2>2 DEF Elems
<1> QED BY <1>9, <1>10, <1>18, <1>19 DEF l, Grown

\* erase()
LEMMA ClosedHolds ==
  ASSUME NEW s, NEW n, Holds(s, n), NEW p \in 1 .. n, NEW t, t = Closed(s, p)
  PROVE  /\ Holds(t, n - 1) /\ Len(t) = Len(s) /\ Elems(t, n - 1) = Elems(s, n) \ {s[p]}
         /\ s[p] \in Elems(s, n)
         /\ \A i \in 1 .. n - 1 : t[i] = IF i < p THEN s[i] ELSE s[i + 1]
<1>1. /\ s \in Seq(Cells) /\ n \in Nat /\ p \in Nat /\ p >= 1 /\ p <= n
  BY DEF Holds
<1> DEFINE l == Len(s)
<1>2. l \in Nat /\ n <= l /\ DOMAIN s = 1 .. l
  BY <1>1 DEF Holds
<1>3. t = [i \in 1 .. l |-> IF i >= p /\ i < l THEN s[i + 1] ELSE s[i]]
  BY <1>2 DEF Closed
<1>4. \A i \in 1 .. l : s[i] \in Cells
  BY <1>1
<1> HIDE DEF l
<1>5. t \in [1 .. l -> Cells]
  <2>1. ASSUME NEW i \in 1 .. l
        PROVE  (IF i >= p /\ i < l THEN s[i + 1] ELSE s[i]) \in Cells
    <3>1. i < l => i + 1 \in 1 .. l
      BY <1>2
    <3> QED BY <1>4, <3>1
  <2> QED BY <1>3, <2>1
<1>6. t \in Seq(Cells) /\ Len(t) = l
  BY <1>2, <1>5
<1>7. ASSUME NEW i \in 1 .. n - 1
      PROVE  t[i] = IF i < p THEN s[i] ELSE s[i + 1]
  <2>1. i \in 1 .. l /\ i < l
    BY <1>1, <1>2
  <2> QED BY <1>1, <1>3, <2>1
<1> DEFINE from(i) == IF i < p THEN i ELSE i + 1
<1>8. ASSUME NEW i \in 1 .. n - 1
      PROVE  from(i) \in 1 .. n /\ from(i) # p /\ t[i] = s[from(i)]
  BY <1>1, <1>7
<1>9. \A i, j \in 1 .. n - 1 : from(i) = from(j) => i = j
  BY <1>1
<1>10. \A i \in 1 .. n : s[i] \in Objects
  BY DEF Holds
<1>11. \A i, j \in 1 .. n : s[i] = s[j] => i = j
  BY DEF Holds
<1>12. ASSUME NEW i \in 1 .. n, i # p PROVE \E j \in 1 .. n - 1 : from(j) = i
  <2>1. CASE i < p
    BY <1>1, <2>1
  <2>2. CASE i > p
    <3>1. i - 1 \in 1 .. n - 1 /\ from(i - 1) = i
      BY <1>1, <2>2
    <3> QED BY <3>1
  <2> QED BY <1>1, <1>12, <2>1, <2>2
<1>13. n - 1 \in 0 .. l
  BY <1>1, <1>2
<1> HIDE DEF from
<1>14. Holds(t, n - 1)
  <2>1. \A i \in 1 .. n - 1 : t[i] \in Objects
    BY <1>8, <1>10
  <2>2. \A i, j \in 1 .. n - 1 : t[i] = t[j] => i = j
    BY <1>8, <1>9, <1>11
  <2> QED BY <1>6, <1>13, <2>1, <2>2 DEF Holds
<1>15. Elems(t, n - 1) = Elems(s, n) \ {s[p]}
  <2>1. \A i \in 1 .. n : i # p => \E j \in 1 .. n - 1 : t[j] = s[i]
    BY <1>8, <1>12
  <2>2. \A i \in 1 .. n - 1 : \E j \in 1 .. n : j # p /\ t[i] = s[j]
    BY <1>8
  <2> QED BY <1>11, <2>1, <2>2 DEF Elems
<1>16. s[p] \in Elems(s, n)
  BY DEF Elems
<1> QED BY <1>6, <1>7, <1>14, <1>15, <1>16 DEF l

-----------------------------------------------------------------------------
(* Sequences of elements *)

\* e with x behind the first i elements, and e without element i.
PutIn(e, i, x) == SubSeq(e, 1, i) \o <<x>> \o SubSeq(e, i + 1, Len(e))
TakenOut(e, i) == SubSeq(e, 1, i - 1) \o SubSeq(e, i + 1, Len(e))

\* The first n + 1 cells of t are the first n of s with x behind p - 1 of them; the
\* first n - 1 of t are the first n of s without that at p.
InsertsAt(t, s, n, p, x) ==
  SubSeq(t, 1, n + 1) = PutIn(SubSeq(s, 1, n), p - 1, x) /\ p - 1 \in 0 .. Len(SubSeq(s, 1, n))
RemovesAt(t, s, n, p) ==
  SubSeq(t, 1, n - 1) = TakenOut(SubSeq(s, 1, n), p) /\ p \in 1 .. Len(SubSeq(s, 1, n))

\* What the shifts of insert() and emplace_back() come to.
LEMMA GrownIsPutIn ==
  ASSUME NEW s, NEW n, Holds(s, n), NEW p \in 1 .. n + 1, NEW x \in Objects,
         NEW t, Grown(t, s, n, p, x)
  PROVE  InsertsAt(t, s, n, p, x)
<1> DEFINE e == SubSeq(s, 1, n)
<1>1. /\ s \in Seq(Cells) /\ n \in Nat /\ n <= Len(s) /\ Len(s) \in Nat /\ p \in Nat
      /\ p >= 1 /\ p <= n + 1
  BY DEF Holds
<1>2. t \in Seq(Cells) /\ n + 1 <= Len(t) /\ Len(t) \in Nat
  BY <1>1 DEF Grown, Holds
<1>3. e \in Seq(Cells) /\ Len(e) = n /\ \A i \in 1 .. n : e[i] = s[i]
  BY <1>1
<1> HIDE DEF e
<1>4. \A i \in 1 .. n + 1 : t[i] = IF i < p THEN s[i] ELSE IF i = p THEN x ELSE s[i - 1]
  BY DEF Grown
<1> DEFINE front == SubSeq(e, 1, p - 1)
           back == SubSeq(e, p, n)
           l == SubSeq(t, 1, n + 1)
<1>5. front \in Seq(Cells) /\ Len(front) = p - 1 /\ \A i \in 1 .. p - 1 : front[i] = e[i]
  BY <1>1, <1>3
<1>6. back \in Seq(Cells) /\ Len(back) = n - p + 1 /\ \A i \in 1 .. n - p + 1 : back[i] = e[p + i - 1]
  BY <1>1, <1>3
<1>7. l \in Seq(Cells) /\ Len(l) = n + 1 /\ \A i \in 1 .. n + 1 : l[i] = t[i]
  BY <1>1, <1>2
<1>8. x \in Cells
  BY DEF Cells
<1> HIDE DEF front, back, l
<1> DEFINE one == front \o <<x>>
<1>9. /\ one \in Seq(Cells) /\ Len(one) = p
      /\ \A i \in 1 .. p : one[i] = IF i <= p - 1 THEN front[i] ELSE x
  BY <1>1, <1>5, <1>8
<1> HIDE DEF one
<1> DEFINE all == one \o back
<1>10. /\ all \in Seq(Cells) /\ Len(all) = n + 1
       /\ \A i \in 1 .. n + 1 : all[i] = IF i <= p THEN one[i] ELSE back[i - p]
  <2>1. Len(one) + Len(back) = n + 1
    BY <1>1, <1>6, <1>9
  <2>2. /\ all \in Seq(Cells) /\ Len(all) = Len(one) + Len(back)
        /\ \A i \in 1 .. Len(one) + Len(back) :
             all[i] = IF i <= Len(one) THEN one[i] ELSE back[i - Len(one)]
    BY <1>6, <1>9, ConcatProperties
  <2> HIDE DEF all
  <2> QED BY <1>9, <2>1, <2>2
<1> HIDE DEF all
<1>11. ASSUME NEW i \in 1 .. n + 1 PROVE l[i] = all[i]
  <2>1. CASE i < p
    <3>1. i \in 1 .. p - 1 /\ i \in 1 .. p /\ i \in 1 .. n /\ i <= p - 1 /\ i <= p
      BY <1>1, <2>1
    <3>2. all[i] = front[i]
      BY <1>9, <1>10, <3>1
    <3>3. front[i] = s[i]
      BY <1>3, <1>5, <3>1
    <3> QED BY <1>4, <1>7, <2>1, <3>2, <3>3
  <2>2. CASE i = p
    <3>1. i \in 1 .. p /\ ~(i <= p - 1)
      BY <1>1, <2>2
    <3> QED BY <1>4, <1>7, <1>9, <1>10, <2>2, <3>1
  <2>3. CASE i > p
    <3> DEFINE j == i - p
    <3>1. /\ j \in 1 .. n - p + 1 /\ p + j - 1 = i - 1 /\ i - 1 \in 1 .. n
          /\ ~(i <= p) /\ ~(i < p) /\ i # p
      BY <1>1, <2>3
    <3>2. all[i] = back[j]
      BY <1>10, <3>1
    <3> HIDE DEF j
    <3>3. back[j] = s[i - 1]
      BY <1>3, <1>6, <3>1
    <3> QED BY <1>4, <1>7, <3>1, <3>2, <3>3
  <2> QED BY <1>1, <2>1, <2>2, <2>3
<1>12. l = all
  BY <1>7, <1>10, <1>11, SeqEqual
<1>13. p - 1 + 1 = p /\ p - 1 \in 0 .. n
  BY <1>1
<1>14. PutIn(e, p - 1, x) = all
  BY <1>3, <1>13 DEF PutIn, all, one, front, back
<1> QED BY <1>3, <1>12, <1>13, <1>14 DEF l, e, InsertsAt

\* What the shifts of erase() and pop_back() come to.
LEMMA ShrunkIsTakenOut ==
  ASSUME NEW s, NEW n, Holds(s, n), NEW p \in 1 .. n, NEW t, Holds(t, n - 1),
         \A i \in 1 .. n - 1 : t[i] = IF i < p THEN s[i] ELSE s[i + 1]
  PROVE  RemovesAt(t, s, n, p)
<1> DEFINE e == SubSeq(s, 1, n)
<1>1. /\ s \in Seq(Cells) /\ n \in Nat /\ n <= Len(s) /\ Len(s) \in Nat /\ p \in Nat
      /\ p >= 1 /\ p <= n
  BY DEF Holds
<1>2. t \in Seq(Cells) /\ n - 1 <= Len(t) /\ Len(t) \in Nat /\ n - 1 \in Nat
  BY <1>1 DEF Holds
<1>3. e \in Seq(Cells) /\ Len(e) = n /\ \A i \in 1 .. n : e[i] = s[i]
  BY <1>1
<1> HIDE DEF e
<1> DEFINE front == SubSeq(e, 1, p - 1)
           back == SubSeq(e, p + 1, n)
           l == SubSeq(t, 1, n - 1)
<1>4. front \in Seq(Cells) /\ Len(front) = p - 1 /\ \A i \in 1 .. p - 1 : front[i] = e[i]
  BY <1>1, <1>3
<1>5. back \in Seq(Cells) /\ Len(back) = n - p /\ \A i \in 1 .. n - p : back[i] = e[p + i]
  BY <1>1, <1>3
<1>6. l \in Seq(Cells) /\ Len(l) = n - 1 /\ \A i \in 1 .. n - 1 : l[i] = t[i]
  BY <1>1, <1>2
<1> HIDE DEF front, back, l
<1> DEFINE all == front \o back
<1>7. /\ all \in Seq(Cells) /\ Len(all) = n - 1
      /\ \A i \in 1 .. n - 1 : all[i] = IF i <= p - 1 THEN front[i] ELSE back[i - (p - 1)]
  <2>1. Len(front) + Len(back) = n - 1
    BY <1>1, <1>4, <1>5
  <2>2. /\ all \in Seq(Cells) /\ Len(all) = Len(front) + Len(back)
        /\ \A i \in 1 .. Len(front) + Len(back) :
             all[i] = IF i <= Len(front) THEN front[i] ELSE back[i - Len(front)]
    BY <1>4, <1>5, ConcatProperties
  <2> HIDE DEF all
  <2> QED BY <1>4, <2>1, <2>2
<1> HIDE DEF all
<1>8. ASSUME NEW i \in 1 .. n - 1 PROVE l[i] = all[i]
  <2>1. CASE i < p
    <3>1. i \in 1 .. p - 1 /\ i <= p - 1 /\ i \in 1 .. n
      BY <1>1, <2>1
    <3> QED BY <1>3, <1>4, <1>6, <1>7, <2>1, <3>1
  <2>2. CASE i >= p
    <3> DEFINE j == i - (p - 1)
    <3>1. /\ j \in 1 .. n - p /\ p + j = i + 1 /\ i + 1 \in 1 .. n
          /\ ~(i <= p - 1) /\ ~(i < p)
      BY <1>1, <2>2
    <3>2. all[i] = back[j]
      BY <1>7, <3>1
    <3> HIDE DEF j
    <3>3. back[j] = s[i + 1]
      BY <1>3, <1>5, <3>1
    <3>4. t[i] = s[i + 1]
      BY <3>1
    <3> QED BY <1>6, <3>2, <3>3, <3>4
  <2> QED BY <1>1, <2>1, <2>2
<1>9. l = all
  BY <1>6, <1>7, <1>8, SeqEqual
<1>10. TakenOut(e, p) = all
  BY <1>3 DEF TakenOut, all, front, back
<1>11. p \in 1 .. Len(e)
  BY <1>3
<1> QED BY <1>9, <1>10, <1>11 DEF l, e, RemovesAt

-----------------------------------------------------------------------------
(* Steps of SharedSequences *)

\* What an operation is to the abstract sequences.
SharedStep == [Shared!Next]_(Shared!vars)

\* What the owners of a block see, now and after a step.
LEMMA ContentsAre ==
  ASSUME NEW b \in Blocks
  PROVE  /\ Contents(b) = ContentsIn(b, handle, block, storage)
         /\ Contents(b)' = ContentsIn(b, handle', block', storage')
<1>1. b # None
  BY NoneIsNothing
<1>2. Contents(b) = ContentsIn(b, handle, block, storage)
  <2>1. CASE \E h \in Handles : handle[h].cb = b
    <3>1. handle[CHOOSE h \in Handles : handle[h].cb = b].cb = b
      BY <2>1
    <3> QED BY <1>1, <2>1, <3>1
            DEF Contents, ContentsIn, ElementsOf, Shows, Data, Size, Cb, CellsAt
  <2>2. CASE ~ \E h \in Handles : handle[h].cb = b
    BY <2>2 DEF Contents, ContentsIn
  <2> QED BY <2>1, <2>2
<1>3. Contents(b)' = ContentsIn(b, handle', block', storage')
  <2>1. CASE \E h \in Handles : handle'[h].cb = b
    <3>1. handle'[CHOOSE h \in Handles : handle'[h].cb = b].cb = b
      BY <2>1
    <3> QED BY <1>1, <2>1, <3>1
            DEF Contents, ContentsIn, ElementsOf, Shows, Data, Size, Cb, CellsAt
  <2>2. CASE ~ \E h \in Handles : handle'[h].cb = b
    BY <2>2 DEF Contents, ContentsIn
  <2> QED BY <2>1, <2>2
<1> QED BY <1>2, <1>3

\* An owner's own elements are what the owners see.
LEMMA OwnContents ==
  ASSUME SInv, NEW h \in Handles, handle[h].cb # None
  PROVE  /\ handle[h].cb \in Blocks /\ Contents(handle[h].cb) = ElementsOf(h)
<1>1. Sound(handle, block, storage, alive) /\ handle[h] \in HandleType
  BY DEF SInv, Sound
<1>2. handle[h].cb \in Blocks
  BY <1>1 DEF HandleType
<1>3. ContentsIn(handle[h].cb, handle, block, storage) = Shows(handle[h], block, storage)
  BY <1>1, <1>2, OwnerSees
<1>4. Shows(handle[h], block, storage) = ElementsOf(h)
  BY DEF ElementsOf, Shows, Data, Size, Cb, CellsAt
<1> QED BY <1>2, <1>3, <1>4, ContentsAre

\* Elements of the sequences are alive.
LEMMA UsedIsAlive ==
  ASSUME SInv
  PROVE  Shared!Used \subseteq alive
<1>1. ASSUME NEW b \in Blocks, NEW i \in DOMAIN Contents(b) PROVE Contents(b)[i] \in alive
  <2>1. CASE \E h \in Handles : handle[h].cb = b
    <3>1. PICK h \in Handles : handle[h].cb = b
      BY <2>1
    <3>2. Contents(b) = ElementsOf(h)
      BY <3>1, NoneIsNothing, OwnContents
    <3>3. /\ Holds(Data(h), Size(h)) /\ Elems(Data(h), Size(h)) \subseteq alive
      BY DataOf
    <3>4. ToSet(ElementsOf(h)) = Elems(Data(h), Size(h))
      BY <3>3, ElementsOfSet DEF ElementsOf
    <3>5. Contents(b)[i] \in ToSet(Contents(b))
      BY DEF ToSet
    <3> QED BY <3>2, <3>3, <3>4, <3>5
  <2>2. CASE ~ \E h \in Handles : handle[h].cb = b
    <3>1. Contents(b) = <<>>
      BY <2>2 DEF Contents
    <3> QED BY <3>1
  <2> QED BY <2>1, <2>2
<1> QED BY <1>1 DEF Shared!Used

\* h leaves its sequence.
LEMMA LeaveStep ==
  ASSUME NEW h \in Handles, Left(h)
  PROVE  Shared!Leave(h) /\ SharedStep
<1>1. [k \in Handles |-> handle[k].cb]' = [[k \in Handles |-> handle[k].cb] EXCEPT ![h] = None]
  BY DEF Left
<1>2. [b \in Blocks |-> Contents(b)]' = Shared!Left(h)
  <2>1. \A b \in Blocks : Contents(b)' = LeftOf(b, h, handle, block, storage)
    BY ContentsAre DEF Left
  <2>2. \A b \in Blocks : LeftOf(b, h, handle, block, storage)
          = IF \E g \in Handles \ {h} : [k \in Handles |-> handle[k].cb][g] = b
            THEN [c \in Blocks |-> Contents(c)][b] ELSE <<>>
    BY ContentsAre DEF LeftOf
  <2> QED BY <2>1, <2>2 DEF Shared!Left
<1>3. Shared!Leave(h)
  BY <1>1, <1>2 DEF Shared!Leave
<1> QED BY <1>3 DEF Shared!Next, SharedStep

\* h starts a sequence with elements that were not alive.
LEMMA BeginStep ==
  ASSUME SInv, NEW h \in Handles, NEW cells, NEW n \in 0 .. 2, Holds(cells, n),
         Elems(cells, n) \cap alive = {}, Began(h, SubSeq(cells, 1, n))
  PROVE  Shared!Begin(h, n) /\ SharedStep
<1> DEFINE s == SubSeq(cells, 1, n)
           points == [k \in Handles |-> handle[k].cb]
           contents == [b \in Blocks |-> Contents(b)]
<1>1. /\ \A i \in DOMAIN s : s[i] \in Objects \ alive
      /\ \A i, j \in DOMAIN s : s[i] = s[j] => i = j
      /\ Len(s) = n
  <2>1. cells \in Seq(Cells) /\ n \in 0 .. Len(cells)
    BY DEF Holds
  <2>2. DOMAIN s = 1 .. n /\ Len(s) = n /\ \A i \in 1 .. n : s[i] = cells[i]
    BY <2>1
  <2> HIDE DEF s
  <2> QED BY <2>2 DEF Holds, Elems
<1> HIDE DEF s
<1>2. PICK b \in Blocks :
        /\ \A k \in Handles \ {h} : handle[k].cb # b
        /\ \A k \in Handles : handle'[k].cb = IF k = h THEN b ELSE handle[k].cb
        /\ \A d \in Blocks : ContentsIn(d, handle', block', storage')
                              = IF d = b THEN s ELSE LeftOf(d, h, handle, block, storage)
  BY DEF Began, s
<1>3. b # None /\ \A g \in Handles \ {h} : points[g] # b
  BY <1>2, NoneIsNothing
<1>4. b \in Shared!Unnamed \cup {points[h]}
  <2>1. CASE points[h] = b
    BY <2>1
  <2>2. CASE points[h] # b
    BY <1>3, <2>2 DEF Shared!Unnamed
  <2> QED BY <2>1, <2>2
<1>5. points' = [points EXCEPT ![h] = b]
  BY <1>2
<1>6. contents'[b] = s
  BY <1>2, ContentsAre
<1>7. contents' = [Shared!Left(h) EXCEPT ![b] = s]
  <2>1. \A d \in Blocks : Contents(d)' = IF d = b THEN s ELSE LeftOf(d, h, handle, block, storage)
    BY <1>2, ContentsAre
  <2>2. \A d \in Blocks : LeftOf(d, h, handle, block, storage)
          = IF \E g \in Handles \ {h} : points[g] = d THEN contents[d] ELSE <<>>
    BY ContentsAre DEF LeftOf
  <2>3. \A d \in Blocks : Shared!Left(h)[d] = LeftOf(d, h, handle, block, storage)
    BY <2>2 DEF Shared!Left
  <2>4. /\ DOMAIN Shared!Left(h) = Blocks
        /\ Shared!Left(h) = [d \in Blocks |-> Shared!Left(h)[d]]
    BY DEF Shared!Left
  <2> QED BY <2>1, <2>3, <2>4
<1>8. \A i \in DOMAIN s : s[i] \in Objects \ Shared!Used
  BY <1>1, UsedIsAlive
<1>9. Shared!Begin(h, n)
  <2>1. contents' = [Shared!Left(h) EXCEPT ![b] = contents'[b]]
    BY <1>6, <1>7
  <2>2. /\ Len(contents'[b]) = n
        /\ \A i \in DOMAIN contents'[b] : contents'[b][i] \in Objects \ Shared!Used
        /\ \A i, j \in DOMAIN contents'[b] : contents'[b][i] = contents'[b][j] => i = j
    BY <1>1, <1>6, <1>8
  <2> QED BY Zenon, <1>3, <1>4, <1>5, <2>1, <2>2 DEF Shared!Begin
<1> QED BY <1>9 DEF Shared!Next, SharedStep

\* The owners of the block of h see s from here on.
Changed(h, s) ==
  /\ handle[h].cb # None /\ \A k \in Handles : handle'[k].cb = handle[k].cb
  /\ \A d \in Blocks : ContentsIn(d, handle', block', storage')
                        = IF d = handle[h].cb THEN s ELSE ContentsIn(d, handle, block, storage)

\* What this is to the abstract sequences.
LEMMA ChangeOfContents ==
  ASSUME SInv, NEW h \in Handles, NEW s, Changed(h, s)
  PROVE  /\ [k \in Handles |-> handle[k].cb]' = [k \in Handles |-> handle[k].cb]
         /\ [b \in Blocks |-> Contents(b)]'
              = [[b \in Blocks |-> Contents(b)] EXCEPT ![[k \in Handles |-> handle[k].cb][h]] = s]
         /\ [k \in Handles |-> handle[k].cb][h] # None
         /\ Shared!Its(h) = ElementsOf(h)
<1>1. /\ handle[h].cb # None /\ handle[h].cb \in Blocks
      /\ Contents(handle[h].cb) = ElementsOf(h)
  BY OwnContents DEF Changed
<1>2. \A d \in Blocks : Contents(d)' = IF d = handle[h].cb THEN s ELSE Contents(d)
  BY ContentsAre DEF Changed
<1>3. [k \in Handles |-> handle[k].cb]' = [k \in Handles |-> handle[k].cb]
  BY DEF Changed
<1>4. [k \in Handles |-> handle[k].cb][h] = handle[h].cb
  OBVIOUS
<1>5. [b \in Blocks |-> Contents(b)]' = [[b \in Blocks |-> Contents(b)] EXCEPT ![handle[h].cb] = s]
  BY <1>1, <1>2
<1>6. Shared!Its(h) = ElementsOf(h)
  BY <1>1 DEF Shared!Its
<1> QED BY <1>1, <1>3, <1>4, <1>5, <1>6

\* Storage moves: no step.
LEMMA KeepStep ==
  ASSUME SInv, NEW h \in Handles, Changed(h, ElementsOf(h))
  PROVE  UNCHANGED Shared!vars /\ SharedStep
<1>1. /\ handle[h].cb \in Blocks /\ Contents(handle[h].cb) = ElementsOf(h)
  BY OwnContents DEF Changed
<1>2. \A d \in Blocks : Contents(d)' = Contents(d)
  BY <1>1, ContentsAre DEF Changed
<1>3. [b \in Blocks |-> Contents(b)]' = [b \in Blocks |-> Contents(b)]
  BY <1>2
<1>4. [k \in Handles |-> handle[k].cb]' = [k \in Handles |-> handle[k].cb]
  BY DEF Changed
<1> QED BY <1>3, <1>4 DEF SharedStep, Shared!vars

\* An object is put in.
LEMMA InsertStep ==
  ASSUME SInv, NEW h \in Handles, NEW i \in 0 .. Len(ElementsOf(h)), NEW x \in Objects \ alive,
         Changed(h, PutIn(ElementsOf(h), i, x))
  PROVE  Shared!InsertAt(h, i, x) /\ SharedStep
<1> DEFINE points == [k \in Handles |-> handle[k].cb]
           contents == [b \in Blocks |-> Contents(b)]
<1>1. /\ points' = points
      /\ contents' = [contents EXCEPT ![points[h]] = PutIn(ElementsOf(h), i, x)]
      /\ points[h] # None /\ Shared!Its(h) = ElementsOf(h)
  BY ChangeOfContents
<1>2. x \in Objects \ Shared!Used
  BY UsedIsAlive
<1>3. Shared!InsertAt(h, i, x)
  BY <1>1, <1>2 DEF Shared!InsertAt, Shared!Change, PutIn
<1> QED BY <1>1, <1>3 DEF Shared!Next, SharedStep

\* An element is taken out.
LEMMA RemoveStep ==
  ASSUME SInv, NEW h \in Handles, NEW i \in 1 .. Len(ElementsOf(h)),
         Changed(h, TakenOut(ElementsOf(h), i))
  PROVE  Shared!RemoveAt(h, i) /\ SharedStep
<1> DEFINE points == [k \in Handles |-> handle[k].cb]
           contents == [b \in Blocks |-> Contents(b)]
<1>1. /\ points' = points
      /\ contents' = [contents EXCEPT ![points[h]] = TakenOut(ElementsOf(h), i)]
      /\ points[h] # None /\ Shared!Its(h) = ElementsOf(h)
  BY ChangeOfContents
<1>2. i \in DOMAIN Shared!Its(h)
  <2>1. ElementsOf(h) \in Seq(Cells)
    <3>1. Data(h) \in Seq(Cells) /\ Size(h) \in 0 .. Len(Data(h))
      BY DataOf DEF Holds
    <3> QED BY <3>1 DEF ElementsOf
  <2> QED BY <1>1, <2>1
<1>3. Shared!RemoveAt(h, i)
  BY <1>1, <1>2 DEF Shared!RemoveAt, Shared!Change, TakenOut
<1> QED BY <1>1, <1>2, <1>3 DEF Shared!Next, SharedStep

-----------------------------------------------------------------------------
(* The operations *)

\* What is seen of the new cells that Store gives h, of which s are elements.
Stored(h, s) == IF Capacity(h) = 0 THEN Began(h, s) ELSE Changed(h, s)

\* Store: new cells for the owners of a block, whichever way they get them.
LEMMA StoreKeeps ==
  ASSUME SInv, Careful, NEW h \in Handles, NEW cells, NEW n, NEW born, NEW died,
         Holds(cells, n), Len(cells) <= MaxCapacity,
         Elems(cells, n) = (Elems(Data(h), Size(h)) \ died) \cup born,
         died \subseteq Elems(Data(h), Size(h)), born \cap alive = {},
         Len(cells) # Capacity(h) => MayReallocate(h),
         Store(h, cells, n, born, died)
  PROVE  /\ Sound(handle', block', storage', alive')
         /\ Stored(h, SubSeq(cells, 1, n))
<1> DEFINE b == handle[h].cb
           a == handle[h].ptr
           E == ElemsOf(handle[h], block, storage)
<1>1. /\ handle \in [Handles -> HandleType] /\ block \in [Blocks -> BlockType \cup {None}]
      /\ storage \in [Addresses -> Seq(Cells) \cup {None}]
      /\ Sound(handle, block, storage, alive)
  BY DEF SInv, Sound
<1>2. /\ Len(Data(h)) = Capacity(h) /\ Holds(Data(h), Size(h))
      /\ Capacity(h) \in 0 .. MaxCapacity /\ Size(h) \in 0 .. Capacity(h)
      /\ E = Elems(Data(h), Size(h)) /\ E \subseteq alive /\ Memory(h) \in Spaces
  BY DataOf
<1>3. cells \in Seq(Cells) /\ cells # None /\ Len(cells) \in Nat
  BY NoneIsNothing DEF Holds
<1>4. CASE Capacity(h) = 0
  <2>1. ResetTo(h, FreeAddress, cells, n, Memory(h), born)
    BY <1>4 DEF Store
  <2>2. Size(h) = 0
    BY <1>2, <1>4
  <2>3. Elems(Data(h), Size(h)) = {}
    BY <2>2 DEF Elems
  <2>4. Elems(cells, n) = born
    BY <2>3
  <2>5. Sound(handle', block', storage', alive') /\ Began(h, SubSeq(cells, 1, n))
    BY <1>2, <2>1, <2>4, AddressIsFree, ResetToKeeps
  <2> QED BY <1>4, <2>5 DEF Stored
<1>5. ASSUME Capacity(h) # 0 PROVE b # None /\ a # None
  <2>1. b # None
    BY <1>5 DEF Capacity
  <2>2. a = None => Len(Data(h)) = 0
    BY DEF Data
  <2> QED BY <1>2, <1>5, <2>1, <2>2
<1>6. ASSUME Capacity(h) # 0
      PROVE  /\ b \in Blocks /\ block[b] \in BlockType /\ block[b].refs = Cardinality(Owners(b, handle))
             /\ h \in Owners(b, handle) /\ Owners(b, handle) \in SUBSET Handles
             /\ handle[h] = [cb |-> b, ptr |-> a] /\ a \in Addresses
             /\ block[b].capacity = Capacity(h)
  <2> DEFINE c == b
  <2>1. c = handle[h].cb /\ c # None
    BY <1>5, <1>6
  <2> HIDE DEF c
  <2>5. Shares(h, c, handle, block, storage, alive)
    BY <1>1, <2>1, OwnersAlike
  <2>2. /\ c \in Blocks /\ block[c] \in BlockType /\ block[c].refs = Cardinality(Owners(c, handle))
        /\ handle[h] \in HandleType /\ h \in Owners(c, handle) /\ Owners(c, handle) \in SUBSET Handles
        /\ \A k \in Handles : handle[k].cb = c => handle[k] = [cb |-> c, ptr |-> handle[h].ptr]
    BY <2>5 DEF Shares
  <2>3. handle[h].ptr \in Addresses
    BY <1>5, <1>6, <2>2 DEF HandleType
  <2>4. Capacity(h) = block[handle[h].cb].capacity
    BY <2>1 DEF Capacity, Cb
  <2> QED BY <2>1, <2>2, <2>3, <2>4
<1> DEFINE gives == Gives(b, SubSeq(cells, 1, n), handle, block, storage,
                          handle', block', storage', alive')
<1>11. ASSUME Capacity(h) # 0, gives, \A k \in Handles : handle'[k].cb = handle[k].cb
       PROVE  Sound(handle', block', storage', alive') /\ Stored(h, SubSeq(cells, 1, n))
  <2>1. Changed(h, SubSeq(cells, 1, n))
    BY <1>5, <1>11 DEF Gives, Changed
  <2> QED BY <1>11, <2>1 DEF Gives, Stored
<1> HIDE DEF gives
<1>7. (alive \ died) \cup born = (alive \ E) \cup Elems(cells, n)
  BY <1>2
<1>8. Elems(cells, n) \cap alive \subseteq E
  BY <1>2
<1>9. CASE Capacity(h) # 0 /\ Len(cells) # Capacity(h)
  <2> DEFINE a1 == NewAddress(Len(cells))
  <2>1. AtNewStorage(h, cells, n) /\ alive' = (alive \ died) \cup born
    BY <1>9 DEF Store
  <2>2. /\ handle' = [handle EXCEPT ![h].ptr = a1]
        /\ storage' = IF a1 = None THEN [storage EXCEPT ![a] = None]
                      ELSE [[storage EXCEPT ![a] = None] EXCEPT ![a1] = cells]
        /\ block' = [block EXCEPT ![b].size = n, ![b].capacity = Len(cells)]
    BY <2>1 DEF AtNewStorage
  <2>3. /\ a1 \in Addresses \cup {None} /\ (a1 # None => storage[a1] = None)
        /\ a1 = None => cells = <<>>
    <3>1. FreeAddress \in Addresses /\ storage[FreeAddress] = None
      BY AddressIsFree
    <3>2. Len(cells) = 0 => cells = <<>>
      BY <1>3, EmptySeq
    <3>3. FreeAddress # None
      BY <3>1, NoneIsNothing
    <3> QED BY <3>1, <3>2, <3>3 DEF NewAddress
  <2> HIDE DEF a1
  <2>4. storage[a] # None
    <3>1. Held(handle[h], block, storage)
      BY <1>1 DEF Sound
    <3> QED BY <1>5, <1>9, <3>1 DEF Held
  <2>5. a1 # a
    BY <1>5, <1>9, <2>3, <2>4
  <2>6. Owners(b, handle) = {h}
    <3>1. block[b].refs = 1
      BY <1>5, <1>9 DEF MayReallocate, Cb
    <3>2. /\ Cardinality(Owners(b, handle)) <= 1
      BY <1>6, <1>9, <3>1
    <3> HIDE DEF b
    <3> QED BY <1>6, <1>9, <3>2, OwnersCount
  <2>7. storage' \in [Addresses -> Seq(Cells) \cup {None}]
        /\ \A x \in Addresses : storage'[x] = IF x = a1 THEN cells ELSE IF x = a THEN None
                                              ELSE storage[x]
    <3>1. CASE a1 = None
      BY <1>1, <1>6, <1>9, <2>2, <3>1, NoneIsNothing
    <3>2. CASE a1 # None
      <4>1. storage' = [[storage EXCEPT ![a] = None] EXCEPT ![a1] = cells]
        BY <2>2, <3>2
      <4>2. a1 \in Addresses
        BY <2>3, <3>2
      <4> QED BY <1>1, <1>3, <1>6, <1>9, <2>5, <4>1, <4>2
    <3> QED BY <3>1, <3>2
  <2>8. b = handle[h].cb /\ b # None /\ a = handle[h].ptr /\ a # None
    BY <1>5, <1>9
  <2>9. Elems(cells, n) \cap alive \subseteq ElemsOf(handle[h], block, storage)
    BY <1>8
  <2>10. alive' = (alive \ ElemsOf(handle[h], block, storage)) \cup Elems(cells, n)
    BY <1>7, <2>1
  <2> HIDE DEF b, a, E
  <2>11. Changes(h, b, a, a1, cells, n, handle, block, storage, alive,
                 handle', block', storage', alive')
    BY <2>2, <2>3, <2>6, <2>7, <2>8, <2>9, <2>10 DEF Changes
  <2>12. gives
    BY <1>1, <2>11, ChangeKeeps DEF gives
  <2>13. \A k \in Handles : handle'[k].cb = handle[k].cb
    BY <1>1, <2>2 DEF HandleType
  <2> QED BY <1>9, <1>11, <2>12, <2>13
<1>10. CASE Capacity(h) # 0 /\ Len(cells) = Capacity(h)
  <2>1. /\ storage' = [storage EXCEPT ![a] = cells]
        /\ block' = [block EXCEPT ![b].size = n]
        /\ alive' = (alive \ died) \cup born
        /\ handle' = handle
    BY <1>10 DEF Store
  <2>2. handle' = [handle EXCEPT ![h].ptr = a]
    BY <1>1, <1>6, <1>10, <2>1
  <2>3. block' = [block EXCEPT ![b].size = n, ![b].capacity = Len(cells)]
    <3>1. [block[b] EXCEPT !.size = n, !.capacity = Len(cells)] = [block[b] EXCEPT !.size = n]
      BY <1>6, <1>10 DEF BlockType
    <3> QED BY <2>1, <3>1
  <2>4. storage' \in [Addresses -> Seq(Cells) \cup {None}]
        /\ \A x \in Addresses : storage'[x] = IF x = a THEN cells ELSE IF x = a THEN None
                                              ELSE storage[x]
    BY <1>1, <1>3, <1>6, <1>10, <2>1
  <2>5. b = handle[h].cb /\ b # None /\ a = handle[h].ptr /\ a # None /\ a \in Addresses \cup {None}
    BY <1>5, <1>6, <1>10
  <2>6. Elems(cells, n) \cap alive \subseteq ElemsOf(handle[h], block, storage)
    BY <1>8
  <2>7. alive' = (alive \ ElemsOf(handle[h], block, storage)) \cup Elems(cells, n)
    BY <1>7, <2>1
  <2> HIDE DEF b, a, E
  <2>8. Changes(h, b, a, a, cells, n, handle, block, storage, alive,
                handle', block', storage', alive')
    BY <2>2, <2>3, <2>4, <2>5, <2>6, <2>7 DEF Changes
  <2>9. gives
    BY <1>1, <2>8, ChangeKeeps DEF gives
  <2> QED BY <1>10, <1>11, <2>1, <2>9
<1> QED BY <1>4, <1>9, <1>10

\* The elements stay: reserve() and shrink_to_fit().
LEMMA StoredSame ==
  ASSUME SInv, NEW h \in Handles, NEW cells, Holds(cells, Size(h)),
         SubSeq(cells, 1, Size(h)) = ElementsOf(h), Stored(h, SubSeq(cells, 1, Size(h)))
  PROVE  Unseen(h) /\ SharedStep
<1>1. CASE Capacity(h) = 0
  <2>1. Size(h) = 0
    BY <1>1, DataOf
  <2>2. Elems(cells, Size(h)) \cap alive = {}
    BY <2>1 DEF Elems
  <2>3. Began(h, SubSeq(cells, 1, Size(h)))
    BY <1>1 DEF Stored
  <2>4. Shared!Begin(h, 0) /\ SharedStep
    BY <2>1, <2>2, <2>3, BeginStep
  <2> QED BY <1>1, <2>4 DEF Unseen
<1>2. CASE Capacity(h) # 0
  BY <1>2, KeepStep DEF Stored, Unseen
<1> QED BY <1>1, <1>2

\* One more element: emplace_back() and insert().
LEMMA StoredGrown ==
  ASSUME SInv, NEW h \in Handles, NEW p \in 1 .. Size(h) + 1, NEW x \in Objects \ alive,
         Holds(Roomy(h), Size(h)), SubSeq(Roomy(h), 1, Size(h)) = ElementsOf(h),
         NEW cells, Grown(cells, Roomy(h), Size(h), p, x),
         Stored(h, SubSeq(cells, 1, Size(h) + 1))
  PROVE  /\ Capacity(h) = 0 => Shared!Begin(h, 1)
         /\ Capacity(h) # 0 => Shared!InsertAt(h, p - 1, x)
         /\ SharedStep
<1>1. CASE Capacity(h) = 0
  <2>1. Size(h) = 0
    BY <1>1, DataOf
  <2>2. Elems(cells, Size(h) + 1) = Elems(Roomy(h), Size(h)) \cup {x} /\ Holds(cells, Size(h) + 1)
    BY DEF Grown
  <2>3. Elems(Roomy(h), Size(h)) = {}
    BY <2>1 DEF Elems
  <2>4. Elems(cells, Size(h) + 1) \cap alive = {}
    BY <2>2, <2>3
  <2>5. Began(h, SubSeq(cells, 1, Size(h) + 1))
    BY <1>1 DEF Stored
  <2> QED BY <1>1, <2>1, <2>2, <2>4, <2>5, BeginStep
<1>2. CASE Capacity(h) # 0
  <2>1. Changed(h, SubSeq(cells, 1, Size(h) + 1))
    BY <1>2 DEF Stored
  <2> DEFINE e == ElementsOf(h)
             n == Size(h)
             r == Roomy(h)
  <2>2. /\ e = SubSeq(r, 1, n) /\ x \in Objects /\ p \in 1 .. n + 1
        /\ Holds(r, n) /\ Grown(cells, r, n, p, x)
    OBVIOUS
  <2> HIDE DEF e, n, r
  <2>4. InsertsAt(cells, r, n, p, x)
    BY <2>2, GrownIsPutIn
  <2>3. SubSeq(cells, 1, n + 1) = PutIn(e, p - 1, x) /\ p - 1 \in 0 .. Len(e)
    BY <2>2, <2>4 DEF InsertsAt
  <2> QED BY <1>2, <2>1, <2>3, InsertStep DEF e, n
<1> QED BY <1>1, <1>2

\* One element less: erase() and pop_back().
LEMMA StoredShrunk ==
  ASSUME SInv, NEW h \in Handles, NEW p \in 1 .. Size(h), NEW cells, Holds(cells, Size(h) - 1),
         \A i \in 1 .. Size(h) - 1 :
           cells[i] = IF i < p THEN Data(h)[i] ELSE Data(h)[i + 1],
         Stored(h, SubSeq(cells, 1, Size(h) - 1))
  PROVE  Shared!RemoveAt(h, p) /\ SharedStep
<1>1. Capacity(h) # 0 /\ Holds(Data(h), Size(h))
  <2>1. Capacity(h) \in 0 .. MaxCapacity /\ Size(h) \in 0 .. Capacity(h) /\ MaxCapacity \in Nat
        /\ Holds(Data(h), Size(h))
    BY DataOf, StorageAssumption
  <2> QED BY <2>1
<1>2. Changed(h, SubSeq(cells, 1, Size(h) - 1))
  BY <1>1 DEF Stored
<1> DEFINE e == ElementsOf(h)
           n == Size(h)
           s == Data(h)
<1>3. /\ e = SubSeq(s, 1, n) /\ Holds(s, n) /\ p \in 1 .. n /\ Holds(cells, n - 1)
      /\ \A i \in 1 .. n - 1 : cells[i] = IF i < p THEN s[i] ELSE s[i + 1]
  BY <1>1 DEF ElementsOf
<1> HIDE DEF e, n, s
<1>5. RemovesAt(cells, s, n, p)
  BY <1>3, ShrunkIsTakenOut
<1>4. SubSeq(cells, 1, n - 1) = TakenOut(e, p) /\ p \in 1 .. Len(e)
  BY <1>3, <1>5 DEF RemovesAt
<1> QED BY <1>2, <1>4, RemoveStep DEF e, n

\* build_unified()
LEMMA BuildKeeps ==
  ASSUME SInv, NEW h \in Handles, NEW n \in 0 .. 2, NEW c \in 1 .. MaxCapacity, NEW m \in Spaces,
         Build(h, n, c, m)
  PROVE  SInv' /\ Shared!Begin(h, n) /\ SharedStep
<1> DEFINE new == FreeObjects(n)
           cells == new \o RawCells(c - n)
<1>1. /\ n \in Nat /\ c \in Nat /\ n <= c /\ c - n \in Nat /\ c <= MaxCapacity
      /\ Cardinality(alive) + n <= MaxObjects
      /\ ResetTo(h, FreeAddress, cells, n, m, ToSet(new)) /\ misread' = misread
  <2>1. MaxCapacity \in Nat
    BY StorageAssumption
  <2>2. n <= c
    BY DEF Build
  <2>3. n \in Nat /\ c \in Nat /\ c - n \in Nat /\ c <= MaxCapacity
    BY <2>1, <2>2
  <2> QED BY <2>2, <2>3 DEF Build
<1>2. new \in [1 .. n -> Objects \ alive] /\ IsInjective(new)
  BY <1>1, ObjectsAreFree
<1>3. new \in [1 .. n -> Objects]
  BY <1>2
<1> HIDE DEF new
<1>4. Holds(cells, n) /\ Len(cells) = n + (c - n) /\ Elems(cells, n) = ToSet(new)
  BY <1>1, <1>2, <1>3, BuiltHolds
<1>5. ToSet(new) \cap alive = {}
  BY <1>2 DEF ToSet
<1> HIDE DEF cells
<1>6. Len(cells) <= MaxCapacity
  BY <1>1, <1>4, StorageAssumption
<1>7. Sound(handle', block', storage', alive') /\ Began(h, SubSeq(cells, 1, n))
  BY <1>1, <1>4, <1>5, <1>6, AddressIsFree, ResetToKeeps
<1>8. Shared!Begin(h, n) /\ SharedStep
  BY <1>4, <1>5, <1>7, BeginStep
<1> QED BY <1>1, <1>7, <1>8 DEF SInv

\* Copying a pointer.
LEMMA CopyKeeps ==
  ASSUME SInv, NEW h \in Handles, NEW g \in Handles, Copy(h, g)
  PROVE  SInv' /\ Shared!Share(h, g) /\ SharedStep
<1> DEFINE b == handle[g].cb
<1>1. /\ handle[h].cb = None /\ b = handle[g].cb /\ b # None
      /\ handle' = [handle EXCEPT ![h] = handle[g]]
      /\ block' = [block EXCEPT ![b].refs = @ + 1]
      /\ storage' = storage /\ alive' = alive /\ misread' = misread
  BY DEF Copy, Owned
<1>2. Sound(handle, block, storage, alive) /\ handle[h] = Empty
  BY <1>1, EmptyHandles DEF SInv
<1> HIDE DEF b
<1>3. Gives(b, ContentsIn(b, handle, block, storage), handle, block, storage,
            handle', block', storage, alive)
  <2>1. Joined(h, g, b, handle, block, storage, alive, handle', block')
    BY <1>1, <1>2, JoinKeeps
  <2> QED BY <1>2, <2>1, JoinGives
<1>4. Shared!Share(h, g) /\ SharedStep
  <2>1. [k \in Handles |-> handle[k].cb]'
          = [[k \in Handles |-> handle[k].cb] EXCEPT ![h] = [k \in Handles |-> handle[k].cb][g]]
    <3>1. handle \in [Handles -> HandleType]
      BY <1>2 DEF Sound
    <3> QED BY <1>1, <3>1
  <2>2. [d \in Blocks |-> Contents(d)]' = [d \in Blocks |-> Contents(d)]
    <3>1. \A d \in Blocks : ContentsIn(d, handle', block', storage')
                            = ContentsIn(d, handle, block, storage)
      BY <1>1, <1>3 DEF Gives
    <3>2. \A d \in Blocks : Contents(d)' = Contents(d)
      BY <3>1, ContentsAre
    <3> QED BY <3>2
  <2>3. Shared!Share(h, g)
    BY <1>1, <2>1, <2>2 DEF Shared!Share
  <2> QED BY <2>3 DEF Shared!Next, SharedStep
<1> QED BY <1>1, <1>3, <1>4 DEF SInv, Gives

\* reset()
LEMMA ResetKeeps ==
  ASSUME SInv, NEW h \in Handles, Reset(h)
  PROVE  SInv' /\ Shared!Leave(h) /\ SharedStep
<1>1. ResetTo(h, None, <<>>, 0, "host", {}) /\ misread' = misread
  BY DEF Reset
<1>2. Sound(handle', block', storage', alive') /\ Left(h)
  BY <1>1, ResetToNothingKeeps
<1>3. Shared!Leave(h) /\ SharedStep
  BY <1>2, LeaveStep
<1> QED BY <1>1, <1>2, <1>3 DEF SInv

\* reserve()
LEMMA ReserveKeeps ==
  ASSUME SInv, Careful, NEW h \in Handles, NEW n \in 1 .. MaxCapacity, Reserve(h, n)
  PROVE  SInv' /\ Unseen(h) /\ SharedStep
<1>1. /\ ~(n <= Capacity(h)) /\ MayReallocate(h) /\ Store(h, Moved(h, n), Size(h), {}, {})
      /\ misread' = misread
  BY DEF Reserve, Enough
<1>2. n \in Nat /\ n <= MaxCapacity /\ Capacity(h) \in Nat
  BY DataOf, StorageAssumption
<1>3. /\ Holds(Moved(h, n), Size(h)) /\ Len(Moved(h, n)) = n
      /\ Elems(Moved(h, n), Size(h)) = Elems(Data(h), Size(h))
      /\ SubSeq(Moved(h, n), 1, Size(h)) = ElementsOf(h)
  <2>1. Capacity(h) <= n
    BY <1>1, <1>2
  <2>2. Copied(Moved(h, n), Data(h), Size(h), n)
    BY <1>2, <2>1, MovedHolds
  <2> QED BY <2>2 DEF Copied, ElementsOf
<1>4. Elems(Moved(h, n), Size(h)) = (Elems(Data(h), Size(h)) \ {}) \cup {}
  BY <1>3
<1>5. /\ Sound(handle', block', storage', alive')
      /\ Stored(h, SubSeq(Moved(h, n), 1, Size(h)))
  BY <1>1, <1>2, <1>3, <1>4, StoreKeeps
<1>6. Unseen(h) /\ SharedStep
  BY <1>3, <1>5, StoredSame
<1> QED BY <1>1, <1>5, <1>6 DEF SInv

\* reserve() with another memory type
LEMMA ReserveInKeeps ==
  ASSUME SInv, NEW h \in Handles, NEW n \in {0, 2}, NEW m \in Spaces, ReserveIn(h, n, m)
  PROVE  /\ SInv' /\ SharedStep
         /\ IF n = 0 THEN Shared!Leave(h) ELSE Shared!Begin(h, 0)
<1>1. /\ n \in Nat /\ n <= MaxCapacity /\ ResetTo(h, NewAddress(n), RawCells(n), 0, m, {})
      /\ misread' = misread
  BY DEF ReserveIn
<1>2. Holds(RawCells(n), 0) /\ Len(RawCells(n)) = n /\ Elems(RawCells(n), 0) = {}
  BY <1>1, RawHolds
<1>3. CASE n = 0
  <2>1. ResetTo(h, None, RawCells(n), 0, m, {})
    BY <1>1, <1>3 DEF NewAddress
  <2>2. Sound(handle', block', storage', alive') /\ Left(h)
    BY <2>1, ResetToNothingKeeps
  <2>3. Shared!Leave(h) /\ SharedStep
    BY <2>2, LeaveStep
  <2> QED BY <1>1, <1>3, <2>2, <2>3 DEF SInv
<1>4. CASE n # 0
  <2>1. ResetTo(h, FreeAddress, RawCells(n), 0, m, {})
    BY <1>1, <1>4 DEF NewAddress
  <2>2. Sound(handle', block', storage', alive') /\ Began(h, SubSeq(RawCells(n), 1, 0))
    BY <1>1, <1>2, <2>1, AddressIsFree, ResetToKeeps
  <2>3. Shared!Begin(h, 0) /\ SharedStep
    BY <1>2, <2>2, BeginStep
  <2> QED BY <1>1, <1>4, <2>2, <2>3 DEF SInv
<1> QED BY <1>3, <1>4

\* shrink_to_fit()
LEMMA ShrinkToFitKeeps ==
  ASSUME SInv, Careful, NEW h \in Handles, ShrinkToFit(h)
  PROVE  SInv' /\ Unseen(h) /\ SharedStep
<1> DEFINE cells == SubSeq(Data(h), 1, Size(h))
<1>1. MayReallocate(h) /\ Store(h, cells, Size(h), {}, {}) /\ misread' = misread
  BY DEF ShrinkToFit
<1>2. /\ Holds(Data(h), Size(h)) /\ Size(h) \in 0 .. Capacity(h)
      /\ Capacity(h) \in 0 .. MaxCapacity /\ MaxCapacity \in Nat
  BY DataOf, StorageAssumption
<1>3. /\ Holds(cells, Size(h)) /\ Len(cells) = Size(h)
      /\ Elems(cells, Size(h)) = Elems(Data(h), Size(h))
      /\ SubSeq(cells, 1, Size(h)) = ElementsOf(h)
  BY <1>2, ShrunkHolds DEF ElementsOf
<1> HIDE DEF cells
<1>4. Elems(cells, Size(h)) = (Elems(Data(h), Size(h)) \ {}) \cup {} /\ Len(cells) <= MaxCapacity
  BY <1>2, <1>3
<1>5. Sound(handle', block', storage', alive') /\ Stored(h, SubSeq(cells, 1, Size(h)))
  BY <1>1, <1>3, <1>4, StoreKeeps
<1>6. Unseen(h) /\ SharedStep
  BY <1>3, <1>5, StoredSame
<1> QED BY <1>1, <1>5, <1>6 DEF SInv

\* Cells with room for one more element.
LEMMA RoomyHolds ==
  ASSUME SInv, NEW h \in Handles, Full(h) => MayReallocate(h) /\ Capacity(h) + 2 <= MaxCapacity
  PROVE  /\ Holds(Roomy(h), Size(h)) /\ Elems(Roomy(h), Size(h)) = Elems(Data(h), Size(h))
         /\ Size(h) < Len(Roomy(h)) /\ Len(Roomy(h)) <= MaxCapacity
         /\ Len(Roomy(h)) # Capacity(h) => MayReallocate(h)
         /\ Size(h) \in Nat /\ SubSeq(Roomy(h), 1, Size(h)) = ElementsOf(h)
<1>1. /\ Holds(Data(h), Size(h)) /\ Len(Data(h)) = Capacity(h)
      /\ Capacity(h) \in 0 .. MaxCapacity /\ Size(h) \in 0 .. Capacity(h) /\ MaxCapacity \in Nat
  BY DataOf, StorageAssumption
<1>2. CASE Full(h)
  <2>1. Roomy(h) = Moved(h, Capacity(h) + 2) /\ Size(h) = Capacity(h)
    BY <1>2 DEF Roomy, Full
  <2>2. Capacity(h) + 2 \in Nat /\ Capacity(h) <= Capacity(h) + 2
    BY <1>1
  <2> DEFINE m == Capacity(h) + 2
  <2> HIDE DEF m
  <2>3. m \in Nat /\ Capacity(h) <= m /\ m = Capacity(h) + 2
    BY <2>2 DEF m
  <2>4. /\ Holds(Moved(h, m), Size(h)) /\ Len(Moved(h, m)) = m
        /\ Elems(Moved(h, m), Size(h)) = Elems(Data(h), Size(h))
        /\ SubSeq(Moved(h, m), 1, Size(h)) = ElementsOf(h)
    BY <2>3, MovedHolds DEF Copied, ElementsOf
  <2>5. Roomy(h) = Moved(h, m)
    BY <2>1, <2>3
  <2>6. Size(h) < m /\ m <= MaxCapacity
    BY <1>1, <1>2, <2>1, <2>3
  <2> QED BY <1>1, <1>2, <2>4, <2>5, <2>6
<1>3. CASE ~Full(h)
  <2>1. Roomy(h) = Data(h) /\ Size(h) # Capacity(h)
    BY <1>3 DEF Roomy, Full
  <2> QED BY <1>1, <2>1 DEF ElementsOf
<1> QED BY <1>2, <1>3

\* A new object.
LEMMA ObjectIsFree ==
  ASSUME SInv, Cardinality(alive) < MaxObjects
  PROVE  FreeObjects(1)[1] \in Objects \ alive
<1>1. Cardinality(alive) \in Nat /\ MaxObjects \in Nat
  <2>1. alive \in SUBSET Objects /\ MaxObjects \in Nat
    BY StorageAssumption DEF SInv, Sound
  <2>2. IsFiniteSet(Objects)
    BY <2>1, FS_Interval DEF Objects
  <2>3. IsFiniteSet(alive)
    BY <2>1, <2>2, FS_Subset
  <2> QED BY <2>1, <2>3, FS_CardinalityType
<1>2. Cardinality(alive) + 1 <= MaxObjects
  BY <1>1
<1>3. FreeObjects(1) \in [1 .. 1 -> Objects \ alive]
  BY <1>2, ObjectsAreFree
<1> QED BY <1>3

\* emplace_back()
LEMMA EmplaceBackKeeps ==
  ASSUME SInv, Careful, NEW h \in Handles, NEW j \in 0 .. Size(h), EmplaceBack(h, j)
  PROVE  SInv' /\ EndGets(h) /\ SharedStep
<1> DEFINE p == Size(h) + 1
           x == FreeObjects(1)[1]
           cells == [Roomy(h) EXCEPT ![p] = x]
<1>1. /\ Cardinality(alive) < MaxObjects
      /\ Full(h) => MayReallocate(h) /\ Capacity(h) + 2 <= MaxCapacity
      /\ Argument(h, p, j) /\ Store(h, cells, p, {x}, {})
      /\ misread' = (misread \/ Misreads(h, Roomy(h), p, j))
  BY DEF EmplaceBack
<1>2. /\ Holds(Roomy(h), Size(h)) /\ Elems(Roomy(h), Size(h)) = Elems(Data(h), Size(h))
      /\ Size(h) < Len(Roomy(h)) /\ Len(Roomy(h)) <= MaxCapacity
      /\ Len(Roomy(h)) # Capacity(h) => MayReallocate(h)
      /\ Size(h) \in Nat /\ Elems(Data(h), Size(h)) \subseteq alive
      /\ SubSeq(Roomy(h), 1, Size(h)) = ElementsOf(h)
  BY <1>1, RoomyHolds, DataOf
<1>3. x \in Objects \ alive
  BY <1>1, ObjectIsFree
<1> HIDE DEF x
<1>4. /\ Holds(cells, p) /\ Len(cells) = Len(Roomy(h))
      /\ Elems(cells, p) = Elems(Roomy(h), Size(h)) \cup {x}
      /\ Grown(cells, Roomy(h), Size(h), p, x)
  <2>1. x \notin Elems(Roomy(h), Size(h)) /\ x \in Objects
    BY <1>2, <1>3
  <2> DEFINE t == [Roomy(h) EXCEPT ![Size(h) + 1] = x]
  <2>2. t = [Roomy(h) EXCEPT ![Size(h) + 1] = x]
    OBVIOUS
  <2> HIDE DEF t
  <2>3. Grown(t, Roomy(h), Size(h), p, x)
    BY <1>2, <2>1, <2>2, AppendedHolds
  <2> QED BY <2>3 DEF t, Grown
<1>5. ~Misreads(h, Roomy(h), p, j)
  BY <1>1, <1>2 DEF Misreads, Argument, Roomy
<1> HIDE DEF cells, p
<1>6. /\ Elems(cells, p) = (Elems(Data(h), Size(h)) \ {}) \cup {x} /\ {x} \cap alive = {}
      /\ Len(cells) <= MaxCapacity /\ (Len(cells) # Capacity(h) => MayReallocate(h))
  BY <1>2, <1>3, <1>4
<1>7. Sound(handle', block', storage', alive') /\ Stored(h, SubSeq(cells, 1, p))
  BY <1>1, <1>4, <1>6, StoreKeeps
<1>8. p \in 1 .. Size(h) + 1 /\ p = Size(h) + 1
  BY <1>2 DEF p
<1>9. /\ SharedStep
      /\ Capacity(h) = 0 => Shared!Begin(h, 1)
      /\ Capacity(h) # 0 => Shared!InsertAt(h, p - 1, x)
  BY <1>2, <1>3, <1>4, <1>7, <1>8, StoredGrown
<1>10. p - 1 = Size(h)
  BY <1>2, <1>8
<1>11. EndGets(h)
  BY <1>3, <1>9, <1>10 DEF EndGets
<1> QED BY <1>1, <1>5, <1>7, <1>9, <1>11 DEF SInv

\* insert()
LEMMA InsertKeeps ==
  ASSUME SInv, Careful, NEW h \in Handles, NEW p \in 1 .. Size(h), NEW j \in 0 .. Size(h),
         Insert(h, p, j)
  PROVE  SInv' /\ (\E x \in Objects : Shared!InsertAt(h, p - 1, x)) /\ SharedStep
<1> DEFINE x == FreeObjects(1)[1]
           opened == Opened(Roomy(h), p, Size(h))
           cells == [opened EXCEPT ![p] = x]
           n == Size(h) + 1
<1>1. /\ Cardinality(alive) < MaxObjects
      /\ Full(h) => MayReallocate(h) /\ Capacity(h) + 2 <= MaxCapacity
      /\ Argument(h, p, j) /\ Store(h, cells, n, {x}, {})
      /\ misread' = (misread \/ Misreads(h, opened, p, j))
  BY DEF Insert
<1>2. /\ Holds(Roomy(h), Size(h)) /\ Elems(Roomy(h), Size(h)) = Elems(Data(h), Size(h))
      /\ Size(h) < Len(Roomy(h)) /\ Len(Roomy(h)) <= MaxCapacity
      /\ Len(Roomy(h)) # Capacity(h) => MayReallocate(h)
      /\ Size(h) \in Nat /\ Elems(Data(h), Size(h)) \subseteq alive
      /\ SubSeq(Roomy(h), 1, Size(h)) = ElementsOf(h)
  BY <1>1, RoomyHolds, DataOf
<1>3. x \in Objects \ alive
  BY <1>1, ObjectIsFree
<1> HIDE DEF x
<1>4. /\ Holds(cells, n) /\ Len(cells) = Len(Roomy(h))
      /\ Elems(cells, n) = Elems(Roomy(h), Size(h)) \cup {x}
      /\ Grown(cells, Roomy(h), Size(h), p, x)
  <2>1. x \notin Elems(Roomy(h), Size(h)) /\ x \in Objects
    BY <1>2, <1>3
  <2> HIDE DEF cells
  <2>2. cells = [Opened(Roomy(h), p, Size(h)) EXCEPT ![p] = x]
    BY DEF cells
  <2>3. Grown(cells, Roomy(h), Size(h), p, x)
    BY <1>2, <2>1, <2>2, OpenedHolds
  <2> QED BY <2>3 DEF Grown
<1>5. ~Misreads(h, opened, p, j)
  <2>1. CASE j = 0
    BY <2>1 DEF Misreads
  <2>2. CASE j # 0
    <3>1. ~Full(h) /\ j < p
      BY <1>1, <2>2 DEF Argument
    <3>2. Roomy(h) = Data(h)
      BY <3>1 DEF Roomy
    <3>3. opened[j] = Data(h)[j]
      <4>1. j \in DOMAIN Data(h)
        <5>1. Data(h) \in Seq(Cells) /\ Size(h) < Len(Data(h))
          BY <1>2, <3>2 DEF Holds
        <5> QED BY <1>2, <2>2, <5>1
      <4> QED BY <1>2, <3>1, <3>2, <4>1 DEF Opened
    <3> QED BY <1>2, <3>1, <3>3 DEF Misreads
  <2> QED BY <2>1, <2>2
<1> HIDE DEF cells, n, opened
<1>6. /\ Elems(cells, n) = (Elems(Data(h), Size(h)) \ {}) \cup {x} /\ {x} \cap alive = {}
      /\ Len(cells) <= MaxCapacity /\ (Len(cells) # Capacity(h) => MayReallocate(h))
  BY <1>2, <1>3, <1>4
<1>7. Sound(handle', block', storage', alive') /\ Stored(h, SubSeq(cells, 1, n))
  BY <1>1, <1>4, <1>6, StoreKeeps
<1>8. p \in 1 .. Size(h) + 1 /\ n = Size(h) + 1
  BY <1>2 DEF n
<1>9. /\ SharedStep
      /\ Capacity(h) # 0 => Shared!InsertAt(h, p - 1, x)
  BY <1>2, <1>3, <1>4, <1>7, <1>8, StoredGrown
<1>10. Capacity(h) # 0
  BY DataOf, StorageAssumption
<1>11. \E y \in Objects : Shared!InsertAt(h, p - 1, y)
  BY <1>3, <1>9, <1>10
<1> QED BY <1>1, <1>5, <1>7, <1>9, <1>11 DEF SInv

\* pop_back()
LEMMA PopBackKeeps ==
  ASSUME SInv, Careful, NEW h \in Handles, PopBack(h)
  PROVE  SInv' /\ Shared!RemoveAt(h, Size(h)) /\ SharedStep
<1> DEFINE n == Size(h)
           x == Data(h)[n]
           k == n - 1
<1>1. n > 0 /\ Store(h, Data(h), k, {}, {x}) /\ misread' = misread
  BY DEF PopBack
<1>2. /\ Holds(Data(h), n) /\ Len(Data(h)) = Capacity(h)
      /\ Capacity(h) \in 0 .. MaxCapacity /\ MaxCapacity \in Nat
  BY DataOf, StorageAssumption
<1> HIDE DEF x
<1>3. Holds(Data(h), k) /\ Elems(Data(h), k) = Elems(Data(h), n) \ {x} /\ x \in Elems(Data(h), n)
  BY <1>1, <1>2, PoppedHolds DEF x
<1> HIDE DEF k
<1>4. /\ Elems(Data(h), k) = (Elems(Data(h), Size(h)) \ {x}) \cup {}
      /\ {x} \subseteq Elems(Data(h), Size(h)) /\ Len(Data(h)) <= MaxCapacity
  BY <1>2, <1>3
<1>5. Sound(handle', block', storage', alive') /\ Stored(h, SubSeq(Data(h), 1, k))
  BY <1>1, <1>2, <1>3, <1>4, StoreKeeps
<1>6. Shared!RemoveAt(h, n) /\ SharedStep
  <2>1. n \in 1 .. n /\ k = Size(h) - 1
    BY <1>1, <1>2 DEF k, Holds
  <2>2. \A i \in 1 .. Size(h) - 1 : Data(h)[i] = IF i < n THEN Data(h)[i] ELSE Data(h)[i + 1]
    BY <1>2 DEF Holds
  <2> QED BY <1>3, <1>5, <2>1, <2>2, StoredShrunk
<1> QED BY <1>1, <1>5, <1>6 DEF SInv

\* erase()
LEMMA EraseKeeps ==
  ASSUME SInv, Careful, NEW h \in Handles, NEW p \in 1 .. Size(h), Erase(h, p)
  PROVE  SInv' /\ Shared!RemoveAt(h, p) /\ SharedStep
<1> DEFINE n == Size(h)
           x == Data(h)[p]
           k == n - 1
           cells == Closed(Data(h), p)
<1>1. Store(h, cells, k, {}, {x}) /\ misread' = misread
  BY DEF Erase
<1>2. /\ Holds(Data(h), n) /\ Len(Data(h)) = Capacity(h)
      /\ Capacity(h) \in 0 .. MaxCapacity /\ MaxCapacity \in Nat
  BY DataOf, StorageAssumption
<1> HIDE DEF x, cells
<1>3. /\ Holds(cells, k) /\ Elems(cells, k) = Elems(Data(h), n) \ {x} /\ x \in Elems(Data(h), n)
      /\ Len(cells) = Len(Data(h))
      /\ \A i \in 1 .. k : cells[i] = IF i < p THEN Data(h)[i] ELSE Data(h)[i + 1]
  <2>1. cells = Closed(Data(h), p)
    BY DEF cells
  <2> QED BY <1>1, <1>2, <2>1, ClosedHolds DEF x
<1> HIDE DEF k
<1>4. /\ Elems(cells, k) = (Elems(Data(h), Size(h)) \ {x}) \cup {}
      /\ {x} \subseteq Elems(Data(h), Size(h)) /\ Len(cells) <= MaxCapacity
      /\ Len(cells) = Capacity(h)
  BY <1>2, <1>3
<1>5. Sound(handle', block', storage', alive') /\ Stored(h, SubSeq(cells, 1, k))
  BY <1>1, <1>2, <1>3, <1>4, StoreKeeps
<1>6. k = Size(h) - 1
  BY DEF k
<1>7. Shared!RemoveAt(h, p) /\ SharedStep
  BY <1>3, <1>5, <1>6, StoredShrunk
<1> QED BY <1>1, <1>5, <1>7 DEF SInv

-----------------------------------------------------------------------------
(* The theorems *)

\* Nothing is there at first.
LEMMA InitSound ==
  ASSUME Init
  PROVE  SInv
<1>1. /\ handle = [h \in Handles |-> Empty] /\ block = [b \in Blocks |-> None]
      /\ storage = [a \in Addresses |-> None] /\ alive = {} /\ misread = FALSE
  BY DEF Init, Empty
<1>2. Empty \in HandleType
  BY DEF Empty, HandleType
<1>3. /\ handle \in [Handles -> HandleType] /\ block \in [Blocks -> BlockType \cup {None}]
      /\ storage \in [Addresses -> Seq(Cells) \cup {None}]
      /\ \A h \in Handles : handle[h] = Empty
  BY <1>1, <1>2
<1>4. Held(Empty, block, storage) /\ ElemsOf(Empty, block, storage) = {}
  BY DEF Held, ElemsOf, Empty
<1>5. Agree(Empty, Empty, block, storage)
  BY DEF Agree
<1>6. Accounted(handle, block, storage, alive)
  BY <1>1, <1>3, <1>4 DEF Accounted
<1>7. \A h \in Handles : Held(handle[h], block, storage)
  BY <1>3, <1>4
<1>8. \A h, g \in Handles : Agree(handle[h], handle[g], block, storage)
  BY <1>3, <1>5
<1>9. Sound(handle, block, storage, alive)
  BY <1>1, <1>3, <1>6, <1>7, <1>8 DEF Sound
<1> QED BY <1>1, <1>9 DEF SInv

\* Every operation keeps it, and is a step of the abstract sequences or none.
LEMMA StepSound ==
  ASSUME SInv, Careful, [Next]_vars
  PROVE  SInv' /\ SharedStep
<1>1. CASE UNCHANGED vars
  <2>1. SInv'
    BY <1>1 DEF vars, SInv
  <2>2. SharedStep
    <3>1. \A b \in Blocks : Contents(b)' = Contents(b)
      BY <1>1, ContentsAre DEF vars
    <3>2. handle' = handle
      BY <1>1 DEF vars
    <3> QED BY <3>1, <3>2 DEF SharedStep, Shared!vars
  <2> QED BY <2>1, <2>2
<1>2. CASE Next
  <2>1. PICK h \in Handles :
          \/ \E n \in 0 .. 2, c \in 1 .. MaxCapacity, m \in Spaces : Build(h, n, c, m)
          \/ \E g \in Handles : Copy(h, g)
          \/ Reset(h)
          \/ \E n \in 1 .. MaxCapacity : Reserve(h, n)
          \/ \E n \in {0, 2}, m \in Spaces : ReserveIn(h, n, m)
          \/ ShrinkToFit(h)
          \/ \E j \in 0 .. Size(h) : EmplaceBack(h, j)
          \/ \E p \in 1 .. Size(h), j \in 0 .. Size(h) : Insert(h, p, j)
          \/ PopBack(h)
          \/ \E p \in 1 .. Size(h) : Erase(h, p)
    BY <1>2 DEF Next
  <2>2. CASE \E n \in 0 .. 2, c \in 1 .. MaxCapacity, m \in Spaces : Build(h, n, c, m)
    BY <2>2, BuildKeeps
  <2>3. CASE \E g \in Handles : Copy(h, g)
    BY <2>3, CopyKeeps
  <2>4. CASE Reset(h)
    BY <2>4, ResetKeeps
  <2>5. CASE \E n \in 1 .. MaxCapacity : Reserve(h, n)
    BY <2>5, ReserveKeeps
  <2>6. CASE \E n \in {0, 2}, m \in Spaces : ReserveIn(h, n, m)
    BY <2>6, ReserveInKeeps
  <2>7. CASE ShrinkToFit(h)
    BY <2>7, ShrinkToFitKeeps
  <2>8. CASE \E j \in 0 .. Size(h) : EmplaceBack(h, j)
    BY <2>8, EmplaceBackKeeps
  <2>9. CASE \E p \in 1 .. Size(h), j \in 0 .. Size(h) : Insert(h, p, j)
    BY <2>9, InsertKeeps
  <2>10. CASE PopBack(h)
    BY <2>10, PopBackKeeps
  <2>11. CASE \E p \in 1 .. Size(h) : Erase(h, p)
    BY <2>11, EraseKeeps
  <2> QED BY <2>1, <2>2, <2>3, <2>4, <2>5, <2>6, <2>7, <2>8, <2>9, <2>10, <2>11
<1> QED BY <1>1, <1>2

\* What the operations keep is what users rely on.
LEMMA SoundIsSound ==
  ASSUME SInv
  PROVE  StorageIsSound
<1>0. Sound(handle, block, storage, alive) /\ misread = FALSE
  BY DEF SInv
<1>1. /\ handle \in [Handles -> HandleType] /\ block \in [Blocks -> BlockType \cup {None}]
      /\ storage \in [Addresses -> Seq(Cells) \cup {None}] /\ alive \subseteq Objects
      /\ \A k \in Handles : Held(handle[k], block, storage)
      /\ \A k, l \in Handles : Agree(handle[k], handle[l], block, storage)
      /\ Accounted(handle, block, storage, alive)
  BY <1>0 DEF Sound
<1>2. ASSUME NEW h \in Handles
      PROVE  /\ Holds(Data(h), Size(h)) /\ Len(Data(h)) = Capacity(h) /\ Size(h) <= Capacity(h)
             /\ Elems(Data(h), Size(h)) = ElemsOf(handle[h], block, storage)
             /\ ToSet(ElementsOf(h)) = ElemsOf(handle[h], block, storage)
             /\ IsInjective(ElementsOf(h))
  <2>1. /\ Holds(Data(h), Size(h)) /\ Len(Data(h)) = Capacity(h) /\ Size(h) \in 0 .. Capacity(h)
        /\ Capacity(h) \in 0 .. MaxCapacity
        /\ Elems(Data(h), Size(h)) = ElemsOf(handle[h], block, storage)
    BY DataOf
  <2>2. ToSet(ElementsOf(h)) = Elems(Data(h), Size(h))
    BY <2>1, ElementsOfSet DEF ElementsOf
  <2>3. IsInjective(ElementsOf(h))
    <3> DEFINE s == Data(h)
               n == Size(h)
    <3>1. s \in Seq(Cells) /\ n \in 0 .. Len(s) /\ \A i, j \in 1 .. n : s[i] = s[j] => i = j
      BY <2>1 DEF Holds
    <3> HIDE DEF s, n
    <3>2. DOMAIN SubSeq(s, 1, n) = 1 .. n /\ \A i \in 1 .. n : SubSeq(s, 1, n)[i] = s[i]
      BY <3>1
    <3>3. IsInjective(SubSeq(s, 1, n))
      BY <3>1, <3>2 DEF IsInjective
    <3> QED BY <3>3 DEF ElementsOf, s, n
  <2> QED BY <2>1, <2>2, <2>3
<1>3. TypeOK
  <2>1. handle \in [Handles -> [cb : Blocks \cup {None}, ptr : Addresses \cup {None}]]
    BY <1>1 DEF HandleType
  <2>2. ASSUME NEW b \in Blocks, block[b] # None
        PROVE  block[b] \in [refs : 1 .. Cardinality(Handles), size : 0 .. MaxObjects,
                             capacity : 0 .. MaxCapacity, mem : Spaces]
    <3>1. block[b] \in BlockType /\ block[b].refs = Cardinality(Owners(b, handle))
          /\ Owners(b, handle) # {} /\ Owners(b, handle) \in SUBSET Handles
      BY <1>1, <2>2 DEF Accounted, Owners
    <3>2. PICK h \in Handles : h \in Owners(b, handle) /\ handle[h].cb = b
      BY <3>1 DEF Owners
    <3>3. block[b].refs \in 1 .. Cardinality(Handles)
      <4> DEFINE T == Owners(b, handle)
      <4>1. T \in SUBSET Handles /\ h \in T /\ block[b].refs = Cardinality(T)
        BY <3>1, <3>2
      <4> HIDE DEF T
      <4>2. /\ Cardinality(T) \in Nat \ {0} /\ Cardinality(T) <= Cardinality(Handles)
            /\ Cardinality(Handles) \in Nat
        BY <4>1, OwnersCount
      <4> QED BY <4>1, <4>2
    <3>4. block[b].size \in 0 .. MaxObjects
      <4>1. Size(h) = block[b].size
        BY <3>2, NoneIsNothing DEF Size, Cb
      <4> QED BY <1>2, <4>1, FewObjects
    <3> QED BY <3>1, <3>3, <3>4 DEF BlockType
  <2> QED BY <1>0, <1>1, <2>1, <2>2 DEF TypeOK
<1>4. OwnersAgree
  <2> SUFFICES ASSUME NEW h \in Handles, NEW g \in Handles
               PROVE  /\ Usable(h)
                      /\ handle[h].cb = None => handle[h].ptr = None
                      /\ handle[h].cb # None => /\ block[handle[h].cb] # None
                                                /\ Len(Data(h)) = Capacity(h) /\ Size(h) <= Capacity(h)
                      /\ handle[h].ptr # None =>
                           (handle[h].cb = handle[g].cb <=> handle[h].ptr = handle[g].ptr)
    BY DEF OwnersAgree
  <2>1. Held(handle[h], block, storage) /\ Agree(handle[h], handle[g], block, storage)
    BY <1>1
  <2> QED BY <1>2, <2>1 DEF Held, Agree, Usable
<1>5. ElementsAlive
  <2>1. alive = UNION {ToSet(ElementsOf(h)) : h \in Handles}
    <3>1. alive = UNION {ElemsOf(handle[h], block, storage) : h \in Handles}
      BY <1>1 DEF Accounted
    <3> QED BY <1>2, <3>1
  <2>2. ASSUME NEW h \in Handles, NEW g \in Handles
        PROVE  /\ IsInjective(ElementsOf(h))
               /\ handle[h].cb # handle[g].cb => ToSet(ElementsOf(h)) \cap ToSet(ElementsOf(g)) = {}
    <3>1. Agree(handle[h], handle[g], block, storage)
      BY <1>1
    <3> QED BY <1>2, <3>1 DEF Agree
  <2>3. \A b \in Blocks : block[b] # None =>
          block[b].refs = Cardinality({h \in Handles : handle[h].cb = b})
    BY <1>1 DEF Accounted, Owners
  <2>4. \A a \in Addresses : storage[a] # None => \E h \in Handles : handle[h].ptr = a
    BY <1>1 DEF Accounted
  <2> QED BY <2>1, <2>2, <2>3, <2>4 DEF ElementsAlive
<1> QED BY <1>0, <1>3, <1>4, <1>5 DEF StorageIsSound, ArgumentsIntact

\* Handles, blocks, storage and the objects alive are in step in every reachable
\* state, if users do what the code needs of them.
THEOREM StorageInvariant ==
  ASSUME Careful
  PROVE  Spec => []SInv
<1>1. Init => SInv
  BY InitSound
<1>2. SInv /\ [Next]_vars => SInv'
  BY StepSound
<1> QED BY <1>1, <1>2, PTL DEF Spec

\* Owners of one block agree on its storage, size and capacity, nobody else has
\* it, every object that was constructed is one element at one place until it
\* is destructed, and constructors read what they were given, for any number of
\* pointers, objects, memories and sizes (reserve, insert, erase, emplace_back).
THEOREM StorageCorrect ==
  ASSUME Careful
  PROVE  Spec => []StorageIsSound
<1>1. SInv => StorageIsSound
  BY SoundIsSound
<1> QED BY <1>1, StorageInvariant, PTL

\* The sequences are empty at first.
LEMMA InitShared ==
  ASSUME Init
  PROVE  Shared!Init
<1>1. \A h \in Handles : handle[h].cb = None
  BY DEF Init
<1>2. \A b \in Blocks : Contents(b) = <<>>
  BY <1>1, NoneIsNothing DEF Contents
<1>3. [h \in Handles |-> handle[h].cb] = [h \in Handles |-> None]
  BY <1>1
<1>4. [b \in Blocks |-> Contents(b)] = [b \in Blocks |-> <<>>]
  BY <1>2
<1> QED BY <1>3, <1>4 DEF Shared!Init

\* Whatever a step is of, it is the step of the abstract sequences that is its own.
LEMMA StepAsNamed ==
  ASSUME SInv, Careful
  PROVE  CallsDoAsNamed
<1> SUFFICES ASSUME NEW h \in Handles
             PROVE  EachAsNamed(h)
  BY DEF CallsDoAsNamed
<1>1. \A n \in 0 .. 2, c \in 1 .. MaxCapacity, m \in Spaces :
        Build(h, n, c, m) => Shared!Begin(h, n)
  BY BuildKeeps
<1>2. \A g \in Handles : Copy(h, g) => Shared!Share(h, g)
  BY CopyKeeps
<1>3. Reset(h) => Shared!Leave(h)
  BY ResetKeeps
<1>4. \A n \in 1 .. MaxCapacity : Reserve(h, n) => Unseen(h)
  BY ReserveKeeps
<1>5. \A n \in {0, 2}, m \in Spaces :
        ReserveIn(h, n, m) => IF n = 0 THEN Shared!Leave(h) ELSE Shared!Begin(h, 0)
  BY ReserveInKeeps
<1>6. ShrinkToFit(h) => Unseen(h)
  BY ShrinkToFitKeeps
<1>7. \A j \in 0 .. Size(h) : EmplaceBack(h, j) => EndGets(h)
  BY EmplaceBackKeeps
<1>8. \A p \in 1 .. Size(h), j \in 0 .. Size(h) :
        Insert(h, p, j) => \E x \in Objects : Shared!InsertAt(h, p - 1, x)
  BY InsertKeeps
<1>9. PopBack(h) => Shared!RemoveAt(h, Size(h))
  BY PopBackKeeps
<1>10. \A p \in 1 .. Size(h) : Erase(h, p) => Shared!RemoveAt(h, p)
  BY EraseKeeps
<1> QED BY <1>1, <1>2, <1>3, <1>4, <1>5, <1>6, <1>7, <1>8, <1>9, <1>10 DEF EachAsNamed

\* Pointers are the sequences of SharedSequences: owners share one; emplace_back and
\* insert put a new element at the end and at their position, pop_back and erase
\* take out the last and that at their position, building, reset and copies begin,
\* leave and share one; no call changes another sequence, and where storage moves
\* (reserve, shrink_to_fit) nobody sees it.
THEOREM StorageImplementsSequences ==
  ASSUME Careful
  PROVE  Spec => ActsLikeSequences
<1>1. Init => Shared!Init
  BY InitShared
<1>2. SInv /\ [Next]_vars => [Shared!Next]_(Shared!vars)
  BY StepSound DEF SharedStep
<1>3. SInv => [CallsDoAsNamed]_vars
  BY StepAsNamed
<1> QED BY <1>1, <1>2, <1>3, StorageInvariant, PTL DEF Spec, ActsLikeSequences, Shared!Spec

-----------------------------------------------------------------------------
(* POINTERS INSIDE OBJECTS *)

-----------------------------------------------------------------------------
(* Induction *)

\* A set of naturals has a least element.
LEMMA LeastExists ==
  ASSUME NEW T \in SUBSET Nat, T # {}
  PROVE  \E x \in T : \A y \in T : x <= y
<1> DEFINE R == OpToRel(<, Nat)
<1>1. IsWellFoundedOn(R, Nat)
  BY NatLessThanWellFounded
<1>2. R = {ss \in Nat \X Nat : ss[1] < ss[2]}
  BY DEF OpToRel
<1> HIDE DEF R
<1>3. PICK x \in T : \A y \in T : ~ (<<y, x>> \in R)
  BY <1>1, WFMin
<1>4. ASSUME NEW y \in T PROVE x <= y
  <2>1. ~ (<<y, x>> \in R)
    BY <1>3
  <2>2. y \in Nat /\ x \in Nat
    OBVIOUS
  <2>3. <<y, x>> \in Nat \X Nat
    BY <2>2
  <2>4. ~ (y < x)
    BY <1>2, <2>1, <2>3
  <2> QED BY <2>2, <2>4
<1> QED BY <1>4

\* A set that has 0 and, with a number, the next one, up to k, has k.
LEMMA ByInduction ==
  ASSUME NEW S, NEW k \in Nat, 0 \in S, \A j \in 0 .. k - 1 : j \in S => j + 1 \in S
  PROVE  \A j \in 0 .. k : j \in S
<1> DEFINE Bad == {j \in 0 .. k : j \notin S}
<1>1. SUFFICES ASSUME Bad # {} PROVE FALSE
  OBVIOUS
<1>2. PICK x \in Bad : \A y \in Bad : x <= y
  <2>1. Bad \in SUBSET Nat
    OBVIOUS
  <2> HIDE DEF Bad
  <2> QED BY <1>1, <2>1, LeastExists
<1>3. x \in 0 .. k /\ x # 0 /\ x \notin S
  BY <1>2
<1>4. x - 1 \in 0 .. k - 1 /\ x - 1 \notin Bad
  BY <1>2, <1>3
<1>5. x - 1 \in S
  BY <1>3, <1>4
<1>6. x - 1 + 1 \in S
  BY <1>4, <1>5
<1>7. x - 1 + 1 = x
  BY <1>3
<1> QED BY <1>3, <1>6, <1>7

-----------------------------------------------------------------------------
(* What a release frees *)

Most == Cardinality(Nodes)

LEMMA MostIsNatural ==
  ASSUME LinkedAssumption
  PROVE  Most \in Nat /\ IsFiniteSet(Nodes) /\ IsFiniteSet(Pointers) /\ (Nodes # {} => Most # 0)
<1>1. IsFiniteSet(Nodes) /\ IsFiniteSet(Roots)
  BY DEF LinkedAssumption
<1>2. IsFiniteSet(Pointers)
  BY <1>1, FS_Union DEF Pointers
<1>3. Most \in Nat /\ (Most = 0 <=> Nodes = {})
  BY <1>1, FS_CardinalityType, FS_EmptySet DEF Most
<1> QED BY <1>1, <1>2, <1>3

\* One step of Chain.
ChainStep(f, k) ==
  [n \in Nodes \cup {Null} |->
     IF k = 0 \/ n = Null THEN {}
     ELSE IF refs[n] # 1 THEN {} ELSE {n} \cup f[k - 1][target[n]]]

LEMMA ChainExists ==
  ASSUME Most \in Nat
  PROVE  \E f : f = [k \in 0 .. Most |-> ChainStep(f, k)]
<1> DEFINE P(j) == \E f : f = [k \in 0 .. j |-> ChainStep(f, k)]
           S == {j \in Nat : P(j)}
<1>1. P(0)
  <2> DEFINE g == [k \in 0 .. 0 |-> [n \in Nodes \cup {Null} |-> {}]]
  <2>1. g = [k \in 0 .. 0 |-> ChainStep(g, k)]
    BY DEF ChainStep
  <2> QED BY <2>1
<1>2. ASSUME NEW j \in Nat, P(j) PROVE P(j + 1)
  <2>1. PICK f : f = [k \in 0 .. j |-> ChainStep(f, k)]
    BY <1>2
  <2> DEFINE g == [k \in 0 .. j + 1 |-> IF k = j + 1 THEN ChainStep(f, j + 1) ELSE f[k]]
  <2>2. \A k \in 0 .. j + 1 : k # 0 => g[k - 1] = f[k - 1]
    OBVIOUS
  <2>3. \A k \in 0 .. j + 1 : ChainStep(g, k) = ChainStep(f, k)
    BY <2>2 DEF ChainStep
  <2>4. \A k \in 0 .. j : f[k] = ChainStep(f, k)
    BY <2>1
  <2>5. \A k \in 0 .. j + 1 : g[k] = ChainStep(g, k)
    BY <2>3, <2>4
  <2>6. g = [k \in 0 .. j + 1 |-> ChainStep(g, k)]
    BY <2>5
  <2> QED BY <2>6
<1> HIDE DEF P
<1>3. 0 \in S /\ \A j \in 0 .. Most - 1 : j \in S => j + 1 \in S
  BY <1>1, <1>2
<1> HIDE DEF S
<1>4. Most \in S
  BY <1>3, ByInduction
<1> QED BY <1>4 DEF S, P

LEMMA ChainUnfolds ==
  ASSUME Most \in Nat
  PROVE  /\ \A n \in Nodes \cup {Null} : Chain[0][n] = {}
         /\ \A k \in 0 .. Most - 1, n \in Nodes \cup {Null} :
              /\ n = Null \/ refs[n] # 1 => Chain[k + 1][n] = {}
              /\ n # Null /\ refs[n] = 1 => Chain[k + 1][n] = {n} \cup Chain[k][target[n]]
<1>1. Chain = CHOOSE f : f = [k \in 0 .. Most |-> ChainStep(f, k)]
  BY DEF Chain, ChainStep, Most
<1>2. PICK f : f = [k \in 0 .. Most |-> ChainStep(f, k)]
  BY ChainExists
<1>3. Chain = [k \in 0 .. Most |-> ChainStep(Chain, k)]
  BY <1>1, <1>2
<1> HIDE DEF Chain
<1>4. \A k \in 0 .. Most : Chain[k] = ChainStep(Chain, k)
  BY <1>3
<1>5. \A n \in Nodes \cup {Null} : Chain[0][n] = {}
  <2>1. Chain[0] = ChainStep(Chain, 0)
    BY <1>4
  <2> QED BY <2>1 DEF ChainStep
<1>6. ASSUME NEW k \in 0 .. Most - 1, NEW n \in Nodes \cup {Null}
      PROVE  /\ n = Null \/ refs[n] # 1 => Chain[k + 1][n] = {}
             /\ n # Null /\ refs[n] = 1 => Chain[k + 1][n] = {n} \cup Chain[k][target[n]]
  <2>1. Chain[k + 1] = ChainStep(Chain, k + 1) /\ k + 1 # 0 /\ k + 1 - 1 = k
    BY <1>4
  <2>2. ChainStep(Chain, k + 1)[n] =
          IF n = Null THEN {} ELSE IF refs[n] # 1 THEN {} ELSE {n} \cup Chain[k][target[n]]
    BY <2>1 DEF ChainStep
  <2> QED BY <2>1, <2>2
<1> QED BY <1>5, <1>6

\* Pointers lead to nodes or nowhere.
Leads == target \in [Pointers -> Nodes \cup {Null}] /\ Null \notin Nodes

\* F is linked from n on: its nodes have one owner, the first is n, each other one
\* has its owner in F, and at most one leads out of F.
Linear(F, n) ==
  /\ F \subseteq {m \in Nodes : refs[m] = 1}
  /\ F # {} => n \in F
  /\ \A m \in F : m = n \/ \E o \in F : target[o] = m
  /\ \A m, o \in F : target[m] \notin F /\ target[o] \notin F => m = o

\* Nothing is missing in F: not n, and no node that loses its only owner.
Whole(F, n) ==
  /\ n \in Nodes /\ refs[n] = 1 => n \in F
  /\ \A m \in F : target[m] \in Nodes /\ refs[target[m]] = 1 => target[m] \in F

LEMMA ChainIsLinear ==
  ASSUME Most \in Nat, Leads
  PROVE  \A k \in 0 .. Most : \A n \in Nodes \cup {Null} : Linear(Chain[k][n], n)
<1> DEFINE S == {k \in 0 .. Most : \A n \in Nodes \cup {Null} : Linear(Chain[k][n], n)}
<1>1. 0 \in S
  <2>1. \A n \in Nodes \cup {Null} : Chain[0][n] = {}
    BY ChainUnfolds
  <2>2. \A n : Linear({}, n)
    BY DEF Linear
  <2>3. \A n \in Nodes \cup {Null} : Linear(Chain[0][n], n)
    BY <2>1, <2>2
  <2>4. 0 \in 0 .. Most
    OBVIOUS
  <2> QED BY <2>3, <2>4
<1>2. ASSUME NEW k \in 0 .. Most - 1, k \in S PROVE k + 1 \in S
  <2> SUFFICES ASSUME NEW n \in Nodes \cup {Null} PROVE Linear(Chain[k + 1][n], n)
    OBVIOUS
  <2>2. /\ n = Null \/ refs[n] # 1 => Chain[k + 1][n] = {}
        /\ n # Null /\ refs[n] = 1 => Chain[k + 1][n] = {n} \cup Chain[k][target[n]]
    BY ChainUnfolds
  <2>3. CASE n = Null \/ refs[n] # 1
    BY <2>2, <2>3 DEF Linear
  <2>4. CASE n # Null /\ refs[n] = 1
    <3> DEFINE G == Chain[k][target[n]]
               t == target[n]
    <3>1. n \in Nodes /\ t \in Nodes \cup {Null}
      BY <2>4 DEF Leads, Pointers
    <3>2. Linear(G, t)
      BY <1>2, <3>1
    <3> HIDE DEF G, t
    <3>3. Chain[k + 1][n] = {n} \cup G
      BY <2>2, <2>4 DEF G, t
    <3>4. t = target[n]
      BY DEF t
    <3>5. Linear({n} \cup G, n)
      <4>1. {n} \cup G \subseteq {m \in Nodes : refs[m] = 1}
        BY <3>1, <3>2, <2>4 DEF Linear
      <4>2. \A m \in {n} \cup G : m = n \/ \E o \in {n} \cup G : target[o] = m
        BY <3>2, <3>4 DEF Linear
      <4>3. \A m, o \in {n} \cup G : target[m] \notin {n} \cup G /\ target[o] \notin {n} \cup G => m = o
        BY <3>2, <3>4 DEF Linear
      <4> QED BY <4>1, <4>2, <4>3 DEF Linear
    <3> QED BY <3>3, <3>5
  <2> QED BY <2>3, <2>4
<1> HIDE DEF S
<1>3. \A k \in 0 .. Most : k \in S
  BY <1>1, <1>2, ByInduction
<1> QED BY <1>3 DEF S

\* A level of the chain from n is part of the next one, with all it leads to.
Grows(k, n) ==
  /\ Chain[k][n] \subseteq Chain[k + 1][n]
  /\ \A m \in Chain[k][n] :
       target[m] \in Nodes /\ refs[target[m]] = 1 => target[m] \in Chain[k + 1][n]

\* One level more holds what the one before leads to, and nothing is lost.
LEMMA ChainGrows ==
  ASSUME Most \in Nat, Leads
  PROVE  \A k \in 0 .. Most - 1 : \A n \in Nodes \cup {Null} : Grows(k, n)
<1> DEFINE S == {k \in Nat : k <= Most - 1 => \A n \in Nodes \cup {Null} : Grows(k, n)}
<1>1. 0 \in S
  <2>1. \A n \in Nodes \cup {Null} : Chain[0][n] = {}
    BY ChainUnfolds
  <2> QED BY <2>1 DEF Grows
<1>2. ASSUME NEW k \in 0 .. Most - 1, k \in S PROVE k + 1 \in S
  <2> SUFFICES ASSUME k + 1 <= Most - 1, NEW n \in Nodes \cup {Null} PROVE Grows(k + 1, n)
    OBVIOUS
  <2>1. /\ n = Null \/ refs[n] # 1 => Chain[k + 1][n] = {}
        /\ n # Null /\ refs[n] = 1 => Chain[k + 1][n] = {n} \cup Chain[k][target[n]]
    BY ChainUnfolds
  <2>2. /\ n = Null \/ refs[n] # 1 => Chain[k + 1 + 1][n] = {}
        /\ n # Null /\ refs[n] = 1 => Chain[k + 1 + 1][n] = {n} \cup Chain[k + 1][target[n]]
    <3>1. k + 1 \in 0 .. Most - 1
      OBVIOUS
    <3> QED BY <3>1, ChainUnfolds
  <2>3. CASE n = Null \/ refs[n] # 1
    BY <2>1, <2>2, <2>3 DEF Grows
  <2>4. CASE n # Null /\ refs[n] = 1
    <3>1. n \in Nodes /\ target[n] \in Nodes \cup {Null}
      BY <2>4 DEF Leads, Pointers
    <3>2. Grows(k, target[n])
      BY <1>2, <3>1
    <3>3. target[n] \in Nodes /\ refs[target[n]] = 1 => target[n] \in Chain[k + 1][target[n]]
      <4>1. \A x \in Nodes : x # Null /\ refs[x] = 1 => x \in Chain[k + 1][x]
        BY ChainUnfolds
      <4> QED BY <4>1 DEF Leads
    <3> QED BY <2>1, <2>2, <2>4, <3>2, <3>3 DEF Grows
  <2> QED BY <2>3, <2>4
<1> HIDE DEF S
<1>3. \A k \in 0 .. Most : k \in S
  BY <1>1, <1>2, ByInduction
<1> QED BY <1>3 DEF S
\* A set that misses nothing has the chain at every level.
LEMMA ChainIsWithin ==
  ASSUME Most \in Nat, Leads, NEW X
  PROVE  \A k \in 0 .. Most : \A n \in Nodes \cup {Null} : Whole(X, n) => Chain[k][n] \subseteq X
<1> DEFINE S == {k \in Nat : \A n \in Nodes \cup {Null} : Whole(X, n) => Chain[k][n] \subseteq X}
<1>1. 0 \in S
  <2>1. \A n \in Nodes \cup {Null} : Chain[0][n] = {}
    BY ChainUnfolds
  <2> QED BY <2>1
<1>2. ASSUME NEW k \in 0 .. Most - 1, k \in S PROVE k + 1 \in S
  <2> SUFFICES ASSUME NEW n \in Nodes \cup {Null}, Whole(X, n) PROVE Chain[k + 1][n] \subseteq X
    OBVIOUS
  <2>1. /\ n = Null \/ refs[n] # 1 => Chain[k + 1][n] = {}
        /\ n # Null /\ refs[n] = 1 => Chain[k + 1][n] = {n} \cup Chain[k][target[n]]
    BY ChainUnfolds
  <2>2. CASE n = Null \/ refs[n] # 1
    BY <2>1, <2>2
  <2>3. CASE n # Null /\ refs[n] = 1
    <3>1. n \in Nodes /\ target[n] \in Nodes \cup {Null}
      BY <2>3 DEF Leads, Pointers
    <3>2. n \in X
      BY <2>3, <3>1 DEF Whole
    <3>3. Whole(X, target[n])
      BY <3>2 DEF Whole
    <3>4. Chain[k][target[n]] \subseteq X
      BY <1>2, <3>1, <3>3
    <3> QED BY <2>1, <2>3, <3>2, <3>4
  <2> QED BY <2>2, <2>3
<1> HIDE DEF S
<1>3. \A k \in 0 .. Most : k \in S
  BY <1>1, <1>2, ByInduction
<1> QED BY <1>3 DEF S

\* As many levels as there are nodes are enough.
LEMMA ChainIsWhole ==
  ASSUME LinkedAssumption, Leads, NEW n \in Nodes \cup {Null}
  PROVE  Whole(Chain[Most][n], n)
<1>1. Most \in Nat /\ IsFiniteSet(Nodes)
  BY MostIsNatural
<1> DEFINE C(k) == Chain[k][n]
           S == {k \in Nat : Whole(C(k), n) \/ Cardinality(C(k)) >= k}
<1>2. \A k \in 0 .. Most : C(k) \subseteq Nodes /\ IsFiniteSet(C(k)) /\ Cardinality(C(k)) \in Nat
  <2> TAKE k \in 0 .. Most
  <2>1. C(k) \subseteq Nodes
    BY <1>1, ChainIsLinear DEF Linear
  <2> QED BY <1>1, <2>1, FS_Subset, FS_CardinalityType
<1>3. \A k \in 0 .. Most - 1 : Grows(k, n)
  BY <1>1, ChainGrows
<1>4. 0 \in S
  <2>1. Cardinality(C(0)) >= 0
    BY <1>1, <1>2
  <2> QED BY <2>1
<1>5. ASSUME NEW k \in 0 .. Most - 1, k \in S PROVE k + 1 \in S
  <2>1. k \in 0 .. Most /\ k + 1 \in 0 .. Most
    BY <1>1
  <2>2. C(k) \subseteq C(k + 1)
    BY <1>3 DEF Grows
  <2>3. CASE Whole(C(k), n)
    <3>1. C(k + 1) \subseteq C(k)
      BY <1>1, <2>1, <2>3, ChainIsWithin
    <3>2. C(k + 1) = C(k)
      BY <2>2, <3>1
    <3>3. Whole(C(k + 1), n)
      BY <2>3, <3>2
    <3> QED BY <3>3
  <2>4. CASE ~ Whole(C(k), n)
    <3>1. Cardinality(C(k)) >= k
      BY <1>5, <2>4
    <3>2. C(k) # C(k + 1)
      <4>1. CASE n \in Nodes /\ refs[n] = 1 /\ n \notin C(k)
        <5>1. n \in C(k + 1)
          BY <1>1, <4>1, ChainUnfolds DEF Leads
        <5> QED BY <4>1, <5>1
      <4>2. CASE \E m \in C(k) : target[m] \in Nodes /\ refs[target[m]] = 1 /\ target[m] \notin C(k)
        BY <1>3, <4>2 DEF Grows
      <4> QED BY <2>4, <4>1, <4>2 DEF Whole
    <3>3. Cardinality(C(k)) <= Cardinality(C(k + 1)) /\ Cardinality(C(k)) # Cardinality(C(k + 1))
      <4>1. IsFiniteSet(C(k + 1)) /\ C(k) \in SUBSET C(k + 1)
        BY <1>2, <2>1, <2>2
      <4> HIDE DEF C
      <4> QED BY <3>2, <4>1, FS_Subset
    <3>4. Cardinality(C(k + 1)) >= k + 1
      BY <1>2, <2>1, <3>1, <3>3
    <3> QED BY <3>4
  <2> QED BY <2>3, <2>4
<1>6. \A k \in 0 .. Most : k \in S
  <2> HIDE DEF S
  <2> QED BY <1>1, <1>4, <1>5, ByInduction
<1>7. Whole(C(Most), n) \/ Cardinality(C(Most)) >= Most
  BY <1>1, <1>6
<1>8. CASE Cardinality(C(Most)) >= Most
  <2>1. C(Most) \in SUBSET Nodes /\ Cardinality(C(Most)) \in Nat
    BY <1>1, <1>2
  <2>2. Cardinality(C(Most)) = Cardinality(Nodes)
    <3> HIDE DEF C
    <3>1. Cardinality(C(Most)) <= Cardinality(Nodes)
      BY <1>1, <2>1, FS_Subset
    <3> QED BY <1>1, <1>8, <2>1, <3>1 DEF Most
  <2>3. C(Most) = Nodes
    <3> HIDE DEF C
    <3> QED BY <1>1, <2>1, <2>2, FS_Subset
  <2> QED BY <2>3 DEF Whole
<1> QED BY <1>7, <1>8

\* What a release of p frees.
LEMMA Freed ==
  ASSUME LinkedAssumption, Leads, NEW p \in Pointers
  PROVE  Linear(FreedBy(p), target[p]) /\ Whole(FreedBy(p), target[p])
<1>1. target[p] \in Nodes \cup {Null} /\ Most \in Nat
  BY MostIsNatural DEF Leads
<1>2. FreedBy(p) = Chain[Most][target[p]]
  BY DEF FreedBy, Most
<1> QED BY <1>1, <1>2, ChainIsLinear, ChainIsWhole
-----------------------------------------------------------------------------
(* Counts *)

OwnersOf(n) == {x \in Pointers : target[x] = n}

\* Nodes that are not there hold no pointers, and counts are what they should be.
LinkedInv ==
  /\ target \in [Pointers -> Nodes \cup {Null}] /\ refs \in [Nodes -> Nat]
  /\ \A n \in Nodes : refs[n] = 0 => target[n] = Null
  /\ \A n \in Nodes : refs[n] = Cardinality(OwnersOf(n))

\* The owners of n that a release of p leaves.
KeptOwners(p, n) == {x \in Pointers : x # p /\ x \notin FreedBy(p) /\ target[x] = n}

LEMMA OwnersAreFinite ==
  ASSUME LinkedAssumption, LinkedInv, NEW n \in Nodes
  PROVE  /\ IsFiniteSet(OwnersOf(n)) /\ Cardinality(OwnersOf(n)) \in Nat
         /\ (refs[n] = 0 => OwnersOf(n) = {})
         /\ (refs[n] = 1 => \E o : OwnersOf(n) = {o})
<1>1. IsFiniteSet(Pointers) /\ OwnersOf(n) \in SUBSET Pointers /\ refs[n] = Cardinality(OwnersOf(n))
  BY MostIsNatural DEF OwnersOf, LinkedInv
<1>2. IsFiniteSet(OwnersOf(n))
  BY <1>1, FS_Subset
<1>3. Cardinality(OwnersOf(n)) \in Nat
  BY <1>2, FS_CardinalityType
<1>4. refs[n] = 0 => OwnersOf(n) = {}
  BY <1>1, <1>2, FS_EmptySet
<1>5. refs[n] = 1 => \E o : OwnersOf(n) = {o}
  BY <1>1, <1>2, FS_Singleton
<1> QED BY <1>2, <1>3, <1>4, <1>5

\* A release leaves to each node the owners its new count says, and none to those
\* it frees; other nodes keep one.
LEMMA ReleasedCounts ==
  ASSUME LinkedAssumption, LinkedInv, NEW p \in Pointers, p \notin FreedBy(p), NEW n \in Nodes
  PROVE  /\ Released(p)[n] \in Nat /\ Released(p)[n] = Cardinality(KeptOwners(p, n))
         /\ IsFiniteSet(KeptOwners(p, n))
         /\ n \in FreedBy(p) => KeptOwners(p, n) = {}
         /\ Released(p)[n] = 0 => n \in FreedBy(p) \/ refs[n] = 0
<1> DEFINE F == FreedBy(p)
           gone == n = target[p] \/ n \in {target[m] : m \in F}
<1>1. Leads /\ refs[n] \in Nat /\ refs[n] = Cardinality(OwnersOf(n))
  BY DEF LinkedInv, Leads, LinkedAssumption
<1>2. Linear(F, target[p]) /\ Whole(F, target[p])
  BY <1>1, Freed
<1>3. Released(p)[n] = IF n \in F THEN 0 ELSE IF gone THEN refs[n] - 1 ELSE refs[n]
  BY DEF Released
<1>4. F \subseteq Pointers /\ p \notin F /\ F \subseteq {m \in Nodes : refs[m] = 1}
  BY <1>2 DEF Linear, Pointers
<1>5. KeptOwners(p, n) = {x \in OwnersOf(n) : x # p /\ x \notin F}
  BY DEF KeptOwners, OwnersOf
<1> HIDE DEF F
<1>6. CASE n \in F
  <2>1. PICK o : OwnersOf(n) = {o}
    BY <1>4, <1>6, OwnersAreFinite
  <2>2. o = p \/ o \in F
    <3>1. n = target[p] \/ \E m \in F : target[m] = n
      BY <1>2, <1>6 DEF Linear
    <3>2. p \in OwnersOf(n) \/ \E m \in F : m \in OwnersOf(n)
      BY <1>4, <3>1 DEF OwnersOf
    <3> QED BY <2>1, <3>2
  <2>3. KeptOwners(p, n) = {}
    BY <1>5, <2>1, <2>2
  <2> QED BY <1>3, <1>6, <2>3, FS_EmptySet DEF F
<1>7. CASE n \notin F /\ gone
  <2>1. PICK o \in F \cup {p} : target[o] = n
    BY <1>7
  <2>2. o \in OwnersOf(n)
    BY <1>4, <2>1 DEF OwnersOf
  <2>3. ASSUME NEW x \in F \cup {p}, target[x] = n PROVE x = o
    <3>1. F # {} => target[p] # n
      BY <1>2, <1>7 DEF Linear
    <3>2. CASE F = {}
      BY <2>1, <2>3, <3>2
    <3>3. CASE F # {}
      <4>1. x \in F /\ o \in F
        BY <2>1, <2>3, <3>1, <3>3
      <4> QED BY <1>2, <1>7, <2>1, <2>3, <4>1 DEF Linear
    <3> QED BY <3>2, <3>3
  <2>4. KeptOwners(p, n) = OwnersOf(n) \ {o}
    <3>1. ASSUME NEW x \in OwnersOf(n), x # o PROVE x # p /\ x \notin F
      BY <2>3, <3>1 DEF OwnersOf
    <3>2. o = p \/ o \in F
      BY <2>1
    <3> QED BY <1>5, <3>1, <3>2
  <2>5. IsFiniteSet(OwnersOf(n))
    BY OwnersAreFinite
  <2>6. IsFiniteSet(KeptOwners(p, n)) /\ Cardinality(KeptOwners(p, n)) = Cardinality(OwnersOf(n)) - 1
    BY <2>2, <2>4, <2>5, FS_RemoveElement
  <2>7. refs[n] # 0 /\ refs[n] # 1
    <3>1. refs[n] # 0
      BY <2>2, OwnersAreFinite
    <3>2. refs[n] # 1
      <4>1. CASE n = target[p]
        BY <1>2, <1>7, <4>1 DEF Whole
      <4>2. CASE \E m \in F : n = target[m]
        BY <1>2, <1>7, <4>2 DEF Whole
      <4> QED BY <1>7, <4>1, <4>2
    <3> QED BY <3>1, <3>2
  <2>8. Released(p)[n] = refs[n] - 1
    BY <1>3, <1>7
  <2> QED BY <1>1, <1>7, <2>6, <2>7, <2>8 DEF F
<1>8. CASE n \notin F /\ ~ gone
  <2>1. KeptOwners(p, n) = OwnersOf(n)
    BY <1>5, <1>8 DEF OwnersOf
  <2>2. Released(p)[n] = refs[n]
    BY <1>3, <1>8
  <2> QED BY <1>1, <1>8, <2>1, <2>2, OwnersAreFinite DEF F
<1> QED BY <1>6, <1>7, <1>8

\* Where everything points once p has been released, and p then set to n.
SetTo(p, n) == [x \in Pointers |-> IF x = p THEN n ELSE IF x \in FreedBy(p) THEN Null ELSE target[x]]

\* The invariant once p has been released and set to n, which something else
\* points to.
LEMMA SetKeeps ==
  ASSUME LinkedAssumption, LinkedInv, NEW p \in Pointers, Exists(p), p \notin FreedBy(p),
         NEW n \in Nodes \cup {Null},
         n # Null => \E q \in Pointers : q # p /\ q \notin FreedBy(p) /\ target[q] = n,
         target' = SetTo(p, n), refs' = Counted(Released(p), n)
  PROVE  LinkedInv'
<1>1. /\ target \in [Pointers -> Nodes \cup {Null}] /\ Null \notin Nodes
      /\ \A m \in Nodes : refs[m] = 0 => target[m] = Null
  BY DEF LinkedInv, LinkedAssumption
<1>2. \A m \in Nodes :
        /\ Released(p)[m] \in Nat /\ Released(p)[m] = Cardinality(KeptOwners(p, m))
        /\ IsFiniteSet(KeptOwners(p, m))
        /\ m \in FreedBy(p) => KeptOwners(p, m) = {}
        /\ Released(p)[m] = 0 => m \in FreedBy(p) \/ refs[m] = 0
  BY ReleasedCounts
<1>3. \A x \in Pointers : target'[x] = IF x = p THEN n ELSE IF x \in FreedBy(p) THEN Null ELSE target[x]
  BY DEF SetTo
<1>4. target' \in [Pointers -> Nodes \cup {Null}]
  BY <1>1 DEF SetTo
<1>5. /\ refs' \in [Nodes -> Nat]
      /\ \A m \in Nodes : refs'[m] = IF m = n THEN Released(p)[m] + 1 ELSE Released(p)[m]
  <2>1. Released(p) \in [Nodes -> Nat]
    BY <1>2 DEF Released
  <2> QED BY <1>1, <2>1 DEF Counted
<1>6. ASSUME NEW m \in Nodes, refs'[m] = 0 PROVE target'[m] = Null
  <2>1. Released(p)[m] = 0
    BY <1>2, <1>5, <1>6
  <2>2. m \in FreedBy(p) \/ refs[m] = 0
    BY <1>2, <2>1
  <2>3. m # p /\ m \in Pointers
    <3>1. p \in Nodes => refs[p] # 0
      BY DEF Exists
    <3> QED BY <2>2, <3>1 DEF Pointers
  <2> QED BY <1>1, <1>3, <2>2, <2>3
<1>7. ASSUME NEW m \in Nodes PROVE refs'[m] = Cardinality(OwnersOf(m)')
  <2>1. OwnersOf(m)' = {x \in Pointers : target'[x] = m}
    BY DEF OwnersOf
  <2>2. CASE m # n
    <3>1. OwnersOf(m)' = KeptOwners(p, m)
      BY <1>1, <1>3, <2>1, <2>2 DEF KeptOwners
    <3> QED BY <1>2, <1>5, <2>2, <3>1
  <2>3. CASE m = n
    <3>1. OwnersOf(m)' = KeptOwners(p, m) \cup {p} /\ p \notin KeptOwners(p, m)
      BY <1>1, <1>3, <2>1, <2>3 DEF KeptOwners
    <3>2. Cardinality(KeptOwners(p, m) \cup {p}) = Cardinality(KeptOwners(p, m)) + 1
      BY <1>2, <3>1, FS_AddElement
    <3> QED BY <1>2, <1>5, <2>3, <3>1, <3>2
  <2> QED BY <2>2, <2>3
<1> QED BY <1>4, <1>5, <1>6, <1>7 DEF LinkedInv

-----------------------------------------------------------------------------
(* The operations *)

LEMMA InitCounts ==
  ASSUME LinkedAssumption, InitLinked
  PROVE  LinkedInv
<1>1. \A n \in Nodes : OwnersOf(n) = {}
  BY DEF InitLinked, OwnersOf, LinkedAssumption
<1>2. \A n \in Nodes : Cardinality(OwnersOf(n)) = 0
  BY <1>1, FS_EmptySet
<1> QED BY <1>2 DEF InitLinked, LinkedInv, Pointers

\* p = make_shared<node>()
LEMMA NewCounts ==
  ASSUME LinkedAssumption, LinkedInv, NEW p \in Pointers, New(p)
  PROVE  LinkedInv'
<1>1. PICK n \in Nodes :
        /\ refs[n] = 0 /\ Exists(p) /\ target[p] = Null
        /\ target' = [target EXCEPT ![p] = n] /\ refs' = [refs EXCEPT ![n] = 1]
  BY DEF New, MayAssign
<1>2. /\ target \in [Pointers -> Nodes \cup {Null}] /\ refs \in [Nodes -> Nat]
      /\ \A m \in Nodes : refs[m] = 0 => target[m] = Null
      /\ \A m \in Nodes : refs[m] = Cardinality(OwnersOf(m))
      /\ Null \notin Nodes
  BY DEF LinkedInv, LinkedAssumption
<1>3. target' \in [Pointers -> Nodes \cup {Null}] /\ refs' \in [Nodes -> Nat]
  BY <1>1, <1>2
<1>4. ASSUME NEW m \in Nodes, refs'[m] = 0 PROVE target'[m] = Null
  <2>1. m # n /\ refs[m] = 0
    BY <1>1, <1>2, <1>4
  <2>2. m # p
    <3>1. p \in Nodes => refs[p] > 0
      BY <1>1 DEF Exists
    <3> QED BY <1>2, <2>1, <3>1
  <2> QED BY <1>1, <1>2, <2>1, <2>2
<1>5. ASSUME NEW m \in Nodes PROVE refs'[m] = Cardinality(OwnersOf(m)')
  <2>1. CASE m = n
    <3>1. OwnersOf(n) = {}
      BY <1>1, OwnersAreFinite
    <3>2. OwnersOf(n)' = {p}
      BY <1>1, <1>2, <3>1 DEF OwnersOf
    <3> QED BY <1>1, <1>2, <2>1, <3>2, FS_Singleton
  <2>2. CASE m # n
    <3>1. OwnersOf(m)' = OwnersOf(m)
      BY <1>1, <1>2, <2>2 DEF OwnersOf
    <3> QED BY <1>1, <1>2, <2>2, <3>1
  <2> QED BY <2>1, <2>2
<1> QED BY <1>3, <1>4, <1>5 DEF LinkedInv
\* p = q
LEMMA AssignCounts ==
  ASSUME LinkedAssumption, KeepsSources, LinkedInv,
         NEW p \in Pointers, NEW q \in Pointers, Assign(p, q)
  PROVE  LinkedInv'
<1>1. /\ Exists(p) /\ p \notin FreedBy(p) /\ target[p] # target[q] /\ q \notin FreedBy(p)
      /\ target' = [Cleared(p) EXCEPT ![p] = target[q]]
      /\ refs' = Counted(Released(p), target[q])
  BY DEF Assign, MayAssign, Keeps, ReadAfter
<1>2. target[q] \in Nodes \cup {Null}
  BY DEF LinkedInv
<1>3. target' = SetTo(p, target[q])
  BY <1>1 DEF Cleared, SetTo
<1> QED BY <1>1, <1>2, <1>3, SetKeeps

\* p.reset()
LEMMA ReleaseCounts ==
  ASSUME LinkedAssumption, LinkedInv, NEW p \in Pointers, ResetPointer(p)
  PROVE  LinkedInv'
<1>1. /\ Exists(p) /\ p \notin FreedBy(p)
      /\ target' = [Cleared(p) EXCEPT ![p] = Null] /\ refs' = Released(p)
  BY DEF ResetPointer, MayAssign
<1>2. target' = SetTo(p, Null) /\ refs' = Counted(Released(p), Null)
  BY <1>1 DEF Cleared, SetTo, Counted
<1> QED BY <1>1, <1>2, SetKeeps

\* p = std::move(q)
LEMMA MoveAssignCounts ==
  ASSUME LinkedAssumption, KeepsSources, LinkedInv,
         NEW p \in Pointers, NEW q \in Pointers, MoveAssign(p, q)
  PROVE  LinkedInv'
<1> DEFINE n == target[q]
<1>1. /\ Exists(p) /\ p \notin FreedBy(p) /\ p # q /\ q \notin FreedBy(p)
      /\ target' = [Cleared(p) EXCEPT ![p] = n, ![q] = Null]
      /\ refs' = Released(p)
  BY DEF MoveAssign, MayAssign, Keeps, ReadAfter
<1>2. /\ target \in [Pointers -> Nodes \cup {Null}] /\ Null \notin Nodes
      /\ \A m \in Nodes : refs[m] = 0 => target[m] = Null
      /\ n \in Nodes \cup {Null}
  BY DEF LinkedInv, LinkedAssumption
<1>3. \A m \in Nodes :
        /\ Released(p)[m] \in Nat /\ Released(p)[m] = Cardinality(KeptOwners(p, m))
        /\ IsFiniteSet(KeptOwners(p, m))
        /\ m \in FreedBy(p) => KeptOwners(p, m) = {}
        /\ Released(p)[m] = 0 => m \in FreedBy(p) \/ refs[m] = 0
  BY <1>1, ReleasedCounts
<1>4. \A x \in Pointers : target'[x] =
        IF x = p THEN n ELSE IF x = q \/ x \in FreedBy(p) THEN Null ELSE target[x]
  BY <1>1 DEF Cleared
<1>5. target' \in [Pointers -> Nodes \cup {Null}] /\ refs' \in [Nodes -> Nat]
  <2>1. target' \in [Pointers -> Nodes \cup {Null}]
    BY <1>1, <1>2 DEF Cleared
  <2>2. refs' \in [Nodes -> Nat]
    BY <1>1, <1>3 DEF Released
  <2> QED BY <2>1, <2>2
<1> HIDE DEF n
<1>6. ASSUME NEW m \in Nodes, refs'[m] = 0 PROVE target'[m] = Null
  <2>1. m \in FreedBy(p) \/ refs[m] = 0
    BY <1>1, <1>3, <1>6
  <2>2. m # p /\ m \in Pointers
    <3>1. p \in Nodes => refs[p] # 0
      BY <1>1 DEF Exists
    <3> QED BY <1>1, <2>1, <3>1 DEF Pointers
  <2> QED BY <1>2, <1>4, <2>1, <2>2
<1>7. ASSUME NEW m \in Nodes PROVE refs'[m] = Cardinality(OwnersOf(m)')
  <2>1. OwnersOf(m)' = {x \in Pointers : target'[x] = m}
    BY DEF OwnersOf
  <2>2. CASE m # n
    <3>1. OwnersOf(m)' = KeptOwners(p, m)
      BY <1>2, <1>4, <2>1, <2>2 DEF KeptOwners, n
    <3> QED BY <1>1, <1>3, <3>1
  <2>3. CASE m = n
    <3>1. OwnersOf(m)' = (KeptOwners(p, m) \ {q}) \cup {p} /\ p \notin KeptOwners(p, m) \ {q} /\ q \in KeptOwners(p, m)
      <4>1. q \in KeptOwners(p, m) /\ p \notin KeptOwners(p, m)
        BY <1>1, <2>3 DEF KeptOwners, n
      <4>2. ASSUME NEW x \in Pointers
            PROVE  target'[x] = m <=> x \in (KeptOwners(p, m) \ {q}) \cup {p}
        <5>1. CASE x = p
          BY <1>4, <2>3, <5>1
        <5>2. CASE x = q
          BY <1>1, <1>2, <1>4, <5>2
        <5>3. CASE x # p /\ x # q /\ x \in FreedBy(p)
          BY <1>2, <1>4, <5>3 DEF KeptOwners
        <5>4. CASE x # p /\ x # q /\ x \notin FreedBy(p)
          BY <1>4, <5>4 DEF KeptOwners
        <5> QED BY <5>1, <5>2, <5>3, <5>4
      <4>3. (KeptOwners(p, m) \ {q}) \cup {p} \subseteq Pointers
        BY DEF KeptOwners
      <4>4. OwnersOf(m)' = (KeptOwners(p, m) \ {q}) \cup {p}
        BY <2>1, <4>2, <4>3
      <4> QED BY <4>1, <4>4
    <3>2. /\ IsFiniteSet(KeptOwners(p, m) \ {q})
          /\ Cardinality(KeptOwners(p, m) \ {q}) = Cardinality(KeptOwners(p, m)) - 1
      BY <1>3, <3>1, FS_RemoveElement
    <3>3. Cardinality((KeptOwners(p, m) \ {q}) \cup {p}) = Cardinality(KeptOwners(p, m) \ {q}) + 1
      BY <3>1, <3>2, FS_AddElement
    <3>4. Cardinality(KeptOwners(p, m)) \in Nat /\ Cardinality(KeptOwners(p, m)) = refs'[m]
      BY <1>1, <1>3
    <3> QED BY <3>1, <3>2, <3>3, <3>4
  <2> QED BY <2>2, <2>3
<1> QED BY <1>5, <1>6, <1>7 DEF LinkedInv

LEMMA StepCounts ==
  ASSUME LinkedAssumption, KeepsSources, LinkedInv, [NextLinked]_linkedVars
  PROVE  LinkedInv'
<1>1. CASE NextLinked
  BY <1>1, NewCounts, ReleaseCounts, AssignCounts, MoveAssignCounts DEF NextLinked
<1>2. CASE UNCHANGED linkedVars
  <2>1. target' = target /\ refs' = refs
    BY <1>2 DEF linkedVars
  <2> QED BY <2>1 DEF LinkedInv, OwnersOf
<1> QED BY <1>1, <1>2
-----------------------------------------------------------------------------
(* What pointers lead to *)

\* One step of Reached.
ReachedStep(f, k) == [S \in SUBSET Nodes |-> IF k = 0 THEN S ELSE S \cup f[k - 1][Targets(S)]]

LEMMA ReachedExists ==
  ASSUME Most \in Nat
  PROVE  \E f : f = [k \in 0 .. Most |-> ReachedStep(f, k)]
<1> DEFINE P(j) == \E f : f = [k \in 0 .. j |-> ReachedStep(f, k)]
           I == {j \in Nat : P(j)}
<1>1. P(0)
  <2> DEFINE g == [k \in 0 .. 0 |-> [S \in SUBSET Nodes |-> S]]
  <2>1. g = [k \in 0 .. 0 |-> ReachedStep(g, k)]
    BY DEF ReachedStep
  <2> QED BY <2>1
<1>2. ASSUME NEW j \in Nat, P(j) PROVE P(j + 1)
  <2>1. PICK f : f = [k \in 0 .. j |-> ReachedStep(f, k)]
    BY <1>2
  <2> DEFINE g == [k \in 0 .. j + 1 |-> IF k = j + 1 THEN ReachedStep(f, j + 1) ELSE f[k]]
  <2>2. \A k \in 0 .. j + 1 : k # 0 => g[k - 1] = f[k - 1]
    OBVIOUS
  <2>3. \A k \in 0 .. j + 1 : ReachedStep(g, k) = ReachedStep(f, k)
    BY <2>2 DEF ReachedStep
  <2>4. \A k \in 0 .. j : f[k] = ReachedStep(f, k)
    BY <2>1
  <2>5. \A k \in 0 .. j + 1 : g[k] = ReachedStep(g, k)
    BY <2>3, <2>4
  <2>6. g = [k \in 0 .. j + 1 |-> ReachedStep(g, k)]
    BY <2>5
  <2> QED BY <2>6
<1> HIDE DEF P
<1>3. 0 \in I /\ \A j \in 0 .. Most - 1 : j \in I => j + 1 \in I
  BY <1>1, <1>2
<1> HIDE DEF I
<1>4. Most \in I
  BY <1>3, ByInduction
<1> QED BY <1>4 DEF I, P

LEMMA ReachedUnfolds ==
  ASSUME Most \in Nat
  PROVE  /\ \A S \in SUBSET Nodes : Reached[0][S] = S
         /\ \A k \in 0 .. Most - 1, S \in SUBSET Nodes :
              Reached[k + 1][S] = S \cup Reached[k][Targets(S)]
<1>1. Reached = CHOOSE f : f = [k \in 0 .. Most |-> ReachedStep(f, k)]
  BY DEF Reached, ReachedStep, Most
<1>2. PICK f : f = [k \in 0 .. Most |-> ReachedStep(f, k)]
  BY ReachedExists
<1>3. Reached = [k \in 0 .. Most |-> ReachedStep(Reached, k)]
  BY <1>1, <1>2
<1> HIDE DEF Reached
<1>4. \A k \in 0 .. Most : Reached[k] = ReachedStep(Reached, k)
  BY <1>3
<1>5. ASSUME NEW S \in SUBSET Nodes PROVE Reached[0][S] = S
  <2>1. Reached[0] = ReachedStep(Reached, 0)
    BY <1>4
  <2> QED BY <2>1 DEF ReachedStep
<1>6. ASSUME NEW k \in 0 .. Most - 1, NEW S \in SUBSET Nodes
      PROVE  Reached[k + 1][S] = S \cup Reached[k][Targets(S)]
  <2>1. Reached[k + 1] = ReachedStep(Reached, k + 1) /\ k + 1 # 0 /\ k + 1 - 1 = k
    BY <1>4
  <2>2. ReachedStep(Reached, k + 1)[S] = S \cup Reached[k][Targets(S)]
    BY <2>1 DEF ReachedStep
  <2> QED BY <2>1, <2>2
<1> QED BY <1>5, <1>6

LEMMA TargetsAreNodes ==
  ASSUME Leads, NEW S, S \subseteq Pointers
  PROVE  /\ Targets(S) \in SUBSET Nodes
         /\ \A m : m \in Targets(S) <=> m # Null /\ \E x \in S : target[x] = m
BY DEF Targets, Leads

\* A set of nodes that leads to itself only.
Kind(X) == X \in SUBSET Nodes /\ Targets(X) \subseteq X

LEMMA ReachedIsWithin ==
  ASSUME Most \in Nat, Leads, NEW X, Kind(X)
  PROVE  \A k \in 0 .. Most : \A S \in SUBSET X : Reached[k][S] \subseteq X
<1> DEFINE I == {k \in Nat : \A S \in SUBSET X : Reached[k][S] \subseteq X}
<1>1. 0 \in I
  <2>1. \A S \in SUBSET X : Reached[0][S] = S
    BY ReachedUnfolds DEF Kind
  <2> QED BY <2>1
<1>2. ASSUME NEW k \in 0 .. Most - 1, k \in I PROVE k + 1 \in I
  <2> SUFFICES ASSUME NEW S \in SUBSET X PROVE Reached[k + 1][S] \subseteq X
    OBVIOUS
  <2>1. S \in SUBSET Nodes
    BY DEF Kind
  <2>2. Targets(S) \in SUBSET X
    BY DEF Targets, Kind
  <2>3. Reached[k][Targets(S)] \subseteq X
    BY <1>2, <2>2
  <2>4. Reached[k + 1][S] = S \cup Reached[k][Targets(S)]
    BY <2>1, ReachedUnfolds
  <2> QED BY <2>3, <2>4
<1> HIDE DEF I
<1>3. \A k \in 0 .. Most : k \in I
  BY <1>1, <1>2, ByInduction
<1> QED BY <1>3 DEF I

\* One level more has what the one before leads to, and nothing is lost.
Widens(k, S) ==
  Reached[k][S] \subseteq Reached[k + 1][S] /\ Targets(Reached[k][S]) \subseteq Reached[k + 1][S]

LEMMA ReachedWidens ==
  ASSUME Most \in Nat, Leads
  PROVE  \A k \in 0 .. Most - 1 : \A S \in SUBSET Nodes : Widens(k, S)
<1> DEFINE I == {k \in Nat : k <= Most - 1 => \A S \in SUBSET Nodes : Widens(k, S)}
<1>1. \A S \in SUBSET Nodes : Targets(S) \in SUBSET Nodes
  BY TargetsAreNodes DEF Pointers
<1>2. 0 \in I
  <2> SUFFICES ASSUME 0 <= Most - 1, NEW S \in SUBSET Nodes PROVE Widens(0, S)
    OBVIOUS
  <2>1. Reached[0][S] = S /\ Reached[0][Targets(S)] = Targets(S)
    BY <1>1, ReachedUnfolds
  <2>2. 0 \in 0 .. Most - 1
    OBVIOUS
  <2>3. Reached[0 + 1][S] = S \cup Reached[0][Targets(S)]
    BY <2>2, ReachedUnfolds
  <2> QED BY <2>1, <2>3 DEF Widens
<1>3. ASSUME NEW k \in 0 .. Most - 1, k \in I PROVE k + 1 \in I
  <2> SUFFICES ASSUME k + 1 <= Most - 1, NEW S \in SUBSET Nodes PROVE Widens(k + 1, S)
    OBVIOUS
  <2> DEFINE T == Targets(S)
  <2>1. Widens(k, T)
    BY <1>1, <1>3
  <2>2. Reached[k + 1][S] = S \cup Reached[k][T]
    BY ReachedUnfolds
  <2>3. k + 1 \in 0 .. Most - 1
    OBVIOUS
  <2>4. Reached[k + 1 + 1][S] = S \cup Reached[k + 1][T]
    BY <2>3, ReachedUnfolds
  <2>5. T \subseteq Reached[k + 1][T]
    BY <1>1, ReachedUnfolds
  <2>6. Targets(Reached[k + 1][S]) \subseteq T \cup Targets(Reached[k][T])
    BY <2>2 DEF Targets
  <2> QED BY <2>1, <2>2, <2>4, <2>5, <2>6 DEF Widens
<1> HIDE DEF I
<1>4. \A k \in 0 .. Most : k \in I
  BY <1>2, <1>3, ByInduction
<1> QED BY <1>4 DEF I

\* Reachable(S) is the least set of nodes that has S and leads to itself only.
LEMMA ReachableIsLeast ==
  ASSUME LinkedAssumption, Leads, NEW S \in SUBSET Nodes
  PROVE  /\ S \subseteq Reachable(S) /\ Kind(Reachable(S))
         /\ \A X : Kind(X) /\ S \subseteq X => Reachable(S) \subseteq X
<1>1. Most \in Nat /\ IsFiniteSet(Nodes)
  BY MostIsNatural
<1> DEFINE C(k) == Reached[k][S]
           I == {k \in Nat : Kind(C(k)) \/ Cardinality(C(k)) >= k}
<1>2. Kind(Nodes)
  BY TargetsAreNodes DEF Kind, Pointers
<1>3. \A k \in 0 .. Most : C(k) \in SUBSET Nodes /\ IsFiniteSet(C(k)) /\ Cardinality(C(k)) \in Nat
  <2> TAKE k \in 0 .. Most
  <2>1. C(k) \in SUBSET Nodes
    BY <1>1, <1>2, ReachedIsWithin
  <2> QED BY <1>1, <2>1, FS_Subset, FS_CardinalityType
<1>4. \A k \in 0 .. Most - 1 : Widens(k, S)
  BY <1>1, ReachedWidens
<1>5. \A k \in 0 .. Most : S \subseteq C(k)
  <2>1. S \subseteq C(0)
    BY <1>1, ReachedUnfolds
  <2>2. \A k \in 0 .. Most - 1 : S \subseteq C(k + 1)
    BY <1>1, ReachedUnfolds
  <2>3. ASSUME NEW k \in 0 .. Most, k # 0 PROVE S \subseteq C(k)
    <3>1. k - 1 \in 0 .. Most - 1 /\ k - 1 + 1 = k
      BY <1>1, <2>3
    <3>2. S \subseteq C(k - 1 + 1)
      BY <2>2, <3>1
    <3> QED BY <3>1, <3>2
  <2> QED BY <2>1, <2>3
<1>6. 0 \in I
  <2>1. Cardinality(C(0)) >= 0
    BY <1>1, <1>3
  <2> QED BY <2>1
<1>7. ASSUME NEW k \in 0 .. Most - 1, k \in I PROVE k + 1 \in I
  <2>1. k \in 0 .. Most /\ k + 1 \in 0 .. Most
    BY <1>1
  <2>2. C(k) \subseteq C(k + 1) /\ Targets(C(k)) \subseteq C(k + 1)
    BY <1>4 DEF Widens
  <2>3. CASE Kind(C(k))
    <3>1. C(k + 1) \subseteq C(k)
      BY <1>1, <1>5, <2>1, <2>3, ReachedIsWithin
    <3>2. C(k + 1) = C(k)
      BY <2>2, <3>1
    <3>3. Kind(C(k + 1))
      BY <2>3, <3>2
    <3> QED BY <3>3
  <2>4. CASE ~ Kind(C(k))
    <3>1. Cardinality(C(k)) >= k
      BY <1>7, <2>4
    <3>2. C(k) # C(k + 1)
      BY <1>3, <2>1, <2>2, <2>4 DEF Kind
    <3>3. Cardinality(C(k)) <= Cardinality(C(k + 1)) /\ Cardinality(C(k)) # Cardinality(C(k + 1))
      <4>1. IsFiniteSet(C(k + 1)) /\ C(k) \in SUBSET C(k + 1)
        BY <1>3, <2>1, <2>2
      <4> HIDE DEF C
      <4> QED BY <3>2, <4>1, FS_Subset
    <3>4. Cardinality(C(k + 1)) >= k + 1
      BY <1>3, <2>1, <3>1, <3>3
    <3> QED BY <3>4
  <2> QED BY <2>3, <2>4
<1>8. \A k \in 0 .. Most : k \in I
  <2> HIDE DEF I
  <2> QED BY <1>1, <1>6, <1>7, ByInduction
<1>9. Kind(C(Most))
  <2>1. Kind(C(Most)) \/ Cardinality(C(Most)) >= Most
    BY <1>1, <1>8
  <2>2. CASE Cardinality(C(Most)) >= Most
    <3>1. C(Most) \in SUBSET Nodes /\ Cardinality(C(Most)) \in Nat
      BY <1>1, <1>3
    <3> HIDE DEF C
    <3>2. Cardinality(C(Most)) <= Cardinality(Nodes)
      BY <1>1, <3>1, FS_Subset
    <3>3. Cardinality(C(Most)) = Cardinality(Nodes)
      BY <1>1, <2>2, <3>1, <3>2 DEF Most
    <3>4. C(Most) = Nodes
      BY <1>1, <3>1, <3>3, FS_Subset
    <3> QED BY <1>2, <3>4
  <2> QED BY <2>1, <2>2
<1>10. Reachable(S) = C(Most)
  BY DEF Reachable, Most
<1>11. \A X : Kind(X) /\ S \subseteq X => C(Most) \subseteq X
  BY <1>1, ReachedIsWithin
<1> QED BY <1>1, <1>5, <1>9, <1>10, <1>11

\* Every node that is there has an owner, so that going back from it one comes to
\* a root, or to a node one has been at.
LEMMA OnlyCyclesRemain ==
  ASSUME LinkedAssumption, LinkedInv
  PROVE  OnlyCyclesLeak
<1>1. Leads /\ Most \in Nat /\ IsFiniteSet(Nodes)
  BY MostIsNatural DEF LinkedInv, Leads, LinkedAssumption
<1> SUFFICES ASSUME NEW n \in Nodes, refs[n] > 0, n \notin Reachable(Targets(Roots))
             PROVE  \E m \in Nodes : refs[m] > 0 /\ m \in After(m) /\ n \in Reachable({m})
  BY DEF OnlyCyclesLeak
<1> DEFINE B == {m \in Nodes : refs[m] > 0 /\ n \in Reachable({m})}
           NodeCount(m) == Cardinality(Reachable({m}))
           D == {Most - NodeCount(m) : m \in B}
<1>2. \A m \in Nodes :
        /\ m \in Reachable({m}) /\ Kind(Reachable({m}))
        /\ \A X : Kind(X) /\ m \in X => Reachable({m}) \subseteq X
  BY <1>1, ReachableIsLeast
<1>3. \A m \in Nodes : IsFiniteSet(Reachable({m})) /\ NodeCount(m) \in 0 .. Most
  <2> TAKE m \in Nodes
  <2>1. Reachable({m}) \in SUBSET Nodes
    BY <1>2 DEF Kind
  <2>2. IsFiniteSet(Reachable({m})) /\ NodeCount(m) <= Cardinality(Nodes)
    BY <1>1, <2>1, FS_Subset
  <2>3. NodeCount(m) \in Nat
    BY <2>2, FS_CardinalityType
  <2> QED BY <1>1, <2>2, <2>3 DEF Most
<1>4. n \in B
  BY <1>2
<1>5. PICK m \in B : \A x \in B : NodeCount(x) <= NodeCount(m)
  <2>1. D \in SUBSET Nat /\ D # {}
    <3>1. Most - NodeCount(n) \in D
      BY <1>4
    <3>2. \A m \in B : NodeCount(m) \in 0 .. Most
      BY <1>3
    <3> HIDE DEF NodeCount, B
    <3>3. \A m \in B : Most - NodeCount(m) \in Nat
      BY <1>1, <3>2
    <3> QED BY <3>1, <3>3
  <2>2. PICK d \in D : \A e \in D : d <= e
    <3> HIDE DEF D
    <3> QED BY <2>1, LeastExists
  <2>3. PICK m \in B : d = Most - NodeCount(m)
    OBVIOUS
  <2>4. \A x \in B : Most - NodeCount(m) <= Most - NodeCount(x)
    BY <2>2, <2>3
  <2> HIDE DEF NodeCount, D
  <2>5. \A x \in B : NodeCount(x) <= NodeCount(m)
    BY <1>1, <1>3, <2>3, <2>4
  <2> QED BY <2>3, <2>5
<1>6. m \in Nodes /\ refs[m] > 0 /\ n \in Reachable({m})
  BY <1>5
<1>7. PICK o \in Pointers : target[o] = m
  <2>1. Cardinality(OwnersOf(m)) # 0
    BY <1>6 DEF LinkedInv
  <2>2. OwnersOf(m) # {}
    BY <2>1, FS_EmptySet
  <2> QED BY <2>2 DEF OwnersOf
<1>8. o \notin Roots
  <2> SUFFICES ASSUME o \in Roots PROVE FALSE
    OBVIOUS
  <2>1. Targets(Roots) \in SUBSET Nodes /\ m \in Targets(Roots)
    BY <1>1, <1>6, <1>7, TargetsAreNodes DEF Pointers, Leads
  <2>2. Kind(Reachable(Targets(Roots))) /\ m \in Reachable(Targets(Roots))
    BY <1>1, <2>1, ReachableIsLeast
  <2>3. Reachable({m}) \subseteq Reachable(Targets(Roots))
    BY <1>2, <1>6, <2>2
  <2> QED BY <1>6, <2>3
<1>9. o \in Nodes /\ refs[o] > 0
  <2>1. o \in Nodes
    BY <1>7, <1>8 DEF Pointers
  <2>2. refs[o] # 0 /\ refs[o] \in Nat
    BY <1>1, <1>6, <1>7, <2>1 DEF LinkedInv, Leads
  <2> QED BY <2>1, <2>2
<1>10. m \in Reachable({o})
  <2>1. o \in Reachable({o}) /\ Kind(Reachable({o}))
    BY <1>2, <1>9
  <2>2. m # Null
    BY <1>1, <1>6 DEF Leads
  <2> QED BY <1>7, <2>1, <2>2 DEF Kind, Targets
<1>11. Reachable({m}) \subseteq Reachable({o})
  BY <1>2, <1>6, <1>9, <1>10
<1>12. n \in Reachable({o}) /\ o \in B
  BY <1>6, <1>9, <1>11
<1>13. Reachable({m}) = Reachable({o})
  <2>1. NodeCount(o) <= NodeCount(m)
    BY <1>5, <1>12
  <2>2. IsFiniteSet(Reachable({o})) /\ Reachable({m}) \in SUBSET Reachable({o})
    BY <1>3, <1>9, <1>11
  <2>3. Cardinality(Reachable({m})) <= Cardinality(Reachable({o}))
    BY <2>2, FS_Subset
  <2>4. Cardinality(Reachable({m})) = Cardinality(Reachable({o}))
    BY <1>3, <1>6, <1>9, <2>1, <2>3
  <2> QED BY <2>2, <2>4, FS_Subset
<1>14. Targets({o}) = {m}
  BY <1>1, <1>6, <1>7 DEF Targets, Leads
<1>15. o \in After(o)
  BY <1>2, <1>9, <1>13, <1>14 DEF After
<1> QED BY <1>9, <1>12, <1>15

-----------------------------------------------------------------------------
(* The theorem *)

LEMMA CountsSuffice ==
  ASSUME LinkedAssumption, LinkedInv
  PROVE  LinkedTyped /\ CountsAreOwners
<1>1. IsFiniteSet(Pointers) /\ Null \notin Nodes
  BY MostIsNatural DEF LinkedAssumption
<1>2. CountsAreOwners
  <2> SUFFICES ASSUME NEW n \in Nodes
               PROVE  refs[n] = Cardinality({p \in Pointers : Exists(p) /\ target[p] = n})
    BY DEF CountsAreOwners
  <2>1. OwnersOf(n) = {p \in Pointers : Exists(p) /\ target[p] = n}
    BY <1>1 DEF OwnersOf, Exists, LinkedInv
  <2> QED BY <2>1 DEF LinkedInv
<1>3. ASSUME NEW n \in Nodes PROVE refs[n] \in 0 .. Cardinality(Pointers)
  <2>1. OwnersOf(n) \in SUBSET Pointers /\ refs[n] \in Nat /\ refs[n] = Cardinality(OwnersOf(n))
    BY DEF OwnersOf, LinkedInv
  <2>2. Cardinality(OwnersOf(n)) <= Cardinality(Pointers) /\ Cardinality(Pointers) \in Nat
    BY <1>1, <2>1, FS_Subset, FS_CardinalityType
  <2> QED BY <2>1, <2>2
<1>4. LinkedTyped
  BY <1>3 DEF LinkedTyped, LinkedInv
<1> QED BY <1>2, <1>4

\* Users keep the node a source lies in, or the code reads freed memory.  Then,
\* whatever cascades a release starts and whatever cycles there are: each count is
\* the number of pointers to the node that are there, and a node that no root leads
\* to is gone unless it is in a cycle or behind one (release, destructor).
THEOREM ReleasesComplete ==
  ASSUME LinkedAssumption, KeepsSources
  PROVE  SpecLinked => []ReleasesAreComplete
<1>1. InitLinked => LinkedInv
  BY InitCounts
<1>2. LinkedInv /\ [NextLinked]_linkedVars => LinkedInv'
  BY StepCounts
<1>3. LinkedInv => ReleasesAreComplete
  BY OnlyCyclesRemain, CountsSuffice DEF ReleasesAreComplete
<1> QED BY <1>1, <1>2, <1>3, PTL DEF SpecLinked
=============================================================================
