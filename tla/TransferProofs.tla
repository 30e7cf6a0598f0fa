--------------------------- MODULE TransferProofs ---------------------------
(***************************************************************************)
(* Arrays and views in several memories: TInv is inductive under           *)
(* SensibleTransfers, for every value of the constants.                    *)
(***************************************************************************)
EXTENDS MemoryTransferProperties, Integers, FiniteSetTheorems, SequenceTheorems,
        WellFoundedInduction, TLAPS

-----------------------------------------------------------------------------
(* The invariant *)

\* Numbers of elements the primitives are sound for.
Short(n) == n \in Nat /\ (Width = 2 => n <= 1)

\* Members in a row with room for whole elements, n of which are constructed.
Built(cells, n) ==
  /\ cells \in Seq(Leaves \cup {RawMember})
  /\ \E c \in Nat : Short(c) /\ Len(cells) = c * Width /\ n \in 0 .. c
  /\ \A k \in 1 .. Len(cells) : cells[k] # RawMember <=> k <= n * Width

\* No two members point to one leaf.
OnceIn(cells) == \A j, k \in DOMAIN cells : cells[j] = cells[k] /\ cells[j] # RawMember => j = k

ArrType  == [mem : Memories, size : Nat, cells : Seq(Leaves \cup {RawMember})]
ViewType == [src : Arrays, own : BOOLEAN, deep : BOOLEAN, size : Nat, cells : Seq(Leaves \cup {RawMember})]
LeafType == [mem : Memories, val : Values]
LeafMap(lf) == DOMAIN lf \subseteq Leaves /\ lf \in [DOMAIN lf -> LeafType]

ArraysFit ==
  /\ DOMAIN arr \subseteq Arrays /\ arr \in [DOMAIN arr -> ArrType]
  /\ \A a \in DOMAIN arr : Built(arr[a].cells, arr[a].size)

\* View w has its own elements, or its source is there; host code may read it.
ViewFits(w, arrays, lf) ==
  /\ w.own => Built(w.cells, w.size)
  /\ ~(w.own /\ w.deep) => w.src \in DOMAIN arrays
  /\ ~w.own => arrays[w.src].mem = ExecutionDefault
  /\ w.own /\ w.deep => \A l \in Held(w.cells) : lf[l].mem = ExecutionDefault

ViewsFit ==
  /\ DOMAIN view \subseteq Views /\ view \in [DOMAIN view -> ViewType]
  /\ \A v \in DOMAIN view : ViewFits(view[v], arr, leaf)

\* Owners, as a function to what they hold.
Holdings == [o \in Keepers |-> CellsOf(o)]

\* The owners in h divide the leaves of lf among them.
Owned(h, lf) ==
  /\ \A o \in DOMAIN h : Held(h[o]) \subseteq DOMAIN lf /\ OnceIn(h[o])
  /\ \A o, p \in DOMAIN h : o # p => Held(h[o]) \cap Held(h[p]) = {}
  /\ \A l \in DOMAIN lf : \E o \in DOMAIN h : l \in Held(h[o])

OthersFit == stray = {} /\ done \in [reported : BOOLEAN, worked : BOOLEAN]

OwnedNow == Owned(Holdings, leaf)

TInv == LeafMap(leaf) /\ ArraysFit /\ ViewsFit /\ OwnedNow /\ OthersFit

\* Calls the primitives are sound for: an element of two members is alone in
\* its array (with more, transfer_internal_memory of pairs runs beyond the
\* end), views by reference are of memory the host can name, and copy_data
\* finds a target of the size it needs (else it assigns to raw memory).
SensibleTransfers ==
  /\ TransferAssumption
  /\ Width = 2 => Lengths \subseteq {1}
  /\ "GPU" \notin ReferenceMemories
  /\ CopiesToNew = FALSE

-----------------------------------------------------------------------------
(* Induction *)

\* A set of naturals has a least element.
LEMMA LeastExists ==
  ASSUME NEW T \in SUBSET Nat, T # {}
  PROVE  \E x \in T : \A y \in T : x <= y
<1> DEFINE R == OpToRel(<, Nat)
<1>1. IsWellFoundedOn(R, Nat)
  BY NatLessThanWellFounded
<1>2. R = {ss \in Nat \X Nat : ss[1] < ss[2]}
  BY DEF OpToRel
<1> HIDE DEF R
<1>3. PICK x \in T : \A y \in T : ~ (<<y, x>> \in R)
  BY <1>1, WFMin
<1>4. ASSUME NEW y \in T PROVE x <= y
  <2>1. ~ (<<y, x>> \in R)
    BY <1>3
  <2>2. y \in Nat /\ x \in Nat
    OBVIOUS
  <2>3. <<y, x>> \in Nat \X Nat
    BY <2>2
  <2>4. ~ (y < x)
    BY <1>2, <2>1, <2>3
  <2> QED BY <2>2, <2>4
<1> QED BY <1>4

\* A set that has 0 and, with a number, the next one, up to k, has k.
LEMMA ByInduction ==
  ASSUME NEW S, NEW k \in Nat, 0 \in S, \A j \in 0 .. k - 1 : j \in S => j + 1 \in S
  PROVE  \A j \in 0 .. k : j \in S
<1> DEFINE Bad == {j \in 0 .. k : j \notin S}
<1>1. SUFFICES ASSUME Bad # {} PROVE FALSE
  OBVIOUS
<1>2. PICK x \in Bad : \A y \in Bad : x <= y
  <2>1. Bad \in SUBSET Nat
    OBVIOUS
  <2> HIDE DEF Bad
  <2> QED BY <1>1, <2>1, LeastExists
<1>3. x \in 0 .. k /\ x # 0 /\ x \notin S
  BY <1>2
<1>4. x - 1 \in 0 .. k - 1 /\ x - 1 \notin Bad
  BY <1>2, <1>3
<1>5. x - 1 \in S
  BY <1>3, <1>4
<1>6. x - 1 + 1 \in S
  BY <1>4, <1>5
<1>7. x - 1 + 1 = x
  BY <1>3
<1> QED BY <1>3, <1>6, <1>7

-----------------------------------------------------------------------------
(* Leaves *)

LEMMA LeastIsIn ==
  ASSUME NEW S \in SUBSET Nat, S # {}
  PROVE  Least(S) \in S
BY LeastExists DEF Least

\* Room for n more leaves, whatever lf is.
RoomFor(lf, n) == Cardinality(Leaves \ DOMAIN lf) >= n

LEMMA RoomGivesLeaf ==
  ASSUME TransferAssumption, NEW lf, NEW n \in Nat, n > 0, RoomFor(lf, n)
  PROVE  Least(Leaves \ DOMAIN lf) \in Leaves \ DOMAIN lf
<1> DEFINE F == Leaves \ DOMAIN lf
<1>1. F \in SUBSET Nat /\ IsFiniteSet(F)
  BY FS_Subset DEF TransferAssumption
<1>2. Cardinality(F) >= n /\ Cardinality(F) \in Nat
  BY <1>1, FS_CardinalityType DEF RoomFor
<1>3. F # {}
  BY <1>1, <1>2, FS_EmptySet
<1> HIDE DEF F
<1>4. Least(F) \in F
  BY <1>1, <1>3, LeastIsIn
<1> QED BY <1>4 DEF F

LEMMA RoomShrinks ==
  ASSUME TransferAssumption, NEW lf, NEW nlf, NEW l, NEW n \in Nat, n > 0, RoomFor(lf, n),
         DOMAIN nlf \subseteq DOMAIN lf \cup {l}
  PROVE  RoomFor(nlf, n - 1)
<1> DEFINE F == Leaves \ DOMAIN lf
           G == Leaves \ DOMAIN nlf
<1>1. IsFiniteSet(F) /\ IsFiniteSet(G) /\ F \ {l} \subseteq G
  BY FS_Subset DEF TransferAssumption
<1>2. Cardinality(F) \in Nat /\ Cardinality(F) >= n
  BY <1>1, FS_CardinalityType DEF RoomFor
<1> HIDE DEF F, G
<1>3. IsFiniteSet(F \ {l}) /\ Cardinality(F \ {l}) \in Nat /\ Cardinality(F \ {l}) >= Cardinality(F) - 1
  <2>1. IsFiniteSet(F \ {l})
    BY <1>1, FS_RemoveElement
  <2>2. Cardinality(F \ {l}) = IF l \in F THEN Cardinality(F) - 1 ELSE Cardinality(F)
    BY <1>1, FS_RemoveElement
  <2>3. Cardinality(F \ {l}) \in Nat
    BY <2>1, FS_CardinalityType
  <2> QED BY <1>2, <2>1, <2>2, <2>3
<1>4. Cardinality(F \ {l}) <= Cardinality(G) /\ Cardinality(G) \in Nat
  BY <1>1, FS_Subset, FS_CardinalityType
<1> QED BY <1>2, <1>3, <1>4 DEF RoomFor, G

-----------------------------------------------------------------------------
(* Members that are given new leaves one after the other *)

\* was is what is left of cells and lf after members 1 to i took new leaves
\* in memory m, and gave back the old ones if release says so.
Passed(was, i, cells, lf, m, release) ==
  LET kept == DOMAIN lf \ (IF release THEN {cells[j] : j \in 1 .. i} ELSE {})
  IN  /\ was.cells \in Seq(Leaves \cup {RawMember}) /\ Len(was.cells) = Len(cells)
      /\ \A k \in 1 .. Len(cells) : IF k <= i THEN was.cells[k] \in Leaves ELSE was.cells[k] = cells[k]
      /\ \A j, k \in 1 .. i : was.cells[j] = was.cells[k] => j = k
      /\ LeafMap(was.leaf)
      /\ DOMAIN was.leaf = kept \cup {was.cells[j] : j \in 1 .. i}
      /\ \A j \in 1 .. i : was.cells[j] \notin kept /\ was.leaf[was.cells[j]].mem = m
      /\ \A l \in kept : was.leaf[l] = lf[l]

\* nlf has what is left of lf without X, and leaf l in memory m.
Leafed(nlf, lf, X, l, m) ==
  /\ LeafMap(nlf) /\ DOMAIN nlf = (DOMAIN lf \ X) \cup {l} /\ nlf[l].mem = m
  /\ \A y \in DOMAIN lf \ X : nlf[y] = lf[y]

LEMMA PassedNone ==
  ASSUME NEW cells \in Seq(Leaves \cup {RawMember}), NEW lf, LeafMap(lf), NEW m, NEW release \in BOOLEAN,
         NEW was, was.cells = cells, was.leaf = lf
  PROVE  Passed(was, 0, cells, lf, m, release)
<1>1. 1 .. 0 = {}
  OBVIOUS
<1>2. DOMAIN lf \ (IF release THEN {cells[j] : j \in 1 .. 0} ELSE {}) = DOMAIN lf
  BY <1>1
<1>3. {was.cells[j] : j \in 1 .. 0} = {}
  BY <1>1
<1>4. \A k \in 1 .. Len(cells) : ~(k <= 0)
  OBVIOUS
<1> QED BY <1>1, <1>2, <1>3, <1>4 DEF Passed

\* The leaf a member gives back, if it does.
Back(c, release) == IF release THEN {c} ELSE {}

\* From was to next member i + 1 takes leaf l.
Takes(next, was, i, cells, lf, l, m, release) ==
  /\ l \in Leaves /\ l \notin DOMAIN was.leaf \ Back(cells[i + 1], release)
  /\ next.cells = [was.cells EXCEPT ![i + 1] = l]
  /\ Leafed(next.leaf, was.leaf, Back(cells[i + 1], release), l, m)
  /\ release => /\ cells[i + 1] \in DOMAIN lf
                /\ \A j \in 1 .. i : cells[j] # cells[i + 1]

\* The next member takes its leaf.
LEMMA PassedOneMore ==
  ASSUME NEW cells \in Seq(Leaves \cup {RawMember}), NEW lf, LeafMap(lf), NEW m, NEW release \in BOOLEAN,
         NEW i \in Nat, i < Len(cells), NEW was, Passed(was, i, cells, lf, m, release),
         NEW l, NEW next, Takes(next, was, i, cells, lf, l, m, release)
  PROVE  Passed(next, i + 1, cells, lf, m, release)
<1> DEFINE kept == DOMAIN lf \ (IF release THEN {cells[j] : j \in 1 .. i} ELSE {})
           left == DOMAIN lf \ (IF release THEN {cells[j] : j \in 1 .. i + 1} ELSE {})
           new  == {was.cells[j] : j \in 1 .. i}
           X    == Back(cells[i + 1], release)
<1>18. /\ X = IF release THEN {cells[i + 1]} ELSE {}
       /\ l \in Leaves /\ l \notin DOMAIN was.leaf \ X
       /\ next.cells = [was.cells EXCEPT ![i + 1] = l]
       /\ Leafed(next.leaf, was.leaf, X, l, m)
       /\ release => /\ cells[i + 1] \in DOMAIN lf
                     /\ \A j \in 1 .. i : cells[j] # cells[i + 1]
  BY DEF Takes, Back
<1> HIDE DEF X
<1>1. /\ was.cells \in Seq(Leaves \cup {RawMember}) /\ Len(was.cells) = Len(cells)
      /\ \A k \in 1 .. Len(cells) : IF k <= i THEN was.cells[k] \in Leaves ELSE was.cells[k] = cells[k]
      /\ \A j, k \in 1 .. i : was.cells[j] = was.cells[k] => j = k
  BY DEF Passed
<1>2. /\ DOMAIN was.leaf = kept \cup new
      /\ \A j \in 1 .. i : was.cells[j] \notin kept /\ was.leaf[was.cells[j]].mem = m
      /\ \A y \in kept : was.leaf[y] = lf[y]
  BY DEF Passed
<1>17. /\ LeafMap(next.leaf) /\ DOMAIN next.leaf = (DOMAIN was.leaf \ X) \cup {l} /\ next.leaf[l].mem = m
       /\ \A y \in DOMAIN was.leaf \ X : next.leaf[y] = was.leaf[y]
  BY <1>18 DEF Leafed
<1>3. 1 .. i + 1 = 1 .. i \cup {i + 1} /\ i + 1 \in 1 .. Len(cells) /\ Len(cells) \in Nat
  OBVIOUS
<1>4. left = kept \ X
  BY <1>3, <1>18
<1>5. release => cells[i + 1] \in kept
  BY <1>18
<1>6. X \cap new = {}
  BY <1>2, <1>5, <1>18
<1>7. next.cells \in Seq(Leaves \cup {RawMember}) /\ Len(next.cells) = Len(cells)
  BY <1>1, <1>3, <1>18
<1>8. \A k \in 1 .. Len(cells) : next.cells[k] = IF k = i + 1 THEN l ELSE was.cells[k]
  BY <1>1, <1>3, <1>18
<1>9. {next.cells[j] : j \in 1 .. i + 1} = new \cup {l}
  BY <1>3, <1>8
<1> HIDE DEF kept, left, new
<1>10. \A k \in 1 .. Len(cells) : IF k <= i + 1 THEN next.cells[k] \in Leaves ELSE next.cells[k] = cells[k]
  BY <1>1, <1>3, <1>8, <1>18
<1>11. \A j \in 1 .. i : was.cells[j] \in new /\ next.cells[j] = was.cells[j] /\ j \in 1 .. Len(cells)
  BY <1>3, <1>8 DEF new
<1>12. l \notin new /\ l \notin left /\ next.cells[i + 1] = l
  BY <1>2, <1>3, <1>4, <1>6, <1>8, <1>18
<1>13. \A j, k \in 1 .. i + 1 : next.cells[j] = next.cells[k] => j = k
  BY <1>1, <1>3, <1>11, <1>12
<1>14. DOMAIN next.leaf = left \cup {next.cells[j] : j \in 1 .. i + 1}
  BY <1>2, <1>4, <1>6, <1>9, <1>17
<1>15. ASSUME NEW j \in 1 .. i + 1 PROVE next.cells[j] \notin left /\ next.leaf[next.cells[j]].mem = m
  <2>1. CASE j = i + 1
    BY <1>12, <1>17, <2>1
  <2>2. CASE j \in 1 .. i
    BY <1>2, <1>4, <1>6, <1>11, <1>17, <2>2
  <2> QED BY <1>3, <2>1, <2>2
<1>16. \A y \in left : next.leaf[y] = lf[y]
  BY <1>2, <1>4, <1>17
<1> QED BY <1>7, <1>10, <1>13, <1>14, <1>15, <1>16, <1>17 DEF Passed, left

\* What With and Without make of leaves.
LEMMA NewLeaf ==
  ASSUME NEW lf, LeafMap(lf), NEW X, NEW l \in Leaves, NEW m \in Memories, NEW x \in Values,
         NEW nlf, nlf = With(Without(lf, X), l, [mem |-> m, val |-> x]), l \notin DOMAIN lf \ X
  PROVE  Leafed(nlf, lf, X, l, m)
<1> DEFINE r == [mem |-> m, val |-> x]
           w == Without(lf, X)
<1>1. r \in LeafType /\ r.mem = m
  BY DEF LeafType
<1>2. DOMAIN w = DOMAIN lf \ X /\ \A y \in DOMAIN lf \ X : w[y] = lf[y]
  BY DEF Without
<1> HIDE DEF r, w
<1>3. nlf = With(w, l, r)
  BY DEF r, w
<1>4. /\ DOMAIN nlf = DOMAIN w \cup {l} /\ nlf[l] = r /\ nlf \in [DOMAIN w \cup {l} -> LeafType]
      /\ \A y \in DOMAIN w : y # l => nlf[y] = w[y]
  <2>1. \A y \in DOMAIN w : w[y] \in LeafType
    BY <1>2 DEF LeafMap
  <2> QED BY <1>1, <1>3, <2>1 DEF With
<1> QED BY <1>1, <1>2, <1>4 DEF LeafMap, Leafed

\* The same without a leaf given back.
LEMMA NewLeafOnly ==
  ASSUME NEW lf, LeafMap(lf), NEW l \in Leaves, NEW m \in Memories, NEW x \in Values,
         NEW nlf, nlf = With(lf, l, [mem |-> m, val |-> x]), l \notin DOMAIN lf
  PROVE  Leafed(nlf, lf, {}, l, m)
<1>1. Without(lf, {}) = lf
  BY DEF Without, LeafMap
<1>2. nlf = With(Without(lf, {}), l, [mem |-> m, val |-> x])
  BY <1>1
<1>3. l \notin DOMAIN lf \ {}
  OBVIOUS
<1> QED BY <1>2, <1>3, NewLeaf

-----------------------------------------------------------------------------
(* construct, transfer_internal_memory and the assignments of copy_data *)

\* With short arrays transfer_internal_memory passes on each member once.
LEMMA VisitsInOrder ==
  ASSUME TransferAssumption, NEW n, Short(n)
  PROVE  Visits(n) = [k \in 1 .. n * Width |-> k]
<1>1. CASE Width = 1
  <2>1. n * Width = n
    BY <1>1 DEF Short
  <2> QED BY <1>1, <2>1 DEF Visits
<1>2. CASE Width = 2
  <2> DEFINE E(f, i) == IF i = 0 THEN << >>
                        ELSE f[i - 1] \o [k \in 1 .. n |-> 2 * i - 2 + k]
                                      \o [k \in 1 .. n |-> 2 * i - 1 + k]
             pair == CHOOSE f : f = [i \in 0 .. n |-> E(f, i)]
  <2>1. Visits(n) = pair[n]
    BY <1>2 DEF Visits
  <2>2. CASE n = 0
    <3> DEFINE g == [i \in 0 .. 0 |-> << >>]
    <3>1. g = [i \in 0 .. n |-> E(g, i)]
      BY <2>2
    <3>2. pair = [i \in 0 .. n |-> E(pair, i)]
      BY <3>1
    <3> HIDE DEF pair
    <3>3. pair[n] = << >>
      BY <2>2, <3>2
    <3>4. [k \in 1 .. n * Width |-> k] = << >>
      BY <1>2, <2>2
    <3> QED BY <2>1, <3>3, <3>4
  <2>3. CASE n = 1
    <3> DEFINE one == [k \in 1 .. n |-> 2 * 1 - 2 + k]
               two == [k \in 1 .. n |-> 2 * 1 - 1 + k]
               g == [i \in 0 .. 1 |-> IF i = 0 THEN << >> ELSE << >> \o one \o two]
    <3>1. g = [i \in 0 .. n |-> E(g, i)]
      <4>1. \A i \in 0 .. 1 : i # 0 => i = 1 /\ g[i - 1] = << >>
        OBVIOUS
      <4>2. \A i \in 0 .. 1 : g[i] = E(g, i)
        BY <4>1
      <4> QED BY <2>3, <4>2
    <3>2. pair = [i \in 0 .. n |-> E(pair, i)]
      BY <3>1
    <3>3. pair[0] = << >> /\ pair[1] = pair[0] \o one \o two
      <4> HIDE DEF pair
      <4>1. pair[0] = E(pair, 0) /\ pair[1] = E(pair, 1)
        BY <2>3, <3>2
      <4>2. E(pair, 0) = << >> /\ E(pair, 1) = pair[0] \o one \o two
        OBVIOUS
      <4> QED BY <4>1, <4>2
    <3> HIDE DEF pair
    <3>4. one = <<1>> /\ two = <<2>>
      BY <2>3
    <3> HIDE DEF one, two
    <3>5. << >> \o <<1>> \o <<2>> = <<1, 2>>
      <4>1. << >> \o <<1>> = <<1>>
        BY <<1>> \in Seq(Nat), ConcatEmptySeq
      <4>2. <<1>> \o <<2>> = Append(<<1>>, 2)
        <5>1. <<1>> \in Seq(Nat) /\ 2 \in Nat
          OBVIOUS
        <5> QED BY <5>1, AppendIsConcat, Zenon
      <4>3. Append(<<1>>, 2) = <<1, 2>>
        <5> DEFINE s == Append(<<1>>, 2)
                   t == <<1, 2>>
        <5>1. s \in Seq(Nat) /\ Len(s) = 2 /\ s[1] = 1 /\ s[2] = 2
          OBVIOUS
        <5>2. t \in Seq(Nat) /\ Len(t) = 2 /\ t[1] = 1 /\ t[2] = 2
          OBVIOUS
        <5> HIDE DEF s, t
        <5>3. Len(s) = Len(t) /\ \A j \in 1 .. Len(s) : s[j] = t[j]
          BY <5>1, <5>2
        <5>4. s = t
          BY <5>1, <5>2, <5>3, SeqEqual
        <5> QED BY <5>4 DEF s, t
      <4> QED BY <4>1, <4>2, <4>3, Zenon
    <3>6. [k \in 1 .. n * Width |-> k] = <<1, 2>>
      <4>1. n * Width = 2 /\ 1 .. 2 = {1, 2}
        BY <1>2, <2>3
      <4> QED BY <4>1
    <3> QED BY <2>1, <2>3, <3>3, <3>4, <3>5, <3>6
  <2> QED BY <1>2, <2>2, <2>3 DEF Short
<1> QED BY <1>1, <1>2 DEF TransferAssumption

\* A pass over the first n members is at member i: what it has done, and the
\* leaves there are for the rest.
Going(was, i, n, cells, lf, m, release) ==
  /\ Passed(was, i, cells, lf, m, release)
  /\ RoomFor(was.leaf, n - i)
  /\ {"cells", "leaf"} \subseteq DOMAIN was

\* What a pass over the first n members of cells may start from.
Passable(cells, n, lf, m) ==
  /\ cells \in Seq(Leaves \cup {RawMember}) /\ n \in 0 .. Len(cells)
  /\ LeafMap(lf) /\ m \in Memories /\ RoomFor(lf, n)

\* The first n members point to different leaves.
Pointing(cells, n, lf) ==
  /\ \A k \in 1 .. n : cells[k] \in DOMAIN lf
  /\ \A j, k \in 1 .. n : cells[j] = cells[k] => j = k

LEMMA VisitGoesOn ==
  ASSUME TransferAssumption, NEW cells, NEW n, NEW lf, NEW m, Passable(cells, n, lf, m), Pointing(cells, n, lf),
         NEW release \in BOOLEAN, NEW i \in 0 .. n - 1, NEW was,
         Going(was, i, n, cells, lf, m, release), was.stray = {}, "stray" \in DOMAIN was
  PROVE  /\ Going(Visit(was, i + 1, m, release), i + 1, n, cells, lf, m, release)
         /\ Visit(was, i + 1, m, release).stray = {}
         /\ "stray" \in DOMAIN Visit(was, i + 1, m, release)
<1> DEFINE k == i + 1
           c == was.cells[k]
           l == Least(Leaves \ DOMAIN was.leaf)
           X == Back(cells[i + 1], release)
           nlf == With(IF release THEN Without(was.leaf, {c}) ELSE was.leaf, l,
                       [mem |-> m, val |-> was.leaf[c].val])
           next == Visit(was, k, m, release)
<1>1. n \in Nat /\ n <= Len(cells) /\ k \in 1 .. n /\ k \in 1 .. Len(cells) /\ i \in Nat /\ i < Len(cells)
      /\ n - i > 0 /\ n - i \in Nat
  BY DEF Passable
<1>2. Passed(was, i, cells, lf, m, release) /\ RoomFor(was.leaf, n - i)
  BY DEF Going
<1>3. c = cells[k] /\ k \in DOMAIN was.cells
  BY <1>1, <1>2 DEF Passed
<1>4. c \in DOMAIN was.leaf
  <2>1. c \in DOMAIN lf /\ \A j \in 1 .. i : cells[j] # c
    BY <1>1, <1>3 DEF Pointing
  <2> QED BY <1>2, <2>1 DEF Passed
<1>5. LeafMap(was.leaf)
  BY <1>2 DEF Passed
<1>6. was.leaf[c].val \in Values
  BY <1>4, <1>5 DEF LeafMap, LeafType
<1>7. l \in Leaves \ DOMAIN was.leaf
  BY <1>1, <1>2, RoomGivesLeaf
<1>8. Leafed(nlf, was.leaf, X, l, m)
  <2>1. m \in Memories
    BY DEF Passable
  <2>2. l \in Leaves /\ l \notin DOMAIN was.leaf /\ l \notin DOMAIN was.leaf \ X
    BY <1>7
  <2>3. CASE release
    <3>1. X = {c}
      BY <1>3, <2>3 DEF Back
    <3> DEFINE x == was.leaf[c].val
    <3>2. x \in Values
      BY <1>6
    <3> HIDE DEF x
    <3>3. nlf = With(Without(was.leaf, X), l, [mem |-> m, val |-> x])
      BY <2>3, <3>1 DEF x
    <3> HIDE DEF nlf, X, l
    <3> QED BY <1>5, <2>1, <2>2, <3>2, <3>3, NewLeaf
  <2>4. CASE ~release
    <3> DEFINE x == was.leaf[c].val
    <3>2. x \in Values
      BY <1>6
    <3> HIDE DEF x
    <3>3. nlf = With(was.leaf, l, [mem |-> m, val |-> x]) /\ X = {}
      BY <2>4 DEF x, Back
    <3> HIDE DEF nlf, X, l
    <3>4. Leafed(nlf, was.leaf, {}, l, m)
      BY <1>5, <2>1, <2>2, <3>2, <3>3, NewLeafOnly
    <3> QED BY <3>3, <3>4
  <2> QED BY <2>3, <2>4
<1>9. /\ next = [was EXCEPT !.cells[k] = l,
                    !.leaf = With(IF release THEN Without(@, {c}) ELSE @, l, [mem |-> m, val |-> @[c].val])]
  BY <1>3, <1>4 DEF Visit
<1>10. {"cells", "leaf"} \subseteq DOMAIN was
  BY DEF Going
<1> HIDE DEF l, c, k
<1>11. /\ next.cells = [was.cells EXCEPT ![k] = l] /\ next.leaf = nlf /\ next.stray = was.stray
       /\ DOMAIN next = DOMAIN was
  BY <1>9, <1>10
<1> HIDE DEF next, nlf, X
<1>13. next.cells = [was.cells EXCEPT ![i + 1] = l]
  BY <1>11 DEF k
<1>14. release => cells[i + 1] \in DOMAIN lf /\ \A j \in 1 .. i : cells[j] # cells[i + 1]
  BY <1>1 DEF Pointing, k
<1>15. l \in Leaves /\ l \notin DOMAIN was.leaf \ X
  BY <1>7
<1>16. Leafed(next.leaf, was.leaf, X, l, m)
  BY <1>8, <1>11
<1>17. cells \in Seq(Leaves \cup {RawMember}) /\ LeafMap(lf)
  BY DEF Passable
<1>18. Passed(next, i + 1, cells, lf, m, release)
  <2>1. Takes(next, was, i, cells, lf, l, m, release)
    BY <1>13, <1>14, <1>15, <1>16 DEF Takes, X
  <2>2. Passed(was, i, cells, lf, m, release)
    BY <1>2
  <2> QED BY <1>1, <1>17, <2>1, <2>2, PassedOneMore
<1>19. RoomFor(next.leaf, n - i - 1)
  <2>1. DOMAIN next.leaf \subseteq DOMAIN was.leaf \cup {l}
    BY <1>16 DEF Leafed
  <2> QED BY <1>1, <1>2, <2>1, RoomShrinks
<1>20. n - i - 1 = n - (i + 1)
  BY <1>1
<1>21. Going(next, i + 1, n, cells, lf, m, release)
  BY <1>10, <1>11, <1>18, <1>19, <1>20 DEF Going
<1> QED BY <1>11, <1>21 DEF next, k

LEMMA InternalWorks ==
  ASSUME TransferAssumption, NEW n, Short(n), NEW cells, NEW lf, NEW m, NEW at, IsAddressable(at),
         NEW release \in BOOLEAN, Passable(cells, n * Width, lf, m), Pointing(cells, n * Width, lf)
  PROVE  /\ Passed(Internal(cells, n, m, at, release, lf), n * Width, cells, lf, m, release)
         /\ Internal(cells, n, m, at, release, lf).stray = {}
<1> DEFINE todo  == Visits(n)
           start == [cells |-> cells, leaf |-> lf,
                     stray |-> {x \in {"unreachable"} : n > 0 /\ ~IsAddressable(at)}]
           E(f, i) == IF i = 0 THEN start ELSE Visit(f[i - 1], todo[i], m, release)
           go == CHOOSE f : f = [i \in 0 .. Len(todo) |-> E(f, i)]
           N == n * Width
<1>1. Internal(cells, n, m, at, release, lf) = go[Len(todo)]
  BY DEF Internal
<1>2. N \in Nat
  BY DEF Passable
<1>3. Len(todo) = N /\ \A i \in 1 .. N : todo[i] = i
  BY <1>2, VisitsInOrder
<1>4. start.cells = cells /\ start.leaf = lf /\ start.stray = {} /\ DOMAIN start = {"cells", "leaf", "stray"}
  OBVIOUS
<1> HIDE DEF todo, start, go, N
<1>5. \E f : f = [i \in 0 .. N |-> E(f, i)]
  <2> DEFINE P(j) == \E f : f = [k \in 0 .. j |-> E(f, k)]
             S == {j \in Nat : P(j)}
  <2>1. P(0)
    <3> DEFINE g == [k \in 0 .. 0 |-> start]
    <3>1. g = [k \in 0 .. 0 |-> E(g, k)]
      OBVIOUS
    <3> QED BY <3>1
  <2>2. ASSUME NEW j \in Nat, P(j) PROVE P(j + 1)
    <3>1. PICK f : f = [k \in 0 .. j |-> E(f, k)]
      BY <2>2
    <3> DEFINE g == [k \in 0 .. j + 1 |-> IF k = j + 1 THEN E(f, j + 1) ELSE f[k]]
    <3>2. \A k \in 0 .. j + 1 : k # 0 => g[k - 1] = f[k - 1]
      OBVIOUS
    <3>3. \A k \in 0 .. j + 1 : E(g, k) = E(f, k)
      BY <3>2
    <3>4. \A k \in 0 .. j : f[k] = E(f, k)
      BY <3>1
    <3> HIDE DEF E
    <3>5. \A k \in 0 .. j + 1 : g[k] = E(g, k)
      BY <3>3, <3>4
    <3>6. g = [k \in 0 .. j + 1 |-> E(g, k)]
      BY <3>5
    <3> QED BY <3>6
  <2> HIDE DEF P
  <2>3. 0 \in S /\ \A j \in 0 .. N - 1 : j \in S => j + 1 \in S
    BY <2>1, <2>2
  <2> HIDE DEF S
  <2>4. N \in S
    BY <1>2, <2>3, ByInduction
  <2> QED BY <2>4 DEF S, P
<1>6. \A i \in 0 .. N : go[i] = E(go, i)
  <2>1. go = [i \in 0 .. N |-> E(go, i)]
    BY <1>3, <1>5 DEF go
  <2> QED BY <2>1
<1>7. go[0] = start /\ \A i \in 0 .. N - 1 : go[i + 1] = Visit(go[i], i + 1, m, release)
  <2>1. go[0] = start
    BY <1>2, <1>6
  <2>2. ASSUME NEW i \in 0 .. N - 1 PROVE go[i + 1] = Visit(go[i], i + 1, m, release)
    <3>1. i + 1 \in 0 .. N /\ i + 1 # 0 /\ i + 1 - 1 = i /\ i + 1 \in 1 .. N
      BY <1>2
    <3>2. go[i + 1] = Visit(go[i + 1 - 1], todo[i + 1], m, release)
      BY <1>6, <3>1
    <3> QED BY <1>3, <3>1, <3>2
  <2> QED BY <2>1, <2>2
<1> HIDE DEF E
<1> DEFINE Fine(i) == Going(go[i], i, N, cells, lf, m, release) /\ go[i].stray = {} /\ "stray" \in DOMAIN go[i]
           T == {i \in 0 .. N : Fine(i)}
<1>8. Passable(cells, N, lf, m) /\ Pointing(cells, N, lf)
  BY DEF N
<1>9. 0 \in T
  <2>1. cells \in Seq(Leaves \cup {RawMember}) /\ LeafMap(lf) /\ RoomFor(lf, N)
    BY <1>8 DEF Passable
  <2>2. Passed(start, 0, cells, lf, m, release)
    BY <1>4, <2>1, PassedNone
  <2>3. RoomFor(start.leaf, N - 0)
    BY <1>2, <1>4, <2>1
  <2> QED BY <1>2, <1>4, <1>7, <2>2, <2>3 DEF Going
<1>10. ASSUME NEW i \in 0 .. N - 1, i \in T PROVE i + 1 \in T
  <2>1. go[i + 1] = Visit(go[i], i + 1, m, release)
    BY <1>7
  <2>2. Going(go[i], i, N, cells, lf, m, release) /\ go[i].stray = {} /\ "stray" \in DOMAIN go[i]
    BY <1>10
  <2>3. /\ Going(Visit(go[i], i + 1, m, release), i + 1, N, cells, lf, m, release)
        /\ Visit(go[i], i + 1, m, release).stray = {}
        /\ "stray" \in DOMAIN Visit(go[i], i + 1, m, release)
    BY <1>8, <2>2, VisitGoesOn
  <2>4. i + 1 \in 0 .. N
    BY <1>2
  <2> QED BY <2>1, <2>3, <2>4
<1> HIDE DEF T
<1>11. N \in T
  BY <1>2, <1>9, <1>10, ByInduction
<1>12. Going(go[N], N, N, cells, lf, m, release) /\ go[N].stray = {}
  BY <1>11 DEF T
<1> QED BY <1>1, <1>3, <1>12 DEF Going, N

LEMMA MadeGoesOn ==
  ASSUME TransferAssumption, NEW cells, NEW n, NEW lf, NEW m, Passable(cells, n, lf, m),
         NEW x \in Values, NEW i \in 0 .. n - 1, NEW was,
         NEW release \in BOOLEAN, release = FALSE, Going(was, i, n, cells, lf, m, release)
  PROVE  Going(Made(was, i + 1, m, x), i + 1, n, cells, lf, m, release)
<1> DEFINE l == Least(Leaves \ DOMAIN was.leaf)
           nlf == With(was.leaf, l, [mem |-> m, val |-> x])
           next == Made(was, i + 1, m, x)
<1>1. n \in Nat /\ n <= Len(cells) /\ i \in Nat /\ i < Len(cells) /\ n - i > 0 /\ n - i \in Nat
      /\ i + 1 \in 1 .. Len(cells)
  BY DEF Passable
<1>2. Passed(was, i, cells, lf, m, release) /\ RoomFor(was.leaf, n - i) /\ {"cells", "leaf"} \subseteq DOMAIN was
  BY DEF Going
<1>3. l \in Leaves \ DOMAIN was.leaf
  BY <1>1, <1>2, RoomGivesLeaf
<1>4. next = [was EXCEPT !.cells[i + 1] = l, !.leaf = With(@, l, [mem |-> m, val |-> x])]
  BY DEF Made
<1> HIDE DEF l
<1>5. next.cells = [was.cells EXCEPT ![i + 1] = l] /\ next.leaf = nlf /\ DOMAIN next = DOMAIN was
  BY <1>2, <1>4
<1>6. Leafed(nlf, was.leaf, {}, l, m)
  <2>1. m \in Memories /\ LeafMap(was.leaf) /\ l \in Leaves /\ l \notin DOMAIN was.leaf
    BY <1>2, <1>3 DEF Passable, Passed
  <2> QED BY <2>1, NewLeafOnly
<1> HIDE DEF next, nlf
<1>7. Takes(next, was, i, cells, lf, l, m, release)
  <2>1. Back(cells[i + 1], release) = {}
    BY DEF Back
  <2> QED BY <1>3, <1>5, <1>6, <2>1 DEF Takes
<1>8. cells \in Seq(Leaves \cup {RawMember}) /\ LeafMap(lf)
  BY DEF Passable
<1>9. Passed(next, i + 1, cells, lf, m, release)
  BY <1>1, <1>2, <1>7, <1>8, PassedOneMore
<1>10. RoomFor(next.leaf, n - i - 1)
  <2>1. DOMAIN next.leaf \subseteq DOMAIN was.leaf \cup {l}
    BY <1>5, <1>6 DEF Leafed
  <2> QED BY <1>1, <1>2, <2>1, RoomShrinks
<1>11. n - i - 1 = n - (i + 1)
  BY <1>1
<1> QED BY <1>2, <1>5, <1>9, <1>10, <1>11 DEF Going, next

LEMMA ConstructWorks ==
  ASSUME TransferAssumption, NEW n, NEW cells, NEW lf, NEW m, NEW x \in Values, Passable(cells, n * Width, lf, m)
  PROVE  Passed(Construct(cells, n, m, x, lf), n * Width, cells, lf, m, FALSE)
<1>0. PICK release \in BOOLEAN : release = FALSE
  OBVIOUS
<1> DEFINE start == [cells |-> cells, leaf |-> lf]
           E(f, k) == IF k = 0 THEN start ELSE Made(f[k - 1], k, m, x)
           N == n * Width
           go == CHOOSE f : f = [k \in 0 .. N |-> E(f, k)]
<1>1. Construct(cells, n, m, x, lf) = go[N]
  BY DEF Construct
<1>2. N \in Nat
  BY DEF Passable
<1>3. TRUE
  OBVIOUS
<1>4. start.cells = cells /\ start.leaf = lf /\ DOMAIN start = {"cells", "leaf"}
  OBVIOUS
<1> HIDE DEF start, go, N
<1>5. \E f : f = [i \in 0 .. N |-> E(f, i)]
  <2> DEFINE P(j) == \E f : f = [k \in 0 .. j |-> E(f, k)]
             S == {j \in Nat : P(j)}
  <2>1. P(0)
    <3> DEFINE g == [k \in 0 .. 0 |-> start]
    <3>1. g = [k \in 0 .. 0 |-> E(g, k)]
      OBVIOUS
    <3> QED BY <3>1
  <2>2. ASSUME NEW j \in Nat, P(j) PROVE P(j + 1)
    <3>1. PICK f : f = [k \in 0 .. j |-> E(f, k)]
      BY <2>2
    <3> DEFINE g == [k \in 0 .. j + 1 |-> IF k = j + 1 THEN E(f, j + 1) ELSE f[k]]
    <3>2. \A k \in 0 .. j + 1 : k # 0 => g[k - 1] = f[k - 1]
      OBVIOUS
    <3>3. \A k \in 0 .. j + 1 : E(g, k) = E(f, k)
      BY <3>2
    <3>4. \A k \in 0 .. j : f[k] = E(f, k)
      BY <3>1
    <3> HIDE DEF E
    <3>5. \A k \in 0 .. j + 1 : g[k] = E(g, k)
      BY <3>3, <3>4
    <3>6. g = [k \in 0 .. j + 1 |-> E(g, k)]
      BY <3>5
    <3> QED BY <3>6
  <2> HIDE DEF P
  <2>3. 0 \in S /\ \A j \in 0 .. N - 1 : j \in S => j + 1 \in S
    BY <2>1, <2>2
  <2> HIDE DEF S
  <2>4. N \in S
    BY <1>2, <2>3, ByInduction
  <2> QED BY <2>4 DEF S, P
<1>6. \A i \in 0 .. N : go[i] = E(go, i)
  <2>1. go = [i \in 0 .. N |-> E(go, i)]
    BY <1>3, <1>5 DEF go
  <2> QED BY <2>1
<1>7. go[0] = start /\ \A i \in 0 .. N - 1 : go[i + 1] = Made(go[i], i + 1, m, x)
  <2>1. go[0] = start
    BY <1>2, <1>6
  <2>2. ASSUME NEW i \in 0 .. N - 1 PROVE go[i + 1] = Made(go[i], i + 1, m, x)
    <3>1. i + 1 \in 0 .. N /\ i + 1 # 0 /\ i + 1 - 1 = i /\ i + 1 \in 1 .. N
      BY <1>2
    <3>2. go[i + 1] = Made(go[i + 1 - 1], i + 1, m, x)
      BY <1>6, <3>1
    <3> QED BY <1>3, <3>1, <3>2
  <2> QED BY <2>1, <2>2
<1> HIDE DEF E
<1> DEFINE T == {i \in 0 .. N : Going(go[i], i, N, cells, lf, m, release)}
<1>8. Passable(cells, N, lf, m)
  BY DEF N
<1>9. 0 \in T
  <2>1. cells \in Seq(Leaves \cup {RawMember}) /\ LeafMap(lf) /\ RoomFor(lf, N)
    BY <1>8 DEF Passable
  <2>2. Passed(start, 0, cells, lf, m, release)
    BY <1>4, <2>1, PassedNone
  <2>3. RoomFor(start.leaf, N - 0)
    BY <1>2, <1>4, <2>1
  <2>4. Going(start, 0, N, cells, lf, m, release)
    BY <1>4, <2>2, <2>3 DEF Going
  <2> QED BY <1>2, <1>7, <2>4
<1>10. ASSUME NEW i \in 0 .. N - 1, i \in T PROVE i + 1 \in T
  <2>1. go[i + 1] = Made(go[i], i + 1, m, x)
    BY <1>7
  <2>2. Going(go[i], i, N, cells, lf, m, release)
    BY <1>10
  <2>3. Going(Made(go[i], i + 1, m, x), i + 1, N, cells, lf, m, release)
    BY <1>0, <1>8, <2>2, MadeGoesOn
  <2>4. i + 1 \in 0 .. N
    BY <1>2
  <2> QED BY <2>1, <2>3, <2>4
<1> HIDE DEF T
<1>11. N \in T
  BY <1>2, <1>9, <1>10, ByInduction
<1>12. Passed(go[N], N, cells, lf, m, release)
  BY <1>11 DEF Going, T
<1> QED BY <1>0, <1>1, <1>12 DEF Passed, N

LEMMA AssignedGoesOn ==
  ASSUME TransferAssumption, NEW cells, NEW n, NEW lf, Passable(cells, n, lf, ExecutionDefault),
         Pointing(cells, n, lf), NEW x \in Values, NEW i \in 0 .. n - 1, NEW was,
         NEW release \in BOOLEAN, release = TRUE,
         Going(was, i, n, cells, lf, ExecutionDefault, release), was.stray = {}
  PROVE  /\ Going(Assigned(was, i + 1, x), i + 1, n, cells, lf, ExecutionDefault, release)
         /\ Assigned(was, i + 1, x).stray = {}
<1> DEFINE c == was.cells[i + 1]
           rest == Without(was.leaf, {c})
           l == Least(Leaves \ DOMAIN rest)
           nlf == With(rest, l, [mem |-> ExecutionDefault, val |-> x])
           next == Assigned(was, i + 1, x)
           m == ExecutionDefault
<1>1. n \in Nat /\ n <= Len(cells) /\ i \in Nat /\ i < Len(cells) /\ n - i > 0 /\ n - i \in Nat
      /\ i + 1 \in 1 .. Len(cells) /\ i + 1 \in 1 .. n
  BY DEF Passable
<1>2. Passed(was, i, cells, lf, m, release) /\ RoomFor(was.leaf, n - i) /\ {"cells", "leaf"} \subseteq DOMAIN was
  BY DEF Going
<1>3. c = cells[i + 1]
  BY <1>1, <1>2 DEF Passed
<1>4. DOMAIN rest = DOMAIN was.leaf \ {c}
  BY DEF Without
<1>5. l \in Leaves \ DOMAIN rest
  <2>1. RoomFor(rest, n - i)
    <3>1. IsFiniteSet(Leaves \ DOMAIN rest) /\ Leaves \ DOMAIN was.leaf \subseteq Leaves \ DOMAIN rest
      BY <1>4, FS_Subset DEF TransferAssumption
    <3>2. Cardinality(Leaves \ DOMAIN was.leaf) <= Cardinality(Leaves \ DOMAIN rest)
      BY <3>1, FS_Subset
    <3>3. Cardinality(Leaves \ DOMAIN was.leaf) \in Nat /\ Cardinality(Leaves \ DOMAIN rest) \in Nat
      BY <3>1, FS_Subset, FS_CardinalityType
    <3> QED BY <1>1, <1>2, <3>2, <3>3 DEF RoomFor
  <2> HIDE DEF rest
  <2> QED BY <1>1, <2>1, RoomGivesLeaf
<1>6. /\ next.cells = [was.cells EXCEPT ![i + 1] = l] /\ next.leaf = nlf
      /\ next.stray = was.stray \cup {y \in {"raw"} : c = RawMember}
      /\ {"cells", "leaf"} \subseteq DOMAIN next
  BY DEF Assigned
<1>7. Leafed(nlf, was.leaf, {c}, l, m)
  <2>1. m \in Memories /\ LeafMap(was.leaf) /\ l \in Leaves /\ l \notin DOMAIN was.leaf \ {c}
    BY <1>2, <1>4, <1>5 DEF Passable, Passed
  <2> HIDE DEF c, l, m
  <2>2. nlf = With(Without(was.leaf, {c}), l, [mem |-> m, val |-> x])
    BY DEF m
  <2> QED BY <2>1, <2>2, NewLeaf
<1>8. next.stray = {}
  <2>1. c # RawMember
    BY <1>1, <1>3 DEF Pointing, Passable, LeafMap, TransferAssumption, RawMember
  <2> QED BY <1>6, <2>1
<1> HIDE DEF next, nlf, l, rest, c
<1>9. Takes(next, was, i, cells, lf, l, m, release)
  <2>1. Back(cells[i + 1], release) = {c}
    BY <1>3 DEF Back
  <2>2. cells[i + 1] \in DOMAIN lf /\ \A j \in 1 .. i : cells[j] # cells[i + 1]
    BY <1>1 DEF Pointing
  <2>3. l \in Leaves /\ l \notin DOMAIN was.leaf \ {c}
    BY <1>4, <1>5
  <2> QED BY <1>6, <1>7, <2>1, <2>2, <2>3 DEF Takes
<1>10. cells \in Seq(Leaves \cup {RawMember}) /\ LeafMap(lf)
  BY DEF Passable
<1>11. Passed(next, i + 1, cells, lf, m, release)
  BY <1>1, <1>2, <1>9, <1>10, PassedOneMore
<1>12. RoomFor(next.leaf, n - i - 1)
  <2>1. DOMAIN next.leaf \subseteq DOMAIN was.leaf \cup {l}
    BY <1>6, <1>7 DEF Leafed
  <2> QED BY <1>1, <1>2, <2>1, RoomShrinks
<1>13. n - i - 1 = n - (i + 1)
  BY <1>1
<1> QED BY <1>6, <1>8, <1>11, <1>12, <1>13 DEF Going, next

Valued(x) == x \in Seq(Values)

LEMMA AssignAllWorks ==
  ASSUME TransferAssumption, NEW cells, NEW lf, NEW x, Valued(x),
         Passable(cells, Len(x), lf, ExecutionDefault), Pointing(cells, Len(x), lf)
  PROVE  /\ Passed(AssignAll(cells, x, lf), Len(x), cells, lf, ExecutionDefault, TRUE)
         /\ AssignAll(cells, x, lf).stray = {}
<1>0. PICK release \in BOOLEAN : release = TRUE
  OBVIOUS
<1>00. PICK N : N = Len(x)
  OBVIOUS
<1> DEFINE start == [cells |-> cells, leaf |-> lf, stray |-> {}]
           E(f, k) == IF k = 0 THEN start ELSE Assigned(f[k - 1], k, x[k])
           go == CHOOSE f : f = [k \in 0 .. N |-> E(f, k)]
<1>1. AssignAll(cells, x, lf) = go[N]
  BY <1>00 DEF AssignAll
<1>2. N \in Nat
  BY <1>00 DEF Valued
<1>3. \A i \in 1 .. N : x[i] \in Values
  BY <1>00 DEF Valued
<1>4. start.cells = cells /\ start.leaf = lf /\ start.stray = {} /\ DOMAIN start = {"cells", "leaf", "stray"}
  OBVIOUS
<1> HIDE DEF start, go
<1>5. \E f : f = [i \in 0 .. N |-> E(f, i)]
  <2> DEFINE P(j) == \E f : f = [k \in 0 .. j |-> E(f, k)]
             S == {j \in Nat : P(j)}
  <2>1. P(0)
    <3> DEFINE g == [k \in 0 .. 0 |-> start]
    <3>1. g = [k \in 0 .. 0 |-> E(g, k)]
      OBVIOUS
    <3> QED BY <3>1
  <2>2. ASSUME NEW j \in Nat, P(j) PROVE P(j + 1)
    <3>1. PICK f : f = [k \in 0 .. j |-> E(f, k)]
      BY <2>2
    <3> DEFINE g == [k \in 0 .. j + 1 |-> IF k = j + 1 THEN E(f, j + 1) ELSE f[k]]
    <3>2. \A k \in 0 .. j + 1 : k # 0 => g[k - 1] = f[k - 1]
      OBVIOUS
    <3>3. \A k \in 0 .. j + 1 : E(g, k) = E(f, k)
      BY <3>2
    <3>4. \A k \in 0 .. j : f[k] = E(f, k)
      BY <3>1
    <3> HIDE DEF E
    <3>5. \A k \in 0 .. j + 1 : g[k] = E(g, k)
      BY <3>3, <3>4
    <3>6. g = [k \in 0 .. j + 1 |-> E(g, k)]
      BY <3>5
    <3> QED BY <3>6
  <2> HIDE DEF P
  <2>3. 0 \in S /\ \A j \in 0 .. N - 1 : j \in S => j + 1 \in S
    BY <2>1, <2>2
  <2> HIDE DEF S
  <2>4. N \in S
    <3>1. \A j \in 0 .. N : j \in S
      BY <1>2, <2>3, ByInduction
    <3> QED BY <1>2, <3>1
  <2> QED BY <2>4 DEF S, P
<1>6. \A i \in 0 .. N : go[i] = E(go, i)
  <2>1. go = [i \in 0 .. N |-> E(go, i)]
    BY <1>3, <1>5 DEF go
  <2> QED BY <2>1
<1>7. go[0] = start /\ \A i \in 0 .. N - 1 : go[i + 1] = Assigned(go[i], i + 1, x[i + 1])
  <2>1. go[0] = start
    BY <1>2, <1>6
  <2>2. ASSUME NEW i \in 0 .. N - 1 PROVE go[i + 1] = Assigned(go[i], i + 1, x[i + 1])
    <3>1. i + 1 \in 0 .. N /\ i + 1 # 0 /\ i + 1 - 1 = i /\ i + 1 \in 1 .. N
      BY <1>2
    <3>2. go[i + 1] = Assigned(go[i + 1 - 1], i + 1, x[i + 1])
      BY <1>6, <3>1
    <3> QED BY <1>3, <3>1, <3>2
  <2> QED BY <2>1, <2>2
<1> HIDE DEF E
<1> DEFINE Fine(i) == Going(go[i], i, N, cells, lf, ExecutionDefault, release) /\ go[i].stray = {}
           T == {i \in 0 .. N : Fine(i)}
<1>8. Passable(cells, N, lf, ExecutionDefault) /\ Pointing(cells, N, lf)
  BY <1>00
<1>9. 0 \in T
  <2>1. cells \in Seq(Leaves \cup {RawMember}) /\ LeafMap(lf) /\ RoomFor(lf, N)
    BY <1>8 DEF Passable
  <2>2. Passed(start, 0, cells, lf, ExecutionDefault, release)
    BY <1>4, <2>1, PassedNone
  <2>3. RoomFor(start.leaf, N - 0)
    BY <1>2, <1>4, <2>1
  <2>4. Going(start, 0, N, cells, lf, ExecutionDefault, release)
    BY <1>4, <2>2, <2>3 DEF Going
  <2> QED BY <1>2, <1>4, <1>7, <2>4
<1>10. ASSUME NEW i \in 0 .. N - 1, i \in T PROVE i + 1 \in T
  <2>1. go[i + 1] = Assigned(go[i], i + 1, x[i + 1])
    BY <1>7
  <2>2. Going(go[i], i, N, cells, lf, ExecutionDefault, release) /\ go[i].stray = {}
    BY <1>10
  <2>3. x[i + 1] \in Values /\ i + 1 \in 0 .. N
    BY <1>2, <1>3
  <2>4. /\ Going(Assigned(go[i], i + 1, x[i + 1]), i + 1, N, cells, lf, ExecutionDefault, release)
        /\ Assigned(go[i], i + 1, x[i + 1]).stray = {}
    BY <1>0, <1>8, <2>2, <2>3, AssignedGoesOn
  <2> QED BY <2>1, <2>3, <2>4
<1> HIDE DEF T
<1>11. N \in T
  <2>1. \A i \in 0 .. N : i \in T
    BY <1>2, <1>9, <1>10, ByInduction
  <2> QED BY <1>2, <2>1
<1>12. Passed(go[N], N, cells, lf, ExecutionDefault, release) /\ go[N].stray = {}
  BY <1>11 DEF Going, T
<1> QED BY <1>0, <1>1, <1>00, <1>12 DEF Passed

-----------------------------------------------------------------------------
(* Owners and leaves *)

\* From lf to nlf an owner gave back old and has cells now.
Changes(lf, nlf, old, cells) ==
  /\ LeafMap(nlf) /\ OnceIn(cells)
  /\ DOMAIN nlf = (DOMAIN lf \ old) \cup Held(cells)
  /\ Held(cells) \cap (DOMAIN lf \ old) = {}
  /\ \A l \in DOMAIN lf \ old : nlf[l] = lf[l]

\* What owner o of h has.
HeldIn(h, o) == IF o \in DOMAIN h THEN Held(h[o]) ELSE {}

\* Owner o, new or not, has something else, and the others what they had.
OnlyOwner(h, nh, o) ==
  /\ DOMAIN nh = DOMAIN h \cup {o}
  /\ \A p \in DOMAIN h \ {o} : nh[p] = h[p]

LEMMA OwnerChanges ==
  ASSUME NEW h, NEW nh, NEW o, NEW lf, NEW nlf, Owned(h, lf), OnlyOwner(h, nh, o),
         Changes(lf, nlf, HeldIn(h, o), nh[o])
  PROVE  Owned(nh, nlf)
<1> DEFINE old == HeldIn(h, o)
           kept == DOMAIN lf \ old
<1>1. /\ OnceIn(nh[o]) /\ DOMAIN nlf = kept \cup Held(nh[o])
      /\ Held(nh[o]) \cap kept = {}
  BY DEF Changes
<1>2. \A p \in DOMAIN h \ {o} : Held(h[p]) \subseteq kept /\ OnceIn(h[p]) /\ nh[p] = h[p]
  <2> SUFFICES ASSUME NEW p \in DOMAIN h \ {o} PROVE Held(h[p]) \subseteq kept /\ OnceIn(h[p]) /\ nh[p] = h[p]
    OBVIOUS
  <2>1. Held(h[p]) \subseteq DOMAIN lf /\ OnceIn(h[p])
    BY DEF Owned
  <2>2. o \in DOMAIN h => Held(h[p]) \cap Held(h[o]) = {}
    BY DEF Owned
  <2>3. nh[p] = h[p]
    BY DEF OnlyOwner
  <2> QED BY <2>1, <2>2, <2>3 DEF HeldIn
<1>3. DOMAIN nh = DOMAIN h \cup {o}
  BY DEF OnlyOwner
<1> HIDE DEF old, kept
<1>4. \A p \in DOMAIN nh : Held(nh[p]) \subseteq DOMAIN nlf /\ OnceIn(nh[p])
  BY <1>1, <1>2, <1>3
<1>5. ASSUME NEW p \in DOMAIN nh, NEW q \in DOMAIN nh, p # q
      PROVE  Held(nh[p]) \cap Held(nh[q]) = {}
  <2>1. CASE p = o
    BY <1>1, <1>2, <1>3, <1>5, <2>1
  <2>2. CASE q = o
    BY <1>1, <1>2, <1>3, <1>5, <2>2
  <2>3. CASE p # o /\ q # o
    <3>1. Held(h[p]) \cap Held(h[q]) = {}
      BY <1>3, <1>5, <2>3 DEF Owned
    <3> QED BY <1>2, <1>3, <2>3, <3>1
  <2> QED BY <2>1, <2>2, <2>3
<1>6. ASSUME NEW l \in DOMAIN nlf PROVE \E p \in DOMAIN nh : l \in Held(nh[p])
  <2>1. CASE l \in Held(nh[o])
    BY <1>3, <2>1
  <2>2. CASE l \in kept
    <3>1. l \in DOMAIN lf /\ l \notin HeldIn(h, o)
      BY <2>2 DEF kept, old
    <3>2. PICK p \in DOMAIN h : l \in Held(h[p])
      BY <3>1 DEF Owned
    <3>3. p # o
      BY <3>1, <3>2 DEF HeldIn
    <3> QED BY <1>2, <1>3, <3>2, <3>3
  <2> QED BY <1>1, <2>1, <2>2
<1> QED BY <1>4, <1>5, <1>6 DEF Owned

\* The leaves of other owners stay as they are.
LEMMA OthersKeep ==
  ASSUME NEW h, NEW o, NEW lf, NEW nlf, Owned(h, lf), NEW cells, Changes(lf, nlf, HeldIn(h, o), cells),
         NEW p \in DOMAIN h \ {o}
  PROVE  \A l \in Held(h[p]) : l \in DOMAIN nlf /\ nlf[l] = lf[l]
<1>1. Held(h[p]) \subseteq DOMAIN lf
  BY DEF Owned
<1>2. o \in DOMAIN h => Held(h[p]) \cap Held(h[o]) = {}
  BY DEF Owned
<1>3. Held(h[p]) \subseteq DOMAIN lf \ HeldIn(h, o)
  BY <1>1, <1>2 DEF HeldIn
<1> QED BY <1>3 DEF Changes

\* An owner goes, with all it has.
LEMMA OwnerGoes ==
  ASSUME NEW h, NEW nh, NEW o \in DOMAIN h, NEW lf, NEW nlf, Owned(h, lf),
         DOMAIN nh = DOMAIN h \ {o}, \A p \in DOMAIN nh : nh[p] = h[p],
         DOMAIN nlf = DOMAIN lf \ Held(h[o])
  PROVE  Owned(nh, nlf)
<1>1. ASSUME NEW p \in DOMAIN nh PROVE Held(nh[p]) \subseteq DOMAIN nlf /\ OnceIn(nh[p])
  <2>1. p \in DOMAIN h /\ p # o /\ nh[p] = h[p]
    OBVIOUS
  <2>2. Held(h[p]) \subseteq DOMAIN lf /\ OnceIn(h[p]) /\ Held(h[p]) \cap Held(h[o]) = {}
    BY <2>1 DEF Owned
  <2> QED BY <2>1, <2>2
<1>2. \A p, q \in DOMAIN nh : p # q => Held(nh[p]) \cap Held(nh[q]) = {}
  BY DEF Owned
<1>3. ASSUME NEW l \in DOMAIN nlf PROVE \E p \in DOMAIN nh : l \in Held(nh[p])
  <2>1. PICK p \in DOMAIN h : l \in Held(h[p])
    BY DEF Owned
  <2>2. p # o
    BY <2>1
  <2> QED BY <2>1, <2>2
<1> QED BY <1>1, <1>2, <1>3 DEF Owned

\* One owner takes the place of another.
LEMMA OwnerPasses ==
  ASSUME NEW h, NEW nh, NEW o \in DOMAIN h, NEW w, w \notin DOMAIN h, NEW lf, Owned(h, lf),
         DOMAIN nh = (DOMAIN h \ {o}) \cup {w}, nh[w] = h[o],
         \A p \in DOMAIN h \ {o} : nh[p] = h[p]
  PROVE  Owned(nh, lf)
<1>1. \A p \in DOMAIN nh : Held(nh[p]) \subseteq DOMAIN lf /\ OnceIn(nh[p])
  BY DEF Owned
<1>2. ASSUME NEW p \in DOMAIN nh, NEW q \in DOMAIN nh, p # q
      PROVE  Held(nh[p]) \cap Held(nh[q]) = {}
  <2> DEFINE was(r) == IF r = w THEN o ELSE r
  <2>1. was(p) \in DOMAIN h /\ was(q) \in DOMAIN h /\ was(p) # was(q)
    BY <1>2
  <2>2. nh[p] = h[was(p)] /\ nh[q] = h[was(q)]
    OBVIOUS
  <2>3. Held(h[was(p)]) \cap Held(h[was(q)]) = {}
    BY <2>1 DEF Owned
  <2> QED BY <2>2, <2>3
<1>3. ASSUME NEW l \in DOMAIN lf PROVE \E p \in DOMAIN nh : l \in Held(nh[p])
  <2>1. PICK p \in DOMAIN h : l \in Held(h[p])
    BY DEF Owned
  <2> QED BY <2>1
<1> QED BY <1>1, <1>2, <1>3 DEF Owned

-----------------------------------------------------------------------------
(* What the primitives do to an owner *)

\* Cells hold the elements a call made, in memory m.
Holding(cells, nlf, n, m) ==
  /\ Built(cells, n) /\ \A l \in Held(cells) : nlf[l].mem = m

LEMMA WidthTimes ==
  ASSUME TransferAssumption, NEW c \in Nat, NEW s \in 0 .. c
  PROVE  c * Width \in Nat /\ s * Width \in 0 .. c * Width /\ (s * Width) \div Width = s /\ s \in Nat
         /\ Width \in Nat /\ Width > 0
<1>1. CASE Width = 1
  BY <1>1
<1>2. CASE Width = 2
  BY <1>2
<1> QED BY <1>1, <1>2 DEF TransferAssumption

\* A pass over the n elements of an array gives it new ones.
LEMMA PassedChanges ==
  ASSUME TransferAssumption, NEW cells, NEW n, Built(cells, n), NEW lf, LeafMap(lf), NEW m,
         NEW release \in BOOLEAN, NEW r, Passed(r, n * Width, cells, lf, m, release)
  PROVE  /\ Holding(r.cells, r.leaf, n, m) /\ Len(r.cells) = Len(cells)
         /\ Changes(lf, r.leaf, IF release THEN Held(cells) ELSE {}, r.cells)
<1> DEFINE N == n * Width
           new == {r.cells[j] : j \in 1 .. N}
           kept == DOMAIN lf \ (IF release THEN {cells[j] : j \in 1 .. N} ELSE {})
<1>1. /\ r.cells \in Seq(Leaves \cup {RawMember}) /\ Len(r.cells) = Len(cells)
      /\ \A k \in 1 .. Len(cells) : IF k <= N THEN r.cells[k] \in Leaves ELSE r.cells[k] = cells[k]
      /\ \A j, k \in 1 .. N : r.cells[j] = r.cells[k] => j = k
      /\ LeafMap(r.leaf)
  BY DEF Passed
<1>2. /\ DOMAIN r.leaf = kept \cup new
      /\ \A j \in 1 .. N : r.cells[j] \notin kept /\ r.leaf[r.cells[j]].mem = m
      /\ \A l \in kept : r.leaf[l] = lf[l]
  BY DEF Passed
<1>3. PICK c \in Nat : Short(c) /\ Len(cells) = c * Width /\ n \in 0 .. c
  BY DEF Built
<1>4. N \in 0 .. Len(cells) /\ Len(cells) \in Nat
  BY <1>3, WidthTimes
<1>5. \A k \in 1 .. Len(cells) : cells[k] # RawMember <=> k <= N
  BY DEF Built
<1>6. \A l \in Leaves : l # RawMember
  BY DEF TransferAssumption, RawMember
<1> HIDE DEF N
<1>7. \A k \in 1 .. Len(cells) : r.cells[k] # RawMember <=> k <= N
  BY <1>1, <1>5, <1>6
<1>8. Held(r.cells) = new
  <2>1. DOMAIN r.cells = 1 .. Len(cells)
    BY <1>1
  <2>2. \A k \in 1 .. N : k \in 1 .. Len(cells) /\ k <= N
    BY <1>4
  <2>3. \A k \in 1 .. Len(cells) : k <= N => k \in 1 .. N
    BY <1>4
  <2> QED BY <1>7, <2>1, <2>2, <2>3 DEF Held
<1>9. Held(cells) = {cells[j] : j \in 1 .. N}
  <2>1. DOMAIN cells = 1 .. Len(cells)
    BY DEF Built
  <2>2. \A k \in 1 .. N : k \in 1 .. Len(cells) /\ k <= N
    BY <1>4
  <2>3. \A k \in 1 .. Len(cells) : k <= N => k \in 1 .. N
    BY <1>4
  <2> QED BY <1>5, <2>1, <2>2, <2>3 DEF Held
<1>10. Built(r.cells, n)
  BY <1>1, <1>3, <1>7 DEF Built, N
<1>11. OnceIn(r.cells)
  <2>1. DOMAIN r.cells = 1 .. Len(cells)
    BY <1>1
  <2>2. \A k \in 1 .. Len(cells) : r.cells[k] # RawMember => k \in 1 .. N
    BY <1>4, <1>7
  <2> QED BY <1>1, <2>1, <2>2 DEF OnceIn
<1>12. \A l \in new : l \notin kept /\ r.leaf[l].mem = m
  BY <1>2
<1>13. kept = DOMAIN lf \ (IF release THEN Held(cells) ELSE {})
  BY <1>9
<1> HIDE DEF new, kept
<1>14. Changes(lf, r.leaf, IF release THEN Held(cells) ELSE {}, r.cells)
  BY <1>1, <1>2, <1>8, <1>11, <1>12, <1>13 DEF Changes
<1>15. Holding(r.cells, r.leaf, n, m)
  BY <1>8, <1>10, <1>12 DEF Holding
<1> QED BY <1>1, <1>14, <1>15

\* The first n elements of src are there to be copied.
Source(src, n, lf) ==
  /\ src \in Seq(Leaves \cup {RawMember}) /\ n * Width <= Len(src) /\ Pointing(src, n * Width, lf)

\* The first n elements of an array that is built are.
LEMMA BuiltIsSource ==
  ASSUME TransferAssumption, NEW cells, NEW n, Built(cells, n), OnceIn(cells), NEW s \in 0 .. n,
         NEW lf, Held(cells) \subseteq DOMAIN lf
  PROVE  Source(cells, s, lf) /\ Short(s) /\ s \in Nat /\ n \in Nat
<1>1. PICK c \in Nat : Short(c) /\ Len(cells) = c * Width /\ n \in 0 .. c
  BY DEF Built
<1>2. n * Width \in 0 .. Len(cells) /\ n \in Nat /\ Len(cells) \in Nat
  BY <1>1, WidthTimes
<1>3. s * Width \in 0 .. n * Width /\ s \in Nat
  BY <1>2, WidthTimes
<1>4. \A k \in 1 .. s * Width : k \in 1 .. Len(cells) /\ k <= n * Width
  BY <1>2, <1>3
<1>5. cells \in Seq(Leaves \cup {RawMember}) /\ DOMAIN cells = 1 .. Len(cells)
      /\ \A k \in 1 .. Len(cells) : cells[k] # RawMember <=> k <= n * Width
  BY DEF Built
<1>6. \A k \in 1 .. s * Width : cells[k] # RawMember /\ k \in DOMAIN cells
  BY <1>4, <1>5
<1>7. \A k \in 1 .. s * Width : cells[k] \in DOMAIN lf
  BY <1>6 DEF Held
<1>8. \A j, k \in 1 .. s * Width : cells[j] = cells[k] => j = k
  BY <1>6 DEF OnceIn
<1>9. s * Width <= Len(cells)
  BY <1>2, <1>3
<1>10. Short(s)
  BY <1>1, <1>3 DEF Short
<1> QED BY <1>2, <1>3, <1>5, <1>7, <1>8, <1>9, <1>10 DEF Source, Pointing

\* A transfer of s elements into a new array with room for c.
LEMMA TransferWorks ==
  ASSUME TransferAssumption, NEW c, Short(c), NEW s \in 0 .. c, NEW src, NEW lf, Source(src, s, lf),
         LeafMap(lf), NEW tm \in Memories, NEW sm, RoomFor(lf, s * Width),
         NEW t, t = Transfer(Unbuilt(c), src, s, tm, sm, lf)
  PROVE  /\ Holding(t.cells, t.leaf, s, tm) /\ Len(t.cells) = c * Width
         /\ Changes(lf, t.leaf, {}, t.cells) /\ t.stray = {} /\ t.res \in BOOLEAN
<1> DEFINE N == s * Width
           bytes == Bytes(Unbuilt(s), src, s)
           at == WorkMemory(tm, sm)
           r == Internal(bytes, s, tm, at, FALSE, lf)
           direct == tm = ExecutionDefault /\ sm = ExecutionDefault
<1>1. /\ t.cells = Bytes(Unbuilt(c), r.cells, s) /\ t.leaf = r.leaf /\ t.stray = r.stray
      /\ t.res = (direct \/ s > 0)
  BY DEF Transfer
<1>2. c \in Nat /\ s \in Nat /\ N \in 0 .. c * Width /\ c * Width \in Nat /\ Short(s)
  <2>1. c \in Nat
    BY DEF Short
  <2>2. Short(s)
    BY <2>1 DEF Short
  <2> QED BY <2>1, <2>2, WidthTimes
<1>3. IsAddressable(at)
  BY DEF WorkMemory, IsAddressable, IsUnified, IsHostMemory, ExecutionDefault
<1>4. bytes = [k \in 1 .. N |-> src[k]]
  <2>1. DOMAIN Unbuilt(s) = 1 .. N
    BY DEF Unbuilt
  <2>2. \A k \in 1 .. N : k <= s * Width
    BY <1>2
  <2> QED BY <2>1, <2>2 DEF Bytes
<1>5. /\ bytes \in Seq(Leaves \cup {RawMember}) /\ Len(bytes) = N
      /\ \A k \in 1 .. N : bytes[k] = src[k] /\ bytes[k] # RawMember
  <2>1. \A k \in 1 .. N : src[k] \in DOMAIN lf
    BY DEF Source, Pointing
  <2>2. \A k \in 1 .. N : src[k] \in Leaves /\ src[k] # RawMember
    BY <2>1 DEF LeafMap, TransferAssumption, RawMember
  <2> HIDE DEF bytes, N
  <2> QED BY <1>2, <1>4, <2>2
<1>6. Pointing(bytes, N, lf)
  <2>1. Pointing(src, N, lf)
    BY DEF Source
  <2> HIDE DEF bytes, N
  <2> QED BY <1>5, <2>1 DEF Pointing
<1>7. Passable(bytes, N, lf, tm)
  <2> HIDE DEF bytes
  <2> QED BY <1>2, <1>5 DEF Passable
<1>8. PICK release \in BOOLEAN : release = FALSE
  OBVIOUS
<1>9. r = Internal(bytes, s, tm, at, release, lf)
  BY <1>8
<1> HIDE DEF bytes, at, r
<1>10. Passed(r, N, bytes, lf, tm, release) /\ r.stray = {}
  BY <1>2, <1>3, <1>6, <1>7, <1>9, InternalWorks
<1>11. Built(bytes, s)
  <2>1. Len(bytes) = s * Width /\ s \in 0 .. s
    BY <1>2, <1>5
  <2>2. \A k \in 1 .. Len(bytes) : bytes[k] # RawMember <=> k <= s * Width
    BY <1>2, <1>5
  <2> QED BY <1>2, <1>5, <2>1, <2>2 DEF Built
<1>12. /\ Holding(r.cells, r.leaf, s, tm) /\ Len(r.cells) = Len(bytes)
       /\ Changes(lf, r.leaf, IF release THEN Held(bytes) ELSE {}, r.cells)
  BY <1>10, <1>11, PassedChanges
<1>13. Changes(lf, r.leaf, {}, r.cells)
  BY <1>8, <1>12
<1>14. /\ r.cells \in Seq(Leaves \cup {RawMember}) /\ Len(r.cells) = N /\ DOMAIN r.cells = 1 .. N
       /\ \A k \in 1 .. N : r.cells[k] # RawMember
  BY <1>2, <1>5, <1>12 DEF Holding, Built
<1>15. t.cells = [k \in 1 .. c * Width |-> IF k <= N THEN r.cells[k] ELSE RawMember]
  <2>1. DOMAIN Unbuilt(c) = 1 .. c * Width /\ \A k \in 1 .. c * Width : Unbuilt(c)[k] = RawMember
    BY DEF Unbuilt
  <2> QED BY <1>1, <2>1 DEF Bytes
<1>16. /\ t.cells \in Seq(Leaves \cup {RawMember}) /\ Len(t.cells) = c * Width /\ DOMAIN t.cells = 1 .. c * Width
       /\ \A k \in 1 .. c * Width : t.cells[k] # RawMember <=> k <= N
       /\ \A k \in 1 .. N : k \in 1 .. c * Width /\ t.cells[k] = r.cells[k]
  <2>1. \A k \in 1 .. c * Width : k <= N => k \in 1 .. N
    BY <1>2
  <2>2. \A k \in 1 .. N : r.cells[k] \in Leaves \cup {RawMember}
    BY <1>14
  <2>3. \A k \in 1 .. N : k \in 1 .. c * Width /\ k <= N
    BY <1>2
  <2> HIDE DEF N
  <2> QED BY <1>2, <1>14, <1>15, <2>1, <2>2, <2>3
<1>17. Held(t.cells) = Held(r.cells)
  <2>1. \A k \in 1 .. c * Width : k <= N => k \in 1 .. N
    BY <1>2
  <2> QED BY <1>14, <1>16, <2>1 DEF Held
<1>18. OnceIn(t.cells)
  <2>1. OnceIn(r.cells)
    BY <1>13 DEF Changes
  <2>2. \A k \in 1 .. c * Width : t.cells[k] # RawMember => k \in 1 .. N
    BY <1>2, <1>16
  <2> QED BY <1>14, <1>16, <2>1, <2>2 DEF OnceIn
<1>19. Changes(lf, t.leaf, {}, t.cells)
  BY <1>1, <1>13, <1>17, <1>18 DEF Changes
<1>20. Built(t.cells, s)
  BY <1>2, <1>16 DEF Built
<1>21. Holding(t.cells, t.leaf, s, tm)
  BY <1>1, <1>12, <1>17, <1>20 DEF Holding
<1>22. t.stray = {}
  BY <1>1, <1>10
<1> QED BY <1>1, <1>16, <1>19, <1>21, <1>22

-----------------------------------------------------------------------------
(* Steps *)

\* The invariant without stray and done.
Divided == LeafMap(leaf) /\ ArraysFit /\ ViewsFit /\ OwnedNow

LEMMA HoldingsAre ==
  ASSUME SensibleTransfers, Divided
  PROVE  /\ DOMAIN Holdings = Keepers
         /\ \A a \in DOMAIN arr : a \in Keepers /\ a \in Arrays /\ a \notin DOMAIN view /\ Holdings[a] = arr[a].cells
         /\ \A v \in DOMAIN view : v \in Views /\ v \notin DOMAIN arr /\ (v \in Keepers <=> view[v].own /\ view[v].deep)
         /\ \A v \in DOMAIN view : v \in Keepers => Holdings[v] = view[v].cells
<1>1. DOMAIN arr \subseteq Arrays /\ DOMAIN view \subseteq Views /\ Arrays \cap Views = {}
  BY DEF Divided, ArraysFit, ViewsFit, SensibleTransfers, TransferAssumption
<1>2. DOMAIN Holdings = Keepers /\ \A o \in Keepers : Holdings[o] = CellsOf(o)
  BY DEF Holdings
<1> QED BY <1>1, <1>2 DEF Keepers, CellsOf

\* Array a, new or not, has something else, and all else is as it was.
OnlyArray(a) ==
  /\ DOMAIN arr' = DOMAIN arr \cup {a} /\ arr' \in [DOMAIN arr' -> ArrType]
  /\ \A b \in DOMAIN arr \ {a} : arr'[b] = arr[b]
  /\ a \in DOMAIN arr => arr'[a].mem = arr[a].mem
  /\ Built(arr'[a].cells, arr'[a].size)
  /\ Changes(leaf, leaf', HeldIn(Holdings, a), arr'[a].cells)
  /\ view' = view

LEMMA ArrayStep ==
  ASSUME SensibleTransfers, Divided, NEW a \in Arrays, OnlyArray(a)
  PROVE  Divided'
<1>1. /\ DOMAIN arr' = DOMAIN arr \cup {a} /\ arr' \in [DOMAIN arr' -> ArrType]
      /\ \A b \in DOMAIN arr \ {a} : arr'[b] = arr[b]
      /\ a \in DOMAIN arr => arr'[a].mem = arr[a].mem
      /\ Built(arr'[a].cells, arr'[a].size) /\ view' = view
  BY DEF OnlyArray
<1>2. Changes(leaf, leaf', HeldIn(Holdings, a), arr'[a].cells)
  BY DEF OnlyArray
<1>3. /\ DOMAIN Holdings = Keepers
      /\ \A b \in DOMAIN arr : b \in Keepers /\ b \in Arrays /\ b \notin DOMAIN view /\ Holdings[b] = arr[b].cells
      /\ \A v \in DOMAIN view : v \in Views /\ v \notin DOMAIN arr /\ (v \in Keepers <=> view[v].own /\ view[v].deep)
      /\ \A v \in DOMAIN view : v \in Keepers => Holdings[v] = view[v].cells
  BY HoldingsAre
<1>4. Arrays \cap Views = {}
  BY DEF SensibleTransfers, TransferAssumption
<1>5. Keepers' = Keepers \cup {a}
  BY <1>1 DEF Keepers
<1>6. PICK h : h = Holdings
  OBVIOUS
<1>7. PICK nh : nh = Holdings'
  OBVIOUS
<1>8. PICK lf : lf = leaf
  OBVIOUS
<1>9. PICK nlf : nlf = leaf'
  OBVIOUS
<1>10. DOMAIN nh = Keepers' /\ \A o \in Keepers' : nh[o] = IF o \in DOMAIN arr' THEN arr'[o].cells ELSE view'[o].cells
  BY <1>7 DEF Holdings, CellsOf
<1>11. \A o \in Keepers \ {a} : nh[o] = h[o]
  <2> SUFFICES ASSUME NEW o \in Keepers \ {a} PROVE nh[o] = h[o]
    OBVIOUS
  <2>1. CASE o \in DOMAIN arr
    BY <1>1, <1>3, <1>5, <1>6, <1>10, <2>1
  <2>2. CASE o \in DOMAIN view
    BY <1>1, <1>3, <1>4, <1>5, <1>6, <1>10, <2>2
  <2> QED BY <2>1, <2>2 DEF Keepers
<1>12. OnlyOwner(h, nh, a)
  BY <1>3, <1>5, <1>6, <1>10, <1>11 DEF OnlyOwner
<1>13. nh[a] = arr'[a].cells
  BY <1>1, <1>5, <1>10
<1>14. Changes(lf, nlf, HeldIn(h, a), nh[a])
  BY <1>2, <1>6, <1>8, <1>9, <1>13
<1>15. Owned(h, lf)
  BY <1>6, <1>8 DEF Divided, OwnedNow
<1>16. Owned(nh, nlf)
  BY <1>12, <1>14, <1>15, OwnerChanges
<1>17. OwnedNow'
  BY <1>7, <1>9, <1>16 DEF OwnedNow, Owned
<1>18. LeafMap(leaf)'
  BY <1>2 DEF Changes, LeafMap
<1>19. ArraysFit'
  <2>1. \A b \in DOMAIN arr' : Built(arr'[b].cells, arr'[b].size)
    BY <1>1 DEF Divided, ArraysFit
  <2>2. DOMAIN arr' \subseteq Arrays
    BY <1>1, <1>3
  <2> QED BY <1>1, <2>1, <2>2 DEF ArraysFit, Built
<1>20. ViewsFit'
  <2>1. /\ DOMAIN view \subseteq Views /\ view \in [DOMAIN view -> ViewType]
        /\ \A v \in DOMAIN view : ViewFits(view[v], arr, leaf)
    BY DEF Divided, ViewsFit
  <2>2. \A c \in DOMAIN arr : c \in DOMAIN arr' /\ arr'[c].mem = arr[c].mem
    BY <1>1
  <2>3. ASSUME NEW v \in DOMAIN view PROVE ViewFits(view[v], arr', leaf')
    <3>1. ViewFits(view[v], arr, leaf) /\ view[v] \in ViewType
      BY <2>1
    <3>2. view[v].own \in BOOLEAN /\ view[v].deep \in BOOLEAN
      BY <3>1 DEF ViewType
    <3>3. CASE view[v].own /\ view[v].deep
      <4>1. v \in DOMAIN h \ {a} /\ h[v] = view[v].cells
        BY <1>3, <1>4, <1>6, <3>3
      <4>2. \A l \in Held(h[v]) : l \in DOMAIN nlf /\ nlf[l] = lf[l]
        BY <1>14, <1>15, <4>1, OthersKeep
      <4> QED BY <1>8, <1>9, <3>1, <3>3, <4>1, <4>2 DEF ViewFits
    <3>4. CASE ~(view[v].own /\ view[v].deep)
      BY <2>2, <3>1, <3>2, <3>4 DEF ViewFits
    <3> QED BY <3>3, <3>4
  <2>4. \A v \in DOMAIN view' : ViewFits(view'[v], arr', leaf')
    BY <1>1, <2>3
  <2> QED BY <1>1, <2>1, <2>4 DEF ViewsFit, ViewFits, Built
<1> QED BY <1>17, <1>18, <1>19, <1>20 DEF Divided

LEMMA CapacityIs ==
  ASSUME TransferAssumption, NEW cells, NEW n, Built(cells, n)
  PROVE  /\ Short(CapacityOf(cells)) /\ CapacityOf(cells) \in Nat
         /\ Len(cells) = CapacityOf(cells) * Width /\ n \in 0 .. CapacityOf(cells) /\ Short(n) /\ n \in Nat
<1>1. PICK c \in Nat : Short(c) /\ Len(cells) = c * Width /\ n \in 0 .. c
  BY DEF Built
<1>2. (c * Width) \div Width = c
  BY <1>1, WidthTimes
<1>3. CapacityOf(cells) = c
  BY <1>1, <1>2 DEF CapacityOf
<1> QED BY <1>1, <1>3 DEF Short

LEMMA LengthsAreShort ==
  ASSUME SensibleTransfers, NEW n \in Lengths
  PROVE  Short(n) /\ n \in Nat /\ n > 0
BY DEF SensibleTransfers, TransferAssumption, Short

LEMMA UnbuiltIs ==
  ASSUME TransferAssumption, NEW n, Short(n)
  PROVE  Built(Unbuilt(n), 0) /\ Held(Unbuilt(n)) = {} /\ OnceIn(Unbuilt(n)) /\ Len(Unbuilt(n)) = n * Width
<1>1. n \in Nat
  BY DEF Short
<1>2. n * Width \in Nat /\ 0 * Width = 0
  BY <1>1, WidthTimes
<1> DEFINE N == n * Width
           u == Unbuilt(n)
<1>3. u = [k \in 1 .. N |-> RawMember]
  BY DEF Unbuilt
<1> HIDE DEF N, u
<1>4. u \in Seq(Leaves \cup {RawMember}) /\ Len(u) = N /\ DOMAIN u = 1 .. N /\ \A k \in 1 .. N : u[k] = RawMember
  BY <1>2, <1>3 DEF N
<1>5. \A k \in 1 .. N : ~(k <= 0 * Width)
  BY <1>2
<1>6. Built(u, 0)
  BY <1>1, <1>4, <1>5 DEF Built, N
<1>7. Held(u) = {} /\ OnceIn(u)
  BY <1>4 DEF Held, OnceIn
<1> QED BY <1>4, <1>6, <1>7 DEF u, N

LEMMA AllocateStep ==
  ASSUME SensibleTransfers, TInv, NEW a \in Arrays, NEW n \in Lengths, NEW m \in ArrayMemories, Allocate(a, n, m)
  PROVE  TInv'
<1> DEFINE r == [mem |-> m, size |-> 0, cells |-> Unbuilt(n)]
<1>1. /\ a \notin DOMAIN arr /\ arr' = With(arr, a, r) /\ leaf' = leaf /\ view' = view
      /\ stray' = stray /\ done' = done
  BY DEF Allocate
<1>2. TransferAssumption /\ Divided
  BY DEF TInv, Divided, SensibleTransfers
<1>3. Short(n)
  BY LengthsAreShort
<1>4. Built(Unbuilt(n), 0) /\ Held(Unbuilt(n)) = {} /\ OnceIn(Unbuilt(n))
  BY <1>2, <1>3, UnbuiltIs
<1>5. r \in ArrType /\ r.cells = Unbuilt(n) /\ r.size = 0
  BY <1>2, <1>4 DEF ArrType, TransferAssumption, Built
<1> HIDE DEF r
<1>6. /\ DOMAIN arr' = DOMAIN arr \cup {a} /\ arr'[a] = r
      /\ \A b \in DOMAIN arr \ {a} : arr'[b] = arr[b]
      /\ arr' \in [DOMAIN arr' -> ArrType]
  <2>1. \A b \in DOMAIN arr : arr[b] \in ArrType
    BY <1>2 DEF Divided, ArraysFit
  <2> QED BY <1>1, <1>5, <2>1 DEF With
<1>7. a \notin DOMAIN Holdings
  <2>1. DOMAIN Holdings = Keepers
    BY DEF Holdings
  <2>2. a \notin DOMAIN view
    BY <1>2 DEF Divided, ViewsFit, TransferAssumption
  <2> QED BY <1>1, <2>1, <2>2 DEF Keepers
<1>8. Changes(leaf, leaf', HeldIn(Holdings, a), arr'[a].cells)
  BY <1>1, <1>2, <1>4, <1>5, <1>6, <1>7 DEF Changes, HeldIn, Divided
<1>9. OnlyArray(a)
  BY <1>1, <1>4, <1>5, <1>6, <1>8 DEF OnlyArray
<1>10. Divided'
  BY <1>2, <1>9, ArrayStep
<1> QED BY <1>1, <1>10 DEF TInv, Divided, OthersFit

\* An array that is there has other elements.
LEMMA RebuiltArray ==
  ASSUME SensibleTransfers, Divided, NEW a \in DOMAIN arr,
         DOMAIN arr' = DOMAIN arr, \A b \in DOMAIN arr \ {a} : arr'[b] = arr[b],
         arr'[a] \in ArrType, arr'[a].mem = arr[a].mem, arr' \in [DOMAIN arr -> ArrType],
         Built(arr'[a].cells, arr'[a].size), view' = view,
         Changes(leaf, leaf', Held(arr[a].cells), arr'[a].cells)
  PROVE  Divided'
<1>1. a \in DOMAIN Holdings /\ Holdings[a] = arr[a].cells /\ a \in Arrays
  BY HoldingsAre
<1>2. HeldIn(Holdings, a) = Held(arr[a].cells)
  BY <1>1 DEF HeldIn
<1>3. OnlyArray(a)
  BY <1>2 DEF OnlyArray
<1> QED BY <1>1, <1>3, ArrayStep

LEMMA BuildStep ==
  ASSUME SensibleTransfers, TInv, NEW a \in Arrays, NEW n \in Lengths, NEW m \in LeafMemories,
         NEW x \in Values, BuildElements(a, n, m, x)
  PROVE  TInv'
<1> DEFINE cells == arr[a].cells
           r == Construct(cells, n, m, x, leaf)
<1>1. /\ a \in DOMAIN arr /\ arr[a].size = 0 /\ n <= CapacityOf(cells) /\ Room(n * Width)
      /\ arr' = [arr EXCEPT ![a].cells = r.cells, ![a].size = n] /\ leaf' = r.leaf
      /\ view' = view /\ stray' = stray /\ done' = done
  BY DEF BuildElements
<1>2. TransferAssumption /\ Divided
  BY DEF TInv, Divided, SensibleTransfers
<1>3. arr[a] \in ArrType /\ Built(cells, 0) /\ arr \in [DOMAIN arr -> ArrType]
  BY <1>1, <1>2 DEF Divided, ArraysFit
<1>4. Short(n) /\ n \in Nat
  BY LengthsAreShort
<1>5. /\ Short(CapacityOf(cells)) /\ Len(cells) = CapacityOf(cells) * Width /\ CapacityOf(cells) \in Nat
  BY <1>2, <1>3, CapacityIs
<1>6. n * Width \in 0 .. Len(cells) /\ 0 * Width = 0 /\ Len(cells) \in Nat
  BY <1>1, <1>2, <1>4, <1>5, WidthTimes
<1>7. cells \in Seq(Leaves \cup {RawMember}) /\ \A k \in 1 .. Len(cells) : cells[k] = RawMember
  BY <1>3, <1>6 DEF Built
<1>8. LeafMap(leaf) /\ RoomFor(leaf, n * Width) /\ m \in Memories
  BY <1>1, <1>2 DEF Divided, Room, RoomFor, TransferAssumption
<1> HIDE DEF cells, r
<1>9. Passable(cells, n * Width, leaf, m)
  BY <1>6, <1>7, <1>8 DEF Passable
<1>10. Passed(r, n * Width, cells, leaf, m, FALSE)
  BY <1>2, <1>9, ConstructWorks DEF r
<1>11. Held(cells) = {}
  BY <1>7 DEF Held
<1>12. Built(r.cells, n) /\ Changes(leaf, r.leaf, Held(cells), r.cells)
  <2> DEFINE new == {r.cells[j] : j \in 1 .. n * Width}
  <2>1. /\ r.cells \in Seq(Leaves \cup {RawMember}) /\ Len(r.cells) = Len(cells)
        /\ \A k \in 1 .. Len(cells) : IF k <= n * Width THEN r.cells[k] \in Leaves ELSE r.cells[k] = cells[k]
        /\ \A j, k \in 1 .. n * Width : r.cells[j] = r.cells[k] => j = k
        /\ LeafMap(r.leaf)
        /\ DOMAIN r.leaf = DOMAIN leaf \cup new
        /\ \A j \in 1 .. n * Width : r.cells[j] \notin DOMAIN leaf
        /\ \A l \in DOMAIN leaf : r.leaf[l] = leaf[l]
    BY <1>10 DEF Passed
  <2>2. \A l \in Leaves : l # RawMember
    BY <1>2 DEF TransferAssumption, RawMember
  <2>3. \A k \in 1 .. Len(cells) : r.cells[k] # RawMember <=> k <= n * Width
    BY <1>7, <2>1, <2>2
  <2>4. DOMAIN r.cells = 1 .. Len(cells)
    BY <2>1
  <2>5. \A k \in 1 .. Len(cells) : k \in 1 .. n * Width <=> k <= n * Width
    BY <1>6
  <2>6. \A k \in 1 .. n * Width : k \in 1 .. Len(cells)
    BY <1>6
  <2>7. Held(r.cells) = new
    BY <2>3, <2>4, <2>5, <2>6 DEF Held
  <2>8. OnceIn(r.cells)
    BY <2>1, <2>3, <2>4, <2>5 DEF OnceIn
  <2>9. n \in 0 .. CapacityOf(cells)
    BY <1>1, <1>4, <1>5
  <2>10. Built(r.cells, n)
    BY <1>5, <2>1, <2>3, <2>9 DEF Built
  <2>11. Held(r.cells) \cap DOMAIN leaf = {}
    BY <2>1, <2>7
  <2>12. Changes(leaf, r.leaf, Held(cells), r.cells)
    BY <1>11, <2>1, <2>7, <2>8, <2>11 DEF Changes
  <2> QED BY <2>10, <2>12
<1>13. /\ DOMAIN arr' = DOMAIN arr /\ \A b \in DOMAIN arr \ {a} : arr'[b] = arr[b]
       /\ arr'[a] \in ArrType /\ arr'[a].mem = arr[a].mem
       /\ arr'[a].cells = r.cells /\ arr'[a].size = n
       /\ arr' \in [DOMAIN arr -> ArrType]
  <2>1. r.cells \in Seq(Leaves \cup {RawMember})
    BY <1>12 DEF Built
  <2> QED BY <1>1, <1>3, <1>4, <2>1 DEF ArrType
<1>14. Divided'
  <2>1. Changes(leaf, leaf', Held(arr[a].cells), arr'[a].cells)
    BY <1>1, <1>12, <1>13 DEF cells
  <2>2. Built(arr'[a].cells, arr'[a].size)
    BY <1>12, <1>13
  <2> QED BY <1>1, <1>2, <1>13, <2>1, <2>2, RebuiltArray
<1> QED BY <1>1, <1>14 DEF TInv, Divided, OthersFit

LEMMA ArrayIs ==
  ASSUME SensibleTransfers, Divided, NEW a \in DOMAIN arr
  PROVE  /\ arr[a] \in ArrType /\ Built(arr[a].cells, arr[a].size)
         /\ OnceIn(arr[a].cells) /\ Held(arr[a].cells) \subseteq DOMAIN leaf
<1>1. a \in DOMAIN Holdings /\ Holdings[a] = arr[a].cells
  BY HoldingsAre
<1>2. OnceIn(Holdings[a]) /\ Held(Holdings[a]) \subseteq DOMAIN leaf
  BY <1>1 DEF Divided, OwnedNow, Owned
<1> QED BY <1>1, <1>2 DEF Divided, ArraysFit

LEMMA SameSide ==
  ASSUME NEW tm \in Memories, NEW sm \in Memories
  PROVE  Misdirected(tm, tm, sm, sm) = {}
BY DEF Misdirected, TransferDirection, OnSide, Memories, IsUnified, IsHostMemory, IsGPUMemory

LEMMA CloneStep ==
  ASSUME SensibleTransfers, TInv, NEW a \in Arrays, NEW b \in Arrays, NEW m \in ArrayMemories, Clone(b, a, m)
  PROVE  TInv'
<1> DEFINE n == arr[a].size
           src == arr[a].cells
           c == CapacityOf(src)
           r == Transfer(Unbuilt(c), src, n, m, arr[a].mem, leaf)
           e == [mem |-> m, size |-> n, cells |-> r.cells]
<1>1. /\ a \in DOMAIN arr /\ b \notin DOMAIN arr /\ Room(Len(Visits(n)))
      /\ arr' = With(arr, b, e) /\ leaf' = r.leaf /\ view' = view
      /\ stray' = stray \cup r.stray \cup Misdirected(m, m, arr[a].mem, arr[a].mem)
      /\ done' = [reported |-> r.res, worked |-> r.stray = {}]
  BY DEF Clone
<1>2. TransferAssumption /\ Divided
  BY DEF TInv, Divided, SensibleTransfers
<1>3. /\ arr[a] \in ArrType /\ Built(src, n) /\ OnceIn(src) /\ Held(src) \subseteq DOMAIN leaf
  BY <1>1, <1>2, ArrayIs
<1>4. Short(c) /\ n \in 0 .. c /\ Short(n) /\ n \in Nat
  BY <1>2, <1>3, CapacityIs
<1>5. Source(src, n, leaf)
  <2>1. n \in 0 .. n
    BY <1>4
  <2> HIDE DEF src, n
  <2> QED BY <1>2, <1>3, <2>1, BuiltIsSource
<1>6. RoomFor(leaf, n * Width)
  <2>1. n * Width \in Nat
    BY <1>2, <1>4, WidthTimes
  <2>2. Visits(n) = [k \in 1 .. n * Width |-> k]
    BY <1>2, <1>4, VisitsInOrder
  <2>3. Len(Visits(n)) = n * Width
    BY <2>1, <2>2
  <2> QED BY <1>1, <2>3 DEF Room, RoomFor
<1>7. LeafMap(leaf) /\ m \in Memories /\ arr[a].mem \in Memories
  BY <1>2, <1>3 DEF Divided, ArrType, TransferAssumption
<1>8. /\ Holding(r.cells, r.leaf, n, m)
      /\ Changes(leaf, r.leaf, {}, r.cells) /\ r.stray = {} /\ r.res \in BOOLEAN
  <2> DEFINE sm == arr[a].mem
  <2>1. r = Transfer(Unbuilt(c), src, n, m, sm, leaf)
    OBVIOUS
  <2> HIDE DEF r, c, src, n, sm
  <2> QED BY <1>2, <1>4, <1>5, <1>6, <1>7, <2>1, TransferWorks
<1>9. Built(r.cells, n)
  BY <1>8 DEF Holding
<1>10. e \in ArrType /\ e.cells = r.cells /\ e.size = n
  BY <1>4, <1>7, <1>9 DEF ArrType, Built
<1> HIDE DEF r, e
<1>11. /\ DOMAIN arr' = DOMAIN arr \cup {b} /\ arr'[b] = e
       /\ \A d \in DOMAIN arr \ {b} : arr'[d] = arr[d]
       /\ arr' \in [DOMAIN arr' -> ArrType]
  <2>1. \A d \in DOMAIN arr : arr[d] \in ArrType
    BY <1>2 DEF Divided, ArraysFit
  <2> QED BY <1>1, <1>10, <2>1 DEF With
<1>12. b \notin DOMAIN Holdings
  <2>1. DOMAIN Holdings = Keepers
    BY DEF Holdings
  <2>2. b \notin DOMAIN view
    BY <1>2 DEF Divided, ViewsFit, TransferAssumption
  <2> QED BY <1>1, <2>1, <2>2 DEF Keepers
<1>13. Changes(leaf, leaf', HeldIn(Holdings, b), arr'[b].cells)
  BY <1>1, <1>8, <1>10, <1>11, <1>12 DEF HeldIn
<1>14. OnlyArray(b)
  BY <1>1, <1>9, <1>10, <1>11, <1>13 DEF OnlyArray
<1>15. Divided'
  BY <1>2, <1>14, ArrayStep
<1>16. stray' = {} /\ done' \in [reported : BOOLEAN, worked : BOOLEAN]
  <2>1. Misdirected(m, m, arr[a].mem, arr[a].mem) = {}
    BY <1>7, SameSide
  <2> QED BY <1>1, <1>8, <2>1 DEF TInv, OthersFit
<1> QED BY <1>15, <1>16 DEF TInv, Divided, OthersFit

\* The elements of array a that is built are passed once and take new leaves.
LEMMA PassedStep ==
  ASSUME SensibleTransfers, Divided, NEW a \in DOMAIN arr, NEW r, NEW m,
         Passed(r, arr[a].size * Width, arr[a].cells, leaf, m, TRUE),
         arr' = [arr EXCEPT ![a].cells = r.cells] \/ arr' = [arr EXCEPT ![a].cells = r.cells, ![a].size = arr[a].size],
         leaf' = r.leaf, view' = view
  PROVE  Divided'
<1> DEFINE n == arr[a].size
           cells == arr[a].cells
<1>1. TransferAssumption /\ LeafMap(leaf) /\ arr \in [DOMAIN arr -> ArrType]
  BY DEF SensibleTransfers, Divided, ArraysFit
<1>2. arr[a] \in ArrType /\ Built(cells, n)
  BY ArrayIs
<1>3. Holding(r.cells, r.leaf, n, m) /\ Changes(leaf, r.leaf, Held(cells), r.cells)
  <2>1. PICK lf : lf = leaf
    OBVIOUS
  <2>2. PICK release \in BOOLEAN : release = TRUE
    OBVIOUS
  <2>3. Passed(r, n * Width, cells, lf, m, release) /\ LeafMap(lf)
    BY <1>1, <2>1, <2>2
  <2> HIDE DEF n, cells
  <2>4. /\ Holding(r.cells, r.leaf, n, m)
        /\ Changes(lf, r.leaf, IF release THEN Held(cells) ELSE {}, r.cells)
    BY <1>1, <1>2, <2>3, PassedChanges
  <2> QED BY <2>1, <2>2, <2>4
<1>4. Built(r.cells, n) /\ r.cells \in Seq(Leaves \cup {RawMember})
  BY <1>3 DEF Holding, Built
<1>5. /\ DOMAIN arr' = DOMAIN arr /\ \A b \in DOMAIN arr \ {a} : arr'[b] = arr[b]
      /\ arr'[a] \in ArrType /\ arr'[a].mem = arr[a].mem
      /\ arr'[a].cells = r.cells /\ arr'[a].size = n
      /\ arr' \in [DOMAIN arr -> ArrType]
  <2>1. CASE arr' = [arr EXCEPT ![a].cells = r.cells]
    BY <1>1, <1>2, <1>4, <2>1 DEF ArrType
  <2>2. CASE arr' = [arr EXCEPT ![a].cells = r.cells, ![a].size = n]
    BY <1>1, <1>2, <1>4, <2>2 DEF ArrType
  <2> QED BY <2>1, <2>2
<1>6. Changes(leaf, leaf', Held(arr[a].cells), arr'[a].cells)
  BY <1>3, <1>5
<1>7. Built(arr'[a].cells, arr'[a].size)
  BY <1>4, <1>5
<1> QED BY <1>5, <1>6, <1>7, RebuiltArray

LEMMA MoveInternalStep ==
  ASSUME SensibleTransfers, TInv, NEW a \in Arrays, NEW m \in LeafMemories, MoveInternal(a, m)
  PROVE  TInv'
<1> DEFINE n == arr[a].size
           cells == arr[a].cells
           r == Internal(cells, n, m, ExecutionDefault, TRUE, leaf)
<1>1. /\ a \in DOMAIN arr /\ Room(Len(Visits(n)))
      /\ arr' = [arr EXCEPT ![a].cells = r.cells] /\ leaf' = r.leaf /\ view' = view
      /\ stray' = stray \cup r.stray /\ done' = [reported |-> TRUE, worked |-> r.stray = {}]
  BY DEF MoveInternal
<1>2. TransferAssumption /\ Divided
  BY DEF TInv, Divided, SensibleTransfers
<1>3. /\ arr[a] \in ArrType /\ Built(cells, n) /\ OnceIn(cells) /\ Held(cells) \subseteq DOMAIN leaf
  BY <1>1, <1>2, ArrayIs
<1>4. Short(n) /\ n \in Nat /\ n * Width \in Nat
  <2>1. Short(n) /\ n \in Nat
    BY <1>2, <1>3, CapacityIs
  <2>2. n \in 0 .. n
    BY <2>1
  <2> HIDE DEF n
  <2> QED BY <1>2, <2>1, <2>2, WidthTimes
<1>5. Source(cells, n, leaf)
  <2>1. n \in 0 .. n
    BY <1>4
  <2> HIDE DEF cells, n
  <2> QED BY <1>2, <1>3, <2>1, BuiltIsSource
<1>6. RoomFor(leaf, n * Width)
  <2>1. Visits(n) = [k \in 1 .. n * Width |-> k]
    BY <1>2, <1>4, VisitsInOrder
  <2>2. Len(Visits(n)) = n * Width
    BY <1>4, <2>1
  <2> QED BY <1>1, <2>2 DEF Room, RoomFor
<1>7. Passable(cells, n * Width, leaf, m) /\ Pointing(cells, n * Width, leaf)
  <2>1. LeafMap(leaf) /\ m \in Memories
    BY <1>2 DEF Divided, TransferAssumption
  <2> HIDE DEF cells, n
  <2> QED BY <1>4, <1>5, <1>6, <2>1 DEF Source, Passable
<1>8. IsAddressable(ExecutionDefault)
  BY DEF IsAddressable, IsUnified, IsHostMemory, ExecutionDefault
<1>9. Passed(r, n * Width, cells, leaf, m, TRUE) /\ r.stray = {}
  <2> HIDE DEF cells, n
  <2> QED BY <1>2, <1>4, <1>7, <1>8, InternalWorks
<1>10. Divided'
  <2> HIDE DEF r
  <2> QED BY <1>1, <1>2, <1>9, PassedStep
<1> QED BY <1>1, <1>9, <1>10 DEF TInv, Divided, OthersFit

LEMMA CopyDataStep ==
  ASSUME SensibleTransfers, TInv, NEW a \in Arrays, NEW b \in Arrays, NEW n \in Lengths, CopyData(b, a, n)
  PROVE  TInv'
<1> DEFINE cells == arr[b].cells
           src == arr[a].cells
           from(k) == IF arr[a].size = 1 THEN src[((k - 1) % Width) + 1] ELSE src[k]
           x == [k \in 1 .. n * Width |-> leaf[from(k)].val]
           r == AssignAll(cells, x, leaf)
<1>1. /\ a \in DOMAIN arr /\ b \in DOMAIN arr /\ arr[b].size = CapacityOf(cells) /\ arr[a].size \in {1, n}
      /\ Room(n * Width) /\ CapacityOf(cells) = n
      /\ view' = view /\ done' = done
  BY DEF CopyData, SensibleTransfers
<1>2. /\ arr' = [arr EXCEPT ![b].cells = r.cells, ![b].size = n] /\ leaf' = r.leaf
      /\ stray' = stray \cup r.stray
  BY <1>1 DEF CopyData
<1>3. TransferAssumption /\ Divided
  BY DEF TInv, Divided, SensibleTransfers
<1>4. /\ arr[b] \in ArrType /\ Built(cells, n) /\ OnceIn(cells) /\ Held(cells) \subseteq DOMAIN leaf
  BY <1>1, <1>3, ArrayIs
<1>5. /\ Built(src, arr[a].size) /\ OnceIn(src) /\ Held(src) \subseteq DOMAIN leaf
  BY <1>1, <1>3, ArrayIs
<1>6. Short(n) /\ n \in Nat /\ n > 0 /\ n * Width \in Nat
  <2>1. Short(n) /\ n \in Nat /\ n > 0
    BY LengthsAreShort
  <2>2. n \in 0 .. n
    BY <2>1
  <2> QED BY <1>3, <2>1, <2>2, WidthTimes
<1>7. Source(cells, n, leaf) /\ Source(src, arr[a].size, leaf)
  <2>1. n \in 0 .. n /\ arr[a].size \in 0 .. arr[a].size
    BY <1>1, <1>6
  <2> DEFINE s == arr[a].size
  <2> HIDE DEF cells, src, s
  <2>2. Source(cells, n, leaf)
    BY <1>3, <1>4, <2>1, BuiltIsSource
  <2>3. Source(src, s, leaf)
    BY <1>3, <1>5, <2>1, BuiltIsSource DEF s
  <2> QED BY <2>2, <2>3 DEF s
<1>8. \A k \in 1 .. n * Width : from(k) \in DOMAIN leaf
  <2> SUFFICES ASSUME NEW k \in 1 .. n * Width PROVE from(k) \in DOMAIN leaf
    OBVIOUS
  <2>1. \A j \in 1 .. arr[a].size * Width : src[j] \in DOMAIN leaf
    BY <1>7 DEF Source, Pointing
  <2>2. CASE arr[a].size = 1
    <3>1. arr[a].size * Width = Width /\ ((k - 1) % Width) + 1 \in 1 .. Width
      BY <1>3, <1>6, <2>2 DEF TransferAssumption
    <3> QED BY <2>1, <2>2, <3>1
  <2>3. CASE arr[a].size = n /\ n # 1
    BY <2>1, <2>3
  <2> QED BY <1>1, <2>2, <2>3
<1> HIDE DEF from
<1>9. Valued(x) /\ Len(x) = n * Width
  <2>1. \A k \in 1 .. n * Width : leaf[from(k)].val \in Values
    BY <1>3, <1>8 DEF Divided, LeafMap, LeafType
  <2> QED BY <1>6, <2>1 DEF Valued
<1> HIDE DEF x
<1>10. Passable(cells, Len(x), leaf, ExecutionDefault) /\ Pointing(cells, Len(x), leaf)
  <2>1. LeafMap(leaf) /\ ExecutionDefault \in Memories
    BY <1>3 DEF Divided, ExecutionDefault, Memories
  <2>2. RoomFor(leaf, n * Width)
    BY <1>1 DEF Room, RoomFor
  <2> HIDE DEF cells
  <2> QED BY <1>6, <1>7, <1>9, <2>1, <2>2 DEF Source, Passable
<1>11. Passed(r, n * Width, cells, leaf, ExecutionDefault, TRUE) /\ r.stray = {}
  <2> HIDE DEF cells
  <2> QED BY <1>3, <1>9, <1>10, AssignAllWorks
<1>12. arr[b].size = n
  BY <1>1
<1>13. Divided'
  <2>1. Passed(r, arr[b].size * Width, arr[b].cells, leaf, ExecutionDefault, TRUE)
    BY <1>11, <1>12
  <2>2. arr' = [arr EXCEPT ![b].cells = r.cells, ![b].size = arr[b].size]
    BY <1>2, <1>12
  <2> HIDE DEF r, cells
  <2> QED BY <1>1, <1>2, <1>3, <2>1, <2>2, PassedStep
<1> QED BY <1>1, <1>2, <1>11, <1>13 DEF TInv, Divided, OthersFit

LEMMA OwnersStay ==
  ASSUME NEW h, NEW nh, NEW lf, NEW nlf, Owned(h, lf), DOMAIN nh = DOMAIN h,
         \A o \in DOMAIN h : nh[o] = h[o], DOMAIN nlf = DOMAIN lf
  PROVE  Owned(nh, nlf)
BY DEF Owned

\* Values change, and nothing else.
LEMMA ValueStep ==
  ASSUME SensibleTransfers, TInv, NEW l, NEW x \in Values, leaf' = [leaf EXCEPT ![l].val = x],
         arr' = arr, view' = view, stray' = stray, done' = done
  PROVE  TInv'
<1>1. LeafMap(leaf) /\ ArraysFit /\ ViewsFit /\ OwnedNow
  BY DEF TInv
<1>2. DOMAIN leaf' = DOMAIN leaf
  OBVIOUS
<1>3. \A k \in DOMAIN leaf : leaf'[k] \in LeafType /\ leaf'[k].mem = leaf[k].mem
  <2> SUFFICES ASSUME NEW k \in DOMAIN leaf PROVE leaf'[k] \in LeafType /\ leaf'[k].mem = leaf[k].mem
    OBVIOUS
  <2>1. leaf[k] \in LeafType
    BY <1>1 DEF LeafMap
  <2> QED BY <2>1 DEF LeafType
<1>4. leaf' \in [DOMAIN leaf -> LeafType]
  BY <1>2, <1>3
<1>5. LeafMap(leaf)'
  BY <1>1, <1>2, <1>4 DEF LeafMap, LeafType
<1>6. ArraysFit'
  BY <1>1 DEF ArraysFit, Built
<1>7. Holdings' = Holdings
  BY DEF Holdings, Keepers, CellsOf
<1>8. OwnedNow'
  BY <1>1, <1>2, <1>7 DEF OwnedNow, Owned
<1>9. ViewsFit'
  <2>1. ASSUME NEW v \in DOMAIN view PROVE ViewFits(view[v], arr, leaf')
    <3>1. ViewFits(view[v], arr, leaf) /\ view[v] \in ViewType
      BY <1>1 DEF ViewsFit
    <3>2. CASE view[v].own /\ view[v].deep
      <4>1. v \in DOMAIN Holdings /\ Holdings[v] = view[v].cells
        <5>1. Divided
          BY <1>1 DEF Divided
        <5> QED BY <3>2, <5>1, HoldingsAre
      <4>2. Held(view[v].cells) \subseteq DOMAIN leaf
        BY <1>1, <4>1 DEF OwnedNow, Owned
      <4> QED BY <1>3, <3>1, <3>2, <4>2 DEF ViewFits
    <3>3. CASE ~(view[v].own /\ view[v].deep)
      BY <3>1, <3>3 DEF ViewFits
    <3> QED BY <3>2, <3>3
  <2> QED BY <1>1, <2>1 DEF ViewsFit, ViewFits, Built
<1> QED BY <1>5, <1>6, <1>8, <1>9 DEF TInv, OthersFit

LEMMA WriteStep ==
  ASSUME SensibleTransfers, TInv, NEW a, NEW k, NEW x \in Values, Write(a, k, x)
  PROVE  TInv'
<1>1. PICK l : l = arr[a].cells[k]
  OBVIOUS
<1>2. leaf' = [leaf EXCEPT ![l].val = x] /\ arr' = arr /\ view' = view /\ stray' = stray /\ done' = done
  BY <1>1 DEF Write
<1> QED BY <1>2, ValueStep

LEMMA WriteViewStep ==
  ASSUME SensibleTransfers, TInv, NEW v, NEW k, NEW x \in Values, WriteView(v, k, x)
  PROVE  TInv'
<1>1. PICK l : l = view[v].cells[k]
  OBVIOUS
<1>2. leaf' = [leaf EXCEPT ![l].val = x] /\ arr' = arr /\ view' = view /\ stray' = stray /\ done' = done
  BY <1>1 DEF WriteView
<1> QED BY <1>2, ValueStep

\* destruct gives back what the elements have.
LEMMA DestructWorks ==
  ASSUME TransferAssumption, NEW cells, NEW n, Built(cells, n), NEW lf, LeafMap(lf)
  PROVE  /\ LeafMap(Destruct(cells, n, lf)) /\ DOMAIN Destruct(cells, n, lf) = DOMAIN lf \ Held(cells)
         /\ \A l \in DOMAIN lf \ Held(cells) : Destruct(cells, n, lf)[l] = lf[l]
<1> DEFINE N == n * Width
           s == SubSeq(cells, 1, N)
<1>1. PICK c \in Nat : Short(c) /\ Len(cells) = c * Width /\ n \in 0 .. c
  BY DEF Built
<1>2. N \in 0 .. Len(cells) /\ Len(cells) \in Nat
  BY <1>1, WidthTimes
<1>3. cells \in Seq(Leaves \cup {RawMember}) /\ \A k \in 1 .. Len(cells) : cells[k] # RawMember <=> k <= N
  BY DEF Built
<1> HIDE DEF N
<1>4. DOMAIN s = 1 .. N /\ \A k \in 1 .. N : s[k] = cells[k]
  BY <1>2, <1>3
<1>5. Held(s) = Held(cells)
  <2>1. DOMAIN cells = 1 .. Len(cells)
    BY <1>3
  <2>2. \A k \in 1 .. Len(cells) : k \in 1 .. N <=> k <= N
    BY <1>2
  <2>3. \A k \in 1 .. N : k \in 1 .. Len(cells)
    BY <1>2
  <2> HIDE DEF s
  <2> QED BY <1>3, <1>4, <2>1, <2>2, <2>3 DEF Held
<1>6. Destruct(cells, n, lf) = Without(lf, Held(cells))
  BY <1>5 DEF Destruct, N
<1> QED BY <1>6 DEF Without, LeafMap

\* Owner o goes and leaves what it has; the views that stay fit.
LEMMA StillFits ==
  ASSUME SensibleTransfers, Divided, NEW o, leaf' \in [DOMAIN leaf' -> LeafType],
         \A l \in DOMAIN leaf \ HeldIn(Holdings, o) : leaf'[l] = leaf[l],
         NEW v \in DOMAIN view, v # o, NEW arrays,
         ~(view[v].own /\ view[v].deep) => view[v].src \in DOMAIN arrays /\ arrays[view[v].src].mem = arr[view[v].src].mem
  PROVE  ViewFits(view[v], arrays, leaf')
<1>1. ViewFits(view[v], arr, leaf) /\ view[v] \in ViewType
  BY DEF Divided, ViewsFit
<1>2. view[v].own \in BOOLEAN /\ view[v].deep \in BOOLEAN
  BY <1>1 DEF ViewType
<1>3. CASE view[v].own /\ view[v].deep
  <2>1. v \in DOMAIN Holdings /\ Holdings[v] = view[v].cells
    BY <1>3, HoldingsAre
  <2>2. Held(Holdings[v]) \subseteq DOMAIN leaf
    BY <2>1 DEF Divided, OwnedNow, Owned
  <2>3. o \in DOMAIN Holdings => Held(Holdings[v]) \cap Held(Holdings[o]) = {}
    BY <2>1 DEF Divided, OwnedNow, Owned
  <2>4. \A l \in Held(view[v].cells) : leaf'[l] = leaf[l]
    BY <2>1, <2>2, <2>3 DEF HeldIn
  <2> QED BY <1>1, <1>3, <2>4 DEF ViewFits
<1>4. CASE ~(view[v].own /\ view[v].deep)
  BY <1>1, <1>2, <1>4 DEF ViewFits
<1> QED BY <1>3, <1>4

LEMMA DestroyStep ==
  ASSUME SensibleTransfers, TInv, NEW a \in Arrays, Destroy(a)
  PROVE  TInv'
<1>1. /\ a \in DOMAIN arr /\ ~Borrowed(a) /\ leaf' = Destruct(arr[a].cells, arr[a].size, leaf)
      /\ arr' = Without(arr, {a}) /\ view' = view /\ stray' = stray /\ done' = done
  BY DEF Destroy
<1>2. TransferAssumption /\ Divided
  BY DEF TInv, Divided, SensibleTransfers
<1>3. Built(arr[a].cells, arr[a].size) /\ LeafMap(leaf)
  BY <1>1, <1>2, ArrayIs DEF Divided
<1>4. a \in DOMAIN Holdings /\ Holdings[a] = arr[a].cells
  BY <1>1, <1>2, HoldingsAre
<1>5. /\ LeafMap(leaf') /\ DOMAIN leaf' = DOMAIN leaf \ Held(Holdings[a])
      /\ \A l \in DOMAIN leaf \ Held(Holdings[a]) : leaf'[l] = leaf[l]
  BY <1>1, <1>2, <1>3, <1>4, DestructWorks
<1>6. /\ DOMAIN arr' = DOMAIN arr \ {a} /\ arr' \in [DOMAIN arr' -> ArrType]
      /\ \A b \in DOMAIN arr \ {a} : arr'[b] = arr[b]
  <2>1. \A b \in DOMAIN arr : arr[b] \in ArrType
    BY <1>2 DEF Divided, ArraysFit
  <2> QED BY <1>1, <2>1 DEF Without
<1>7. ArraysFit'
  <2>1. \A b \in DOMAIN arr' : Built(arr'[b].cells, arr'[b].size)
    BY <1>2, <1>6 DEF Divided, ArraysFit
  <2>2. DOMAIN arr' \subseteq Arrays
    BY <1>2, <1>6 DEF Divided, ArraysFit
  <2> QED BY <1>6, <2>1, <2>2 DEF ArraysFit, Built
<1>8. OwnedNow'
  <2>1. PICK h : h = Holdings
    OBVIOUS
  <2>2. PICK nh : nh = Holdings'
    OBVIOUS
  <2>3. PICK lf : lf = leaf
    OBVIOUS
  <2>4. PICK nlf : nlf = leaf'
    OBVIOUS
  <2>5. /\ DOMAIN Holdings = Keepers
        /\ \A b \in DOMAIN arr : b \in Keepers /\ b \notin DOMAIN view /\ Holdings[b] = arr[b].cells
        /\ \A v \in DOMAIN view : v \notin DOMAIN arr /\ (v \in Keepers <=> view[v].own /\ view[v].deep)
        /\ \A v \in DOMAIN view : v \in Keepers => Holdings[v] = view[v].cells
    BY <1>2, HoldingsAre
  <2>6. Keepers' = Keepers \ {a}
    BY <1>1, <1>6, <2>5 DEF Keepers
  <2>7. DOMAIN nh = Keepers' /\ \A o \in Keepers' : nh[o] = IF o \in DOMAIN arr' THEN arr'[o].cells ELSE view'[o].cells
    BY <2>2 DEF Holdings, CellsOf
  <2>8. \A o \in DOMAIN nh : nh[o] = h[o]
    <3> SUFFICES ASSUME NEW o \in Keepers \ {a} PROVE nh[o] = h[o]
      BY <2>6, <2>7
    <3>1. CASE o \in DOMAIN arr
      BY <1>6, <2>1, <2>5, <2>6, <2>7, <3>1
    <3>2. CASE o \in DOMAIN view
      BY <1>1, <1>6, <2>1, <2>5, <2>6, <2>7, <3>2
    <3> QED BY <3>1, <3>2 DEF Keepers
  <2>9. a \in DOMAIN h /\ DOMAIN nh = DOMAIN h \ {a}
    BY <1>4, <2>1, <2>5, <2>6, <2>7
  <2>10. DOMAIN nlf = DOMAIN lf \ Held(h[a])
    BY <1>5, <2>1, <2>3, <2>4
  <2>11. Owned(h, lf)
    BY <1>2, <2>1, <2>3 DEF Divided, OwnedNow
  <2>12. Owned(nh, nlf)
    BY <2>8, <2>9, <2>10, <2>11, OwnerGoes
  <2> QED BY <2>2, <2>4, <2>12 DEF OwnedNow, Owned
<1>9. ViewsFit'
  <2>1. ASSUME NEW v \in DOMAIN view PROVE ViewFits(view[v], arr', leaf')
    <3>1. view[v].src = a => view[v].own /\ view[v].deep
      BY <1>1 DEF Borrowed
    <3>2. ~(view[v].own /\ view[v].deep) =>
            view[v].src \in DOMAIN arr' /\ arr'[view[v].src].mem = arr[view[v].src].mem
      <4>1. ViewFits(view[v], arr, leaf)
        BY <1>2 DEF Divided, ViewsFit
      <4> QED BY <1>6, <3>1, <4>1 DEF ViewFits
    <3>3. v # a
      BY <1>1, <1>2, HoldingsAre
    <3>4. leaf' \in [DOMAIN leaf' -> LeafType]
      BY <1>5 DEF LeafMap
    <3>5. \A l \in DOMAIN leaf \ HeldIn(Holdings, a) : leaf'[l] = leaf[l]
      BY <1>4, <1>5 DEF HeldIn
    <3>6. PICK arrays : arrays = arr'
      OBVIOUS
    <3>7. ViewFits(view[v], arrays, leaf')
      BY <1>2, <3>2, <3>3, <3>4, <3>5, <3>6, StillFits
    <3> QED BY <3>6, <3>7
  <2> QED BY <1>1, <1>2, <2>1 DEF Divided, ViewsFit, ViewFits, Built
<1>10. LeafMap(leaf)'
  BY <1>5 DEF LeafMap
<1> QED BY <1>1, <1>7, <1>8, <1>9, <1>10 DEF TInv, OthersFit

\* The bytes of s elements in a new array with room for c.
LEMMA BytesAreBuilt ==
  ASSUME TransferAssumption, NEW c, Short(c), NEW s \in 0 .. c, NEW src, NEW lf, Source(src, s, lf), LeafMap(lf)
  PROVE  Built(Bytes(Unbuilt(c), src, s), s)
<1> DEFINE N == s * Width
           b == Bytes(Unbuilt(c), src, s)
<1>1. c \in Nat /\ N \in 0 .. c * Width /\ c * Width \in Nat
  BY WidthTimes DEF Short
<1>2. b = [k \in 1 .. c * Width |-> IF k <= N THEN src[k] ELSE RawMember]
  BY DEF Unbuilt, Bytes
<1>3. \A k \in 1 .. N : src[k] \in Leaves /\ src[k] # RawMember
  BY DEF Source, Pointing, LeafMap, TransferAssumption, RawMember
<1>4. \A k \in 1 .. c * Width : k <= N => k \in 1 .. N
  BY <1>1
<1> DEFINE C == c * Width
<1> HIDE DEF N, b, C
<1>5. b = [k \in 1 .. C |-> IF k <= N THEN src[k] ELSE RawMember] /\ C \in Nat /\ N \in Nat
      /\ \A k \in 1 .. C : k <= N => k \in 1 .. N
  BY <1>1, <1>2, <1>4 DEF C
<1>6. /\ b \in Seq(Leaves \cup {RawMember}) /\ Len(b) = C
      /\ \A k \in 1 .. C : b[k] # RawMember <=> k <= N
  BY <1>3, <1>5
<1> QED BY <1>1, <1>6 DEF Built, N, b, C

\* A new view: a copy with elements of its own, or one that borrows.
OnlyView(v) ==
  /\ DOMAIN view' = DOMAIN view \cup {v} /\ view' \in [DOMAIN view' -> ViewType]
  /\ \A w \in DOMAIN view : view'[w] = view[w]
  /\ arr' = arr
  /\ ViewFits(view'[v], arr', leaf')
  /\ IF view'[v].own /\ view'[v].deep THEN Changes(leaf, leaf', {}, view'[v].cells) ELSE leaf' = leaf

LEMMA ViewStep ==
  ASSUME SensibleTransfers, Divided, NEW v \in Views, v \notin DOMAIN view, OnlyView(v)
  PROVE  Divided'
<1>1. /\ DOMAIN view' = DOMAIN view \cup {v} /\ view' \in [DOMAIN view' -> ViewType]
      /\ arr' = arr /\ ViewFits(view'[v], arr', leaf')
      /\ \A w \in DOMAIN view : view'[w] = view[w]
  BY DEF OnlyView
<1>2. IF view'[v].own /\ view'[v].deep THEN Changes(leaf, leaf', {}, view'[v].cells) ELSE leaf' = leaf
  BY DEF OnlyView
<1>3. /\ DOMAIN Holdings = Keepers
      /\ \A b \in DOMAIN arr : b \in Keepers /\ b \in Arrays /\ b \notin DOMAIN view /\ Holdings[b] = arr[b].cells
      /\ \A w \in DOMAIN view : w \in Views /\ w \notin DOMAIN arr /\ (w \in Keepers <=> view[w].own /\ view[w].deep)
      /\ \A w \in DOMAIN view : w \in Keepers => Holdings[w] = view[w].cells
  BY HoldingsAre
<1>4. v \notin DOMAIN arr /\ v \notin Keepers
  BY <1>3 DEF SensibleTransfers, TransferAssumption, Keepers
<1>5. HeldIn(Holdings, v) = {}
  BY <1>3, <1>4 DEF HeldIn
<1>6. LeafMap(leaf) /\ OwnedNow
  BY DEF Divided
<1>7. LeafMap(leaf')
  BY <1>2, <1>6 DEF Changes
<1>8. \A l \in DOMAIN leaf \ HeldIn(Holdings, v) : leaf'[l] = leaf[l]
  BY <1>2, <1>5 DEF Changes
<1>9. PICK h : h = Holdings
  OBVIOUS
<1>10. PICK nh : nh = Holdings'
  OBVIOUS
<1>11. PICK lf : lf = leaf
  OBVIOUS
<1>12. PICK nlf : nlf = leaf'
  OBVIOUS
<1>13. DOMAIN nh = Keepers' /\ \A o \in Keepers' : nh[o] = IF o \in DOMAIN arr' THEN arr'[o].cells ELSE view'[o].cells
  BY <1>10 DEF Holdings, CellsOf
<1>14. Owned(h, lf) /\ DOMAIN h = Keepers
  BY <1>3, <1>6, <1>9, <1>11 DEF OwnedNow
<1>15. Keepers \subseteq Keepers' /\ \A o \in Keepers : nh[o] = h[o]
  <2>1. Keepers \subseteq Keepers'
    BY <1>1 DEF Keepers
  <2>2. ASSUME NEW o \in Keepers PROVE nh[o] = h[o]
    <3>1. CASE o \in DOMAIN arr
      BY <1>1, <1>3, <1>9, <1>13, <2>1, <3>1
    <3>2. CASE o \in DOMAIN view
      BY <1>1, <1>3, <1>9, <1>13, <2>1, <3>2
    <3> QED BY <3>1, <3>2 DEF Keepers
  <2> QED BY <2>1, <2>2
<1>16. Owned(nh, nlf)
  <2>1. CASE view'[v].own /\ view'[v].deep
    <3>1. Keepers' = Keepers \cup {v} /\ v \in Keepers'
      BY <1>1, <2>1 DEF Keepers
    <3>2. nh[v] = view'[v].cells
      BY <1>1, <1>4, <1>13, <3>1
    <3>3. OnlyOwner(h, nh, v)
      BY <1>13, <1>14, <1>15, <3>1 DEF OnlyOwner
    <3>4. Changes(lf, nlf, HeldIn(h, v), nh[v])
      BY <1>2, <1>5, <1>9, <1>11, <1>12, <2>1, <3>2
    <3> QED BY <1>14, <3>3, <3>4, OwnerChanges
  <2>2. CASE ~(view'[v].own /\ view'[v].deep)
    <3>1. Keepers' = Keepers
      BY <1>1, <2>2 DEF Keepers
    <3>2. DOMAIN nlf = DOMAIN lf
      BY <1>2, <1>11, <1>12, <2>2
    <3> QED BY <1>13, <1>14, <1>15, <3>1, <3>2, OwnersStay
  <2> QED BY <2>1, <2>2
<1>17. OwnedNow'
  BY <1>10, <1>12, <1>16 DEF OwnedNow, Owned
<1>18. ViewsFit'
  <2>1. ASSUME NEW w \in DOMAIN view PROVE ViewFits(view[w], arr, leaf')
    <3>1. ~(view[w].own /\ view[w].deep) =>
            view[w].src \in DOMAIN arr /\ arr[view[w].src].mem = arr[view[w].src].mem
      BY DEF Divided, ViewsFit, ViewFits
    <3>2. leaf' \in [DOMAIN leaf' -> LeafType]
      BY <1>7 DEF LeafMap
    <3>3. PICK arrays : arrays = arr
      OBVIOUS
    <3>4. ViewFits(view[w], arrays, leaf')
      BY <1>8, <3>1, <3>2, <3>3, StillFits
    <3> QED BY <3>3, <3>4
  <2>2. ASSUME NEW w \in DOMAIN view' PROVE ViewFits(view'[w], arr', leaf')
    BY <1>1, <2>1
  <2>3. DOMAIN view' \subseteq Views
    BY <1>1, <1>3
  <2> QED BY <1>1, <2>2, <2>3 DEF ViewsFit, ViewFits, Built
<1>19. ArraysFit'
  BY <1>1 DEF Divided, ArraysFit, Built
<1>20. LeafMap(leaf)'
  BY <1>7 DEF LeafMap
<1> QED BY <1>17, <1>18, <1>19, <1>20 DEF Divided

\* The constructors of views, told a kind of memory that fits.
LEMMA NewViewStep ==
  ASSUME SensibleTransfers, TInv, NEW v \in Views, NEW a \in DOMAIN arr, NEW s \in 0 .. arr[a].size,
         NEW n, Short(n), s <= n, NEW kind, NEW deep \in BOOLEAN, NEW force \in BOOLEAN,
         Owns(arr[a].mem, force) => Misdirected(ExecutionDefault, ExecutionDefault, kind, arr[a].mem) = {},
         NewView(v, a, s, n, kind, deep, force)
  PROVE  TInv'
<1> DEFINE own == Owns(arr[a].mem, force)
           src == arr[a].cells
           t == Transfer(Unbuilt(n), src, s, ExecutionDefault, kind, leaf)
           u == [cells |-> Bytes(Unbuilt(n), src, s), leaf |-> leaf, stray |-> {}]
           r == IF own /\ deep THEN t ELSE u
           e == [src |-> a, own |-> own, deep |-> deep, size |-> s, cells |-> IF own THEN r.cells ELSE << >>]
<1>1. /\ v \notin DOMAIN view /\ Room(Len(Visits(s)))
      /\ view' = With(view, v, e) /\ leaf' = r.leaf /\ arr' = arr /\ done' = done
      /\ stray' = stray \cup r.stray \cup
           (IF own THEN Misdirected(ExecutionDefault, ExecutionDefault, kind, arr[a].mem) ELSE {})
  BY DEF NewView
<1>2. TransferAssumption /\ Divided
  BY DEF TInv, Divided, SensibleTransfers
<1>3. /\ arr[a] \in ArrType /\ Built(src, arr[a].size) /\ OnceIn(src) /\ Held(src) \subseteq DOMAIN leaf
  BY <1>2, ArrayIs
<1>4. Source(src, s, leaf) /\ Short(s) /\ s \in Nat
  <2> DEFINE z == arr[a].size
  <2>1. Built(src, z) /\ s \in 0 .. z
    BY <1>3
  <2> HIDE DEF src, z
  <2> QED BY <1>2, <1>3, <2>1, BuiltIsSource
<1>5. s \in 0 .. n /\ n \in Nat
  BY <1>4 DEF Short
<1>6. RoomFor(leaf, s * Width)
  <2>1. s * Width \in Nat
    BY <1>2, <1>5, WidthTimes
  <2>2. Visits(s) = [k \in 1 .. s * Width |-> k]
    BY <1>2, <1>4, VisitsInOrder
  <2>3. Len(Visits(s)) = s * Width
    BY <2>1, <2>2
  <2> QED BY <1>1, <2>3 DEF Room, RoomFor
<1>7. LeafMap(leaf) /\ ExecutionDefault \in Memories
  BY <1>2 DEF Divided, ExecutionDefault, Memories
<1>8. /\ Holding(t.cells, t.leaf, s, ExecutionDefault)
      /\ Changes(leaf, t.leaf, {}, t.cells) /\ t.stray = {}
  <2> DEFINE m == ExecutionDefault
  <2>1. t = Transfer(Unbuilt(n), src, s, m, kind, leaf) /\ m \in Memories
    BY <1>7
  <2> HIDE DEF t, src, m
  <2>2. /\ Holding(t.cells, t.leaf, s, m)
        /\ Changes(leaf, t.leaf, {}, t.cells) /\ t.stray = {}
    BY <1>2, <1>4, <1>5, <1>6, <1>7, <2>1, TransferWorks
  <2> QED BY <2>2 DEF m
<1>9. Built(u.cells, s) /\ u.leaf = leaf /\ u.stray = {}
  <2>1. Built(Bytes(Unbuilt(n), src, s), s)
    <3> HIDE DEF src
    <3> QED BY <1>2, <1>4, <1>5, <1>7, BytesAreBuilt
  <2> QED BY <2>1
<1>10. own \in BOOLEAN
  BY DEF Owns
<1>11. arr[a].mem = ExecutionDefault \/ own
  BY DEF Owns
<1>22. (IF own THEN Misdirected(ExecutionDefault, ExecutionDefault, kind, arr[a].mem) ELSE {}) = {}
  OBVIOUS
<1> HIDE DEF own, t, u
<1>12. Built(r.cells, s) /\ r.stray = {}
  BY <1>8, <1>9 DEF Holding
<1> HIDE DEF r
<1>13. e \in ViewType /\ e.src = a /\ e.own = own /\ e.deep = deep /\ e.size = s /\ (own => e.cells = r.cells)
  <2>1. r.cells \in Seq(Leaves \cup {RawMember}) /\ << >> \in Seq(Leaves \cup {RawMember})
    BY <1>12 DEF Built
  <2>2. a \in Arrays
    BY <1>2 DEF Divided, ArraysFit
  <2> DEFINE cells == IF own THEN r.cells ELSE << >>
  <2>3. cells \in Seq(Leaves \cup {RawMember})
    BY <2>1
  <2>4. own => cells = r.cells
    OBVIOUS
  <2>5. e = [src |-> a, own |-> own, deep |-> deep, size |-> s, cells |-> cells]
    OBVIOUS
  <2> HIDE DEF cells, e
  <2> QED BY <1>4, <1>10, <2>2, <2>3, <2>4, <2>5 DEF ViewType
<1> HIDE DEF e
<1>14. /\ DOMAIN view' = DOMAIN view \cup {v} /\ view'[v] = e /\ view' \in [DOMAIN view' -> ViewType]
       /\ \A w \in DOMAIN view : view'[w] = view[w]
  <2>1. \A w \in DOMAIN view : view[w] \in ViewType
    BY <1>2 DEF Divided, ViewsFit
  <2> QED BY <1>1, <1>13, <2>1 DEF With
<1>15. own /\ deep => r = t
  BY DEF r
<1>16. ~(own /\ deep) => r = u
  BY DEF r
<1>17. ViewFits(e, arr, leaf')
  <2>1. own /\ deep => \A l \in Held(e.cells) : leaf'[l].mem = ExecutionDefault
    BY <1>1, <1>8, <1>13, <1>15 DEF Holding
  <2>2. own => Built(e.cells, e.size)
    BY <1>12, <1>13
  <2>3. ~own => arr[e.src].mem = ExecutionDefault
    BY <1>11, <1>13
  <2>4. e.src \in DOMAIN arr
    BY <1>13
  <2> QED BY <1>13, <2>1, <2>2, <2>3, <2>4 DEF ViewFits
<1>18. IF e.own /\ e.deep THEN Changes(leaf, leaf', {}, e.cells) ELSE leaf' = leaf
  BY <1>1, <1>8, <1>9, <1>13, <1>15, <1>16
<1>19. OnlyView(v)
  BY <1>1, <1>14, <1>17, <1>18 DEF OnlyView
<1>20. Divided'
  BY <1>1, <1>2, <1>19, ViewStep
<1>21. stray' = {}
  <2> DEFINE M == IF own THEN Misdirected(ExecutionDefault, ExecutionDefault, kind, arr[a].mem) ELSE {}
  <2>1. stray' = stray \cup r.stray \cup M /\ M = {}
    BY <1>1, <1>22
  <2>2. stray = {}
    BY DEF TInv, OthersFit
  <2> HIDE DEF M
  <2> QED BY <1>12, <2>1, <2>2
<1> QED BY <1>1, <1>20, <1>21 DEF TInv, Divided, OthersFit

LEMMA ViewByPointerStep ==
  ASSUME SensibleTransfers, TInv, NEW v \in Views, NEW a \in Arrays, NEW deep \in BOOLEAN, NEW force \in BOOLEAN,
         ViewByPointer(v, a, deep, force)
  PROVE  TInv'
<1>1. /\ a \in DOMAIN arr
      /\ NewView(v, a, arr[a].size, CapacityOf(arr[a].cells), arr[a].mem, deep, force)
  BY DEF ViewByPointer
<1>2. TransferAssumption /\ Divided
  BY DEF TInv, Divided, SensibleTransfers
<1>3. arr[a] \in ArrType /\ Built(arr[a].cells, arr[a].size)
  BY <1>1, <1>2, ArrayIs
<1>4. PICK s : s = arr[a].size
  OBVIOUS
<1>5. PICK n : n = CapacityOf(arr[a].cells)
  OBVIOUS
<1>6. PICK kind : kind = arr[a].mem
  OBVIOUS
<1>7. Short(n) /\ n \in Nat /\ s \in 0 .. n
  BY <1>2, <1>3, <1>4, <1>5, CapacityIs
<1>8. s \in 0 .. arr[a].size /\ s <= n
  BY <1>4, <1>7
<1>9. Misdirected(ExecutionDefault, ExecutionDefault, kind, arr[a].mem) = {}
  <2>1. kind \in Memories /\ ExecutionDefault \in Memories
    BY <1>3, <1>6 DEF ArrType, ExecutionDefault, Memories
  <2> QED BY <1>6, <2>1, SameSide
<1>10. NewView(v, a, s, n, kind, deep, force)
  BY <1>1, <1>4, <1>5, <1>6
<1> QED BY <1>1, <1>7, <1>8, <1>9, <1>10, NewViewStep

LEMMA OneIsShort ==
  ASSUME TransferAssumption
  PROVE  Short(1)
BY DEF Short, TransferAssumption

LEMMA ViewByReferenceStep ==
  ASSUME SensibleTransfers, TInv, NEW v \in Views, NEW a \in Arrays, NEW deep \in BOOLEAN, NEW force \in BOOLEAN,
         ViewByReference(v, a, deep, force)
  PROVE  TInv'
<1>1. /\ a \in DOMAIN arr /\ arr[a].size > 0 /\ arr[a].mem \in ReferenceMemories
      /\ NewView(v, a, 1, 1, ExecutionDefault, deep, force)
  BY DEF ViewByReference
<1>2. TransferAssumption /\ Divided
  BY DEF TInv, Divided, SensibleTransfers
<1>3. arr[a] \in ArrType
  BY <1>1, <1>2, ArrayIs
<1>4. 1 \in 0 .. arr[a].size /\ Short(1) /\ 1 <= 1
  BY <1>1, <1>2, <1>3, OneIsShort DEF ArrType
<1>5. PICK kind : kind = ExecutionDefault
  OBVIOUS
<1>6. Misdirected(ExecutionDefault, ExecutionDefault, kind, arr[a].mem) = {}
  <2>1. arr[a].mem \in Memories \ {"GPU"}
    BY <1>1, <1>3 DEF SensibleTransfers, ArrType
  <2> QED BY <1>5, <2>1 DEF Misdirected, TransferDirection, OnSide, Memories, IsUnified, IsHostMemory,
                            IsGPUMemory, ExecutionDefault
<1>7. NewView(v, a, 1, 1, kind, deep, force)
  BY <1>1, <1>5
<1> QED BY <1>1, <1>4, <1>6, <1>7, NewViewStep

LEMMA ViewOfStep ==
  ASSUME SensibleTransfers, TInv, NEW v \in Views, NEW a \in Arrays, ViewOf(v, a)
  PROVE  TInv'
<1>1. /\ a \in DOMAIN arr /\ arr[a].mem = ExecutionDefault /\ arr[a].size > 0
      /\ NewView(v, a, 1, 1, ExecutionDefault, TRUE, leaf[arr[a].cells[1]].mem # ExecutionDefault)
  BY DEF ViewOf
<1>2. TransferAssumption /\ Divided
  BY DEF TInv, Divided, SensibleTransfers
<1>3. arr[a] \in ArrType
  BY <1>1, <1>2, ArrayIs
<1>4. 1 \in 0 .. arr[a].size /\ Short(1) /\ 1 <= 1
  BY <1>1, <1>2, <1>3, OneIsShort DEF ArrType
<1>5. PICK kind : kind = ExecutionDefault
  OBVIOUS
<1>6. Misdirected(ExecutionDefault, ExecutionDefault, kind, arr[a].mem) = {}
  <2>1. ExecutionDefault \in Memories
    BY DEF ExecutionDefault, Memories
  <2> QED BY <1>1, <1>5, <2>1, SameSide
<1>7. PICK deep \in BOOLEAN : deep = TRUE
  OBVIOUS
<1>8. PICK force \in BOOLEAN : force = (leaf[arr[a].cells[1]].mem # ExecutionDefault)
  OBVIOUS
<1>9. NewView(v, a, 1, 1, kind, deep, force)
  BY <1>1, <1>5, <1>7, <1>8
<1> QED BY <1>1, <1>4, <1>6, <1>9, NewViewStep

\* A view is moved: another object has what it had.
LEMMA MoveViewStep ==
  ASSUME SensibleTransfers, TInv, NEW w \in Views, NEW v \in Views, MoveView(w, v)
  PROVE  TInv'
<1>1. /\ v \in DOMAIN view /\ w \notin DOMAIN view /\ view' = With(Without(view, {v}), w, view[v])
      /\ arr' = arr /\ leaf' = leaf /\ stray' = stray /\ done' = done
  BY DEF MoveView
<1>2. TransferAssumption /\ Divided
  BY DEF TInv, Divided, SensibleTransfers
<1>3. /\ DOMAIN Holdings = Keepers
      /\ \A b \in DOMAIN arr : b \in Keepers /\ b \in Arrays /\ b \notin DOMAIN view /\ Holdings[b] = arr[b].cells
      /\ \A x \in DOMAIN view : x \notin DOMAIN arr /\ (x \in Keepers <=> view[x].own /\ view[x].deep)
      /\ \A x \in DOMAIN view : x \in Keepers => Holdings[x] = view[x].cells
  BY <1>2, HoldingsAre
<1>4. w \notin DOMAIN arr /\ w \notin Keepers /\ w # v
  BY <1>1, <1>2, <1>3 DEF TransferAssumption, Keepers
<1>5. \A x \in DOMAIN view : view[x] \in ViewType /\ ViewFits(view[x], arr, leaf) /\ x \in Views
  BY <1>2 DEF Divided, ViewsFit
<1>6. /\ DOMAIN view' = (DOMAIN view \ {v}) \cup {w} /\ view'[w] = view[v]
      /\ \A x \in DOMAIN view \ {v} : view'[x] = view[x]
  BY <1>1 DEF With, Without
<1>17. view' \in [DOMAIN view' -> ViewType]
  <2>1. \A x \in DOMAIN Without(view, {v}) : Without(view, {v})[x] \in ViewType
    BY <1>5 DEF Without
  <2> QED BY <1>1, <1>5, <2>1 DEF With
<1>18. /\ Keepers' = DOMAIN arr \cup {x \in DOMAIN view' : view'[x].own /\ view'[x].deep}
       /\ w \in Keepers' <=> view[v].own /\ view[v].deep
       /\ v \notin Keepers'
  <2>1. Keepers' = DOMAIN arr \cup {x \in DOMAIN view' : view'[x].own /\ view'[x].deep}
    BY <1>1 DEF Keepers
  <2> QED BY <1>1, <1>3, <1>4, <1>6, <2>1
<1>19. \A x : x # v /\ x # w => (x \in Keepers' <=> x \in Keepers)
  BY <1>6, <1>18 DEF Keepers
<1>7. PICK h : h = Holdings
  OBVIOUS
<1>8. PICK nh : nh = Holdings'
  OBVIOUS
<1>9. PICK lf : lf = leaf
  OBVIOUS
<1>10. DOMAIN nh = Keepers' /\ \A o \in Keepers' : nh[o] = IF o \in DOMAIN arr' THEN arr'[o].cells ELSE view'[o].cells
  BY <1>8 DEF Holdings, CellsOf
<1>11. Owned(h, lf) /\ DOMAIN h = Keepers
  BY <1>2, <1>3, <1>7, <1>9 DEF Divided, OwnedNow
<1>12. \A o \in Keepers : o # v => o \in Keepers' /\ nh[o] = h[o]
  <2> SUFFICES ASSUME NEW o \in Keepers, o # v PROVE o \in Keepers' /\ nh[o] = h[o]
    OBVIOUS
  <2>1. o \in Keepers'
    BY <1>4, <1>19
  <2>2. CASE o \in DOMAIN arr
    BY <1>1, <1>3, <1>7, <1>10, <2>1, <2>2
  <2>3. CASE o \in DOMAIN view
    <3>1. o \notin DOMAIN arr' /\ view'[o] = view[o]
      BY <1>1, <1>3, <1>6, <2>3
    <3>2. nh[o] = view'[o].cells
      BY <1>10, <2>1, <3>1
    <3> QED BY <1>3, <1>7, <2>1, <2>3, <3>1, <3>2
  <2> QED BY <2>1, <2>2, <2>3 DEF Keepers
<1>13. Owned(nh, lf)
  <2>1. CASE view[v].own /\ view[v].deep
    <3>1. v \in Keepers /\ h[v] = view[v].cells
      BY <1>1, <1>3, <1>7, <2>1
    <3>2. w \in Keepers' /\ Keepers' = (Keepers \ {v}) \cup {w}
      BY <1>4, <1>18, <1>19, <2>1
    <3>3. nh[w] = h[v]
      BY <1>1, <1>4, <1>6, <1>10, <3>1, <3>2
    <3>4. v \in DOMAIN h /\ w \notin DOMAIN h /\ DOMAIN nh = (DOMAIN h \ {v}) \cup {w}
      BY <1>4, <1>10, <1>11, <3>1, <3>2
    <3>5. \A p \in DOMAIN h \ {v} : nh[p] = h[p]
      BY <1>11, <1>12
    <3> QED BY <1>11, <3>3, <3>4, <3>5, OwnerPasses
  <2>2. CASE ~(view[v].own /\ view[v].deep)
    <3>1. v \notin Keepers /\ Keepers' = Keepers
      BY <1>1, <1>3, <1>4, <1>18, <1>19, <2>2
    <3>2. \A o \in DOMAIN h : nh[o] = h[o]
      BY <1>11, <1>12, <3>1
    <3> QED BY <1>10, <1>11, <3>1, <3>2, OwnersStay
  <2> QED BY <2>1, <2>2
<1>14. OwnedNow'
  BY <1>1, <1>8, <1>9, <1>13 DEF OwnedNow, Owned
<1>15. ViewsFit'
  <2>1. \A x \in DOMAIN view' : ViewFits(view'[x], arr, leaf)
    BY <1>1, <1>5, <1>6
  <2>2. DOMAIN view' \subseteq Views
    BY <1>5, <1>6
  <2> QED BY <1>1, <1>17, <2>1, <2>2 DEF ViewsFit, ViewFits, Built
<1>16. ArraysFit' /\ LeafMap(leaf)'
  BY <1>1, <1>2 DEF Divided, ArraysFit, LeafMap, Built
<1> QED BY <1>1, <1>14, <1>15, <1>16 DEF TInv, OthersFit

\* A view is destroyed: its copy goes with it, if it has one.
LEMMA DropViewStep ==
  ASSUME SensibleTransfers, TInv, NEW v \in Views, DropView(v)
  PROVE  TInv'
<1> DEFINE has == view[v].own /\ view[v].deep
<1>1. /\ v \in DOMAIN view /\ view' = Without(view, {v})
      /\ leaf' = IF has THEN Destruct(view[v].cells, view[v].size, leaf) ELSE leaf
      /\ arr' = arr /\ stray' = stray /\ done' = done
  BY DEF DropView
<1>2. TransferAssumption /\ Divided
  BY DEF TInv, Divided, SensibleTransfers
<1>3. /\ DOMAIN Holdings = Keepers
      /\ \A b \in DOMAIN arr : b \in Keepers /\ b \in Arrays /\ b \notin DOMAIN view /\ Holdings[b] = arr[b].cells
      /\ \A x \in DOMAIN view : x \notin DOMAIN arr /\ (x \in Keepers <=> view[x].own /\ view[x].deep)
      /\ \A x \in DOMAIN view : x \in Keepers => Holdings[x] = view[x].cells
  BY <1>2, HoldingsAre
<1>4. \A x \in DOMAIN view : view[x] \in ViewType /\ ViewFits(view[x], arr, leaf) /\ x \in Views
  BY <1>2 DEF Divided, ViewsFit
<1>5. /\ DOMAIN view' = DOMAIN view \ {v} /\ view' \in [DOMAIN view' -> ViewType]
      /\ \A x \in DOMAIN view \ {v} : view'[x] = view[x]
  BY <1>1, <1>4 DEF Without
<1>6. LeafMap(leaf)
  BY <1>2 DEF Divided
<1>7. /\ LeafMap(leaf') /\ DOMAIN leaf' = DOMAIN leaf \ HeldIn(Holdings, v)
      /\ \A l \in DOMAIN leaf \ HeldIn(Holdings, v) : leaf'[l] = leaf[l]
  <2>1. CASE has
    <3>1. Built(view[v].cells, view[v].size)
      BY <1>1, <1>4, <2>1 DEF ViewFits
    <3>2. HeldIn(Holdings, v) = Held(view[v].cells)
      BY <1>1, <1>3, <2>1 DEF HeldIn
    <3> QED BY <1>1, <1>2, <1>6, <2>1, <3>1, <3>2, DestructWorks
  <2>2. CASE ~has
    <3>1. HeldIn(Holdings, v) = {}
      BY <1>1, <1>3, <2>2 DEF HeldIn
    <3> QED BY <1>1, <1>6, <2>2, <3>1
  <2> QED BY <2>1, <2>2
<1>8. PICK h : h = Holdings
  OBVIOUS
<1>9. PICK nh : nh = Holdings'
  OBVIOUS
<1>10. PICK lf : lf = leaf
  OBVIOUS
<1>11. PICK nlf : nlf = leaf'
  OBVIOUS
<1>12. DOMAIN nh = Keepers' /\ \A o \in Keepers' : nh[o] = IF o \in DOMAIN arr' THEN arr'[o].cells ELSE view'[o].cells
  BY <1>9 DEF Holdings, CellsOf
<1>13. Owned(h, lf) /\ DOMAIN h = Keepers
  BY <1>2, <1>3, <1>8, <1>10 DEF Divided, OwnedNow
<1>14. \A o \in Keepers : o # v => o \in Keepers' /\ nh[o] = h[o]
  <2> SUFFICES ASSUME NEW o \in Keepers, o # v PROVE o \in Keepers' /\ nh[o] = h[o]
    OBVIOUS
  <2>1. o \in Keepers'
    BY <1>1, <1>5 DEF Keepers
  <2>2. CASE o \in DOMAIN arr
    BY <1>1, <1>3, <1>8, <1>12, <2>1, <2>2
  <2>3. CASE o \in DOMAIN view
    BY <1>1, <1>3, <1>5, <1>8, <1>12, <2>1, <2>3
  <2> QED BY <2>1, <2>2, <2>3 DEF Keepers
<1>15. Keepers' = Keepers \ {v}
  BY <1>1, <1>3, <1>5 DEF Keepers
<1>16. Owned(nh, nlf)
  <2>1. CASE has
    <3>1. v \in DOMAIN h /\ DOMAIN nh = DOMAIN h \ {v}
      BY <1>1, <1>3, <1>12, <1>13, <1>15, <2>1
    <3>2. \A p \in DOMAIN nh : nh[p] = h[p]
      BY <1>12, <1>14, <1>15
    <3>3. DOMAIN nlf = DOMAIN lf \ Held(h[v])
      BY <1>7, <1>8, <1>10, <1>11, <3>1 DEF HeldIn
    <3> QED BY <1>13, <3>1, <3>2, <3>3, OwnerGoes
  <2>2. CASE ~has
    <3>1. DOMAIN nh = DOMAIN h /\ \A o \in DOMAIN h : nh[o] = h[o]
      BY <1>1, <1>3, <1>12, <1>13, <1>14, <1>15, <2>2
    <3>2. DOMAIN nlf = DOMAIN lf
      BY <1>1, <1>10, <1>11, <2>2
    <3> QED BY <1>13, <3>1, <3>2, OwnersStay
  <2> QED BY <2>1, <2>2
<1>17. OwnedNow'
  BY <1>9, <1>11, <1>16 DEF OwnedNow, Owned
<1>18. ViewsFit'
  <2>1. ASSUME NEW x \in DOMAIN view \ {v} PROVE ViewFits(view[x], arr, leaf')
    <3>1. ~(view[x].own /\ view[x].deep) =>
            view[x].src \in DOMAIN arr /\ arr[view[x].src].mem = arr[view[x].src].mem
      BY <1>4 DEF ViewFits
    <3>2. leaf' \in [DOMAIN leaf' -> LeafType]
      BY <1>7 DEF LeafMap
    <3>3. PICK arrays : arrays = arr
      OBVIOUS
    <3>4. ViewFits(view[x], arrays, leaf')
      BY <1>2, <1>7, <3>1, <3>2, <3>3, StillFits
    <3> QED BY <3>3, <3>4
  <2>2. \A x \in DOMAIN view' : ViewFits(view'[x], arr', leaf')
    BY <1>1, <1>5, <2>1
  <2>3. DOMAIN view' \subseteq Views
    BY <1>4, <1>5
  <2> QED BY <1>5, <2>2, <2>3 DEF ViewsFit, ViewFits, Built
<1>19. ArraysFit' /\ LeafMap(leaf)'
  BY <1>1, <1>2, <1>7 DEF Divided, ArraysFit, LeafMap, Built
<1> QED BY <1>1, <1>17, <1>18, <1>19 DEF TInv, OthersFit

-----------------------------------------------------------------------------
(* The specification *)

LEMMA FirstTransfers ==
  ASSUME TransferAssumption, InitTransfers
  PROVE  TInv
<1>1. DOMAIN arr = {} /\ DOMAIN leaf = {} /\ DOMAIN view = {} /\ stray = {}
  BY DEF InitTransfers
<1>2. arr \in [DOMAIN arr -> ArrType] /\ leaf \in [DOMAIN leaf -> LeafType] /\ view \in [DOMAIN view -> ViewType]
  BY DEF InitTransfers
<1>3. done \in [reported : BOOLEAN, worked : BOOLEAN]
  BY DEF InitTransfers
<1>4. LeafMap(leaf) /\ ArraysFit /\ ViewsFit
  BY <1>1, <1>2 DEF LeafMap, ArraysFit, ViewsFit
<1>5. OwnedNow
  <2>1. Keepers = {}
    BY <1>1 DEF Keepers
  <2>2. DOMAIN Holdings = {}
    BY <2>1 DEF Holdings
  <2> QED BY <1>1, <2>2 DEF OwnedNow, Owned
<1> QED BY <1>1, <1>3, <1>4, <1>5 DEF TInv, OthersFit

LEMMA TransfersStep ==
  ASSUME SensibleTransfers, TInv, [NextTransfers]_transferVars
  PROVE  TInv'
<1>1. CASE UNCHANGED transferVars
  <2>1. arr' = arr /\ leaf' = leaf /\ view' = view /\ stray' = stray /\ done' = done
    BY <1>1 DEF transferVars
  <2>2. LeafMap(leaf)' /\ ArraysFit' /\ ViewsFit' /\ OthersFit'
    BY <2>1 DEF TInv, LeafMap, ArraysFit, ViewsFit, ViewFits, Built, OthersFit
  <2>3. OwnedNow'
    <3>1. Keepers' = Keepers
      BY <2>1 DEF Keepers
    <3>2. \A o : CellsOf(o)' = CellsOf(o)
      BY <2>1 DEF CellsOf
    <3>3. Holdings' = Holdings
      BY <3>1, <3>2, Zenon DEF Holdings
    <3> QED BY <2>1, <3>3 DEF TInv, OwnedNow, Owned
  <2> QED BY <2>2, <2>3 DEF TInv
<1>2. ASSUME NEW a \in Arrays, Destroy(a) PROVE TInv'
  BY <1>2, DestroyStep
<1>3. ASSUME NEW a \in Arrays, NEW n \in Lengths, NEW m \in ArrayMemories, Allocate(a, n, m) PROVE TInv'
  BY <1>3, AllocateStep
<1>4. ASSUME NEW a \in Arrays, NEW n \in Lengths, NEW m \in LeafMemories, NEW x \in Values, BuildElements(a, n, m, x)
      PROVE  TInv'
  BY <1>4, BuildStep
<1>5. ASSUME NEW a \in Arrays, NEW n \in Lengths, NEW x \in Values, NEW k \in 1 .. n * Width, Write(a, k, x)
      PROVE  TInv'
  BY <1>5, WriteStep
<1>6. ASSUME NEW a \in Arrays, NEW m \in LeafMemories, MoveInternal(a, m) PROVE TInv'
  BY <1>6, MoveInternalStep
<1>7. ASSUME NEW a \in Arrays, NEW b \in Arrays \ {a}, NEW m \in ArrayMemories, Clone(b, a, m) PROVE TInv'
  BY <1>7, CloneStep
<1>8. ASSUME NEW a \in Arrays, NEW b \in Arrays \ {a}, NEW n \in Lengths, CopyData(b, a, n) PROVE TInv'
  BY <1>8, CopyDataStep
<1>9. ASSUME NEW v \in Views, DropView(v) PROVE TInv'
  BY <1>9, DropViewStep
<1>10. ASSUME NEW v \in Views, NEW w \in Views \ {v}, MoveView(w, v) PROVE TInv'
  BY <1>10, MoveViewStep
<1>11. ASSUME NEW v \in Views, NEW n \in Lengths, NEW x \in Values, NEW k \in 1 .. n * Width, WriteView(v, k, x)
       PROVE  TInv'
  BY <1>11, WriteViewStep
<1>12. ASSUME NEW v \in Views, NEW a \in Arrays, NEW deep \in BOOLEAN, NEW force \in BOOLEAN,
              ViewByPointer(v, a, deep, force) \/ ViewByReference(v, a, deep, force)
       PROVE  TInv'
  BY <1>12, ViewByPointerStep, ViewByReferenceStep
<1>13. ASSUME NEW v \in Views, NEW a \in Arrays, ViewOf(v, a) PROVE TInv'
  BY <1>13, ViewOfStep
<1> QED BY <1>1, <1>2, <1>3, <1>4, <1>5, <1>6, <1>7, <1>8, <1>9, <1>10, <1>11, <1>12, <1>13 DEF NextTransfers

\* Under TInv no primitive has strayed, each leaf has one holder and host code
\* may read what views show.
LEMMA TransfersFit ==
  ASSUME SensibleTransfers, TInv
  PROVE  TransfersAreSound
<1>1. TransferAssumption /\ Divided
  BY DEF TInv, Divided, SensibleTransfers
<1>2. /\ DOMAIN Holdings = Keepers
      /\ \A v \in DOMAIN view : v \notin DOMAIN arr /\ (v \in Keepers <=> view[v].own /\ view[v].deep)
      /\ \A v \in DOMAIN view : v \in Keepers => Holdings[v] = view[v].cells
  BY <1>1, HoldingsAre
<1>3. \A o \in Keepers : Holdings[o] = CellsOf(o)
  BY DEF Holdings
<1>4. PICK h : h = Holdings
  OBVIOUS
<1>5. /\ \A o \in Keepers : h[o] = CellsOf(o) /\ Held(h[o]) \subseteq DOMAIN leaf /\ OnceIn(h[o])
      /\ \A o, p \in Keepers : o # p => Held(h[o]) \cap Held(h[p]) = {}
      /\ \A l \in DOMAIN leaf : \E o \in Keepers : l \in Held(h[o])
  BY <1>1, <1>2, <1>3, <1>4 DEF Divided, OwnedNow, Owned
<1>6. \A l \in DOMAIN leaf : Cardinality(Holders(l)) = 1
  <2> SUFFICES ASSUME NEW l \in DOMAIN leaf PROVE Cardinality(Holders(l)) = 1
    OBVIOUS
  <2>1. PICK o \in Keepers : l \in Held(h[o])
    BY <1>5
  <2>2. PICK k \in DOMAIN h[o] : h[o][k] = l
    BY <2>1 DEF Held
  <2>3. l # RawMember
    BY <2>1 DEF Held
  <2>4. ASSUME NEW p \in Keepers, NEW j \in DOMAIN CellsOf(p), CellsOf(p)[j] = l PROVE p = o /\ j = k
    <3>1. h[p] = CellsOf(p) /\ l \in Held(h[p])
      BY <1>5, <2>3, <2>4 DEF Held
    <3>2. p = o
      BY <1>5, <2>1, <3>1
    <3> QED BY <1>5, <2>2, <2>3, <2>4, <3>1, <3>2 DEF OnceIn
  <2>5. k \in DOMAIN CellsOf(o) /\ CellsOf(o)[k] = l
    BY <1>5, <2>2
  <2>6. Holders(l) = {<<o, k>>}
    BY <2>4, <2>5 DEF Holders
  <2> QED BY <2>6, FS_Singleton
<1>7. LeavesHeldOnce
  BY <1>5, <1>6 DEF LeavesHeldOnce
<1>8. \A v \in DOMAIN view : ViewFits(view[v], arr, leaf) /\ view[v] \in ViewType
  BY <1>1 DEF Divided, ViewsFit
<1>9. ViewsAreReadable
  <2> SUFFICES ASSUME NEW v \in DOMAIN view
               PROVE  IF view[v].own
                      THEN view[v].deep => \A l \in Held(view[v].cells) :
                                             l \in DOMAIN leaf /\ leaf[l].mem = ExecutionDefault
                      ELSE arr[view[v].src].mem = ExecutionDefault
    BY DEF ViewsAreReadable
  <2>1. view[v].own /\ view[v].deep => Held(view[v].cells) \subseteq DOMAIN leaf
    BY <1>2, <1>4, <1>5
  <2> QED BY <1>8, <2>1 DEF ViewFits
<1>10. TransferTypeOK
  <2>1. ASSUME NEW a \in DOMAIN arr
        PROVE  arr[a].mem \in Memories /\ arr[a].size \in 0 .. CapacityOf(arr[a].cells) /\ arr[a].cells \in Seq(Leaves \cup {RawMember})
    <3>1. arr[a] \in ArrType /\ Built(arr[a].cells, arr[a].size)
      BY <1>1, ArrayIs
    <3> QED BY <1>1, <3>1, CapacityIs DEF ArrType
  <2>2. \A l \in DOMAIN leaf : l \in Leaves /\ leaf[l] \in [mem : Memories, val : Values]
    BY <1>1 DEF Divided, LeafMap, LeafType
  <2>3. \A v \in DOMAIN view : Borrowed(view[v].src) => view[v].src \in DOMAIN arr
    <3> SUFFICES ASSUME NEW v \in DOMAIN view, Borrowed(view[v].src) PROVE view[v].src \in DOMAIN arr
      OBVIOUS
    <3>1. PICK w \in DOMAIN view : view[w].src = view[v].src /\ ~(view[w].own /\ view[w].deep)
      BY DEF Borrowed
    <3> QED BY <1>8, <3>1 DEF ViewFits
  <2> QED BY <2>1, <2>2, <2>3 DEF TInv, OthersFit, TransferTypeOK
<1>11. NoStrayAccess
  BY DEF TInv, OthersFit, NoStrayAccess
<1> QED BY <1>7, <1>9, <1>10, <1>11 DEF TransfersAreSound

\* TInv holds in every state.
THEOREM TransfersStayDivided == ASSUME SensibleTransfers PROVE SpecTransfers => []TInv
<1>1. InitTransfers => TInv
  BY FirstTransfers DEF SensibleTransfers
<1>2. TInv /\ [NextTransfers]_transferVars => TInv'
  BY TransfersStep
<1> QED BY <1>1, <1>2, PTL DEF SpecTransfers

\* Whatever arrays are built, copied, moved between memories, viewed and
\* destroyed, for every number of arrays, views, leaves and values: primitives
\* read what is constructed where it lies, each leaf has exactly one owner, and
\* host code may read what a view shows (transfer and transfer_internal_memory
\* of IvyMemoryHelpers.h and IvyAllocator.h, memview of IvyMemoryView.h).
THEOREM TransfersKeepOneOwner == ASSUME SensibleTransfers PROVE SpecTransfers => []TransfersAreSound
<1>1. TInv => TransfersAreSound
  BY TransfersFit
<1>2. SpecTransfers => []TInv
  BY TransfersStayDivided
<1> QED BY <1>1, <1>2, PTL
=============================================================================
