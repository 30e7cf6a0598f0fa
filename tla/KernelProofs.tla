---------------------------- MODULE KernelProofs ----------------------------
(***************************************************************************)
(* The dispatch of kernels.  A grid check_GPU_usable proposes is valid and *)
(* holds the box, its threads compute each index of a row once, the loops  *)
(* visit each index of a box once and OpenMP's chunks part them.  The      *)
(* invariant follows the units from the launch to the last one: no two     *)
(* have the same index, and the body has run for exactly the indices of    *)
(* the box that no unit is left for.                                       *)
(***************************************************************************)
EXTENDS KernelRun, SequenceTheorems, TLAPS

-----------------------------------------------------------------------------
(* Numbers. *)
LEMMA LesserIs ==
  ASSUME NEW a \in Int, NEW b \in Int
  PROVE  Lesser(a, b) = IF a <= b THEN a ELSE b
<1> DEFINE least == IF a <= b THEN a ELSE b
<1>1. least \in {a, b} /\ \A y \in {a, b} : least <= y
  OBVIOUS
<1>2. \A x \in {a, b} : (\A y \in {a, b} : x <= y) => x = least
  OBVIOUS
<1> HIDE DEF least
<1>3. (CHOOSE x \in {a, b} : \A y \in {a, b} : x <= y) = least
  BY <1>1, <1>2
<1> QED BY <1>3 DEF Lesser, Min, least

LEMMA Rows ==
  ASSUME NEW p \in Int, NEW q \in Int, NEW d \in Nat, p <= q
  PROVE  p * d <= q * d
OBVIOUS

\* A rounded quotient is the number of groups.
LEMMA CeilIs ==
  ASSUME NEW a \in Nat, NEW b \in Nat \ {0}
  PROVE  /\ CeilDiv(a, b) \in Nat
         /\ a <= CeilDiv(a, b) * b /\ CeilDiv(a, b) * b < a + b
         /\ a > 0 => CeilDiv(a, b) > 0
<1>1. a - 1 + b \in Nat
  OBVIOUS
<1> DEFINE q == (a - 1 + b) \div b
<1>2. q \in Nat /\ q * b <= a - 1 + b /\ a - 1 + b < (q + 1) * b
  BY <1>1
<1> HIDE DEF q
<1>3. (q + 1) * b = q * b + b
  BY <1>2
<1>4. a <= q * b /\ q * b < a + b
  BY <1>2, <1>3
<1>5. a > 0 => q > 0
  BY <1>2, <1>4
<1> QED BY <1>2, <1>4, <1>5 DEF CeilDiv, q

\* As many groups as are needed are enough.
LEMMA CeilLeast ==
  ASSUME NEW a \in Nat, NEW b \in Nat \ {0}, NEW c \in Nat, a <= c * b
  PROVE  CeilDiv(a, b) <= c
<1> DEFINE q == CeilDiv(a, b)
<1>1. q \in Nat /\ q * b < a + b
  BY CeilIs
<1> HIDE DEF q
<1>2. SUFFICES ASSUME q >= c + 1 PROVE FALSE
  BY <1>1 DEF q
<1>3. (c + 1) * b <= q * b /\ (c + 1) * b = c * b + b
  BY <1>1, <1>2, Rows
<1>4. c * b \in Nat /\ q * b \in Nat
  BY <1>1
<1> QED BY <1>1, <1>3, <1>4

\* A number has one quotient and one rest.
LEMMA Divides ==
  ASSUME NEW a \in Nat, NEW b \in Nat \ {0}
  PROVE  /\ a \div b \in Nat /\ a % b \in 0 .. b - 1
         /\ a = (a \div b) * b + (a % b)
OBVIOUS

LEMMA OneQuotient ==
  ASSUME NEW b \in Nat \ {0}, NEW i \in Nat, NEW k \in Nat, NEW j \in 0 .. b - 1, NEW l \in 0 .. b - 1,
         i * b + j = k * b + l
  PROVE  i = k /\ j = l
<1>1. i * b \in Nat /\ k * b \in Nat
  OBVIOUS
<1>2. ~(i < k)
  <2>1. SUFFICES ASSUME i + 1 <= k PROVE FALSE
    OBVIOUS
  <2>2. (i + 1) * b <= k * b /\ (i + 1) * b = i * b + b
    BY <2>1, Rows
  <2> QED BY <1>1, <2>2
<1>3. ~(k < i)
  <2>1. SUFFICES ASSUME k + 1 <= i PROVE FALSE
    OBVIOUS
  <2>2. (k + 1) * b <= i * b /\ (k + 1) * b = k * b + b
    BY <2>1, Rows
  <2> QED BY <1>1, <2>2
<1> QED BY <1>1, <1>2, <1>3

LEMMA QuotientIs ==
  ASSUME NEW b \in Nat \ {0}, NEW i \in Nat, NEW j \in 0 .. b - 1
  PROVE  i * b + j \in Nat /\ (i * b + j) \div b = i /\ (i * b + j) % b = j
<1> DEFINE a == i * b + j
<1>1. a \in Nat
  OBVIOUS
<1> HIDE DEF a
<1>2. a \div b \in Nat /\ a % b \in 0 .. b - 1 /\ a = (a \div b) * b + (a % b)
  BY <1>1, Divides
<1>3. i * b + j = (a \div b) * b + (a % b)
  BY <1>2 DEF a
<1>4. i = a \div b /\ j = a % b
  BY <1>2, <1>3, OneQuotient
<1> QED BY <1>1, <1>4 DEF a

LEMMA PlaceBelow ==
  ASSUME NEW b \in Nat \ {0}, NEW m \in Nat, NEW i \in 0 .. m - 1, NEW j \in 0 .. b - 1
  PROVE  i * b + j \in 0 .. m * b - 1
<1>1. (i + 1) * b <= m * b /\ (i + 1) * b = i * b + b
  BY Rows
<1>2. i * b \in Nat /\ m * b \in Nat
  OBVIOUS
<1> QED BY <1>1, <1>2

LEMMA QuotientBelow ==
  ASSUME NEW b \in Nat \ {0}, NEW m \in Nat, NEW a \in 0 .. m * b - 1
  PROVE  a \div b \in 0 .. m - 1 /\ a % b \in 0 .. b - 1 /\ a = (a \div b) * b + (a % b)
<1>1. a \in Nat /\ m * b \in Nat
  OBVIOUS
<1>2. a \div b \in Nat /\ a % b \in 0 .. b - 1 /\ a = (a \div b) * b + (a % b)
  BY <1>1, Divides
<1> DEFINE q == a \div b
<1> HIDE DEF q
<1>3. ~(q >= m)
  <2>1. SUFFICES ASSUME q >= m PROVE FALSE
    OBVIOUS
  <2>2. m * b <= q * b
    BY <1>2, <2>1, Rows DEF q
  <2> QED BY <1>1, <1>2, <2>2 DEF q
<1> QED BY <1>2, <1>3 DEF q

\* Numbers a word can hold are not changed.
LEMMA Narrow ==
  ASSUME DeviceAssumption, NEW v \in Nat
  PROVE  /\ v < IntWord => AsUnsigned(v) = v /\ AsLong(v) = v
         /\ v < IntWord \div 2 => AsInt(v) = v
<1>1. IntWord \in Nat /\ IntWord > 1
  BY DEF DeviceAssumption
<1>2. v < IntWord => v % IntWord = v
  BY <1>1
<1>3. v < IntWord => v % (IntWord * IntWord) = v
  <2>1. IntWord * IntWord \in Nat /\ IntWord <= IntWord * IntWord
    BY <1>1
  <2> QED BY <1>1, <2>1
<1>4. v < IntWord \div 2 => AsInt(v) = v
  <2>1. IntWord = (IntWord \div 2) * 2 /\ IntWord \div 2 \in Nat
    BY <1>1 DEF DeviceAssumption
  <2>2. v < IntWord \div 2 => (v + IntWord \div 2) % IntWord = v + IntWord \div 2
    BY <1>1, <2>1
  <2> QED BY <2>1, <2>2 DEF AsInt
<1> QED BY <1>2, <1>3, <1>4 DEF AsUnsigned, AsLong

-----------------------------------------------------------------------------
(* The grid. *)

\* The device's limits.
LEMMA Limits ==
  ASSUME DeviceAssumption
  PROVE  \A limit \in {WarpSize, MaxThreads, MaxBlocks[1], MaxBlocks[2], MaxBlocks[3]} :
           limit \in Nat \ {0} /\ limit < IntWord \div 2
<1>1. IntWord \in Nat /\ IntWord > 1 /\ IntWord = (IntWord \div 2) * 2 /\ IntWord \div 2 \in Nat
  BY DEF DeviceAssumption
<1>2. ASSUME NEW limit \in Nat \ {0}, AsInt(limit) = limit PROVE limit < IntWord \div 2
  <2>1. (limit + (IntWord \div 2)) % IntWord < IntWord
    BY <1>1
  <2> QED BY <1>1, <1>2, <2>1 DEF AsInt
<1> QED BY <1>2 DEF DeviceAssumption

\* A block is not empty, takes what the device allows, and is at most a warp larger
\* than needed.
LEMMA BlockFits ==
  ASSUME DeviceAssumption, NEW n \in Nat \ {0}, n + WarpSize <= IntWord \div 2
  PROVE  /\ BlockThreads(n) \in 1 .. MaxThreads
         /\ BlockThreads(n) < n + WarpSize
<1>1. IntWord \in Nat /\ IntWord = (IntWord \div 2) * 2 /\ IntWord \div 2 \in Nat
  BY DEF DeviceAssumption
<1>2. WarpSize \in Nat \ {0} /\ MaxThreads \in Nat \ {0} /\ MaxThreads < IntWord \div 2
  BY Limits
<1> DEFINE warps == CeilDiv(n, WarpSize)
           all   == warps * WarpSize
<1>3. warps \in Nat /\ n <= all /\ all < n + WarpSize
  BY <1>2, CeilIs
<1> HIDE DEF warps
<1>4. all \in Nat
  BY <1>2, <1>3
<1> HIDE DEF all
<1>5. AsInt(all) = all
  BY <1>1, <1>2, <1>3, <1>4, Narrow
<1>6. Lesser(MaxThreads, all) = IF MaxThreads <= all THEN MaxThreads ELSE all
  BY <1>2, <1>4, LesserIs
<1>7. AsUnsigned(Lesser(MaxThreads, all)) = Lesser(MaxThreads, all)
  BY <1>1, <1>2, <1>3, <1>4, <1>6, Narrow
<1>8. BlockThreads(n) = Lesser(MaxThreads, all)
  BY <1>5, <1>7 DEF BlockThreads, all, warps
<1> QED BY <1>2, <1>3, <1>4, <1>6, <1>8

\* Which a call of the right size keeps to.
Fitting(n) ==
  /\ n + WarpSize <= IntWord \div 2
  /\ \/ BlocksNeeded(n) <= MaxBlocks[1]
     \/ /\ MaxBlocks[1] * MaxBlocks[2] * MaxBlocks[3] < IntWord \div 2
        /\ BlocksNeeded(n) > MaxBlocks[1] * MaxBlocks[2]

LEMMA NeededIs ==
  ASSUME DeviceAssumption, NEW n \in Nat \ {0}, n + WarpSize <= IntWord \div 2
  PROVE  /\ BlocksNeeded(n) \in Nat \ {0}
         /\ n <= BlocksNeeded(n) * BlockThreads(n) /\ BlocksNeeded(n) * BlockThreads(n) < IntWord
<1>1. IntWord \in Nat /\ IntWord = (IntWord \div 2) * 2 /\ IntWord \div 2 \in Nat
  BY DEF DeviceAssumption
<1>2. WarpSize \in Nat \ {0} /\ MaxThreads \in Nat \ {0}
  BY Limits
<1> DEFINE T == BlockThreads(n)
<1>3. T \in Nat \ {0} /\ T < n + WarpSize
  BY <1>2, BlockFits
<1> HIDE DEF T
<1> DEFINE q == CeilDiv(n, T)
<1>4. q \in Nat /\ n <= q * T /\ q * T < n + T /\ q > 0
  BY <1>3, CeilIs
<1> HIDE DEF q
<1>5. q * T \in Nat
  BY <1>3, <1>4
<1>6. q * T < IntWord
  BY <1>1, <1>2, <1>3, <1>4, <1>5
<1> QED BY <1>4, <1>6 DEF BlocksNeeded, q, T

\* The limits of a device whose grid may have layers.
LEMMA PlanesFit ==
  ASSUME DeviceAssumption, MaxBlocks[1] * MaxBlocks[2] * MaxBlocks[3] < IntWord \div 2
  PROVE  /\ Plane = MaxBlocks[1] * MaxBlocks[2] /\ Plane \in Nat \ {0}
         /\ Space = MaxBlocks[1] * MaxBlocks[2] * MaxBlocks[3]
         /\ MaxBlocks[1] <= Plane
<1>1. IntWord \in Nat /\ IntWord = (IntWord \div 2) * 2 /\ IntWord \div 2 \in Nat
  BY DEF DeviceAssumption
<1> DEFINE x == MaxBlocks[1]
           y == MaxBlocks[2]
           z == MaxBlocks[3]
<1>2. x \in Nat \ {0} /\ y \in Nat \ {0} /\ z \in Nat \ {0}
  BY Limits
<1>3. x * y * z < IntWord \div 2
  OBVIOUS
<1> HIDE DEF x, y, z
<1> DEFINE xy == x * y
<1>4. xy \in Nat \ {0} /\ x <= xy
  BY <1>2
<1>5. xy * z \in Nat /\ xy <= xy * z /\ xy * z = x * y * z
  <2> HIDE DEF xy
  <2>1. xy * z \in Nat /\ xy <= xy * z
    BY <1>2, <1>4
  <2> QED BY <2>1 DEF xy
<1> HIDE DEF xy
<1> DEFINE xyz == xy * z
<1>6. xyz \in Nat /\ xyz < IntWord \div 2 /\ xy < IntWord \div 2
  BY <1>1, <1>3, <1>4, <1>5
<1> HIDE DEF xyz
<1>7. AsInt(xy) = xy /\ AsLong(xy) = xy /\ AsInt(xyz) = xyz /\ AsLong(xyz) = xyz
  BY <1>1, <1>4, <1>6, Narrow
<1>8. Plane = xy
  BY <1>7 DEF Plane, xy, x, y
<1>9. Space = xyz
  BY <1>7 DEF Space, xyz, xy, x, y, z
<1> QED BY <1>4, <1>5, <1>8, <1>9 DEF xyz, xy, x, y, z

\* A grid that is proposed is one the device takes, with a thread for every item.
LEMMA GridFits ==
  ASSUME DeviceAssumption, NEW n \in Nat \ {0}, Fitting(n), Blocks(n) # <<0, 0, 0>>
  PROVE  /\ ValidLaunch(n)
         /\ \A d \in 1 .. 3 : Blocks(n)[d] \in Nat \ {0}
         /\ n <= Blocks(n)[3] * Blocks(n)[2] * Blocks(n)[1] * BlockThreads(n)
         /\ Blocks(n)[1] * BlockThreads(n) < IntWord
<1> DEFINE q == BlocksNeeded(n)
           T == BlockThreads(n)
           B == Blocks(n)
           x == MaxBlocks[1]
           y == MaxBlocks[2]
           z == MaxBlocks[3]
<1>1. x \in Nat \ {0} /\ y \in Nat \ {0} /\ z \in Nat \ {0} /\ MaxThreads \in Nat
  BY Limits
<1>2. T \in 1 .. MaxThreads /\ T \in Nat \ {0}
  BY <1>1, BlockFits DEF Fitting
<1>3. q \in Nat \ {0} /\ n <= q * T /\ q * T < IntWord /\ IntWord \in Nat
  BY NeededIs DEF Fitting, DeviceAssumption
<1>4. /\ \A d \in 1 .. 3 : B[d] \in 1 .. MaxBlocks[d]
      /\ n <= B[3] * B[2] * B[1] * T
      /\ B[1] * T < IntWord
  <2>1. CASE q <= x
    <3>1. B = <<q, 1, 1>>
      BY <1>1, <1>3, <2>1 DEF Blocks
    <3>2. B[1] = q /\ B[2] = 1 /\ B[3] = 1
      BY <3>1
    <3> HIDE DEF q, T, B
    <3> QED BY <1>1, <1>2, <1>3, <2>1, <3>2
  <2>2. CASE q > x
    <3>1. x * y * z < IntWord \div 2 /\ q > x * y
      BY <1>1, <1>3, <2>2 DEF Fitting
    <3>2. Plane = x * y /\ Plane \in Nat \ {0} /\ Space = x * y * z /\ x <= Plane
      BY <3>1, PlanesFit
    <3>3. ~(q <= x) /\ ~(q <= Plane) /\ Plane \in Nat \ {0} /\ q \in Nat \ {0} /\ q \in Nat
      BY <1>1, <1>3, <2>2, <3>1, <3>2
    <3>4. q <= Space
      BY <3>3 DEF Blocks
    <3>5. B = <<x, y, Lesser(CeilDiv(q, Plane), z)>>
      BY <2>2, <3>1, <3>2, <3>3, <3>4 DEF Blocks
    <3> DEFINE c == CeilDiv(q, Plane)
    <3>6. c \in Nat /\ q <= c * Plane /\ c > 0
      BY <3>3, CeilIs
    <3>7. c <= z
      <4>1. q <= z * Plane
        BY <1>1, <3>2, <3>4
      <4> QED BY <1>1, <3>3, <4>1, CeilLeast
    <3>8. B[1] = x /\ B[2] = y /\ B[3] = c
      BY <1>1, <3>5, <3>6, <3>7, LesserIs
    <3>9. n <= c * y * x * T
      <4> HIDE DEF c, q, T, x, y
      <4>1. q * T <= (c * Plane) * T
        BY <1>2, <1>3, <3>2, <3>6, Rows
      <4>2. (c * Plane) * T = c * y * x * T
        BY <1>1, <1>2, <3>2, <3>6
      <4>3. (c * Plane) * T \in Nat /\ q * T \in Nat
        BY <1>2, <1>3, <3>2, <3>6
      <4> QED BY <1>3, <4>1, <4>2, <4>3
    <3>10. x * T < IntWord
      <4> HIDE DEF c, q, T, x, y
      <4>1. x * T <= q * T
        BY <1>1, <1>2, <1>3, <2>2, Rows
      <4>2. x * T \in Nat /\ q * T \in Nat
        BY <1>1, <1>2, <1>3
      <4> QED BY <1>3, <4>1, <4>2
    <3> HIDE DEF c, q, T, B
    <3> QED BY <1>1, <3>6, <3>7, <3>8, <3>9, <3>10
  <2> QED BY <1>1, <1>3, <2>1, <2>2
<1>5. ValidLaunch(n)
  BY <1>2, <1>4 DEF ValidLaunch
<1>6. \A d \in 1 .. 3 : B[d] \in Nat \ {0}
  <2>1. \A d \in 1 .. 3 : MaxBlocks[d] \in Nat
    <3>1. \A d \in 1 .. 3 : d = 1 \/ d = 2 \/ d = 3
      OBVIOUS
    <3> QED BY <1>1, <3>1
  <2> QED BY <1>4, <2>1
<1> QED BY <1>4, <1>5, <1>6

-----------------------------------------------------------------------------
(* The threads of a grid. *)

\* Threads by layer, row of blocks, block and place in it.
Place(p, n) ==
  ((p[3] * Blocks(n)[2] + p[2]) * Blocks(n)[1] + p[1]) * BlockThreads(n) + p[4]

LEMMA ThreadsAre ==
  ASSUME DeviceAssumption, NEW n \in Nat \ {0}, Fitting(n), Blocks(n) # <<0, 0, 0>>, NEW p \in Launched(n)
  PROVE  /\ p = <<p[1], p[2], p[3], p[4]>>
         /\ p[1] \in 0 .. Blocks(n)[1] - 1 /\ p[2] \in 0 .. Blocks(n)[2] - 1
         /\ p[3] \in 0 .. Blocks(n)[3] - 1 /\ p[4] \in 0 .. BlockThreads(n) - 1
         /\ BlockThreads(n) \in Nat \ {0} /\ \A d \in 1 .. 3 : Blocks(n)[d] \in Nat \ {0}
         /\ AlongX(p, n) = p[1] * BlockThreads(n) + p[4] /\ AlongX(p, n) \in Nat
<1> DEFINE T == BlockThreads(n)
           x == Blocks(n)[1]
           y == Blocks(n)[2]
           z == Blocks(n)[3]
<1>1. ValidLaunch(n) /\ x \in Nat \ {0} /\ y \in Nat \ {0} /\ z \in Nat \ {0} /\ x * T < IntWord
  BY GridFits
<1>2. T \in Nat \ {0}
  BY <1>1, Limits DEF ValidLaunch
<1>3. p \in (0 .. x - 1) \X (0 .. y - 1) \X (0 .. z - 1) \X (0 .. T - 1)
  BY <1>1 DEF Launched
<1> HIDE DEF T, x, y, z
<1>4. p = <<p[1], p[2], p[3], p[4]>> /\ p[1] \in 0 .. x - 1 /\ p[2] \in 0 .. y - 1 /\ p[3] \in 0 .. z - 1
      /\ p[4] \in 0 .. T - 1
  BY <1>3
<1> DEFINE v == p[1] * T + p[4]
<1>5. v \in 0 .. x * T - 1
  BY <1>1, <1>2, <1>4, PlaceBelow
<1> HIDE DEF v
<1>6. x * T \in Nat
  BY <1>1, <1>2
<1>7. v \in Nat /\ v < IntWord
  BY <1>1, <1>5, <1>6 DEF DeviceAssumption
<1>8. AsUnsigned(v) = v
  BY <1>7, Narrow
<1>9. AlongX(p, n) = v
  BY <1>8 DEF AlongX, v, T
<1>10. \A d \in 1 .. 3 : Blocks(n)[d] \in Nat \ {0}
  BY GridFits
<1> QED BY <1>2, <1>4, <1>7, <1>9, <1>10 DEF v, x, y, z, T

LEMMA OneOf ==
  ASSUME NEW i \in Nat
  PROVE  <<i>> \in Seq(Nat) /\ Len(<<i>>) = 1
OBVIOUS

LEMMA TwoOf ==
  ASSUME NEW i \in Nat, NEW j \in Nat
  PROVE  <<i, j>> \in Seq(Nat) /\ Len(<<i, j>>) = 2
OBVIOUS

LEMMA ThreeOf ==
  ASSUME NEW i \in Nat, NEW j \in Nat, NEW k \in Nat
  PROVE  <<i, j, k>> \in Seq(Nat) /\ Len(<<i, j, k>>) = 3
OBVIOUS

\* Indices the kernel may compute.
LEMMA ThreadIndices ==
  ASSUME DeviceAssumption, NEW n \in Nat \ {0}, Fitting(n), Blocks(n) # <<0, 0, 0>>,
         NEW p \in Launched(n), NEW rank \in 1 .. 3
  PROVE  IndexOf(rank, p, n) \in Seq(Nat) /\ Len(IndexOf(rank, p, n)) = rank
<1> DEFINE T == BlockThreads(n)
           x == Blocks(n)[1]
           y == Blocks(n)[2]
           a == AlongX(p, n)
<1>1. /\ p[1] \in Nat /\ p[2] \in Nat /\ p[3] \in Nat /\ p[4] \in Nat /\ T \in Nat /\ x \in Nat /\ y \in Nat
      /\ a \in Nat
  BY ThreadsAre
<1> HIDE DEF T, x, y, a
<1>2. p[2] * T * x \in Nat /\ p[3] * T * x * y \in Nat /\ p[3] * y \in Nat
  BY <1>1
<1>3. a + p[2] * T * x + p[3] * T * x * y \in Nat /\ p[2] + p[3] * y \in Nat
  BY <1>1, <1>2
<1>4. CASE rank = 1
  <2>1. IndexOf(rank, p, n) = <<a + p[2] * T * x + p[3] * T * x * y>>
    BY <1>4 DEF IndexOf, a, T, x, y
  <2> QED BY <1>3, <1>4, <2>1, OneOf
<1>5. CASE rank = 2
  <2>1. IndexOf(rank, p, n) = <<a, p[2] + p[3] * y>>
    BY <1>5 DEF IndexOf, a, y
  <2> QED BY <1>1, <1>3, <1>5, <2>1, TwoOf
<1>6. CASE rank = 3
  <2>1. IndexOf(rank, p, n) = <<a, p[2], p[3]>>
    BY <1>6 DEF IndexOf, a
  <2> DEFINE c == p[2]
             d == p[3]
  <2>2. a \in Nat /\ c \in Nat /\ d \in Nat /\ IndexOf(rank, p, n) = <<a, c, d>>
    BY <1>1, <2>1
  <2> HIDE DEF c, d
  <2>3. <<a, c, d>> \in Seq(Nat) /\ Len(<<a, c, d>>) = 3
    BY <2>2, ThreeOf
  <2> QED BY <1>6, <2>2, <2>3
<1> QED BY <1>4, <1>5, <1>6

\* In a row each thread has its place
LEMMA RowPlaces ==
  ASSUME DeviceAssumption, NEW n \in Nat \ {0}, Fitting(n), Blocks(n) # <<0, 0, 0>>, NEW p \in Launched(n)
  PROVE  IndexOf(1, p, n) = <<Place(p, n)>>
<1> DEFINE T == BlockThreads(n)
           x == Blocks(n)[1]
           y == Blocks(n)[2]
           a == p[1]
           c == p[2]
           d == p[3]
           t == p[4]
<1>1. /\ a \in Nat /\ c \in Nat /\ d \in Nat /\ t \in Nat /\ T \in Nat /\ x \in Nat /\ y \in Nat
      /\ AlongX(p, n) = a * T + t
  BY ThreadsAre
<1>2. IndexOf(1, p, n) = <<AlongX(p, n) + c * T * x + d * T * x * y>>
  BY DEF IndexOf
<1>3. Place(p, n) = ((d * y + c) * x + a) * T + t
  BY DEF Place
<1> HIDE DEF T, x, y, a, c, d, t
<1>4. a * T + t + c * T * x + d * T * x * y = ((d * y + c) * x + a) * T + t
  BY <1>1
<1> QED BY <1>1, <1>2, <1>3, <1>4

\* that no other has
LEMMA PlacesDiffer ==
  ASSUME DeviceAssumption, NEW n \in Nat \ {0}, Fitting(n), Blocks(n) # <<0, 0, 0>>,
         NEW p \in Launched(n), NEW q \in Launched(n), Place(p, n) = Place(q, n)
  PROVE  p = q
<1> DEFINE T == BlockThreads(n)
           x == Blocks(n)[1]
           y == Blocks(n)[2]
<1>1. /\ p = <<p[1], p[2], p[3], p[4]>> /\ p[1] \in 0 .. x - 1 /\ p[2] \in 0 .. y - 1 /\ p[3] \in Nat
      /\ p[4] \in 0 .. T - 1
      /\ T \in Nat \ {0} /\ x \in Nat \ {0} /\ y \in Nat \ {0}
  BY ThreadsAre
<1>2. /\ q = <<q[1], q[2], q[3], q[4]>> /\ q[1] \in 0 .. x - 1 /\ q[2] \in 0 .. y - 1 /\ q[3] \in Nat
      /\ q[4] \in 0 .. T - 1
  BY ThreadsAre
<1> DEFINE pr == p[3] * y + p[2]
           qr == q[3] * y + q[2]
           pb == pr * x + p[1]
           qb == qr * x + q[1]
<1>3. pb * T + p[4] = qb * T + q[4]
  BY DEF Place
<1> HIDE DEF T, x, y
<1>4. pr \in Nat /\ qr \in Nat
  BY <1>1, <1>2
<1> HIDE DEF pr, qr
<1>5. pb \in Nat /\ qb \in Nat
  BY <1>1, <1>2, <1>4
<1> HIDE DEF pb, qb
<1>6. pb = qb /\ p[4] = q[4]
  BY <1>1, <1>2, <1>3, <1>5, OneQuotient
<1>7. pr = qr /\ p[1] = q[1]
  <2>1. pr * x + p[1] = qr * x + q[1]
    BY <1>6 DEF pb, qb
  <2> QED BY <1>1, <1>2, <1>4, <2>1, OneQuotient
<1>8. p[3] = q[3] /\ p[2] = q[2]
  <2>1. p[3] * y + p[2] = q[3] * y + q[2]
    BY <1>7 DEF pr, qr
  <2> QED BY <1>1, <1>2, <2>1, OneQuotient
<1> QED BY <1>1, <1>2, <1>6, <1>7, <1>8

\* and there is one at every place of the row.
LEMMA PlacesTaken ==
  ASSUME DeviceAssumption, NEW n \in Nat \ {0}, Fitting(n), Blocks(n) # <<0, 0, 0>>, NEW v \in 0 .. n - 1
  PROVE  \E p \in Launched(n) : Place(p, n) = v
<1> DEFINE T == BlockThreads(n)
           x == Blocks(n)[1]
           y == Blocks(n)[2]
           z == Blocks(n)[3]
<1>1. ValidLaunch(n) /\ x \in Nat \ {0} /\ y \in Nat \ {0} /\ z \in Nat \ {0} /\ n <= z * y * x * T
  BY GridFits
<1>2. T \in Nat \ {0}
  BY <1>1, Limits DEF ValidLaunch
<1>3. Launched(n) = (0 .. x - 1) \X (0 .. y - 1) \X (0 .. z - 1) \X (0 .. T - 1)
  BY <1>1 DEF Launched
<1> HIDE DEF T, x, y, z
<1> DEFINE zy  == z * y
           zyx == zy * x
<1>4. zy \in Nat
  BY <1>1
<1> HIDE DEF zy
<1>5. zyx \in Nat
  BY <1>1, <1>4
<1> HIDE DEF zyx
<1>6. n <= zyx * T /\ zyx * T \in Nat
  BY <1>1, <1>2, <1>5 DEF zyx, zy
<1>7. v \in 0 .. zyx * T - 1
  BY <1>6
<1> DEFINE b == v \div T
           r == b \div x
<1>8. b \in 0 .. zyx - 1 /\ v % T \in 0 .. T - 1 /\ v = b * T + (v % T)
  BY <1>2, <1>5, <1>7, QuotientBelow
<1> HIDE DEF b
<1>9. r \in 0 .. zy - 1 /\ b % x \in 0 .. x - 1 /\ b = r * x + (b % x)
  BY <1>1, <1>4, <1>8, QuotientBelow DEF zyx
<1> HIDE DEF r
<1>10. r \div y \in 0 .. z - 1 /\ r % y \in 0 .. y - 1 /\ r = (r \div y) * y + (r % y)
  BY <1>1, <1>9, QuotientBelow DEF zy
<1> DEFINE p == <<b % x, r % y, r \div y, v % T>>
<1>11. p \in Launched(n)
  BY <1>3, <1>8, <1>9, <1>10
<1>12. Place(p, n) = v
  <2>1. Place(p, n) = ((p[3] * y + p[2]) * x + p[1]) * T + p[4]
    BY DEF Place, x, y, T
  <2>2. p[1] = b % x /\ p[2] = r % y /\ p[3] = r \div y /\ p[4] = v % T
    OBVIOUS
  <2> HIDE DEF p
  <2> QED BY <1>8, <1>9, <1>10, <2>1, <2>2
<1> QED BY <1>11, <1>12

-----------------------------------------------------------------------------
(* The loops. *)

IsBox(b) == b \in Seq(Nat) /\ Len(b) \in 1 .. 3

LEMMA BoxIs ==
  ASSUME NEW b, IsBox(b)
  PROVE  /\ Items(b) \in Nat
         /\ Len(b) \in {1, 2, 3} /\ DOMAIN b = 1 .. Len(b)
         /\ Len(b) = 1 => b[1] \in Nat /\ Items(b) = b[1]
         /\ Len(b) = 2 => b[1] \in Nat /\ b[2] \in Nat /\ Items(b) = b[1] * b[2]
         /\ Len(b) = 3 => b[1] \in Nat /\ b[2] \in Nat /\ b[3] \in Nat /\ Items(b) = b[1] * b[2] * b[3]
<1>1. Len(b) \in {1, 2, 3} /\ DOMAIN b = 1 .. Len(b) /\ \A d \in 1 .. Len(b) : b[d] \in Nat
  BY DEF IsBox
<1>2. CASE Len(b) = 1
  BY <1>1, <1>2 DEF Items
<1>3. CASE Len(b) = 2
  <2>1. b[1] \in Nat /\ b[2] \in Nat
    BY <1>1, <1>3
  <2>2. Items(b) = b[1] * b[2]
    BY <1>3 DEF Items
  <2> QED BY <1>1, <1>3, <2>1, <2>2
<1>4. CASE Len(b) = 3
  <2>1. b[1] \in Nat /\ b[2] \in Nat /\ b[3] \in Nat
    BY <1>1, <1>4
  <2>2. Items(b) = b[1] * b[2] * b[3]
    BY <1>4 DEF Items
  <2>3. b[1] * b[2] \in Nat
    BY <2>1
  <2>4. b[1] * b[2] * b[3] \in Nat
    BY <2>1, <2>3
  <2> QED BY <1>1, <1>4, <2>1, <2>2, <2>4
<1> QED BY <1>1, <1>2, <1>3, <1>4

\* A row, a plane or a space of indices is gone through once.
Visits(s, X) ==
  /\ s \in Seq(X)
  /\ \A x \in X : \E p \in 1 .. Len(s) : s[p] = x
  /\ \A p, q \in 1 .. Len(s) : s[p] = s[q] => p = q

LEMMA LoopInRow ==
  ASSUME NEW b, IsBox(b), Len(b) = 1
  PROVE  Visits(Loop(b), Indices(b))
<1> DEFINE N == Items(b)
           s == [p \in 1 .. N |-> <<p - 1>>]
           X == {<<i>> : i \in 0 .. N - 1}
<1>1. N \in Nat /\ N = b[1]
  BY BoxIs
<1>2. Loop(b) = s
  BY DEF Loop
<1>3. Indices(b) = X
  BY <1>1 DEF Indices
<1> HIDE DEF N
<1>4. s \in Seq(X) /\ Len(s) = N
  <2>1. \A p \in 1 .. N : <<p - 1>> \in X
    BY <1>1
  <2> QED BY <1>1, <2>1
<1>5. \A x \in X : \E p \in 1 .. Len(s) : s[p] = x
  <2>1. ASSUME NEW i \in 0 .. N - 1 PROVE \E p \in 1 .. N : s[p] = <<i>>
    <3>1. i + 1 \in 1 .. N /\ s[i + 1] = <<i>>
      BY <1>1
    <3> QED BY <3>1
  <2> QED BY <1>4, <2>1
<1>6. \A p, q \in 1 .. Len(s) : s[p] = s[q] => p = q
  <2>1. \A p \in 1 .. N : s[p][1] = p - 1
    OBVIOUS
  <2> QED BY <1>1, <1>4, <2>1
<1> HIDE DEF s, X
<1> QED BY <1>2, <1>3, <1>4, <1>5, <1>6 DEF Visits

LEMMA LoopInPlane ==
  ASSUME NEW b, IsBox(b), Len(b) = 2
  PROVE  Visits(Loop(b), Indices(b))
<1> DEFINE N == Items(b)
           m == b[1]
           k == b[2]
           at(q) == <<q \div k, q % k>>
           s == [p \in 1 .. N |-> at(p - 1)]
           X == {<<i, j>> : i \in 0 .. m - 1, j \in 0 .. k - 1}
<1>1. N \in Nat /\ m \in Nat /\ k \in Nat /\ N = m * k
  BY BoxIs
<1>2. Loop(b) = s
  BY DEF Loop
<1>3. Indices(b) = X
  BY <1>1 DEF Indices
<1> HIDE DEF N, m, k
<1>4. \A q \in 0 .. N - 1 : /\ k # 0 /\ q \div k \in 0 .. m - 1 /\ q % k \in 0 .. k - 1
                            /\ q = (q \div k) * k + (q % k)
  <2> SUFFICES ASSUME NEW q \in 0 .. N - 1
               PROVE  /\ k # 0 /\ q \div k \in 0 .. m - 1 /\ q % k \in 0 .. k - 1
                      /\ q = (q \div k) * k + (q % k)
    OBVIOUS
  <2>1. k # 0
    BY <1>1
  <2> QED BY <1>1, <2>1, QuotientBelow
<1>5. s \in Seq(X) /\ Len(s) = N
  <2>1. \A p \in 1 .. N : p - 1 \in 0 .. N - 1
    BY <1>1
  <2>2. \A p \in 1 .. N : at(p - 1) \in X
    BY <1>4, <2>1
  <2> HIDE DEF at, X
  <2> QED BY <1>1, <2>2
<1>6. \A x \in X : \E p \in 1 .. Len(s) : s[p] = x
  <2>1. ASSUME NEW i \in 0 .. m - 1, NEW j \in 0 .. k - 1 PROVE \E p \in 1 .. N : s[p] = <<i, j>>
    <3> DEFINE q == i * k + j
    <3>1. k \in Nat \ {0} /\ i \in Nat /\ j \in 0 .. k - 1
      BY <1>1
    <3>2. q \in 0 .. N - 1
      BY <1>1, <3>1, PlaceBelow
    <3>3. q \div k = i /\ q % k = j
      BY <3>1, QuotientIs
    <3> HIDE DEF q
    <3>4. q + 1 \in 1 .. N /\ (q + 1) - 1 = q
      BY <1>1, <3>2
    <3>5. s[q + 1] = at(q)
      BY <3>4
    <3> QED BY <3>3, <3>4, <3>5
  <2> HIDE DEF s
  <2>2. \A x \in X : \E i \in 0 .. m - 1, j \in 0 .. k - 1 : x = <<i, j>>
    OBVIOUS
  <2> HIDE DEF at, X
  <2> SUFFICES ASSUME NEW x \in X PROVE \E p \in 1 .. N : s[p] = x
    BY <1>5
  <2>3. PICK i \in 0 .. m - 1, j \in 0 .. k - 1 : x = <<i, j>>
    BY <2>2
  <2> QED BY <2>1, <2>3
<1>7. \A p, q \in 1 .. Len(s) : s[p] = s[q] => p = q
  <2> SUFFICES ASSUME NEW p \in 1 .. N, NEW q \in 1 .. N, s[p] = s[q] PROVE p = q
    BY <1>5
  <2>1. p - 1 \in 0 .. N - 1 /\ q - 1 \in 0 .. N - 1
    BY <1>1
  <2>2. at(p - 1) = at(q - 1)
    OBVIOUS
  <2>3. (p - 1) \div k = (q - 1) \div k /\ (p - 1) % k = (q - 1) % k
    BY <2>2
  <2>4. p - 1 = q - 1
    BY <1>4, <2>1, <2>3
  <2> QED BY <2>4
<1> HIDE DEF s, X
<1> QED BY <1>2, <1>3, <1>5, <1>6, <1>7 DEF Visits

LEMMA LoopInSpace ==
  ASSUME NEW b, IsBox(b), Len(b) = 3
  PROVE  Visits(Loop(b), Indices(b))
<1> DEFINE N == Items(b)
           m == b[1]
           k == b[2]
           d == b[3]
           at(q) == <<q \div (k * d), (q \div d) % k, q % d>>
           s == [p \in 1 .. N |-> at(p - 1)]
           X == {<<i, j, h>> : i \in 0 .. m - 1, j \in 0 .. k - 1, h \in 0 .. d - 1}
           mk == m * k
<1>1. N \in Nat /\ m \in Nat /\ k \in Nat /\ d \in Nat /\ N = m * k * d
  BY BoxIs
<1>2. Loop(b) = s
  BY DEF Loop
<1>3. Indices(b) = X
  BY <1>1 DEF Indices
<1> HIDE DEF N, m, k, d
<1>4. mk \in Nat /\ N = mk * d
  BY <1>1
<1>5. \A q \in Nat : k # 0 /\ d # 0 => q \div (k * d) = (q \div d) \div k
  <2> SUFFICES ASSUME NEW q \in Nat, k # 0, d # 0 PROVE q \div (k * d) = (q \div d) \div k
    OBVIOUS
  <2> DEFINE r == q \div d
             i == r \div k
  <2>1. k \in Nat \ {0} /\ d \in Nat \ {0} /\ k * d \in Nat \ {0}
    BY <1>1
  <2>2. r \in Nat /\ q % d \in 0 .. d - 1 /\ q = r * d + (q % d)
    BY <2>1, Divides
  <2> HIDE DEF r
  <2>3. i \in Nat /\ r % k \in 0 .. k - 1 /\ r = i * k + (r % k)
    BY <2>1, <2>2, Divides
  <2> HIDE DEF i
  <2> DEFINE j == r % k
             h == q % d
  <2>4. j * d + h \in 0 .. k * d - 1
    BY <2>1, <2>2, <2>3, PlaceBelow
  <2>5. q = i * (k * d) + (j * d + h)
    <3>1. j \in Nat /\ h \in Nat
      BY <2>1, <2>2, <2>3
    <3>2. q = (i * k + j) * d + h
      BY <2>2, <2>3
    <3> HIDE DEF j, h
    <3> QED BY <2>1, <2>3, <3>1, <3>2
  <2> HIDE DEF j, h
  <2>6. (i * (k * d) + (j * d + h)) \div (k * d) = i
    BY <2>1, <2>3, <2>4, QuotientIs
  <2> QED BY <2>5, <2>6 DEF i, r
<1>6. \A q \in 0 .. N - 1 :
        /\ k # 0 /\ d # 0 /\ q \div d \in 0 .. mk - 1 /\ q % d \in 0 .. d - 1
        /\ q = (q \div d) * d + (q % d)
        /\ (q \div d) \div k \in 0 .. m - 1 /\ (q \div d) % k \in 0 .. k - 1
        /\ q \div d = ((q \div d) \div k) * k + ((q \div d) % k)
  <2> SUFFICES ASSUME NEW q \in 0 .. N - 1
               PROVE  /\ k # 0 /\ d # 0 /\ q \div d \in 0 .. mk - 1 /\ q % d \in 0 .. d - 1
                      /\ q = (q \div d) * d + (q % d)
                      /\ (q \div d) \div k \in 0 .. m - 1 /\ (q \div d) % k \in 0 .. k - 1
                      /\ q \div d = ((q \div d) \div k) * k + ((q \div d) % k)
    OBVIOUS
  <2>1. k # 0 /\ d # 0
    BY <1>1, <1>4
  <2> HIDE DEF mk
  <2> DEFINE r == q \div d
  <2>2. r \in 0 .. mk - 1 /\ q % d \in 0 .. d - 1 /\ q = r * d + (q % d)
    BY <1>1, <1>4, <2>1, QuotientBelow
  <2> HIDE DEF r
  <2>3. r \div k \in 0 .. m - 1 /\ r % k \in 0 .. k - 1 /\ r = (r \div k) * k + (r % k)
    BY <1>1, <2>1, <2>2, QuotientBelow DEF mk
  <2> QED BY <2>1, <2>2, <2>3 DEF r
<1>7. s \in Seq(X) /\ Len(s) = N
  <2>1. \A p \in 1 .. N : p - 1 \in 0 .. N - 1 /\ p - 1 \in Nat
    BY <1>1
  <2>2. \A p \in 1 .. N : at(p - 1) \in X
    BY <1>5, <1>6, <2>1
  <2> HIDE DEF at, X
  <2> QED BY <1>1, <2>2
<1>8. \A x \in X : \E p \in 1 .. Len(s) : s[p] = x
  <2>1. ASSUME NEW i \in 0 .. m - 1, NEW j \in 0 .. k - 1, NEW h \in 0 .. d - 1
        PROVE  \E p \in 1 .. N : s[p] = <<i, j, h>>
    <3> DEFINE r == i * k + j
               q == r * d + h
    <3>1. k \in Nat \ {0} /\ d \in Nat \ {0} /\ i \in Nat
      BY <1>1
    <3>2. r \in 0 .. mk - 1 /\ r \div k = i /\ r % k = j
      BY <1>1, <3>1, PlaceBelow, QuotientIs
    <3> HIDE DEF r, mk
    <3>3. q \in 0 .. N - 1 /\ q \div d = r /\ q % d = h
      BY <1>4, <3>1, <3>2, PlaceBelow, QuotientIs
    <3> HIDE DEF q
    <3>4. q + 1 \in 1 .. N /\ (q + 1) - 1 = q /\ q \in Nat
      BY <1>1, <3>3
    <3>5. s[q + 1] = at(q)
      BY <3>4
    <3>6. q \div (k * d) = i
      BY <1>5, <3>1, <3>2, <3>3, <3>4
    <3> QED BY <3>2, <3>3, <3>4, <3>5, <3>6
  <2> HIDE DEF s
  <2>2. \A x \in X : \E i \in 0 .. m - 1, j \in 0 .. k - 1, h \in 0 .. d - 1 : x = <<i, j, h>>
    OBVIOUS
  <2> HIDE DEF at, X
  <2> SUFFICES ASSUME NEW x \in X PROVE \E p \in 1 .. N : s[p] = x
    BY <1>7
  <2>3. PICK i \in 0 .. m - 1, j \in 0 .. k - 1, h \in 0 .. d - 1 : x = <<i, j, h>>
    BY <2>2
  <2> QED BY <2>1, <2>3
<1>9. \A p, q \in 1 .. Len(s) : s[p] = s[q] => p = q
  <2> SUFFICES ASSUME NEW p \in 1 .. N, NEW q \in 1 .. N, s[p] = s[q] PROVE p = q
    BY <1>7
  <2>1. p - 1 \in 0 .. N - 1 /\ q - 1 \in 0 .. N - 1 /\ p - 1 \in Nat /\ q - 1 \in Nat
    BY <1>1
  <2>2. at(p - 1) = at(q - 1)
    OBVIOUS
  <2>3. /\ (p - 1) \div (k * d) = (q - 1) \div (k * d)
        /\ ((p - 1) \div d) % k = ((q - 1) \div d) % k /\ (p - 1) % d = (q - 1) % d
    BY <2>2
  <2>4. ((p - 1) \div d) \div k = ((q - 1) \div d) \div k
    BY <1>5, <1>6, <2>1, <2>3
  <2>5. (p - 1) \div d = (q - 1) \div d
    BY <1>6, <2>1, <2>3, <2>4
  <2>6. p - 1 = q - 1
    BY <1>6, <2>1, <2>3, <2>5
  <2> QED BY <2>6
<1> HIDE DEF s, X
<1> QED BY <1>2, <1>3, <1>7, <1>8, <1>9 DEF Visits

LEMMA LoopVisits ==
  ASSUME NEW b, IsBox(b)
  PROVE  Visits(Loop(b), Indices(b))
BY BoxIs, LoopInRow, LoopInPlane, LoopInSpace

-----------------------------------------------------------------------------
(* Lanes. *)

\* Part of a sequence.
LEMMA SliceIs ==
  ASSUME NEW X, NEW s \in Seq(X), NEW from \in Nat, NEW last \in 0 .. Len(s)
  PROVE  /\ SubSeq(s, from + 1, last) \in Seq(X)
         /\ DOMAIN SubSeq(s, from + 1, last) = 1 .. Len(SubSeq(s, from + 1, last))
         /\ Len(SubSeq(s, from + 1, last)) = IF from < last THEN last - from ELSE 0
         /\ \A j \in 1 .. Len(SubSeq(s, from + 1, last)) : SubSeq(s, from + 1, last)[j] = s[from + j]
<1> DEFINE f == from + 1
           l == SubSeq(s, f, last)
<1>1. f \in Int /\ last \in Int /\ \A i \in f .. last : s[i] \in X
  OBVIOUS
<1> HIDE DEF f
<1>2. /\ l \in Seq(X)
      /\ Len(l) = IF f <= last THEN last - f + 1 ELSE 0
      /\ \A j \in 1 .. last - f + 1 : l[j] = s[f + j - 1]
  BY <1>1, SubSeqProperties
<1> HIDE DEF l
<1>3. DOMAIN l = 1 .. Len(l) /\ Len(l) = IF from < last THEN last - from ELSE 0
  BY <1>2 DEF f
<1>4. ASSUME NEW j \in 1 .. Len(l) PROVE l[j] = s[from + j]
  <2>1. j \in 1 .. last - f + 1 /\ f + j - 1 = from + j
    BY <1>3 DEF f
  <2> QED BY <1>2, <2>1
<1> QED BY <1>2, <1>3, <1>4 DEF l, f

\* Chunk t of a loop has the elements from the t-th multiple of the size on.
LEMMA ChunkIs ==
  ASSUME TeamsAssumption, NEW X, NEW s \in Seq(X), NEW t \in 0 .. Teams - 1
  PROVE  /\ Chunk(s, t) \in Seq(X)
         /\ \A j \in DOMAIN Chunk(s, t) :
              /\ j \in 1 .. ChunkSize(s) /\ t * ChunkSize(s) + j \in 1 .. Len(s)
              /\ Chunk(s, t)[j] = s[t * ChunkSize(s) + j]
         /\ \A j \in 1 .. ChunkSize(s) : t * ChunkSize(s) + j <= Len(s) => j \in DOMAIN Chunk(s, t)
<1> DEFINE N == Len(s)
           size == ChunkSize(s)
           from == t * size
           upto == (t + 1) * size
           last == Lesser(upto, N)
           l == Chunk(s, t)
<1>1. size \in Nat /\ t \in Nat /\ N \in Nat
  <2>1. N \in Nat /\ Teams \in Nat \ {0} /\ t \in Nat
    BY DEF TeamsAssumption
  <2> HIDE DEF N
  <2>2. CeilDiv(N, Teams) \in Nat
    BY <2>1, CeilIs
  <2> QED BY <2>1, <2>2 DEF ChunkSize, N
<1>2. l = SubSeq(s, from + 1, last)
  BY DEF Chunk
<1> HIDE DEF l, size
<1>3. from \in Nat /\ upto \in Nat /\ upto = from + size
  BY <1>1
<1> HIDE DEF from, upto, N
<1>4. last = IF upto <= N THEN upto ELSE N
  BY <1>1, <1>3, LesserIs
<1> HIDE DEF last
<1>5. last \in 0 .. N
  BY <1>1, <1>3, <1>4
<1>6. /\ l \in Seq(X) /\ DOMAIN l = 1 .. Len(l)
      /\ Len(l) = IF from < last THEN last - from ELSE 0
      /\ \A j \in 1 .. Len(l) : l[j] = s[from + j]
  BY <1>2, <1>3, <1>5, SliceIs DEF N
<1>7. ASSUME NEW j \in DOMAIN l
      PROVE  j \in 1 .. size /\ from + j \in 1 .. N /\ l[j] = s[from + j]
  <2>1. j \in 1 .. Len(l)
    BY <1>6
  <2>2. from < last /\ j \in 1 .. last - from
    BY <1>1, <1>3, <1>5, <1>6, <2>1
  <2> QED BY <1>1, <1>3, <1>4, <1>6, <2>1, <2>2
<1>8. ASSUME NEW j \in 1 .. size, from + j <= N
      PROVE  j \in DOMAIN l
  <2>1. from < last /\ j <= last - from
    BY <1>1, <1>3, <1>4, <1>8
  <2>2. j \in 1 .. last - from /\ last - from = Len(l)
    BY <1>1, <1>3, <1>5, <1>6, <2>1
  <2> QED BY <1>6, <2>2
<1> QED BY <1>6, <1>7, <1>8 DEF from, l, size, N

\* Lanes part a sequence without repetitions: each element is in one lane, once.
Part(L, X) ==
  /\ \A l \in L : l \in Seq(X) /\ l # <<>>
  /\ \A x \in X : \E l \in L : \E j \in DOMAIN l : l[j] = x
  /\ \A l, m \in L : \A i \in DOMAIN l, j \in DOMAIN m : l[i] = m[j] => l = m /\ i = j

LEMMA OneLane ==
  ASSUME NEW s, NEW X, Visits(s, X)
  PROVE  Part({s} \ {<<>>}, X)
<1>1. s \in Seq(X) /\ DOMAIN s = 1 .. Len(s) /\ Len(s) \in Nat
  BY DEF Visits
<1>2. CASE s = <<>>
  <2>1. X = {}
    BY <1>1, <1>2 DEF Visits
  <2> QED BY <1>2, <2>1 DEF Part
<1>3. CASE s # <<>>
  BY <1>1, <1>3 DEF Part, Visits
<1> QED BY <1>2, <1>3

\* OpenMP's chunks do as well.
LEMMA ManyLanes ==
  ASSUME TeamsAssumption, NEW s, NEW X, Visits(s, X)
  PROVE  Part(Chunks(s), X)
<1> DEFINE N == Len(s)
           size == ChunkSize(s)
           chunk(t) == Chunk(s, t)
<1>1. s \in Seq(X) /\ N \in Nat /\ Teams \in Nat \ {0}
  BY DEF Visits, TeamsAssumption
<1>2. size \in Nat /\ N <= size * Teams
  BY <1>1, CeilIs DEF ChunkSize
<1>3. Chunks(s) = {chunk(t) : t \in 0 .. Teams - 1} \ {<<>>}
  BY DEF Chunks
<1>4. \A t \in 0 .. Teams - 1 :
        /\ chunk(t) \in Seq(X)
        /\ \A j \in DOMAIN chunk(t) : /\ j \in 1 .. size /\ t * size + j \in 1 .. N
                                      /\ chunk(t)[j] = s[t * size + j]
        /\ \A j \in 1 .. size : t * size + j <= N => j \in DOMAIN chunk(t)
  BY <1>1, ChunkIs
<1> HIDE DEF chunk, size, N
<1>5. \A l \in Chunks(s) : l \in Seq(X) /\ l # <<>>
  BY <1>3, <1>4
<1>6. ASSUME NEW x \in X PROVE \E l \in Chunks(s) : \E j \in DOMAIN l : l[j] = x
  <2>1. PICK p \in 1 .. N : s[p] = x
    BY DEF Visits, N
  <2>2. size # 0
    BY <1>1, <1>2, <2>1
  <2> DEFINE t == (p - 1) \div size
             j == ((p - 1) % size) + 1
  <2>3. p - 1 \in 0 .. Teams * size - 1
    <3>1. size * Teams = Teams * size /\ Teams * size \in Nat
      BY <1>1, <1>2
    <3> QED BY <1>1, <1>2, <2>1, <3>1
  <2>4. t \in 0 .. Teams - 1 /\ (p - 1) % size \in 0 .. size - 1 /\ p - 1 = t * size + ((p - 1) % size)
    BY <1>1, <1>2, <2>2, <2>3, QuotientBelow
  <2>5. j \in 1 .. size /\ p = t * size + j
    <3>1. t * size \in Nat
      BY <1>1, <1>2, <2>4
    <3> QED BY <1>2, <2>1, <2>4, <3>1
  <2> HIDE DEF t, j
  <2>6. j \in DOMAIN chunk(t) /\ chunk(t)[j] = x
    BY <1>1, <1>4, <2>1, <2>4, <2>5
  <2>7. chunk(t) \in Chunks(s)
    <3>1. chunk(t) # <<>>
      BY <2>6
    <3> QED BY <1>3, <2>4, <3>1
  <2> QED BY <2>6, <2>7
<1>7. ASSUME NEW l \in Chunks(s), NEW m \in Chunks(s), NEW i \in DOMAIN l, NEW j \in DOMAIN m, l[i] = m[j]
      PROVE  l = m /\ i = j
  <2>1. PICK t \in 0 .. Teams - 1 : l = chunk(t)
    BY <1>3
  <2>2. PICK u \in 0 .. Teams - 1 : m = chunk(u)
    BY <1>3
  <2>3. i \in 1 .. size /\ t * size + i \in 1 .. N /\ l[i] = s[t * size + i]
    BY <1>4, <2>1
  <2>4. j \in 1 .. size /\ u * size + j \in 1 .. N /\ m[j] = s[u * size + j]
    BY <1>4, <2>2
  <2>5. t * size + i = u * size + j
    BY <1>7, <2>3, <2>4 DEF Visits, N
  <2>6. size \in Nat \ {0} /\ i - 1 \in 0 .. size - 1 /\ j - 1 \in 0 .. size - 1
    BY <1>2, <2>3, <2>4
  <2>7. t * size + (i - 1) = u * size + (j - 1)
    <3>1. t * size \in Nat /\ u * size \in Nat
      BY <1>1, <1>2
    <3> QED BY <1>2, <2>3, <2>4, <2>5, <3>1
  <2>8. t = u /\ i - 1 = j - 1
    BY <1>1, <2>6, <2>7, OneQuotient
  <2> QED BY <2>1, <2>2, <2>3, <2>4, <2>8
<1> QED BY <1>5, <1>6, <1>7 DEF Part

LEMMA LoopParts ==
  ASSUME TeamsAssumption, NEW b, IsBox(b)
  PROVE  Part(LoopLanes(b), Indices(b))
BY LoopVisits, OneLane, ManyLanes DEF LoopLanes

-----------------------------------------------------------------------------
(* The invariant. *)

Units == [thread : (Nat \X Nat \X Nat \X Nat) \cup {<<>>}, index : Seq(Nat)]

\* The grids left out of EachIndexOnce.
Spread == path = "device" /\ Len(box) > 1

\* No two units have the same index.
Distinct(L) ==
  \A l, m \in L : \A i \in DOMAIN l, j \in DOMAIN m : l[i].index = m[j].index => l = m /\ i = j

\* A unit is left for the index.
Left(L, x) == \E l \in L : \E j \in DOMAIN l : l[j].index = x

\* Units that are left belong to the box; on the device some are outside it.
UnitsFit(L, b, p) ==
  \A l \in L :
    /\ l \in Seq(Units) /\ l # <<>>
    /\ \A j \in DOMAIN l : /\ Len(l[j].index) = Len(b)
                           /\ p # "device" => l[j].index \in Indices(b)

\* Before the launch nothing has run.
Untouched == lanes = {} /\ \A x \in Indices(box) : ran[x] = 0

\* After it the body has run once for each index no unit is left for.
Accounted ==
  ~Spread => /\ Distinct(lanes)
             /\ \A x \in Indices(box) : ran[x] = IF Left(lanes, x) THEN 0 ELSE 1

KInv ==
  /\ setup \in [build : Builds, device : HasDevice, unified : BOOLEAN]
  /\ stage \in {"idle", "prepared", "launched"} /\ returned \in BOOLEAN
  /\ \/ /\ box = <<>> /\ stage = "idle" /\ path = "none" /\ lanes = {}
        /\ ran = <<>> /\ returned = FALSE
     \/ /\ box \in Boxes /\ path = PathOf(setup, box) /\ ran \in [Indices(box) -> Nat]
        /\ UnitsFit(lanes, box, path)
        /\ stage = "prepared" => path # "none" /\ returned = FALSE
        /\ stage = "launched" => returned = FALSE
        /\ IF stage = "prepared" \/ (stage = "idle" /\ returned = FALSE) THEN Untouched ELSE Accounted

LEMMA BoxesAre ==
  ASSUME SensibleBoxes, NEW b \in Boxes
  PROVE  /\ IsBox(b) /\ b # <<>> /\ Items(b) \in Nat
         /\ Items(b) > 0 => Fitting(Items(b))
<1>1. IsBox(b)
  BY DEF SensibleBoxes, IsBox
<1>2. b # <<>>
  <2>1. Len(<<>>) = 0
    OBVIOUS
  <2>2. Len(b) # 0
    BY <1>1, BoxIs
  <2> QED BY <2>1, <2>2
<1>3. Items(b) > 0 => Fitting(Items(b))
  BY DEF SensibleBoxes, Fitting
<1> QED BY <1>1, <1>2, <1>3, BoxIs

LEMMA PathsAre ==
  ASSUME TeamsAssumption, NEW s \in [build : Builds, device : HasDevice, unified : BOOLEAN], NEW b
  PROVE  /\ PathOf(s, b) \in {"device", "fallback", "host", "none"}
         /\ PathOf(s, b) = "device" => Usable(Items(b))
<1>1. s.build \in {"cuda", "host"} /\ s.unified \in BOOLEAN
  BY DEF TeamsAssumption
<1>2. CASE s.build = "host"
  BY <1>2 DEF PathOf
<1>3. CASE s.build = "cuda" /\ TakesDevice(s, b)
  <2>1. PathOf(s, b) = "device"
    BY <1>3 DEF PathOf
  <2>2. Usable(Items(b))
    BY <1>3 DEF TakesDevice
  <2> QED BY <2>1, <2>2
<1>4. CASE s.build = "cuda" /\ ~TakesDevice(s, b) /\ s.unified
  BY <1>4 DEF PathOf
<1>5. CASE s.build = "cuda" /\ ~TakesDevice(s, b) /\ ~s.unified
  BY <1>5 DEF PathOf
<1> QED BY <1>1, <1>2, <1>3, <1>4, <1>5

\* The indices of a box are those kernel_check_dims lets through.
LEMMA ChecksBox ==
  ASSUME NEW b, IsBox(b), NEW x \in Seq(Nat), Len(x) = Len(b)
  PROVE  CheckDims(x, b) <=> x \in Indices(b)
<1>1. /\ Len(b) \in {1, 2, 3} /\ DOMAIN b = 1 .. Len(b)
      /\ Len(b) = 1 => b[1] \in Nat
      /\ Len(b) = 2 => b[1] \in Nat /\ b[2] \in Nat
      /\ Len(b) = 3 => b[1] \in Nat /\ b[2] \in Nat /\ b[3] \in Nat
  BY BoxIs
<1> DEFINE natural(d) == x[d] \in Nat
<1>5. \A d \in 1 .. Len(b) : natural(d)
  BY ElementOfSeq
<1> HIDE DEF natural
<1>2. CASE Len(b) = 1
  <2>1. x = <<x[1]>> /\ x[1] \in Nat
    <3>1. x[1] \in Nat
      BY <1>2
    <3>2. <<x[1]>> \in Seq(Nat) /\ Len(<<x[1]>>) = 1 /\ <<x[1]>>[1] = x[1]
      BY <3>1
    <3> QED BY <1>2, <3>1, <3>2, SeqEqual
  <2>2. Indices(b) = {<<i>> : i \in 0 .. b[1] - 1}
    BY <1>2 DEF Indices
  <2>3. CheckDims(x, b) <=> x[1] < b[1]
    BY <1>1, <1>2 DEF CheckDims
  <2>4. x \in Indices(b) <=> x[1] \in 0 .. b[1] - 1
    BY <2>1, <2>2
  <2> QED BY <1>1, <1>2, <2>1, <2>3, <2>4
<1>3. CASE Len(b) = 2
  <2>1. x = <<x[1], x[2]>> /\ x[1] \in Nat /\ x[2] \in Nat
    <3>1. x[1] \in Nat /\ x[2] \in Nat
      <4>1. natural(1) /\ natural(2)
        BY <1>3, <1>5
      <4> QED BY <4>1 DEF natural
    <3> DEFINE y == <<x[1], x[2]>>
    <3>2. y \in Seq(Nat) /\ Len(y) = 2 /\ y[1] = x[1] /\ y[2] = x[2]
      BY <3>1
    <3>3. \A d \in 1 .. 2 : x[d] = y[d]
      <4>1. \A d \in 1 .. 2 : d = 1 \/ d = 2
        OBVIOUS
      <4> HIDE DEF y
      <4> QED BY <3>2, <4>1
    <3> HIDE DEF y
    <3>4. x = y
      BY <1>3, <3>2, <3>3, SeqEqual
    <3> QED BY <3>1, <3>4 DEF y
  <2>2. Indices(b) = {<<i, j>> : i \in 0 .. b[1] - 1, j \in 0 .. b[2] - 1}
    BY <1>3 DEF Indices
  <2>3. CheckDims(x, b) <=> x[1] < b[1] /\ x[2] < b[2]
    <3>1. \A d \in DOMAIN b : d = 1 \/ d = 2
      BY <1>1, <1>3
    <3>2. 1 \in DOMAIN b /\ 2 \in DOMAIN b
      BY <1>1, <1>3
    <3> QED BY <3>1, <3>2 DEF CheckDims
  <2>4. x \in Indices(b) <=> x[1] \in 0 .. b[1] - 1 /\ x[2] \in 0 .. b[2] - 1
    BY <2>1, <2>2
  <2> QED BY <1>1, <1>3, <2>1, <2>3, <2>4
<1>4. CASE Len(b) = 3
  <2>1. x = <<x[1], x[2], x[3]>> /\ x[1] \in Nat /\ x[2] \in Nat /\ x[3] \in Nat
    <3>1. x[1] \in Nat /\ x[2] \in Nat /\ x[3] \in Nat
      <4>1. natural(1) /\ natural(2) /\ natural(3)
        BY <1>4, <1>5
      <4> QED BY <4>1 DEF natural
    <3> DEFINE y == <<x[1], x[2], x[3]>>
    <3>2. y \in Seq(Nat) /\ Len(y) = 3 /\ y[1] = x[1] /\ y[2] = x[2] /\ y[3] = x[3]
      BY <3>1
    <3>3. \A d \in 1 .. 3 : x[d] = y[d]
      <4>1. \A d \in 1 .. 3 : d = 1 \/ d = 2 \/ d = 3
        OBVIOUS
      <4> HIDE DEF y
      <4> QED BY <3>2, <4>1
    <3> HIDE DEF y
    <3>4. x = y
      BY <1>4, <3>2, <3>3, SeqEqual
    <3> QED BY <3>1, <3>4 DEF y
  <2>2. Indices(b) = {<<i, j, k>> : i \in 0 .. b[1] - 1, j \in 0 .. b[2] - 1, k \in 0 .. b[3] - 1}
    BY <1>4 DEF Indices
  <2>3. CheckDims(x, b) <=> x[1] < b[1] /\ x[2] < b[2] /\ x[3] < b[3]
    <3>1. \A d \in DOMAIN b : d = 1 \/ d = 2 \/ d = 3
      BY <1>1, <1>4
    <3>2. 1 \in DOMAIN b /\ 2 \in DOMAIN b /\ 3 \in DOMAIN b
      BY <1>1, <1>4
    <3> QED BY <3>1, <3>2 DEF CheckDims
  <2>4. x \in Indices(b) <=> x[1] \in 0 .. b[1] - 1 /\ x[2] \in 0 .. b[2] - 1 /\ x[3] \in 0 .. b[3] - 1
    BY <2>1, <2>2
  <2> QED BY <1>1, <1>4, <2>1, <2>3, <2>4
<1> QED BY <1>1, <1>2, <1>3, <1>4

LEMMA IndicesAre ==
  ASSUME NEW b, IsBox(b), NEW x \in Indices(b)
  PROVE  x \in Seq(Nat) /\ Len(x) = Len(b)
<1>1. /\ Len(b) \in {1, 2, 3}
      /\ Len(b) = 1 => b[1] \in Nat
      /\ Len(b) = 2 => b[1] \in Nat /\ b[2] \in Nat
      /\ Len(b) = 3 => b[1] \in Nat /\ b[2] \in Nat /\ b[3] \in Nat
  BY BoxIs
<1>2. CASE Len(b) = 1
  <2>1. PICK i \in 0 .. b[1] - 1 : x = <<i>>
    BY <1>2 DEF Indices
  <2> QED BY <1>1, <1>2, <2>1, OneOf
<1>3. CASE Len(b) = 2
  <2>1. PICK i \in 0 .. b[1] - 1, j \in 0 .. b[2] - 1 : x = <<i, j>>
    BY <1>3 DEF Indices
  <2> QED BY <1>1, <1>3, <2>1, TwoOf
<1>4. CASE Len(b) = 3
  <2>1. PICK i \in 0 .. b[1] - 1, j \in 0 .. b[2] - 1, k \in 0 .. b[3] - 1 : x = <<i, j, k>>
    BY <1>4 DEF Indices
  <2> QED BY <1>1, <1>4, <2>1, ThreeOf
<1> QED BY <1>1, <1>2, <1>3, <1>4

-----------------------------------------------------------------------------
(* Steps. *)

LEMMA CallKeeps ==
  ASSUME SensibleBoxes, KInv, NEW b \in Boxes, CallKernel(b)
  PROVE  KInv'
<1>1. /\ stage = "idle" /\ lanes = {} /\ box' = b /\ path' = PathOf(setup, b)
      /\ ran' = [index \in Indices(b) |-> 0] /\ returned' = FALSE /\ setup' = setup /\ lanes' = {}
      /\ stage' = IF PathOf(setup, b) = "none" THEN "idle" ELSE "prepared"
  BY DEF CallKernel
<1>2. path' = PathOf(setup, box)' /\ ran' \in [Indices(box) -> Nat]'
  BY <1>1 DEF PathOf, TakesDevice
<1>3. Untouched' /\ UnitsFit(lanes, box, path)'
  BY <1>1 DEF Untouched, UnitsFit
<1>4. /\ setup \in [build : Builds, device : HasDevice, unified : BOOLEAN]
  BY DEF KInv
<1> QED BY <1>1, <1>2, <1>3, <1>4 DEF KInv

\* Units made of a loop
LEMMA LoopUnits ==
  ASSUME TeamsAssumption, NEW b, IsBox(b), NEW p, p # "device", NEW M, M = HostLanes(b)
  PROVE  UnitsFit(M, b, p) /\ Distinct(M) /\ \A x \in Indices(b) : Left(M, x)
<1> DEFINE L == LoopLanes(b)
           lane(s) == [i \in DOMAIN s |-> [thread |-> <<>>, index |-> s[i]]]
<1>0. Part(L, Indices(b)) /\ M = {lane(s) : s \in L}
  BY LoopParts DEF HostLanes
<1> HIDE DEF L
<1>1. \A s \in L : /\ s \in Seq(Indices(b)) /\ s # <<>> /\ DOMAIN s = 1 .. Len(s) /\ Len(s) \in Nat
                   /\ \A i \in DOMAIN s : s[i] \in Indices(b)
  BY <1>0 DEF Part
<1>2. \A s \in L : /\ DOMAIN lane(s) = DOMAIN s
                   /\ \A i \in DOMAIN s : /\ lane(s)[i] = [thread |-> <<>>, index |-> s[i]]
                                          /\ lane(s)[i].index = s[i]
  OBVIOUS
<1>3. \A l \in M : \E s \in L : l = lane(s)
  BY <1>0
<1>4. \A s \in L : lane(s) \in M
  BY <1>0
<1>5. \A x \in Indices(b) : x \in Seq(Nat) /\ Len(x) = Len(b)
  BY IndicesAre
<1>6. ASSUME NEW l \in M
      PROVE  /\ l \in Seq(Units) /\ l # <<>>
             /\ \A j \in DOMAIN l : Len(l[j].index) = Len(b) /\ l[j].index \in Indices(b)
  <2>1. PICK s \in L : l = lane(s)
    BY <1>3
  <2>2. \A i \in DOMAIN s : [thread |-> <<>>, index |-> s[i]] \in Units
    BY <1>1, <1>5 DEF Units
  <2>3. l \in Seq(Units)
    BY <1>1, <2>1, <2>2
  <2>4. l # <<>>
    <3>1. DOMAIN l # {}
      BY <1>1, <2>1
    <3> QED BY <3>1
  <2>5. ASSUME NEW j \in DOMAIN l PROVE Len(l[j].index) = Len(b) /\ l[j].index \in Indices(b)
    BY <1>1, <1>2, <1>5, <2>1
  <2> QED BY <2>3, <2>4, <2>5
<1> HIDE DEF lane
<1>7. UnitsFit(M, b, p)
  BY <1>6 DEF UnitsFit
<1>8. Distinct(M)
  <2> SUFFICES ASSUME NEW l \in M, NEW m \in M, NEW i \in DOMAIN l, NEW j \in DOMAIN m,
                      l[i].index = m[j].index
               PROVE  l = m /\ i = j
    BY DEF Distinct
  <2>1. PICK s \in L : l = lane(s)
    BY <1>3
  <2>2. PICK u \in L : m = lane(u)
    BY <1>3
  <2>3. i \in DOMAIN s /\ j \in DOMAIN u /\ s[i] = u[j]
    BY <1>2, <2>1, <2>2
  <2>4. s = u /\ i = j
    BY <1>0, <2>3 DEF Part
  <2> QED BY <2>1, <2>2, <2>4
<1>9. ASSUME NEW x \in Indices(b) PROVE Left(M, x)
  <2>1. PICK s \in L : \E j \in DOMAIN s : s[j] = x
    BY <1>0 DEF Part
  <2>2. PICK j \in DOMAIN s : s[j] = x
    BY <2>1
  <2>3. lane(s) \in M /\ j \in DOMAIN lane(s) /\ lane(s)[j].index = x
    BY <1>2, <1>4, <2>2
  <2> QED BY <2>3 DEF Left
<1> QED BY <1>7, <1>8, <1>9

\* and of a grid.
LEMMA DeviceUnits ==
  ASSUME DeviceAssumption, NEW b, IsBox(b), Items(b) > 0, Fitting(Items(b)), Usable(Items(b)),
         NEW M, M = DeviceLanes(b)
  PROVE  UnitsFit(M, b, "device") /\ (Len(b) = 1 => Distinct(M) /\ \A x \in Indices(b) : Left(M, x))
<1> DEFINE n == Items(b)
           unit(p) == [thread |-> p, index |-> IndexOf(Len(b), p, n)]
<1>1. n \in Nat \ {0} /\ Len(b) \in 1 .. 3 /\ Fitting(n) /\ Blocks(n) # <<0, 0, 0>>
  BY BoxIs DEF Usable, IsBox
<1>2. M = {<<unit(p)>> : p \in Launched(n)}
  BY DEF DeviceLanes
<1> HIDE DEF n
<1>3. \A p \in Launched(n) : unit(p) \in Units /\ Len(unit(p).index) = Len(b)
  <2> SUFFICES ASSUME NEW p \in Launched(n) PROVE unit(p) \in Units /\ Len(unit(p).index) = Len(b)
    OBVIOUS
  <2>1. p \in Nat \X Nat \X Nat \X Nat
    <3>1. p = <<p[1], p[2], p[3], p[4]>> /\ p[1] \in Nat /\ p[2] \in Nat /\ p[3] \in Nat /\ p[4] \in Nat
      BY <1>1, ThreadsAre
    <3> QED BY <3>1
  <2>2. IndexOf(Len(b), p, n) \in Seq(Nat) /\ Len(IndexOf(Len(b), p, n)) = Len(b)
    BY <1>1, ThreadIndices
  <2> QED BY <2>1, <2>2 DEF Units
<1>4. \A p \in Launched(n) : unit(p).thread = p /\ unit(p).index = IndexOf(Len(b), p, n)
  OBVIOUS
<1> HIDE DEF unit
<1>5. UnitsFit(M, b, "device")
  <2>1. ASSUME NEW l \in M
        PROVE  l \in Seq(Units) /\ l # <<>> /\ \A j \in DOMAIN l : Len(l[j].index) = Len(b)
    <3>1. PICK p \in Launched(n) : l = <<unit(p)>>
      BY <1>2
    <3> QED BY <1>3, <3>1
  <2> QED BY <2>1 DEF UnitsFit
<1>6. ASSUME Len(b) = 1 PROVE Distinct(M) /\ \A x \in Indices(b) : Left(M, x)
  <2>1. \A p \in Launched(n) : unit(p).index = <<Place(p, n)>>
    BY <1>1, <1>4, <1>6, RowPlaces
  <2>2. Distinct(M)
    <3> SUFFICES ASSUME NEW l \in M, NEW m \in M, NEW i \in DOMAIN l, NEW j \in DOMAIN m,
                        l[i].index = m[j].index
                 PROVE  l = m /\ i = j
      BY DEF Distinct
    <3>1. PICK p \in Launched(n) : l = <<unit(p)>>
      BY <1>2
    <3>2. PICK q \in Launched(n) : m = <<unit(q)>>
      BY <1>2
    <3>3. i = 1 /\ j = 1
      BY <3>1, <3>2
    <3>4. Place(p, n) = Place(q, n)
      <4>1. <<Place(p, n)>> = <<Place(q, n)>>
        BY <2>1, <3>1, <3>2, <3>3
      <4> QED BY <4>1
    <3>5. p = q
      BY <1>1, <3>4, PlacesDiffer
    <3> QED BY <3>1, <3>2, <3>3, <3>5
  <2>3. ASSUME NEW x \in Indices(b) PROVE Left(M, x)
    <3>1. PICK v \in 0 .. n - 1 : x = <<v>>
      BY <1>6, BoxIs DEF Indices, n
    <3>2. PICK p \in Launched(n) : Place(p, n) = v
      BY <1>1, PlacesTaken
    <3>3. <<unit(p)>> \in M /\ 1 \in DOMAIN <<unit(p)>> /\ <<unit(p)>>[1].index = x
      BY <1>2, <2>1, <3>1, <3>2
    <3> QED BY <3>3 DEF Left
  <2> QED BY <2>2, <2>3
<1> QED BY <1>5, <1>6

LEMMA LaunchKeeps ==
  ASSUME DeviceAssumption, TeamsAssumption, SensibleBoxes, KInv, LaunchKernel
  PROVE  KInv'
<1>1. /\ stage = "prepared" /\ stage' = "launched" /\ setup' = setup /\ box' = box /\ path' = path
      /\ ran' = ran /\ returned' = returned
      /\ lanes' = IF path = "device" THEN DeviceLanes(box) ELSE HostLanes(box)
  BY DEF LaunchKernel
<1>2. /\ setup \in [build : Builds, device : HasDevice, unified : BOOLEAN]
      /\ box \in Boxes /\ path = PathOf(setup, box) /\ ran \in [Indices(box) -> Nat] /\ returned = FALSE
      /\ \A x \in Indices(box) : ran[x] = 0
  BY <1>1 DEF KInv, Untouched
<1>3. IsBox(box) /\ Items(box) \in Nat /\ (Items(box) > 0 => Fitting(Items(box)))
  BY <1>2, BoxesAre
<1>4. UnitsFit(lanes, box, path)' /\ (~Spread' => Distinct(lanes)' /\ \A x \in Indices(box)' : Left(lanes, x)')
  <2>1. CASE path = "device"
    <3>1. Usable(Items(box)) /\ Items(box) > 0
      BY <1>2, <2>1, PathsAre DEF Usable
    <3>2. /\ UnitsFit(lanes, box, path)'
          /\ (Len(box) = 1 => Distinct(lanes) /\ \A x \in Indices(box) : Left(lanes, x))'
      BY <1>1, <1>3, <2>1, <3>1, DeviceUnits DEF IsBox
    <3>3. ~Spread' => (Len(box) = 1)'
      <4>1. Len(box) \in {1, 2, 3}
        BY <1>3, BoxIs
      <4>2. box' = box /\ path' = "device"
        BY <1>1, <2>1
      <4> QED BY <4>1, <4>2 DEF Spread
    <3> QED BY <3>2, <3>3
  <2>2. CASE path # "device"
    <3>1. (UnitsFit(lanes, box, path) /\ Distinct(lanes) /\ \A x \in Indices(box) : Left(lanes, x))'
      BY <1>1, <1>3, <2>2, LoopUnits
    <3> QED BY <3>1
  <2> QED BY <2>1, <2>2
<1>5. Accounted'
  BY <1>1, <1>2, <1>4 DEF Accounted
<1>6. path' = PathOf(setup, box)'
  BY <1>1, <1>2 DEF PathOf, TakesDevice
<1> QED BY <1>1, <1>2, <1>4, <1>5, <1>6 DEF KInv

\* With a unit left the call has been launched.
LEMMA AtWork ==
  ASSUME SensibleBoxes, KInv, lanes # {}
  PROVE  /\ box \in Boxes /\ IsBox(box) /\ path = PathOf(setup, box) /\ ran \in [Indices(box) -> Nat]
         /\ UnitsFit(lanes, box, path) /\ Accounted /\ stage # "prepared"
<1>1. box \in Boxes /\ path = PathOf(setup, box) /\ ran \in [Indices(box) -> Nat] /\ UnitsFit(lanes, box, path)
      /\ Accounted /\ stage # "prepared"
  BY DEF KInv, Untouched
<1> QED BY <1>1, BoxesAre

\* What a unit leaves to do.
LEMMA RestIs ==
  ASSUME NEW l \in Seq(Units), l # <<>>
  PROVE  /\ 1 \in DOMAIN l /\ Head(l) = l[1] /\ Tail(l) \in Seq(Units)
         /\ \A j \in DOMAIN Tail(l) : j + 1 \in DOMAIN l /\ j + 1 # 1 /\ Tail(l)[j] = l[j + 1]
         /\ \A j \in DOMAIN l : j # 1 => j - 1 \in DOMAIN Tail(l) /\ Tail(l)[j - 1] = l[j] /\ Tail(l) # <<>>
<1>1. /\ Len(l) \in Nat \ {0} /\ DOMAIN l = 1 .. Len(l)
  BY EmptySeq
<1>2. /\ Tail(l) \in Seq(Units) /\ Len(Tail(l)) = Len(l) - 1
      /\ \A i \in 1 .. Len(Tail(l)) : Tail(l)[i] = l[i + 1]
  BY HeadTailProperties
<1> DEFINE t == Tail(l)
<1>3. DOMAIN t = 1 .. Len(l) - 1
  BY <1>1, <1>2
<1> HIDE DEF t
<1>4. ASSUME NEW j \in DOMAIN t PROVE j + 1 \in DOMAIN l /\ j + 1 # 1 /\ t[j] = l[j + 1]
  BY <1>1, <1>2, <1>3 DEF t
<1>5. ASSUME NEW j \in DOMAIN l, j # 1 PROVE j - 1 \in DOMAIN t /\ t[j - 1] = l[j] /\ t # <<>>
  <2>1. j - 1 \in DOMAIN t /\ j - 1 + 1 = j
    BY <1>1, <1>3, <1>5
  <2>2. t # <<>>
    BY <2>1
  <2> QED BY <1>4, <2>1, <2>2
<1> QED BY <1>1, <1>2, <1>4, <1>5 DEF t

LEMMA RunKeeps ==
  ASSUME SensibleBoxes, KInv, NEW l \in lanes, RunIndex(l)
  PROVE  KInv'
<1> DEFINE x0   == Head(l).index
           rest == Tail(l)
<1>1. /\ box \in Boxes /\ IsBox(box) /\ path = PathOf(setup, box) /\ ran \in [Indices(box) -> Nat]
      /\ UnitsFit(lanes, box, path) /\ Accounted /\ stage # "prepared"
  BY AtWork
<1>2. /\ setup' = setup /\ box' = box /\ stage' = stage /\ path' = path /\ returned' = returned
      /\ lanes' = (lanes \ {l}) \cup ({rest} \ {<<>>})
      /\ ran' = IF path = "fallback" \/ CheckDims(x0, box)
                  THEN [i \in DOMAIN ran \cup {x0} |->
                          (IF i \in DOMAIN ran THEN ran[i] ELSE 0) + (IF i = x0 THEN 1 ELSE 0)]
                ELSE ran
  BY DEF RunIndex
<1>3. /\ l \in Seq(Units) /\ l # <<>>
      /\ \A j \in DOMAIN l : Len(l[j].index) = Len(box) /\ (path # "device" => l[j].index \in Indices(box))
  BY <1>1 DEF UnitsFit
<1>4. /\ 1 \in DOMAIN l /\ x0 = l[1].index /\ rest \in Seq(Units)
      /\ \A j \in DOMAIN rest : j + 1 \in DOMAIN l /\ j + 1 # 1 /\ rest[j] = l[j + 1]
      /\ \A j \in DOMAIN l : j # 1 => j - 1 \in DOMAIN rest /\ rest[j - 1] = l[j] /\ rest # <<>>
  BY <1>3, RestIs
<1>5. x0 \in Seq(Nat) /\ Len(x0) = Len(box) /\ (path = "fallback" => x0 \in Indices(box))
  <2>1. l[1] \in Units
    BY <1>3, <1>4
  <2> QED BY <1>3, <1>4, <2>1 DEF Units
<1> HIDE DEF x0, rest
<1>6. /\ ran' \in [Indices(box) -> Nat]
      /\ \A x \in Indices(box) : ran'[x] = ran[x] + (IF x = x0 THEN 1 ELSE 0)
  <2>1. CheckDims(x0, box) <=> x0 \in Indices(box)
    BY <1>1, <1>5, ChecksBox
  <2>2. DOMAIN ran = Indices(box) /\ \A x \in Indices(box) : ran[x] \in Nat
    BY <1>1
  <2>3. CASE x0 \in Indices(box)
    <3>1. ran' = [i \in Indices(box) |-> ran[i] + (IF i = x0 THEN 1 ELSE 0)]
      <4>1. DOMAIN ran \cup {x0} = Indices(box)
        BY <2>2, <2>3
      <4> QED BY <1>2, <2>1, <2>2, <2>3, <4>1
    <3> QED BY <2>2, <3>1
  <2>4. CASE x0 \notin Indices(box)
    <3>1. ran' = ran
      BY <1>2, <1>5, <2>1, <2>4
    <3> QED BY <1>1, <2>2, <2>4, <3>1
  <2> QED BY <2>3, <2>4
<1>7. \A m \in lanes' : (m \in lanes /\ m # l) \/ (m = rest /\ rest # <<>>)
  BY <1>2
<1>8. UnitsFit(lanes, box, path)'
  <2>1. ASSUME NEW m \in lanes'
        PROVE  /\ m \in Seq(Units) /\ m # <<>>
               /\ \A j \in DOMAIN m : /\ Len(m[j].index) = Len(box)
                                      /\ path # "device" => m[j].index \in Indices(box)
    <3>1. CASE m \in lanes
      BY <1>1, <3>1 DEF UnitsFit
    <3>2. CASE m = rest /\ rest # <<>>
      BY <1>3, <1>4, <3>2
    <3> QED BY <1>7, <3>1, <3>2
  <2> QED BY <1>2, <2>1 DEF UnitsFit
<1>9. Accounted'
  <2> SUFFICES ASSUME ~Spread
               PROVE  Distinct(lanes)' /\ \A x \in Indices(box) : ran'[x] = IF Left(lanes, x)' THEN 0 ELSE 1
    BY <1>2 DEF Accounted, Spread
  <2>1. Distinct(lanes) /\ \A x \in Indices(box) : ran[x] = IF Left(lanes, x) THEN 0 ELSE 1
    BY <1>1 DEF Accounted
  <2>2. \A m, k \in lanes : \A i \in DOMAIN m, j \in DOMAIN k : m[i].index = k[j].index => m = k /\ i = j
    BY <2>1 DEF Distinct
  <2>3. Distinct(lanes)'
    <3> SUFFICES ASSUME NEW m \in lanes', NEW k \in lanes', NEW i \in DOMAIN m, NEW j \in DOMAIN k,
                        m[i].index = k[j].index
                 PROVE  m = k /\ i = j
      BY DEF Distinct
    <3>1. CASE m \in lanes /\ m # l /\ k \in lanes /\ k # l
      BY <2>2, <3>1
    <3>2. CASE m \in lanes /\ m # l /\ k = rest
      <4>1. j + 1 \in DOMAIN l /\ m[i].index = l[j + 1].index
        BY <1>4, <3>2
      <4> QED BY <2>2, <3>2, <4>1
    <3>3. CASE m = rest /\ k \in lanes /\ k # l
      <4>1. i + 1 \in DOMAIN l /\ k[j].index = l[i + 1].index
        BY <1>4, <3>3
      <4> QED BY <2>2, <3>3, <4>1
    <3>4. CASE m = rest /\ k = rest
      <4>1. i + 1 \in DOMAIN l /\ j + 1 \in DOMAIN l /\ l[i + 1].index = l[j + 1].index
        BY <1>4, <3>4
      <4>2. i + 1 = j + 1 /\ i \in Nat /\ j \in Nat
        BY <1>4, <2>2, <3>4, <4>1
      <4> QED BY <3>4, <4>2
    <3> QED BY <1>7, <3>1, <3>2, <3>3, <3>4
  <2>4. Left(lanes, x0) /\ ~Left(lanes, x0)'
    <3>1. Left(lanes, x0)
      BY <1>4 DEF Left
    <3>2. ASSUME NEW m \in lanes', NEW j \in DOMAIN m, m[j].index = x0 PROVE FALSE
      <4>1. CASE m \in lanes /\ m # l
        BY <1>4, <2>2, <3>2, <4>1
      <4>2. CASE m = rest
        BY <1>4, <2>2, <3>2, <4>2
      <4> QED BY <1>7, <4>1, <4>2
    <3> QED BY <3>1, <3>2 DEF Left
  <2>5. ASSUME NEW x, x # x0 PROVE Left(lanes, x) <=> Left(lanes, x)'
    <3>1. ASSUME Left(lanes, x) PROVE Left(lanes, x)'
      <4>1. PICK m \in lanes : \E j \in DOMAIN m : m[j].index = x
        BY <3>1 DEF Left
      <4>2. PICK j \in DOMAIN m : m[j].index = x
        BY <4>1
      <4>3. CASE m # l
        <5>1. m \in lanes'
          BY <1>2, <4>3
        <5> QED BY <4>2, <5>1 DEF Left
      <4>4. CASE m = l
        <5>1. j # 1
          BY <1>4, <2>5, <4>2, <4>4
        <5>2. j - 1 \in DOMAIN rest /\ rest[j - 1].index = x /\ rest \in lanes'
          BY <1>2, <1>4, <4>2, <4>4, <5>1
        <5> QED BY <5>2 DEF Left
      <4> QED BY <4>3, <4>4
    <3>2. ASSUME Left(lanes, x)' PROVE Left(lanes, x)
      <4>1. PICK m \in lanes' : \E j \in DOMAIN m : m[j].index = x
        BY <3>2 DEF Left
      <4>2. PICK j \in DOMAIN m : m[j].index = x
        BY <4>1
      <4>3. CASE m \in lanes
        BY <4>2, <4>3 DEF Left
      <4>4. CASE m = rest
        <5>1. j + 1 \in DOMAIN l /\ l[j + 1].index = x
          BY <1>4, <4>2, <4>4
        <5> QED BY <5>1 DEF Left
      <4> QED BY <1>7, <4>3, <4>4
    <3> QED BY <3>1, <3>2
  <2>6. ASSUME NEW x \in Indices(box) PROVE ran'[x] = IF Left(lanes, x)' THEN 0 ELSE 1
    <3>1. CASE x = x0
      BY <1>6, <2>1, <2>4, <3>1
    <3>2. CASE x # x0
      <4>1. ran[x] \in Nat
        BY <1>1
      <4> QED BY <1>6, <2>1, <2>5, <3>2, <4>1
    <3> QED BY <3>1, <3>2
  <2> QED BY <2>3, <2>6
<1>10. path' = PathOf(setup, box)'
  BY <1>1, <1>2 DEF PathOf, TakesDevice
<1>11. /\ setup \in [build : Builds, device : HasDevice, unified : BOOLEAN]
       /\ stage \in {"idle", "launched"} /\ returned \in BOOLEAN
       /\ stage = "launched" => returned = FALSE
       /\ ~(stage = "idle" /\ returned = FALSE)
  BY <1>1 DEF KInv, Untouched
<1> QED BY <1>1, <1>2, <1>6, <1>8, <1>9, <1>10, <1>11 DEF KInv

LEMMA FinalizeKeeps ==
  ASSUME KInv, Finalize
  PROVE  KInv'
<1>1. /\ stage = "launched" /\ stage' = "idle" /\ returned' = TRUE /\ setup' = setup /\ box' = box
      /\ path' = path /\ lanes' = lanes /\ ran' = ran
  BY DEF Finalize
<1>2. /\ setup \in [build : Builds, device : HasDevice, unified : BOOLEAN]
      /\ box \in Boxes /\ path = PathOf(setup, box) /\ ran \in [Indices(box) -> Nat]
      /\ UnitsFit(lanes, box, path) /\ Accounted
  BY <1>1 DEF KInv
<1>3. UnitsFit(lanes, box, path)' /\ Accounted' /\ path' = PathOf(setup, box)'
  BY <1>1, <1>2 DEF UnitsFit, Accounted, Spread, Distinct, Left, PathOf, TakesDevice
<1> QED BY <1>1, <1>2, <1>3 DEF KInv

LEMMA StutterKeeps ==
  ASSUME KInv, UNCHANGED kernelVars
  PROVE  KInv'
<1>1. /\ stage' = stage /\ returned' = returned /\ setup' = setup /\ box' = box
      /\ path' = path /\ lanes' = lanes /\ ran' = ran
  BY DEF kernelVars
<1>2. /\ UnitsFit(lanes, box, path) => UnitsFit(lanes, box, path)'
      /\ (Accounted => Accounted') /\ (Untouched => Untouched')
      /\ PathOf(setup, box)' = PathOf(setup, box)
  BY <1>1 DEF UnitsFit, Accounted, Untouched, Spread, Distinct, Left, PathOf, TakesDevice
<1> QED BY <1>1, <1>2 DEF KInv

-----------------------------------------------------------------------------
(* The theorem. *)

\* What the invariant says of a call that is over.
LEMMA InvariantSuffices ==
  ASSUME DeviceAssumption, TeamsAssumption, SensibleBoxes, KInv
  PROVE  KernelsVisitOnce
<1>1. CASE box = <<>>
  <2>1. lanes = {} /\ path = "none" /\ stage = "idle" /\ ran = <<>> /\ returned = FALSE
        /\ setup \in [build : Builds, device : HasDevice, unified : BOOLEAN]
    <3>1. box \notin Boxes
      BY <1>1, BoxesAre
    <3> QED BY <3>1 DEF KInv
  <2>2. DOMAIN ran = {}
    BY <2>1
  <2> QED BY <1>1, <2>1, <2>2 DEF KernelsVisitOnce, KernelTypeOK, EachIndexOnce, Covered, UsableIsValid
<1>2. CASE box # <<>>
  <2>1. /\ setup \in [build : Builds, device : HasDevice, unified : BOOLEAN]
        /\ stage \in {"idle", "prepared", "launched"} /\ returned \in BOOLEAN
        /\ box \in Boxes /\ path = PathOf(setup, box) /\ ran \in [Indices(box) -> Nat]
        /\ UnitsFit(lanes, box, path)
        /\ IF stage = "prepared" \/ (stage = "idle" /\ returned = FALSE) THEN Untouched ELSE Accounted
    BY <1>2 DEF KInv
  <2>2. KernelTypeOK
    <3>1. path \in {"device", "fallback", "host", "none"}
      BY <2>1, PathsAre
    <3>2. DOMAIN ran = Indices(box) /\ \A x \in DOMAIN ran : ran[x] \in Nat
      BY <2>1
    <3>3. \A l \in lanes : l # <<>>
      BY <2>1 DEF UnitsFit
    <3> QED BY <2>1, <3>1, <3>2, <3>3 DEF KernelTypeOK
  <2>3. EachIndexOnce
    <3> SUFFICES ASSUME ~Spread, stage = "idle", lanes = {}
                 PROVE  ran = [x \in Indices(box) |-> IF returned THEN 1 ELSE 0]
      BY DEF EachIndexOnce, Covered, Spread
    <3>1. \A x \in Indices(box) : ran[x] = IF returned THEN 1 ELSE 0
      <4>1. CASE returned = FALSE
        BY <2>1, <4>1 DEF Untouched
      <4>2. CASE returned = TRUE
        BY <2>1, <4>2 DEF Accounted, Left
      <4> QED BY <2>1, <4>1, <4>2
    <3> QED BY <2>1, <3>1
  <2>4. UsableIsValid
    <3> SUFFICES ASSUME Usable(Items(box)) PROVE ValidLaunch(Items(box))
      BY DEF UsableIsValid
    <3>1. Items(box) \in Nat \ {0} /\ Fitting(Items(box)) /\ Blocks(Items(box)) # <<0, 0, 0>>
      BY <2>1, BoxesAre DEF Usable
    <3> QED BY <3>1, GridFits
  <2> QED BY <2>2, <2>3, <2>4 DEF KernelsVisitOnce
<1> QED BY <1>1, <1>2

\* However many items, threads and blocks: a call that returned true runs the
\* kernel's body once for each index of its box, whether units run on the device in
\* any order, in the chunks of OpenMP or in one loop, and a call that returned false
\* runs none; check_GPU_usable proposes only grids the device takes.
THEOREM DispatchVisitsOnce ==
  ASSUME DeviceAssumption, TeamsAssumption, SensibleBoxes
  PROVE  SpecKernel => []KernelsVisitOnce
<1>1. InitKernel => KInv
  BY DEF InitKernel, KInv
<1>2. KInv /\ [NextKernel]_kernelVars => KInv'
  <2> SUFFICES ASSUME KInv, [NextKernel]_kernelVars PROVE KInv'
    OBVIOUS
  <2>1. CASE \E b \in Boxes : CallKernel(b)
    BY <2>1, CallKeeps
  <2>2. CASE LaunchKernel
    BY <2>2, LaunchKeeps
  <2>3. CASE \E l \in lanes : RunIndex(l)
    BY <2>3, RunKeeps
  <2>4. CASE Finalize
    BY <2>4, FinalizeKeeps
  <2>5. CASE UNCHANGED kernelVars
    BY <2>5, StutterKeeps
  <2> QED BY <2>1, <2>2, <2>3, <2>4, <2>5 DEF NextKernel
<1>3. KInv => KernelsVisitOnce
  BY InvariantSuffices
<1> QED BY <1>1, <1>2, <1>3, PTL DEF SpecKernel
=============================================================================
