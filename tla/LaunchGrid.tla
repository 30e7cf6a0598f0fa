------------------------------ MODULE LaunchGrid ------------------------------
(***************************************************************************)
(* The launch grid of a kernel: how many threads and blocks                *)
(* check_GPU_usable asks for, and which logical index each launched thread *)
(* computes for itself (kernel_call_dims).                                 *)
(*                                                                         *)
(* Widths matter: n is an unsigned long long, thread and block numbers are *)
(* unsigned int, and the products of the device's limits are computed in   *)
(* int.  IntWord stands for 2^32 and IntWord^2 for 2^64.                   *)
(***************************************************************************)
EXTENDS Integers, FiniteSets, FiniteSetsExt

CONSTANTS WarpSize,    \* cudaDevAttrWarpSize
          MaxThreads,  \* cudaDevAttrMaxThreadsPerBlock
          MaxBlocks,   \* <<x, y, z>>, cudaDevAttrMaxGridDimX, ...Y, ...Z
          IntWord      \* 2^32, or a smaller even number in its place

AsInt(v)      == ((v + IntWord \div 2) % IntWord) - IntWord \div 2
AsUnsigned(v) == v % IntWord
AsLong(v)     == v % (IntWord * IntWord)

DeviceAssumption ==
  /\ IntWord \in Nat /\ IntWord > 1 /\ IntWord % 2 = 0
  /\ \A limit \in {WarpSize, MaxThreads, MaxBlocks[1], MaxBlocks[2], MaxBlocks[3]} :
       limit \in Nat \ {0} /\ AsInt(limit) = limit

CeilDiv(a, b) == (a - 1 + b) \div b
Lesser(a, b)  == Min({a, b})

BlockThreads(n) == AsUnsigned(Lesser(MaxThreads, AsInt(CeilDiv(n, WarpSize) * WarpSize)))

Plane == AsLong(AsInt(MaxBlocks[1] * MaxBlocks[2]))
Space == AsLong(AsInt(AsInt(MaxBlocks[1] * MaxBlocks[2]) * MaxBlocks[3]))

\* nblocks_needed
BlocksNeeded(n) == CeilDiv(n, BlockThreads(n))

\* The proposed grid; <<0, 0, 0>> when there is none.
Blocks(n) ==
  LET needed == BlocksNeeded(n) IN
  CASE needed <= MaxBlocks[1] -> <<needed, 1, 1>>
    [] needed > MaxBlocks[1] /\ needed <= Plane ->
         <<MaxBlocks[1], Lesser(CeilDiv(needed, MaxBlocks[1]), MaxBlocks[2]), 0>>
    [] needed > MaxBlocks[1] /\ needed > Plane /\ needed <= Space ->
         <<MaxBlocks[1], MaxBlocks[2], Lesser(CeilDiv(needed, Plane), MaxBlocks[3])>>
    [] OTHER -> <<0, 0, 0>>

Usable(n) ==
  /\ n > 0
  /\ Blocks(n) # <<0, 0, 0>>
  /\ \/ \E d \in 1 .. 3 : Blocks(n)[d] > 1
     \/ BlockThreads(n) > 1

\* What the device accepts (external).
ValidLaunch(n) ==
  /\ BlockThreads(n) \in 1 .. MaxThreads
  /\ \A d \in 1 .. 3 : Blocks(n)[d] \in 1 .. MaxBlocks[d]

\* The threads of the grid, <<block x, block y, block z, thread x>>.  A launch
\* the device rejects runs none: it leaves a warning in debug builds only.
Launched(n) ==
  IF ValidLaunch(n)
    THEN (0 .. Blocks(n)[1] - 1) \X (0 .. Blocks(n)[2] - 1)
           \X (0 .. Blocks(n)[3] - 1) \X (0 .. BlockThreads(n) - 1)
  ELSE {}

AlongX(p, n) == AsUnsigned(p[1] * BlockThreads(n) + p[4])

\* Mutant: a second layer of blocks counts from the beginning.
IndexOfPlane(rank, p, n) ==
  CASE rank = 1 -> <<AlongX(p, n) + p[2] * BlockThreads(n) * Blocks(n)[1]>>
    [] rank = 2 -> <<AlongX(p, n), p[2] + p[3] * Blocks(n)[2]>>
    [] rank = 3 -> <<AlongX(p, n), p[2], p[3]>>

\* The logical index thread p of a launch for n items computes.
IndexOf(rank, p, n) ==
  CASE rank = 1 -> <<AlongX(p, n) + p[2] * BlockThreads(n) * Blocks(n)[1]
                       + p[3] * BlockThreads(n) * Blocks(n)[1] * Blocks(n)[2]>>
    [] rank = 2 -> <<AlongX(p, n), p[2] + p[3] * Blocks(n)[2]>>
    [] rank = 3 -> <<AlongX(p, n), p[2], p[3]>>

=============================================================================
