------------------------------ MODULE KernelRun ------------------------------
(***************************************************************************)
(* run_kernel: the dispatch of a kernel over a box of indices, to the      *)
(* device when check_GPU_usable finds a grid for it, to a loop over the    *)
(* box otherwise, which OpenMP splits when the box is large enough.        *)
(*                                                                         *)
(* Work is kept as lanes: sequences of units that are run one after the    *)
(* other, with all interleavings of different lanes.  Each thread on the   *)
(* device is a lane of its own.  A launch returns at once: parallel_1D     *)
(* calls finalize and returns while the device is still at work.           *)
(***************************************************************************)
EXTENDS LaunchGrid, Sequences

CONSTANTS Boxes,          \* extents <<nx>>, <<nx, ny>>, <<nx, ny, nz>> of the calls
          Builds,         \* subset of {"cuda", "host"}
          HasDevice,      \* the values cudaGetDevice may report: subset of BOOLEAN
          LoopThreshold,  \* NUM_CPU_THREADS_THRESHOLD
          Teams           \* threads OpenMP uses

TeamsAssumption ==
  Teams \in Nat \ {0} /\ LoopThreshold \in Nat /\ Builds \subseteq {"cuda", "host"}

VARIABLES setup,    \* the build, the device and whether the kernel has kernel_unit_unified
          box,      \* extents of the call, <<>> before the first one
          stage,    \* "idle", "prepared" or "launched"
          path,     \* "device", "fallback", "host" or "none"
          lanes,    \* units still to run
          ran,      \* how often the kernel's body ran for an index
          returned  \* what the call returned

kernelVars == <<setup, box, stage, path, lanes, ran, returned>>

Items(b) ==
  CASE Len(b) = 1 -> b[1]
    [] Len(b) = 2 -> b[1] * b[2]
    [] Len(b) = 3 -> b[1] * b[2] * b[3]
Indices(b) ==
  CASE Len(b) = 1 -> {<<i>> : i \in 0 .. b[1] - 1}
    [] Len(b) = 2 -> {<<i, j>> : i \in 0 .. b[1] - 1, j \in 0 .. b[2] - 1}
    [] Len(b) = 3 -> {<<i, j, k>> : i \in 0 .. b[1] - 1, j \in 0 .. b[2] - 1, k \in 0 .. b[3] - 1}

\* Boxes of up to 2^31 items, short of a warp, that need no more blocks than lie
\* along x, or more than a plane holds on a device whose limits an int can hold.
\* The grids between those are the ones whose z is 0.
SensibleBoxes ==
  \A b \in Boxes :
    /\ b \in Seq(Nat) /\ Len(b) \in 1 .. 3
    /\ Items(b) > 0 =>
         /\ Items(b) + WarpSize <= IntWord \div 2
         /\ \/ BlocksNeeded(Items(b)) <= MaxBlocks[1]
            \/ /\ MaxBlocks[1] * MaxBlocks[2] * MaxBlocks[3] < IntWord \div 2
               /\ BlocksNeeded(Items(b)) > MaxBlocks[1] * MaxBlocks[2]

\* kernel_check_dims
CheckDims(index, b) == \A d \in DOMAIN b : index[d] < b[d]

\* The loops over the box, the first extent outermost.
Loop(b) ==
  [p \in 1 .. Items(b) |->
     LET q == p - 1 IN
     CASE Len(b) = 1 -> <<q>>
       [] Len(b) = 2 -> <<q \div b[2], q % b[2]>>
       [] Len(b) = 3 -> <<q \div (b[2] * b[3]), (q \div b[3]) % b[2], q % b[3]>>]

\* schedule(static): contiguous chunks of nearly equal size.
ChunkSize(s) == CeilDiv(Len(s), Teams)
Chunk(s, t)  == SubSeq(s, t * ChunkSize(s) + 1, Lesser((t + 1) * ChunkSize(s), Len(s)))
Chunks(s)    == {Chunk(s, t) : t \in 0 .. Teams - 1} \ {<<>>}

LoopLanes(b) == IF Items(b) >= LoopThreshold THEN Chunks(Loop(b)) ELSE {Loop(b)} \ {<<>>}

\* Units of the host belong to no thread of the device.
HostLanes(b) == {[i \in DOMAIN s |-> [thread |-> <<>>, index |-> s[i]]] : s \in LoopLanes(b)}

\* A device lane carries the thread it is, so that two threads that compute
\* the same index stay two.
DeviceLanes(b) == {<<[thread |-> p, index |-> IndexOf(Len(b), p, Items(b))]>> : p \in Launched(Items(b))}

TakesDevice(s, b) == s.build = "cuda" /\ s.device /\ Usable(Items(b))

PathOf(s, b) ==
  CASE s.build = "host"                                     -> "host"
    [] s.build = "cuda" /\ TakesDevice(s, b)                -> "device"
    [] s.build = "cuda" /\ ~TakesDevice(s, b) /\ s.unified  -> "fallback"
    [] s.build = "cuda" /\ ~TakesDevice(s, b) /\ ~s.unified -> "none"

-----------------------------------------------------------------------------
InitKernel ==
  /\ setup \in [build : Builds, device : HasDevice, unified : BOOLEAN]
  /\ box = <<>> /\ stage = "idle" /\ path = "none" /\ lanes = {}
  /\ ran = <<>> /\ returned = FALSE

\* A call takes its path; prepare() is called on all of them but "none".  The
\* stream runs a launch after the one before.
CallKernel(b) ==
  /\ stage = "idle" /\ lanes = {}
  /\ box' = b
  /\ path' = PathOf(setup, b)
  /\ ran' = [index \in Indices(b) |-> 0]
  /\ returned' = FALSE
  /\ stage' = IF PathOf(setup, b) = "none" THEN "idle" ELSE "prepared"
  /\ UNCHANGED <<setup, lanes>>

LaunchKernel ==
  /\ stage = "prepared"
  /\ lanes' = IF path = "device" THEN DeviceLanes(box) ELSE HostLanes(box)
  /\ stage' = "launched"
  /\ UNCHANGED <<setup, box, path, ran, returned>>

\* The guarded kernel() on the device and in a build without CUDA,
\* kernel_unit_unified() in the fallback.
RunIndex(l) ==
  LET index == Head(l).index
      runs  == path = "fallback" \/ CheckDims(index, box)
  IN  /\ l \in lanes
      /\ lanes' = (lanes \ {l}) \cup ({Tail(l)} \ {<<>>})
      /\ ran' = IF runs THEN [i \in DOMAIN ran \cup {index} |->
                                (IF i \in DOMAIN ran THEN ran[i] ELSE 0) + (IF i = index THEN 1 ELSE 0)]
                ELSE ran
      /\ UNCHANGED <<setup, box, stage, path, returned>>

Finalize ==
  /\ stage = "launched"
  /\ path = "device" \/ lanes = {}
  /\ stage' = "idle"
  /\ returned' = TRUE
  /\ UNCHANGED <<setup, box, path, lanes, ran>>

NextKernel ==
  \/ \E b \in Boxes : CallKernel(b)
  \/ LaunchKernel
  \/ \E l \in lanes : RunIndex(l)
  \/ Finalize

SpecKernel == InitKernel /\ [][NextKernel]_kernelVars

\* The host and the device go on.
FairDispatch ==
  /\ SpecKernel
  /\ WF_kernelVars(LaunchKernel) /\ WF_kernelVars(Finalize) /\ WF_kernelVars(\E l \in lanes : RunIndex(l))
-----------------------------------------------------------------------------
KernelTypeOK ==
  /\ setup \in [build : Builds, device : HasDevice, unified : BOOLEAN]
  /\ box \in Boxes \cup {<<>>}
  /\ stage \in {"idle", "prepared", "launched"}
  /\ path \in {"device", "fallback", "host", "none"}
  /\ \A l \in lanes : l # <<>>
  /\ box # <<>> => DOMAIN ran = Indices(box)
  /\ \A index \in DOMAIN ran : ran[index] \in Nat
  /\ returned \in BOOLEAN

Covered ==
  stage = "idle" /\ lanes = {} /\ box # <<>> =>
    ran = [index \in Indices(box) |-> IF returned THEN 1 ELSE 0]

\* A call that returned true has run the kernel's body exactly once for each
\* index of its box and for no other, one that returned false for none.  The
\* grids with two or three extents are left out here, see BoxesCovered.
EachIndexOnce == ~(path = "device" /\ Len(box) > 1) => Covered

\* The same for every box (parallel_2D and parallel_3D on the device).
BoxesCovered == Covered

\* A grid check_GPU_usable proposes is one the device takes ("True when a valid
\* launch configuration is found").
UsableIsValid == box # <<>> /\ Usable(Items(box)) => ValidLaunch(Items(box))

\* A call that returned true ran the kernel once for each index of its box,
\* and check_GPU_usable proposes grids the device takes.
KernelsVisitOnce == KernelTypeOK /\ EachIndexOnce /\ UsableIsValid

\* Every call ends with its units run.
CallsComplete == [](stage = "prepared" => <>(stage = "idle" /\ lanes = {}))

=============================================================================
