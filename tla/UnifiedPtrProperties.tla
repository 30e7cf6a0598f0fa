------------------------ MODULE UnifiedPtrProperties ------------------------
(***************************************************************************)
(* What UnifiedPtr guarantees, and the ownership it implements.            *)
(***************************************************************************)
EXTENDS UnifiedPtr

(***************************************************************************)
(* A handle that holds a block owns it, except between taking the members  *)
(* and the increment taking effect, and between the decrement taking       *)
(* effect and the members being cleared or replaced.  Only the thread that *)
(* may modify the handle can be at such a point.                           *)
(***************************************************************************)
Uncounted(h) ==
  LET t == OwnerOf[h]
  IN  /\ task[t].dst = h
      /\ \/ task[t].dir = 1 /\ pc[t] \in {"count", "read", "write"}
         \/ task[t].dir = -1 /\ pc[t] \in {"unlock", "clean", "finish"}

Owners(b) == {h \in Handles : handle[h].cb = b /\ ~Uncounted(h)}

\* A value for the counter of b is under way.
Flying(b) == \E s \in Streams : flying[s][b] # None

\* The counter of an existing block, or the value on its way to it, is the
\* number of its owners at every moment: no increment or decrement of
\* inc_dec_counter() is lost or doubled, whatever threads interleave.
CountMatchesOwners ==
  \A b \in Blocks : mem[b] = "live" =>
    IF Flying(b)
    THEN \A s \in Streams : flying[s][b] \in {None, Cardinality(Owners(b))}
    ELSE count[b] = Cardinality(Owners(b))

\* Every block an owner holds, or whose counter a thread is about to touch,
\* exists: release() never frees storage under somebody else's feet, and
\* never frees it twice.
NoUseAfterFree ==
  /\ \A h \in Handles : handle[h].cb # None /\ ~Uncounted(h) => mem[handle[h].cb] = "live"
  /\ \A t \in Threads :
       pc[t] \in {"count", "read", "write", "unlock", "clean"} =>
         mem[Counted(t)] = "live"

\* Thread t has brought the counter of its block to zero and is on its way to
\* free the block.
Dying(t) ==
  /\ task[t].dir = -1
  /\ pc[t] = "clean" \/ (pc[t] = "unlock" /\ task[t].seen = 1)

\* Storage never becomes unreachable: a block without an owner has exactly one
\* thread about to free it, one that saw the count drop from 1, and storage
\* allocated ahead of a release has the thread that will adopt it.
NoOrphan ==
  \A b \in Blocks :
    /\ mem[b] = "live" /\ Owners(b) = {} =>
         \E t \in Threads :
           /\ Dying(t) /\ Counted(t) = b
           /\ \A u \in Threads \ {t} : Dying(u) => Counted(u) # b
    /\ mem[b] = "new" =>
         \E t \in Threads : task[t].op \in {"reset", "transfer"} /\ task[t].fresh = b

\* While nobody operates on it, a unique pointer that may write to its block
\* is the block's only owner, also after copies, which the code lets through
\* for unique pointers and turns into moves.
UniqueIsSole ==
  \A h \in Unique :
    /\ handle[h].cb # None
    /\ Writable(OwnerOf[h], h)
    /\ pc[OwnerOf[h]] = "idle"
    => Owners(handle[h].cb) = {h}

\* The test utest_unified_ptr_threads looks at use_count() when its threads
\* have ended: then it is the number of pointers left.
FinalCount ==
  /\ \A t \in Threads : pc[t] = "idle"
  /\ \A b \in Blocks : ~Flying(b)
  => \A b \in Blocks : mem[b] = "live" =>
       count[b] = Cardinality({h \in Handles : handle[h].cb = b})

\* A transfer goes through only for a pointer whose progenitor context is
\* executing, as the comment on release() in transfer_impl() has it.
TransferByProgenitor ==
  [][\A t \in Threads : FinishTransfer(t) => Writable(t, task[t].dst)]_vars

\* Every operation a thread starts comes to an end, the ones that spin for a
\* lock of the pool included, unless an assert stops the program.
OperationsComplete ==
  \A t \in Threads : pc[t] # "idle" ~> (pc[t] = "idle" \/ aborted)

\* When the threads have left their scopes no storage is left behind: from
\* some moment on everything is free, each block given back by its last owner.
NoLeak == <>[](aborted \/ \A b \in Blocks : mem[b] = "free")

\* Both: the locks taken are given back, and so is the storage.
WorkEnds == OperationsComplete /\ NoLeak

-----------------------------------------------------------------------------
\* IvyUnifiedPtr implements SharedOwnership: the owners are the counted
\* handles, a block is live from its initialisation until it is freed.
Ownership ==
  INSTANCE SharedOwnership WITH
    owners <- [b \in Blocks |-> Owners(b)],
    live <- {b \in Blocks : mem[b] = "live"}

\* The promise of SharedOwnership, for every interleaving of the code's steps.
ImplementsOwnership == Ownership!Spec

-----------------------------------------------------------------------------
(***************************************************************************)
(* The inductive invariant: what holds of the running operations so that   *)
(* CountMatchesOwners, NoUseAfterFree and NoOrphan survive every step.  It *)
(* is an invariant when the counter updates of a block go through a single *)
(* stream.                                                                 *)
(***************************************************************************)
OneStream == Streams = {DefaultStream}

Busy(t) == pc[t] # "idle"
InSection(t) == pc[t] \in {"read", "write", "unlock"}

\* The registers of a thread fit the operation it is in.
TaskFits(t) ==
  /\ task[t].op # "none"
  /\ task[t].dst \in Handles /\ OwnerOf[task[t].dst] = t
  /\ task[t].src \in Handles
  /\ task[t].op \in {"copy", "assign"} => task[t].src # task[t].dst
  /\ task[t].op \in {"drop", "reset", "transfer"} => task[t].src = task[t].dst
  /\ task[t].dir = 1 => task[t].op \in {"copy", "assign"} /\ pc[t] \notin {"clean", "finish"}
  /\ task[t].op = "copy" => task[t].dir = 1
  /\ ChangesSource(t) => OwnerOf[task[t].src] = t
  /\ pc[t] # "finish" => handle[task[t].dst].cb # None

TaskInv == \A t \in Threads : IF Busy(t) THEN TaskFits(t) ELSE task[t].op = "none"

\* Device code holds, copies and allocates nothing it cannot address.
DeviceFits(t) ==
  /\ \A h \in Handles :
       /\ OwnerOf[h] = t /\ handle[h].cb # None
       /\ ~(task[t].dst = h /\ pc[t] = "finish")
       => Addressable(t, handle[h].cb)
  /\ task[t].op \in {"copy", "assign"} /\ handle[task[t].src].cb # None =>
       Addressable(t, handle[task[t].src].cb)
  /\ task[t].op = "reset" => task[t].to = "gpu"
  /\ task[t].op # "transfer"

DeviceInv == \A t \in Device : DeviceFits(t)

\* Storage allocated ahead of a release belongs to one operation.
FreshInv ==
  \A t \in Threads : task[t].op \in {"reset", "transfer"} =>
    /\ task[t].fresh \in Blocks /\ mem[task[t].fresh] = "new"
    /\ \A u \in Threads \ {t} :
         task[u].op \in {"reset", "transfer"} => task[u].fresh # task[t].fresh

\* No thread modifies a handle another thread reads.
ExclusionInv ==
  \A t, u \in Threads : t # u /\ Busy(t) /\ Busy(u) =>
    /\ task[u].dst # task[t].src
    /\ ChangesSource(u) => task[u].src # task[t].src

\* A pointer that is not counted yet shares the block of the pointer it was
\* copied from.
AcquireInv ==
  \A t \in Threads : Busy(t) /\ task[t].dir = 1 =>
    handle[task[t].src].cb = handle[task[t].dst].cb

\* The critical section of the spinlock, and what it protects.
SectionInv ==
  /\ \A t \in Threads : InSection(t) =>
       /\ t \notin Device
       /\ exec[Counted(t)] = "gpu"
       /\ LockOf[Counted(t)] \in locked
       /\ \A u \in Threads \ {t} : InSection(u) => LockOf[Counted(u)] # LockOf[Counted(t)]
  /\ \A t \in Threads : pc[t] = "write" =>
       ~Flying(Counted(t)) /\ task[t].seen = count[Counted(t)]
  /\ \A t \in Threads : pc[t] = "unlock" =>
       Cardinality(Owners(Counted(t))) = task[t].seen + task[t].dir

\* Whoever frees a block is alone with it.
DyingInv ==
  \A t \in Threads : Dying(t) =>
    /\ Owners(Counted(t)) = {}
    /\ \A u \in Threads \ {t} : Dying(u) => Counted(u) # Counted(t)

\* Only counters in device memory are written through a stream.
FlyingInv ==
  \A b \in Blocks : Flying(b) => mem[b] = "live" /\ exec[b] = "gpu"

\* What concerns the tasks and the handles only, and what concerns the heap.
ControlInv == TypeOK /\ TaskInv /\ ExclusionInv /\ AcquireInv

HeapInv ==
  /\ DeviceInv /\ FreshInv /\ SectionInv /\ DyingInv /\ FlyingInv
  /\ CountMatchesOwners /\ NoUseAfterFree /\ NoOrphan

IInv == ControlInv /\ HeapInv
=============================================================================
