----------------------------- MODULE UnifiedPtr -----------------------------
(***************************************************************************)
(* Ownership in IvyUnifiedPtr: the shared and unique pointers of std_ivy   *)
(* and the reference count of their control block, driven by several host  *)
(* threads and by device code.                                             *)
(*                                                                         *)
(* One block stands for the element storage and the control block that     *)
(* are created and freed together.  A counter update is one atomic step    *)
(* when the control block is addressable from the executing context; if    *)
(* not, it is the code's sequence lock / read field / write field / unlock *)
(* where the write travels through the handle's stream and lands in device *)
(* memory later (LandWrite).  What the operations do to the elements, the  *)
(* size and the capacity is not part of this module.                       *)
(***************************************************************************)
EXTENDS Integers, FiniteSets

CONSTANTS
  Threads,        \* host threads and device code
  Device,         \* those of Threads that run device code
  Handles,        \* the IvyUnifiedPtr objects
  Unique,         \* those of Handles that have the unique ownership policy
  OwnerOf,        \* OwnerOf[h]: the thread that may modify handle h
  Blocks,         \* heap bound: the blocks that can exist at a time
  Streams,        \* GPU streams
  DefaultStream,  \* the stream of a handle whose stream_ is null
  Locks, LockOf,  \* the spinlock pool; LockOf[b]: the lock b's address hashes to
  MaxOps,         \* bound: operations a thread starts before it only cleans up
  None            \* the null pointer, and "no write under way"

ASSUME ConstantsAssumption ==
  /\ IsFiniteSet(Handles)
  /\ Device \subseteq Threads
  /\ Unique \subseteq Handles
  /\ OwnerOf \in [Handles -> Threads]
  /\ LockOf \in [Blocks -> Locks]
  /\ DefaultStream \in Streams
  /\ None \notin Blocks /\ None \notin Handles /\ None \notin Int
  /\ MaxOps \in Nat

VARIABLES
  handle,   \* handle[h]: control block, stream and progenitor of h
  mem,      \* mem[b]: "free", "new" (allocated, not initialised) or "live"
  exec,     \* exec[b]: the memory type that holds b's control block
  count,    \* count[b]: ref_count as it is in memory
  flying,   \* flying[s][b]: a ref_count on its way to b in stream s, or None
  locked,   \* the spinlocks that are set
  pc,       \* pc[t]: where thread t is
  task,     \* task[t]: what thread t is executing
  ops,      \* ops[t]: operations t has started
  aborted   \* an assert of the write-access rules has fired

vars == <<handle, mem, exec, count, flying, locked, pc, task, ops, aborted>>

-----------------------------------------------------------------------------
(* Types *)

Contexts == {"host", "gpu"}

\* exec_mem_type_ by who can address it: PageLocked counts as "host",
\* UnifiedPrefetched as "unified".
ExecTypes == {"host", "gpu", "unified"}

HandleType ==
  [cb : Blocks \cup {None}, stream : Streams, prog : Contexts]

\* op: the operation; dst, src: its handles; dir: whether the count of dst's
\* block goes up or down; seen: the count that was read; fresh: storage that
\* was allocated ahead of the release of the old one, in memory type to.
TaskType ==
  [op : {"none", "copy", "assign", "moveAssign", "drop", "reset", "transfer"},
   dst : Handles \cup {None}, src : Handles \cup {None}, dir : {1, -1},
   seen : Int, fresh : Blocks \cup {None}, to : ExecTypes]

PcValues == {"idle", "count", "read", "write", "unlock", "clean", "finish"}

TypeOK ==
  /\ handle \in [Handles -> HandleType]
  /\ mem \in [Blocks -> {"free", "new", "live"}]
  /\ exec \in [Blocks -> ExecTypes]
  /\ count \in [Blocks -> Int]
  /\ flying \in [Streams -> [Blocks -> Int \cup {None}]]
  /\ locked \in SUBSET Locks
  /\ pc \in [Threads -> PcValues]
  /\ task \in [Threads -> TaskType]
  /\ ops \in [Threads -> Nat]
  /\ aborted \in BOOLEAN

-----------------------------------------------------------------------------
(* Access rules *)

\* get_execution_default_memory() in the code thread t runs.
Ctx(t) == IF t \in Device THEN "gpu" ELSE "host"

\* check_write_access(): only the context that made the pointer may write.
Writable(t, h) == handle[h].prog = Ctx(t)

\* control_block_is_addressable() for thread t and a handle of block b.
Addressable(t, b) == exec[b] \in {Ctx(t), "unified"}

\* Does the running operation of u change its source?  Moves do; so do copies
\* of a unique pointer.
ChangesSource(u) ==
  \/ task[u].op = "moveAssign"
  \/ task[u].op \in {"copy", "assign"} /\ task[u].src \in Unique

\* The C++ rules for the objects themselves: a handle is modified by one
\* thread, and not while another thread reads it.
MayModify(t, h) ==
  /\ OwnerOf[h] = t
  /\ \A u \in Threads \ {t} : pc[u] # "idle" => task[u].src # h

MayRead(t, h) ==
  \A u \in Threads \ {t} :
    pc[u] # "idle" => task[u].dst # h /\ ~(ChangesSource(u) /\ task[u].src = h)

\* Thread t may copy handle s into handle d: the policies convert (a shared
\* pointer from a unique one, never the other way round), a unique source is
\* going to be modified, and device code is only given what it can address.
MayCopy(t, d, s) ==
  /\ d # s
  /\ MayModify(t, d) /\ MayRead(t, s)
  /\ d \in Unique => s \in Unique
  /\ s \in Unique => MayModify(t, s)
  /\ t \in Device /\ handle[s].cb # None => Addressable(t, handle[s].cb)

-----------------------------------------------------------------------------
(* Parts the operations are made of *)

Task(op, d, s, dir, b, to) ==
  [op |-> op, dst |-> d, src |-> s, dir |-> dir, seen |-> 0, fresh |-> b, to |-> to]

NoTask == Task("none", None, None, 1, None, "host")

\* Mutant of Empty: the null stream_ is not replaced by the default stream.
EmptyWithoutStream(c) == [cb |-> None, stream |-> None, prog |-> c]

\* The members dump() leaves behind in context c.
Empty(c) == [cb |-> None, stream |-> DefaultStream, prog |-> c]

Start(t) ==
  /\ pc[t] = "idle"
  /\ ops[t] < MaxOps
  /\ ops' = [ops EXCEPT ![t] = @ + 1]

\* release() of handle h comes first in the operation; it is skipped for an
\* empty handle.
BeginRelease(t, op, h, s, b, to) ==
  /\ pc' = [pc EXCEPT ![t] = IF handle[h].cb = None THEN "finish" ELSE "count"]
  /\ task' = [task EXCEPT ![t] = Task(op, h, s, -1, b, to)]

\* The new owner d of a block that is already counted has to be counted too.
BeginAcquire(t, op, d, s) ==
  /\ pc' = [pc EXCEPT ![t] = "count"]
  /\ task' = [task EXCEPT ![t] = Task(op, d, s, 1, None, "host")]

Idle(t) ==
  /\ pc' = [pc EXCEPT ![t] = "idle"]
  /\ task' = [task EXCEPT ![t] = NoTask]

Stay == UNCHANGED <<pc, task>>

\* init_members() / store_control_block(): a control block with ref_count 1,
\* stored in place if thread t can address it, else through stream s.
Initialise(t, b, e, s) ==
  /\ mem' = [mem EXCEPT ![b] = "live"]
  /\ exec' = [exec EXCEPT ![b] = e]
  /\ IF e \in {Ctx(t), "unified"}
     THEN count' = [count EXCEPT ![b] = 1] /\ UNCHANGED flying
     ELSE flying' = [flying EXCEPT ![s][b] = 1] /\ UNCHANGED count
  /\ UNCHANGED locked

SameHeap == UNCHANGED <<mem, exec, count, flying, locked>>

\* A write-access assert fires, or the program goes on.
Abort == ~aborted /\ aborted' = TRUE /\ UNCHANGED handle
NoAbort == ~aborted /\ UNCHANGED aborted

-----------------------------------------------------------------------------
(* The operations of a handle *)

\* Construction from fresh raw storage (make_shared, make_unique, build_*).
Make(t, h) ==
  /\ Start(t)
  /\ MayModify(t, h) /\ handle[h].cb = None
  /\ \E b \in Blocks, s \in Streams :
       /\ mem[b] = "free"
       /\ Initialise(t, b, Ctx(t), s)
       /\ handle' = [handle EXCEPT ![h] = [cb |-> b, stream |-> s, prog |-> Ctx(t)]]
  /\ Stay /\ NoAbort

\* Copy construction: take the members, then count the new owner.
CopyConstruct(t, d, s) ==
  /\ Start(t)
  /\ MayCopy(t, d, s) /\ handle[d].cb = None /\ handle[s].cb # None
  /\ handle' = [handle EXCEPT ![d] = handle[s]]
  /\ BeginAcquire(t, "copy", d, s)
  /\ SameHeap /\ NoAbort

\* Mutant of MoveConstruct: the source is not emptied.
MoveConstructKeeps(t, d, s) ==
  /\ Start(t)
  /\ d # s /\ MayModify(t, d) /\ MayModify(t, s)
  /\ d \in Unique => s \in Unique
  /\ handle[d].cb = None /\ handle[s].cb # None
  /\ IF Writable(t, s)
     THEN handle' = [handle EXCEPT ![d] = handle[s]] /\ NoAbort
     ELSE Abort
  /\ Stay /\ SameHeap

\* Move construction: take the members and empty the source; no counting.
MoveConstruct(t, d, s) ==
  /\ Start(t)
  /\ d # s /\ MayModify(t, d) /\ MayModify(t, s)
  /\ d \in Unique => s \in Unique
  /\ handle[d].cb = None /\ handle[s].cb # None
  /\ IF Writable(t, s)
     THEN handle' = [handle EXCEPT ![d] = handle[s], ![s] = Empty(Ctx(t))] /\ NoAbort
     ELSE Abort
  /\ Stay /\ SameHeap

\* Destruction, reset() and assignment of nullptr.
Drop(t, h) ==
  /\ pc[t] = "idle"
  /\ MayModify(t, h) /\ handle[h].cb # None
  /\ BeginRelease(t, "drop", h, h, None, "host")
  /\ UNCHANGED <<handle, ops>> /\ SameHeap /\ NoAbort

\* Copy assignment; nothing happens when both point to the same storage.
CopyAssign(t, d, s) ==
  /\ Start(t)
  /\ MayCopy(t, d, s) /\ handle[d].cb # handle[s].cb
  /\ BeginRelease(t, "assign", d, s, None, "host")
  /\ UNCHANGED handle /\ SameHeap /\ NoAbort

\* Move assignment, to itself included.
MoveAssign(t, d, s) ==
  /\ Start(t)
  /\ MayModify(t, d) /\ MayModify(t, s)
  /\ d \in Unique => s \in Unique
  /\ IF Writable(t, s)
     THEN /\ BeginRelease(t, "moveAssign", d, s, None, "host")
          /\ UNCHANGED handle /\ NoAbort
     ELSE Stay /\ Abort
  /\ SameHeap

Allocate(b) ==
  /\ mem[b] = "free"
  /\ mem' = [mem EXCEPT ![b] = "new"]
  /\ UNCHANGED <<exec, count, flying, locked>>

\* reset(ptr, ...) and copy(ptr, ...) with new storage.
Reset(t, h) ==
  /\ Start(t)
  /\ MayModify(t, h)
  /\ \E b \in Blocks : Allocate(b) /\ BeginRelease(t, "reset", h, h, b, Ctx(t))
  /\ UNCHANGED handle /\ NoAbort

\* reset(ptr, ..., stream) with the storage the handle already has.
Restream(t, h, s) ==
  /\ Start(t)
  /\ MayModify(t, h) /\ handle[h].cb # None /\ Writable(t, h)
  /\ handle' = [handle EXCEPT ![h].stream = s]
  /\ Stay /\ SameHeap /\ NoAbort

\* transfer(): a copy of the block in another memory type replaces this
\* handle's share of the old one; the control block moves only on request.
Transfer(t, h, to) ==
  /\ t \notin Device
  /\ Start(t)
  /\ MayModify(t, h) /\ handle[h].cb # None
  /\ to \in ExecTypes
  /\ \E b \in Blocks, e \in {to, exec[handle[h].cb]} :
       Allocate(b) /\ BeginRelease(t, "transfer", h, h, b, e)
  /\ UNCHANGED handle /\ NoAbort

\* transfer_memory_primitive_with_internal_memory::transfer(): the bytes of
\* handle s are copied to d, then transfer_internal_memory(release_old=false)
\* gives d storage of its own.
Clone(t, d, s, to) ==
  /\ Start(t)
  /\ d # s /\ MayModify(t, d) /\ MayRead(t, s)
  /\ d \in Unique <=> s \in Unique
  /\ handle[d].cb = None /\ handle[s].cb # None
  /\ t \in Device => to = "gpu" /\ Addressable(t, handle[s].cb)
  /\ \E b \in Blocks :
       /\ mem[b] = "free"
       /\ Initialise(t, b, to, handle[s].stream)
       /\ handle' = [handle EXCEPT ![d] =
                       [cb |-> b, stream |-> handle[s].stream, prog |-> Ctx(t)]]
  /\ Stay /\ NoAbort

Swap(t, g, h) ==
  /\ Start(t)
  /\ g # h /\ MayModify(t, g) /\ MayModify(t, h)
  /\ g \in Unique <=> h \in Unique
  /\ IF /\ handle[g].prog # handle[h].prog
        /\ handle[g].cb # None /\ handle[h].cb # None
     THEN Abort
     ELSE handle' = [handle EXCEPT ![g] = handle[h], ![h] = handle[g]] /\ NoAbort
  /\ Stay /\ SameHeap

-----------------------------------------------------------------------------
(* inc_dec_counter() and release() *)

\* The block whose counter thread t is changing.
Counted(t) == handle[task[t].dst].cb

StreamOf(t) == handle[task[t].dst].stream

AfterDecrement(t, last) ==
  /\ pc' = [pc EXCEPT ![t] = IF last THEN "clean" ELSE "finish"]
  /\ task' = task

AfterIncrement(t) ==
  IF task[t].src \in Unique /\ Writable(t, task[t].src)
  THEN BeginRelease(t, "drop", task[t].src, task[t].src, None, "host")
  ELSE Idle(t)

\* Mutants of AfterCount: the last owner is looked for one too early, or one
\* too late; a unique pointer that was copied keeps its share.
AfterCountEarly(t, prev) ==
  IF task[t].dir = -1 THEN AfterDecrement(t, prev <= 2) ELSE AfterIncrement(t)

AfterCountLate(t, prev) ==
  IF task[t].dir = -1 THEN AfterDecrement(t, prev = 0) ELSE AfterIncrement(t)

AfterCountKeepsSource(t, prev) ==
  IF task[t].dir = -1 THEN AfterDecrement(t, prev = 1) ELSE Idle(t)

\* Where a thread goes once the counter was changed and had the value prev.
AfterCount(t, prev) ==
  IF task[t].dir = -1 THEN AfterDecrement(t, prev = 1) ELSE AfterIncrement(t)

\* The hardware-atomic branch.  Device code is not run against a counter that
\* the host is staging at that moment.
CountAtomic(t) ==
  /\ pc[t] = "count" /\ Addressable(t, Counted(t))
  /\ t \in Device =>
       /\ \A s \in Streams : flying[s][Counted(t)] = None
       /\ \A u \in Threads \ {t} :
            pc[u] \in {"read", "write", "unlock"} => Counted(u) # Counted(t)
  /\ count' = [count EXCEPT ![Counted(t)] = @ + task[t].dir]
  /\ AfterCount(t, count[Counted(t)])
  /\ UNCHANGED <<handle, mem, exec, flying, locked, ops>> /\ NoAbort

\* Mutant of Lock: nobody looks at the flag.
LockAnyway(t) ==
  /\ pc[t] = "count" /\ ~Addressable(t, Counted(t))
  /\ locked' = locked \cup {LockOf[Counted(t)]}
  /\ pc' = [pc EXCEPT ![t] = "read"]
  /\ UNCHANGED <<handle, mem, exec, count, flying, task, ops>> /\ NoAbort

\* test_and_set() that finds the flag clear; a failed one is a stuttering step.
Lock(t) ==
  /\ pc[t] = "count" /\ ~Addressable(t, Counted(t))
  /\ LockOf[Counted(t)] \notin locked
  /\ locked' = locked \cup {LockOf[Counted(t)]}
  /\ pc' = [pc EXCEPT ![t] = "read"]
  /\ UNCHANGED <<handle, mem, exec, count, flying, task, ops>> /\ NoAbort

\* read_meta_field(): a transfer to the stack, behind what the same stream
\* still has to deliver.
ReadCount(t) ==
  /\ pc[t] = "read"
  /\ flying[StreamOf(t)][Counted(t)] = None
  /\ task' = [task EXCEPT ![t].seen = count[Counted(t)]]
  /\ pc' = [pc EXCEPT ![t] = "write"]
  /\ UNCHANGED <<handle, ops>> /\ SameHeap /\ NoAbort

\* write_meta_field(): returns when the value is handed to the stream.
WriteCount(t) ==
  /\ pc[t] = "write"
  /\ flying' = [flying EXCEPT ![StreamOf(t)][Counted(t)] = task[t].seen + task[t].dir]
  /\ pc' = [pc EXCEPT ![t] = "unlock"]
  /\ UNCHANGED <<handle, mem, exec, count, locked, task, ops>> /\ NoAbort

Unlock(t) ==
  /\ pc[t] = "unlock"
  /\ locked' = locked \ {LockOf[Counted(t)]}
  /\ AfterCount(t, task[t].seen)
  /\ UNCHANGED <<handle, mem, exec, count, flying, ops>> /\ NoAbort

\* Stream s delivers a value to device memory.
LandWrite(s, b) ==
  /\ flying[s][b] # None
  /\ count' = [count EXCEPT ![b] = flying[s][b]]
  /\ flying' = [flying EXCEPT ![s][b] = None]
  /\ UNCHANGED <<handle, mem, exec, locked, ops>> /\ Stay /\ NoAbort

\* The owner that saw the count drop from 1 frees storage and control block.
Clean(t) ==
  /\ pc[t] = "clean"
  /\ IF Writable(t, task[t].dst)
     THEN /\ flying[StreamOf(t)][Counted(t)] = None
          /\ mem' = [mem EXCEPT ![Counted(t)] = "free"]
          /\ pc' = [pc EXCEPT ![t] = "finish"]
          /\ UNCHANGED handle /\ NoAbort
     ELSE UNCHANGED <<mem, pc>> /\ Abort
  /\ UNCHANGED <<exec, count, flying, locked, task, ops>>

-----------------------------------------------------------------------------
(* What the operation does after its release() *)

Finishing(t, op) == pc[t] = "finish" /\ task[t].op = op /\ UNCHANGED ops /\ NoAbort

\* Mutant of FinishDrop: the operation is not over.
FinishDropStays(t) ==
  /\ Finishing(t, "drop")
  /\ handle' = [handle EXCEPT ![task[t].dst] = Empty(Ctx(t))]
  /\ Stay /\ SameHeap

FinishDrop(t) ==
  /\ Finishing(t, "drop")
  /\ handle' = [handle EXCEPT ![task[t].dst] = Empty(Ctx(t))]
  /\ Idle(t) /\ SameHeap

\* Mutant of FinishAssign: the new owner is not counted.
FinishAssignUncounted(t) ==
  /\ Finishing(t, "assign")
  /\ handle' = [handle EXCEPT ![task[t].dst] = handle[task[t].src]]
  /\ Idle(t) /\ SameHeap

FinishAssign(t) ==
  LET d == task[t].dst
      s == task[t].src
  IN  /\ Finishing(t, "assign")
      /\ handle' = [handle EXCEPT ![d] = handle[s]]
      /\ IF handle[s].cb = None THEN Idle(t) ELSE BeginAcquire(t, "assign", d, s)
      /\ SameHeap

FinishMoveAssign(t) ==
  /\ Finishing(t, "moveAssign")
  /\ handle' = [handle EXCEPT ![task[t].dst] = handle[task[t].src],
                              ![task[t].src] = Empty(Ctx(t))]
  /\ Idle(t) /\ SameHeap

FinishReset(t) ==
  /\ Finishing(t, "reset")
  /\ \E s \in Streams :
       /\ handle' = [handle EXCEPT ![task[t].dst] =
                       [cb |-> task[t].fresh, stream |-> s, prog |-> Ctx(t)]]
       /\ Initialise(t, task[t].fresh, task[t].to, s)
  /\ Idle(t)

FinishTransfer(t) ==
  LET d == task[t].dst
  IN  /\ Finishing(t, "transfer")
      /\ handle' = [handle EXCEPT ![d] =
                      [cb |-> task[t].fresh, stream |-> handle[d].stream,
                       prog |-> Ctx(t)]]
      /\ Initialise(t, task[t].fresh, task[t].to, StreamOf(t))
      /\ Idle(t)

-----------------------------------------------------------------------------
Init ==
  /\ handle = [h \in Handles |-> Empty(Ctx(OwnerOf[h]))]
  /\ mem = [b \in Blocks |-> "free"]
  /\ exec = [b \in Blocks |-> "host"]
  /\ count = [b \in Blocks |-> 0]
  /\ flying = [s \in Streams |-> [b \in Blocks |-> None]]
  /\ locked = {}
  /\ pc = [t \in Threads |-> "idle"]
  /\ task = [t \in Threads |-> NoTask]
  /\ ops = [t \in Threads |-> 0]
  /\ aborted = FALSE

\* Thread t starts, or completes, an operation on its handles.
Call(t) ==
  \/ \E h \in Handles : Make(t, h) \/ Reset(t, h)
  \/ \E h \in Handles, s \in Streams : Restream(t, h, s)
  \/ \E h \in Handles, e \in ExecTypes : Transfer(t, h, e)
  \/ \E d, s \in Handles :
       \/ CopyConstruct(t, d, s) \/ MoveConstruct(t, d, s)
       \/ CopyAssign(t, d, s) \/ MoveAssign(t, d, s) \/ Swap(t, d, s)
  \/ \E d, s \in Handles, e \in ExecTypes : Clone(t, d, s, e)

\* Thread t continues the operation it is in.
Step(t) ==
  \/ CountAtomic(t) \/ Lock(t) \/ ReadCount(t) \/ WriteCount(t) \/ Unlock(t)
  \/ Clean(t)
  \/ FinishDrop(t) \/ FinishAssign(t) \/ FinishMoveAssign(t)
  \/ FinishReset(t) \/ FinishTransfer(t)

\* Thread t leaves a scope.
LeaveScope(t) == \E h \in Handles : Drop(t, h)

Deliver == \E s \in Streams, b \in Blocks : LandWrite(s, b)

\* The program ends: nothing is held or running, or an assert ended it.
Ended ==
  \/ aborted
  \/ /\ \A t \in Threads : pc[t] = "idle"
     /\ \A h \in Handles : handle[h].cb = None
     /\ \A s \in Streams, b \in Blocks : flying[s][b] = None

Next ==
  \/ \E t \in Threads : Call(t) \/ Step(t) \/ LeaveScope(t)
  \/ Deliver
  \/ Ended /\ UNCHANGED vars

Spec == Init /\ [][Next]_vars

(***************************************************************************)
(* Threads are scheduled, objects of automatic storage are destroyed when  *)
(* their scope ends, streams deliver.  The spinlock has no queue: nothing  *)
(* is assumed about who gets it, and progress rests on MaxOps.             *)
(***************************************************************************)
FairSpec ==
  /\ Spec
  /\ \A t \in Threads : WF_vars(Step(t)) /\ WF_vars(LeaveScope(t))
  /\ \A s \in Streams, b \in Blocks : WF_vars(LandWrite(s, b))
=============================================================================
