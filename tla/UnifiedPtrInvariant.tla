------------------------ MODULE UnifiedPtrInvariant ------------------------
(***************************************************************************)
(* The inductive invariant of UnifiedPtr, for every value of the           *)
(* constants, in three parts.                                              *)
(*                                                                         *)
(* Control: TypeOK, TaskInv, ExclusionInv and AcquireInv are inductive     *)
(* together; Frame says what a step of one thread leaves to the others.    *)
(*                                                                         *)
(* Heap: the steps that change no counter leave every existing block with  *)
(* as many owners as it had, and every new one with one.                   *)
(*                                                                         *)
(* Counting: the steps of inc_dec_counter() and release() keep HeapInv     *)
(* when a block is counted through a single stream, so IInv is inductive,  *)
(* and with it what it implies: the count is right, nothing is used after  *)
(* it was freed, and nothing is lost.                                      *)
(***************************************************************************)
EXTENDS UnifiedPtrProperties, FiniteSetTheorems, TLAPS

-----------------------------------------------------------------------------
(* Control: registers and handles of the running operations *)

\* The registers of a running operation name handles, and its handle a block.
LEMMA Registers ==
  ASSUME ControlInv, NEW t \in Threads, Busy(t)
  PROVE  /\ task[t].dst \in Handles /\ task[t].src \in Handles
         /\ handle[task[t].dst] \in HandleType /\ handle[task[t].src] \in HandleType
         /\ StreamOf(t) \in Streams
         /\ pc[t] # "finish" => Counted(t) \in Blocks
BY DEF ControlInv, TypeOK, TaskInv, TaskFits, HandleType, Counted, StreamOf

\* The tasks of the threads other than t stay.
OthersStay(t) ==
  \A u \in Threads \ {t} : pc'[u] = pc[u] /\ task'[u] = task[u]

\* A step of t leaves alone what the operations of the others rely on.
Frame(t) ==
  /\ OthersStay(t)
  /\ \A h \in Handles : OwnerOf[h] # t => handle'[h] = handle[h]
  /\ \A u \in Threads \ {t} : Busy(u) => handle'[task[u].src] = handle[task[u].src]

\* What t may have as a task beside the operations of the others.
Apart(t) ==
  \A u \in Threads \ {t} : Busy(u) =>
    /\ task[u].dst # task[t].src
    /\ task[t].dst # task[u].src
    /\ ChangesSource(t) => task[t].src # task[u].src
    /\ ChangesSource(u) => task[u].src # task[t].src

Linked(t) == task[t].dir = 1 => handle[task[t].src].cb = handle[task[t].dst].cb

\* A step of t is right if t's own registers fit, apart from the others'.
LEMMA FrameKeeps ==
  ASSUME ControlInv, TypeOK', NEW t \in Threads, Frame(t),
         IF Busy(t)' THEN TaskFits(t)' /\ Apart(t)' /\ Linked(t)' ELSE task'[t].op = "none"
  PROVE  ControlInv' /\ Frame(t)
<1>1. ASSUME NEW u \in Threads \ {t}
      PROVE  (IF Busy(u) THEN TaskFits(u) ELSE task[u].op = "none")'
  <2>1. pc'[u] = pc[u] /\ task'[u] = task[u]
    BY DEF Frame, OthersStay
  <2>2. CASE Busy(u)
    <3>1. TaskFits(u)
      BY <2>2 DEF ControlInv, TaskInv
    <3>2. handle'[task[u].dst] = handle[task[u].dst]
      BY <3>1 DEF Frame, TaskFits
    <3> QED BY <2>1, <2>2, <3>1, <3>2 DEF Busy, TaskFits, ChangesSource
  <2>3. CASE ~Busy(u)
    BY <2>1, <2>3 DEF Busy, ControlInv, TaskInv
  <2> QED BY <2>2, <2>3
<1>2. TaskInv'
  BY <1>1 DEF TaskInv
<1>3. ExclusionInv'
  BY DEF ControlInv, ExclusionInv, Frame, OthersStay, Busy, ChangesSource, Apart
<1>4. AcquireInv'
  <2>1. ASSUME NEW u \in Threads \ {t}, Busy(u)', task'[u].dir = 1
        PROVE  handle'[task'[u].src].cb = handle'[task'[u].dst].cb
    <3>1. pc'[u] = pc[u] /\ task'[u] = task[u] /\ Busy(u)
      BY <2>1 DEF Frame, OthersStay, Busy
    <3>2. handle'[task[u].dst] = handle[task[u].dst]
      BY <3>1 DEF Frame, ControlInv, TaskInv, TaskFits
    <3>3. handle'[task[u].src] = handle[task[u].src]
      BY <3>1 DEF Frame
    <3> QED BY <2>1, <3>1, <3>2, <3>3 DEF ControlInv, AcquireInv
  <2> QED BY <2>1 DEF AcquireInv, Linked
<1> QED BY <1>2, <1>3, <1>4 DEF ControlInv

\* The type of the registers of an idle thread.
LEMMA NoTaskType == NoTask \in TaskType
BY DEF NoTask, Task, TaskType, ExecTypes

\* What BeginRelease leaves in the registers.
LEMMA ReleaseEffect ==
  ASSUME TypeOK, NEW t \in Threads,
         NEW op \in {"assign", "moveAssign", "drop", "reset", "transfer"},
         NEW h \in Handles, NEW s \in Handles, NEW b \in Blocks \cup {None},
         NEW e \in ExecTypes, BeginRelease(t, op, h, s, b, e)
  PROVE  /\ pc' \in [Threads -> PcValues] /\ task' \in [Threads -> TaskType]
         /\ OthersStay(t)
         /\ pc'[t] = (IF handle[h].cb = None THEN "finish" ELSE "count")
         /\ task'[t] = Task(op, h, s, -1, b, e)
<1>1. Task(op, h, s, -1, b, e) \in TaskType
  BY DEF Task, TaskType
<1> QED BY <1>1 DEF TypeOK, BeginRelease, PcValues, OthersStay

\* What BeginAcquire leaves in the registers.
LEMMA AcquireEffect ==
  ASSUME TypeOK, NEW t \in Threads, NEW op \in {"copy", "assign"},
         NEW h \in Handles, NEW s \in Handles, BeginAcquire(t, op, h, s)
  PROVE  /\ pc' \in [Threads -> PcValues] /\ task' \in [Threads -> TaskType]
         /\ OthersStay(t)
         /\ pc'[t] = "count"
         /\ task'[t] = Task(op, h, s, 1, None, "host")
<1>1. Task(op, h, s, 1, None, "host") \in TaskType
  BY DEF Task, TaskType, ExecTypes
<1> QED BY <1>1 DEF TypeOK, BeginAcquire, PcValues, OthersStay

\* What Idle leaves in the registers.
LEMMA IdleEffect ==
  ASSUME TypeOK, NEW t \in Threads, Idle(t)
  PROVE  /\ pc' \in [Threads -> PcValues] /\ task' \in [Threads -> TaskType]
         /\ OthersStay(t)
         /\ pc'[t] = "idle" /\ task'[t] = NoTask
BY NoTaskType DEF TypeOK, Idle, PcValues, OthersStay

\* The parts the actions are made of keep the types.
LEMMA SameHeapType ==
  ASSUME TypeOK, SameHeap, handle' \in [Handles -> HandleType],
         pc' \in [Threads -> PcValues], task' \in [Threads -> TaskType],
         ops' \in [Threads -> Nat], aborted' \in BOOLEAN
  PROVE  TypeOK'
BY DEF TypeOK, SameHeap

\* Starting an operation counts it.
LEMMA StartType ==
  ASSUME TypeOK, NEW t \in Threads, Start(t)
  PROVE  ops' \in [Threads -> Nat] /\ pc[t] = "idle"
BY DEF TypeOK, Start

\* An assert is a Boolean.
LEMMA AbortType ==
  ASSUME TypeOK, NoAbort \/ Abort
  PROVE  aborted' \in BOOLEAN
BY DEF TypeOK, NoAbort, Abort

\* A new block has a live entry, a memory type and a count.
LEMMA InitialiseType ==
  ASSUME TypeOK, NEW b \in Blocks \cup {None}, NEW e \in ExecTypes,
         NEW t, NEW s \in Streams, Initialise(t, b, e, s)
  PROVE  /\ mem' \in [Blocks -> {"free", "new", "live"}]
         /\ exec' \in [Blocks -> ExecTypes]
         /\ count' \in [Blocks -> Int]
         /\ flying' \in [Streams -> [Blocks -> Int \cup {None}]]
         /\ locked' \in SUBSET Locks
<1>1. mem' \in [Blocks -> {"free", "new", "live"}]
  BY DEF TypeOK, Initialise
<1>2. exec' \in [Blocks -> ExecTypes]
  BY DEF TypeOK, Initialise
<1>3. count' \in [Blocks -> Int]
  <2>1. count \in [Blocks -> Int] /\ (count' = count \/ count' = [count EXCEPT ![b] = 1])
    BY DEF TypeOK, Initialise
  <2>2. CASE b \in Blocks
    BY <2>1, <2>2
  <2>3. CASE b \notin Blocks
    <3>1. count' = count
      BY <2>1, <2>3
    <3> QED BY <2>1, <3>1
  <2> QED BY <2>2, <2>3
<1>4. flying' \in [Streams -> [Blocks -> Int \cup {None}]]
  <2>1. /\ flying \in [Streams -> [Blocks -> Int \cup {None}]]
        /\ flying' = flying \/ flying' = [flying EXCEPT ![s][b] = 1]
    BY DEF TypeOK, Initialise
  <2>2. [flying[s] EXCEPT ![b] = 1] \in [Blocks -> Int \cup {None}]
    <3> DEFINE row == flying[s]
    <3>1. row \in [Blocks -> Int \cup {None}]
      BY <2>1
    <3> HIDE DEF row
    <3>2. \A c \in Blocks : (IF c = b THEN 1 ELSE row[c]) \in Int \cup {None}
      BY <3>1
    <3>3. [row EXCEPT ![b] = 1] = [c \in Blocks |-> IF c = b THEN 1 ELSE row[c]]
      BY <3>1
    <3>4. [row EXCEPT ![b] = 1] \in [Blocks -> Int \cup {None}]
      BY <3>2, <3>3
    <3> QED BY <3>4 DEF row
  <2> QED BY <2>1, <2>2
<1> QED BY <1>1, <1>2, <1>3, <1>4 DEF TypeOK, Initialise

\* Host and GPU are execution contexts and memory types.
LEMMA CtxType ==
  ASSUME NEW t \in Threads
  PROVE  Ctx(t) \in ExecTypes /\ Ctx(t) \in Contexts /\ Empty(Ctx(t)) \in HandleType
BY ConstantsAssumption DEF Ctx, ExecTypes, Contexts, Empty, HandleType

\* A thread that is and stays idle.
LEMMA StayControl ==
  ASSUME ControlInv, TypeOK', NEW t \in Threads, pc[t] = "idle", Stay,
         \A h \in Handles : handle'[h] # handle[h] => MayModify(t, h)
  PROVE  ControlInv' /\ Frame(t)
<1>1. Frame(t)
  BY DEF Frame, OthersStay, Stay, MayModify, Busy, ControlInv, TaskInv, TaskFits
<1>2. ~Busy(t)' /\ task'[t].op = "none"
  BY DEF Busy, Stay, ControlInv, TaskInv
<1> QED BY <1>1, <1>2, FrameKeeps

\* The operations of a handle, one lemma per action: construction, ...
LEMMA MakeControl ==
  ASSUME ControlInv, NEW t \in Threads, NEW h \in Handles, Make(t, h)
  PROVE  ControlInv' /\ Frame(t)
<1> USE DEF ControlInv
<1>1. PICK b \in Blocks, s \in Streams :
        /\ Initialise(t, b, Ctx(t), s)
        /\ handle' = [handle EXCEPT ![h] = [cb |-> b, stream |-> s, prog |-> Ctx(t)]]
  BY DEF Make
<1>2. [cb |-> b, stream |-> s, prog |-> Ctx(t)] \in HandleType
  BY CtxType DEF HandleType
<1>3. handle' \in [Handles -> HandleType]
  BY <1>1, <1>2 DEF TypeOK
<1>4. TypeOK'
  BY <1>1, <1>3, InitialiseType, CtxType, StartType, AbortType DEF Make, Stay, TypeOK
<1> QED BY <1>1, <1>4, StartType, StayControl DEF TypeOK, Make

\* ... deep copy into another memory type, ...
LEMMA CloneControl ==
  ASSUME ControlInv, NEW t \in Threads, NEW d \in Handles, NEW s \in Handles,
         NEW e \in ExecTypes, Clone(t, d, s, e)
  PROVE  ControlInv' /\ Frame(t)
<1> USE DEF ControlInv
<1>1. PICK b \in Blocks :
        /\ Initialise(t, b, e, handle[s].stream)
        /\ handle' = [handle EXCEPT ![d] =
                        [cb |-> b, stream |-> handle[s].stream, prog |-> Ctx(t)]]
  BY DEF Clone
<1>2. /\ [cb |-> b, stream |-> handle[s].stream, prog |-> Ctx(t)] \in HandleType
      /\ handle[s].stream \in Streams
  BY CtxType DEF HandleType, TypeOK
<1>3. handle' \in [Handles -> HandleType]
  BY <1>1, <1>2 DEF TypeOK
<1>4. TypeOK'
  BY <1>1, <1>2, <1>3, InitialiseType, StartType, AbortType DEF Clone, Stay, TypeOK
<1> QED BY <1>1, <1>4, StartType, StayControl DEF TypeOK, Clone

\* ... change of stream, ...
LEMMA RestreamControl ==
  ASSUME ControlInv, NEW t \in Threads, NEW h \in Handles, NEW s \in Streams,
         Restream(t, h, s)
  PROVE  ControlInv' /\ Frame(t)
<1> USE DEF ControlInv
<1>1. handle' \in [Handles -> HandleType]
  BY DEF TypeOK, HandleType, Restream
<1>2. TypeOK'
  BY <1>1, SameHeapType, StartType, AbortType DEF Restream, Stay, TypeOK
<1> QED BY <1>2, StartType, StayControl DEF TypeOK, Restream

\* ... move construction, ...
LEMMA MoveConstructControl ==
  ASSUME ControlInv, NEW t \in Threads, NEW d \in Handles, NEW s \in Handles,
         MoveConstruct(t, d, s)
  PROVE  ControlInv' /\ Frame(t)
<1> USE DEF ControlInv
<1>1. CASE Writable(t, s)
  <2>1. handle' = [handle EXCEPT ![d] = handle[s], ![s] = Empty(Ctx(t))] /\ NoAbort
    BY <1>1 DEF MoveConstruct
  <2>2. handle' \in [Handles -> HandleType]
    BY <2>1, CtxType DEF TypeOK
  <2>3. TypeOK'
    BY <2>1, <2>2, SameHeapType, StartType, AbortType DEF MoveConstruct, Stay, TypeOK
  <2> QED BY <2>1, <2>3, StartType, StayControl DEF TypeOK, MoveConstruct
<1>2. CASE ~Writable(t, s)
  <2>1. handle' = handle /\ Abort
    BY <1>2 DEF MoveConstruct, Abort
  <2>2. TypeOK'
    BY <2>1, SameHeapType, StartType, AbortType DEF MoveConstruct, Stay, TypeOK
  <2> QED BY <2>1, <2>2, StartType, StayControl DEF MoveConstruct
<1> QED BY <1>1, <1>2

\* ... swap, ...
LEMMA SwapControl ==
  ASSUME ControlInv, NEW t \in Threads, NEW g \in Handles, NEW h \in Handles,
         Swap(t, g, h)
  PROVE  ControlInv' /\ Frame(t)
<1> USE DEF ControlInv
<1>1. CASE handle' = handle /\ Abort
  <2>1. TypeOK'
    BY <1>1, SameHeapType, StartType, AbortType DEF Swap, Stay, TypeOK
  <2> QED BY <1>1, <2>1, StartType, StayControl DEF Swap
<1>2. CASE handle' = [handle EXCEPT ![g] = handle[h], ![h] = handle[g]] /\ NoAbort
  <2>1. handle' \in [Handles -> HandleType]
    BY <1>2 DEF TypeOK
  <2>2. TypeOK'
    BY <1>2, <2>1, SameHeapType, StartType, AbortType DEF Swap, Stay, TypeOK
  <2> QED BY <1>2, <2>2, StartType, StayControl DEF TypeOK, Swap
<1> QED BY <1>1, <1>2 DEF Swap, Abort

\* ... and copy construction, which leaves the copy to be counted.
LEMMA CopyConstructControl ==
  ASSUME ControlInv, NEW t \in Threads, NEW d \in Handles, NEW s \in Handles,
         CopyConstruct(t, d, s)
  PROVE  ControlInv' /\ Frame(t)
<1> USE DEF ControlInv
<1>1. BeginAcquire(t, "copy", d, s) /\ handle' = [handle EXCEPT ![d] = handle[s]]
  BY DEF CopyConstruct
<1>2. /\ pc' \in [Threads -> PcValues] /\ task' \in [Threads -> TaskType]
      /\ OthersStay(t)
      /\ pc'[t] = "count"
      /\ task'[t] = Task("copy", d, s, 1, None, "host")
  BY <1>1, AcquireEffect
<1>3. handle' \in [Handles -> HandleType]
  BY <1>1 DEF TypeOK
<1>4. TypeOK'
  BY <1>2, <1>3, SameHeapType, StartType, AbortType DEF CopyConstruct, TypeOK
<1>5. Frame(t)
  BY <1>1, <1>2 DEF TypeOK, CopyConstruct, MayCopy, MayModify, Frame, Busy
<1>6. d # s /\ handle[s].cb # None /\ MayModify(t, d) /\ MayRead(t, s)
      /\ (s \in Unique => MayModify(t, s))
  BY DEF CopyConstruct, MayCopy
<1>7. TaskFits(t)'
  BY <1>1, <1>2, <1>6 DEF TypeOK, MayModify, TaskFits, ChangesSource, Task
<1>8. Apart(t)'
  BY <1>2, <1>6 DEF MayModify, MayRead, Apart, OthersStay, ChangesSource, TaskInv, TaskFits, Busy, Task
<1>9. Linked(t)' /\ Busy(t)'
  BY <1>1, <1>2, <1>6 DEF TypeOK, Linked, Busy, Task
<1> QED BY <1>4, <1>5, <1>7, <1>8, <1>9, FrameKeeps

\* The operations that begin with a release.
LEMMA BeginControl ==
  ASSUME ControlInv, TypeOK', NEW t \in Threads,
         NEW op \in {"assign", "moveAssign", "drop", "reset", "transfer"},
         NEW h \in Handles, NEW s \in Handles, NEW b \in Blocks \cup {None},
         NEW e \in ExecTypes, BeginRelease(t, op, h, s, b, e),
         OwnerOf[h] = t, handle' = handle,
         op = "assign" => h # s,
         op \in {"drop", "reset", "transfer"} => s = h,
         op = "moveAssign" \/ (op = "assign" /\ s \in Unique) => OwnerOf[s] = t,
         \A u \in Threads \ {t} : Busy(u) =>
           /\ task[u].dst # s /\ task[u].src # h
           /\ op = "moveAssign" \/ (op = "assign" /\ s \in Unique) => task[u].src # s
           /\ ChangesSource(u) => task[u].src # s
  PROVE  ControlInv' /\ Frame(t)
<1>1. /\ OthersStay(t)
      /\ pc'[t] = (IF handle[h].cb = None THEN "finish" ELSE "count")
      /\ task'[t] = Task(op, h, s, -1, b, e)
  BY ReleaseEffect DEF ControlInv
<1>2. Frame(t)
  BY <1>1 DEF Frame
<1>3. TaskFits(t)'
  BY <1>1 DEF TaskFits, ChangesSource, Task
<1>4. Apart(t)'
  BY <1>1 DEF Apart, OthersStay, ChangesSource, Busy, Task
<1>5. Linked(t)' /\ Busy(t)'
  BY <1>1 DEF Linked, Busy, Task
<1> QED BY <1>2, <1>3, <1>4, <1>5, FrameKeeps

\* Copy assignment, ...
LEMMA CopyAssignControl ==
  ASSUME ControlInv, NEW t \in Threads, NEW d \in Handles, NEW s \in Handles,
         CopyAssign(t, d, s)
  PROVE  ControlInv' /\ Frame(t)
<1> USE DEF ControlInv
<1>1. /\ BeginRelease(t, "assign", d, s, None, "host") /\ handle' = handle
      /\ d # s /\ MayModify(t, d) /\ MayRead(t, s) /\ (s \in Unique => MayModify(t, s))
  BY DEF CopyAssign, MayCopy
<1>2. TypeOK'
  BY <1>1, ReleaseEffect, SameHeapType, StartType, AbortType DEF CopyAssign, TypeOK, ExecTypes
<1> QED BY <1>1, <1>2, BeginControl DEF MayModify, MayRead, ExecTypes, Busy

\* ... move assignment, ...
LEMMA MoveAssignControl ==
  ASSUME ControlInv, NEW t \in Threads, NEW d \in Handles, NEW s \in Handles,
         MoveAssign(t, d, s)
  PROVE  ControlInv' /\ Frame(t)
<1> USE DEF ControlInv
<1>1. CASE Writable(t, s)
  <2>1. /\ BeginRelease(t, "moveAssign", d, s, None, "host") /\ handle' = handle
        /\ MayModify(t, d) /\ MayModify(t, s) /\ NoAbort
    BY <1>1 DEF MoveAssign
  <2>2. TypeOK'
    BY <2>1, ReleaseEffect, SameHeapType, StartType, AbortType DEF MoveAssign, TypeOK, ExecTypes
  <2>3. \A u \in Threads \ {t} : Busy(u) => OwnerOf[task[u].dst] = u
    BY DEF TaskInv, TaskFits
  <2> QED BY <2>1, <2>2, <2>3, BeginControl DEF MayModify, ExecTypes, Busy
<1>2. CASE ~Writable(t, s)
  <2>1. handle' = handle /\ Abort /\ Stay
    BY <1>2 DEF MoveAssign, Abort
  <2>2. TypeOK'
    BY <2>1, SameHeapType, StartType, AbortType DEF MoveAssign, Stay, TypeOK
  <2> QED BY <2>1, <2>2, StartType, StayControl DEF MoveAssign
<1> QED BY <1>1, <1>2

\* ... and destruction begin with a release.
LEMMA DropControl ==
  ASSUME ControlInv, NEW t \in Threads, NEW h \in Handles, Drop(t, h)
  PROVE  ControlInv' /\ Frame(t)
<1> USE DEF ControlInv
<1>1. BeginRelease(t, "drop", h, h, None, "host") /\ handle' = handle /\ MayModify(t, h)
  BY DEF Drop
<1>2. TypeOK'
  BY <1>1, ReleaseEffect, SameHeapType, AbortType DEF Drop, TypeOK, ExecTypes
<1>3. \A u \in Threads \ {t} : Busy(u) => OwnerOf[task[u].dst] = u
  BY DEF TaskInv, TaskFits
<1> QED BY <1>1, <1>2, <1>3, BeginControl DEF MayModify, ExecTypes, Busy

\* Allocation keeps the types.
LEMMA AllocateType ==
  ASSUME TypeOK, NEW b \in Blocks, Allocate(b), handle' = handle,
         pc' \in [Threads -> PcValues], task' \in [Threads -> TaskType],
         ops' \in [Threads -> Nat], aborted' \in BOOLEAN
  PROVE  TypeOK'
BY DEF TypeOK, Allocate

\* reset() allocates, then releases; ...
LEMMA ResetControl ==
  ASSUME ControlInv, NEW t \in Threads, NEW h \in Handles, Reset(t, h)
  PROVE  ControlInv' /\ Frame(t)
<1> USE DEF ControlInv
<1>1. PICK b \in Blocks : Allocate(b) /\ BeginRelease(t, "reset", h, h, b, Ctx(t))
  BY DEF Reset
<1>2. handle' = handle /\ MayModify(t, h)
  BY DEF Reset
<1>3. TypeOK'
  BY <1>1, <1>2, CtxType, ReleaseEffect, AllocateType, StartType, AbortType DEF Reset
<1>4. \A u \in Threads \ {t} : Busy(u) => OwnerOf[task[u].dst] = u
  BY DEF TaskInv, TaskFits
<1> QED BY <1>1, <1>2, <1>3, <1>4, CtxType, BeginControl DEF MayModify, Busy

\* ... so does transfer().
LEMMA TransferControl ==
  ASSUME ControlInv, NEW t \in Threads, NEW h \in Handles, NEW to \in ExecTypes,
         Transfer(t, h, to)
  PROVE  ControlInv' /\ Frame(t)
<1> USE DEF ControlInv
<1>1. handle' = handle /\ MayModify(t, h) /\ handle[h].cb # None
  BY DEF Transfer
<1>2. PICK b \in Blocks, e \in {to, exec[handle[h].cb]} :
        Allocate(b) /\ BeginRelease(t, "transfer", h, h, b, e)
  BY DEF Transfer
<1>3. e \in ExecTypes
  BY <1>1 DEF TypeOK, HandleType
<1>4. TypeOK'
  BY <1>1, <1>2, <1>3, ReleaseEffect, AllocateType, StartType, AbortType DEF Transfer
<1>5. \A u \in Threads \ {t} : Busy(u) => OwnerOf[task[u].dst] = u
  BY DEF TaskInv, TaskFits
<1> QED BY <1>1, <1>2, <1>3, <1>4, <1>5, BeginControl DEF MayModify, Busy

\* The steps inside an operation that stay with its handles.
LEMMA ContinueControl ==
  ASSUME ControlInv, TypeOK', NEW t \in Threads, Busy(t), Busy(t)',
         handle' = handle, OthersStay(t),
         task'[t].op = task[t].op, task'[t].dst = task[t].dst,
         task'[t].src = task[t].src, task'[t].dir = task[t].dir,
         pc'[t] \in {"clean", "finish"} => task[t].dir # 1,
         pc[t] # "finish"
  PROVE  ControlInv' /\ Frame(t)
<1>1. TaskFits(t)
  BY DEF ControlInv, TaskInv
<1>2. Frame(t)
  BY DEF Frame
<1>3. TaskFits(t)'
  BY <1>1 DEF TaskFits, ChangesSource
<1>4. Apart(t)'
  BY <1>1 DEF Apart, OthersStay, ChangesSource, ControlInv, ExclusionInv, Busy
<1>5. Linked(t)'
  BY DEF Linked, ControlInv, AcquireInv
<1> QED BY <1>2, <1>3, <1>4, <1>5, FrameKeeps

\* The types after a counter update.
LEMMA AfterCountType ==
  ASSUME ControlInv, NEW t \in Threads, Busy(t), NEW prev, AfterCount(t, prev)
  PROVE  pc' \in [Threads -> PcValues] /\ task' \in [Threads -> TaskType]
<1> USE DEF ControlInv
<1>1. CASE task[t].dir = -1
  BY <1>1 DEF TypeOK, AfterCount, AfterDecrement, AfterIncrement, PcValues
<1>2. CASE task[t].dir # -1
  <2>1. task[t].src \in Handles
    BY DEF TaskInv, TaskFits
  <2> QED BY <1>2, <2>1, ReleaseEffect, IdleEffect DEF AfterCount, AfterDecrement, AfterIncrement, ExecTypes
<1> QED BY <1>1, <1>2

\* Where the operation goes after a counter update.
LEMMA AfterCountControl ==
  ASSUME ControlInv, TypeOK', NEW t \in Threads, pc[t] \in {"count", "unlock"},
         NEW prev, AfterCount(t, prev), handle' = handle
  PROVE  ControlInv' /\ Frame(t)
<1> USE DEF ControlInv
<1>1. CASE task[t].dir = -1
  <2>1. /\ OthersStay(t) /\ task' = task /\ pc'[t] \in {"clean", "finish"}
    BY <1>1 DEF TypeOK, AfterCount, AfterDecrement, AfterIncrement, OthersStay
  <2> QED BY <1>1, <2>1, ContinueControl DEF Busy
<1>2. CASE task[t].dir # -1
  <2>1. TaskFits(t) /\ Busy(t) /\ task[t].dir = 1
    BY <1>2 DEF TypeOK, TaskType, TaskInv, Busy
  <2>2. CASE task[t].src \in Unique /\ Writable(t, task[t].src)
    <3>1. BeginRelease(t, "drop", task[t].src, task[t].src, None, "host")
      BY <1>2, <2>2 DEF AfterCount, AfterDecrement, AfterIncrement
    <3>2. ChangesSource(t)
      BY <2>1, <2>2 DEF ChangesSource, TaskFits
    <3>3. task[t].src \in Handles /\ OwnerOf[task[t].src] = t
      BY <2>1, <3>2 DEF TaskFits
    <3>4. \A u \in Threads \ {t} : Busy(u) =>
            task[u].dst # task[t].src /\ task[u].src # task[t].src
      BY <2>1, <3>2 DEF ExclusionInv
    <3> QED BY <3>1, <3>3, <3>4, BeginControl DEF ExecTypes
  <2>3. CASE ~(task[t].src \in Unique /\ Writable(t, task[t].src))
    <3>1. Idle(t)
      BY <1>2, <2>3 DEF AfterCount, AfterDecrement, AfterIncrement
    <3>2. Frame(t) /\ ~Busy(t)' /\ task'[t].op = "none"
      BY <3>1, IdleEffect DEF Frame, Busy, NoTask, Task
    <3> QED BY <3>2, FrameKeeps
  <2> QED BY <2>2, <2>3
<1> QED BY <1>1, <1>2

\* The steps of the counter updates, one lemma per action: in hardware, ...
LEMMA CountAtomicControl ==
  ASSUME ControlInv, NEW t \in Threads, CountAtomic(t)
  PROVE  ControlInv' /\ Frame(t)
<1> USE DEF ControlInv
<1>1. AfterCount(t, count[Counted(t)]) /\ handle' = handle /\ Busy(t) /\ pc[t] = "count"
  BY DEF CountAtomic, Busy
<1>2. pc' \in [Threads -> PcValues] /\ task' \in [Threads -> TaskType]
  BY <1>1, AfterCountType
<1>3. task[t].dir \in Int
  BY DEF TypeOK, TaskType
<1>4. count' \in [Blocks -> Int]
  BY <1>1, <1>3, Registers DEF TypeOK, CountAtomic
<1>5. TypeOK'
  BY <1>1, <1>2, <1>4, AbortType DEF TypeOK, CountAtomic
<1> QED BY <1>1, <1>5, AfterCountControl

\* ... the end of the critical section, ...
LEMMA UnlockControl ==
  ASSUME ControlInv, NEW t \in Threads, Unlock(t)
  PROVE  ControlInv' /\ Frame(t)
<1> USE DEF ControlInv
<1>1. AfterCount(t, task[t].seen) /\ handle' = handle /\ Busy(t) /\ pc[t] = "unlock"
  BY DEF Unlock, Busy
<1>2. pc' \in [Threads -> PcValues] /\ task' \in [Threads -> TaskType]
  BY <1>1, AfterCountType
<1>3. TypeOK'
  BY <1>1, <1>2, AbortType DEF TypeOK, Unlock
<1> QED BY <1>1, <1>3, AfterCountControl

\* ... its beginning, ...
LEMMA LockControl ==
  ASSUME ControlInv, NEW t \in Threads, Lock(t)
  PROVE  ControlInv' /\ Frame(t)
<1> USE DEF ControlInv
<1>1. pc[t] = "count" /\ Counted(t) \in Blocks
  BY Registers DEF Lock, Busy
<1>2. locked' \in SUBSET Locks
  BY <1>1, ConstantsAssumption DEF TypeOK, Lock
<1>3. /\ pc' \in [Threads -> PcValues] /\ pc'[t] = "read"
      /\ task' = task /\ handle' = handle /\ OthersStay(t)
  BY DEF TypeOK, PcValues, Lock, OthersStay
<1>4. TypeOK'
  BY <1>2, <1>3, AbortType DEF TypeOK, Lock
<1> QED BY <1>1, <1>3, <1>4, ContinueControl DEF Busy

\* ... the read, ...
LEMMA ReadCountControl ==
  ASSUME ControlInv, NEW t \in Threads, ReadCount(t)
  PROVE  ControlInv' /\ Frame(t)
<1> USE DEF ControlInv
<1>1. pc[t] = "read" /\ Counted(t) \in Blocks
  BY Registers DEF ReadCount, Busy
<1>2. /\ task' \in [Threads -> TaskType]
      /\ task'[t] = [task[t] EXCEPT !.seen = count[Counted(t)]]
      /\ \A u \in Threads \ {t} : task'[u] = task[u]
  <2>1. count[Counted(t)] \in Int
    BY <1>1 DEF TypeOK
  <2>2. task' = [task EXCEPT ![t] = [task[t] EXCEPT !.seen = count[Counted(t)]]]
    BY DEF ReadCount
  <2>3. [task[t] EXCEPT !.seen = count[Counted(t)]] \in TaskType
    BY <2>1 DEF TypeOK, TaskType
  <2> QED BY <2>2, <2>3 DEF TypeOK
<1>3. pc' \in [Threads -> PcValues] /\ pc'[t] = "write" /\ handle' = handle
  BY DEF TypeOK, PcValues, ReadCount
<1>4. OthersStay(t)
  BY <1>2 DEF TypeOK, ReadCount, OthersStay
<1>5. TypeOK'
  BY <1>2, <1>3, SameHeapType, AbortType DEF TypeOK, ReadCount
<1>6. /\ task'[t].op = task[t].op /\ task'[t].dst = task[t].dst
      /\ task'[t].src = task[t].src /\ task'[t].dir = task[t].dir
  BY <1>2 DEF TypeOK, TaskType
<1> QED BY <1>1, <1>3, <1>4, <1>5, <1>6, ContinueControl DEF Busy

\* ... the write, ...
LEMMA WriteCountControl ==
  ASSUME ControlInv, NEW t \in Threads, WriteCount(t)
  PROVE  ControlInv' /\ Frame(t)
<1> USE DEF ControlInv
<1>1. pc[t] = "write" /\ Counted(t) \in Blocks /\ StreamOf(t) \in Streams
  BY Registers DEF WriteCount, Busy
<1>2. task[t].seen + task[t].dir \in Int
  BY DEF TypeOK, TaskType
<1>3. flying' \in [Streams -> [Blocks -> Int \cup {None}]]
  BY <1>1, <1>2 DEF TypeOK, WriteCount
<1>4. /\ pc' \in [Threads -> PcValues] /\ pc'[t] = "unlock"
      /\ task' = task /\ handle' = handle /\ OthersStay(t)
  BY DEF TypeOK, PcValues, WriteCount, OthersStay
<1>5. TypeOK'
  BY <1>3, <1>4, AbortType DEF TypeOK, WriteCount
<1> QED BY <1>1, <1>4, <1>5, ContinueControl DEF Busy

\* ... and the release of the storage.
LEMMA CleanControl ==
  ASSUME ControlInv, NEW t \in Threads, Clean(t)
  PROVE  ControlInv' /\ Frame(t)
<1> USE DEF ControlInv
<1>1. pc[t] = "clean" /\ Busy(t) /\ task' = task
  BY DEF Clean, Busy
<1>2. task[t].dir # 1
  BY <1>1 DEF TaskInv, TaskFits
<1>3. CASE Writable(t, task[t].dst)
  <2>1. /\ mem' = [mem EXCEPT ![Counted(t)] = "free"]
        /\ pc' = [pc EXCEPT ![t] = "finish"]
        /\ handle' = handle /\ NoAbort
    BY <1>3 DEF Clean
  <2>2. /\ mem' \in [Blocks -> {"free", "new", "live"}]
        /\ pc' \in [Threads -> PcValues] /\ pc'[t] = "finish" /\ OthersStay(t)
    BY <1>1, <2>1 DEF TypeOK, PcValues, OthersStay
  <2>3. TypeOK'
    BY <1>1, <2>1, <2>2, AbortType DEF TypeOK, Clean
  <2> QED BY <1>1, <1>2, <2>1, <2>2, <2>3, ContinueControl DEF Busy
<1>4. CASE ~Writable(t, task[t].dst)
  <2>1. mem' = mem /\ pc' = pc /\ handle' = handle /\ Abort
    BY <1>4 DEF Clean, Abort
  <2>2. TypeOK'
    BY <1>1, <2>1, AbortType DEF TypeOK, Clean
  <2> QED BY <1>1, <1>2, <2>1, <2>2, ContinueControl DEF Busy, OthersStay
<1> QED BY <1>3, <1>4

\* The steps that end an operation.
LEMMA EndControl ==
  ASSUME ControlInv, TypeOK', NEW t \in Threads, Busy(t), Idle(t),
         NEW x, NEW y, handle' = [handle EXCEPT ![task[t].dst] = x] \/
                       (/\ ChangesSource(t)
                        /\ handle' = [handle EXCEPT ![task[t].dst] = x, ![task[t].src] = y])
  PROVE  ControlInv' /\ Frame(t)
<1> USE DEF ControlInv
<1>1. TaskFits(t)
  BY DEF TaskInv
<1>2. \A u \in Threads \ {t} : Busy(u) =>
        task[u].src # task[t].dst /\ (ChangesSource(t) => task[u].src # task[t].src)
  BY DEF ExclusionInv
<1>3. \A u \in Threads \ {t} : Busy(u) => task[u].src \in Handles
  BY DEF TaskInv, TaskFits
<1>4. Frame(t)
  <2>1. \A h \in Handles : OwnerOf[h] # t => handle'[h] = handle[h]
    BY <1>1 DEF TypeOK, TaskFits
  <2>2. \A u \in Threads \ {t} : Busy(u) => handle'[task[u].src] = handle[task[u].src]
    BY <1>2, <1>3 DEF TypeOK
  <2> QED BY <2>1, <2>2, IdleEffect DEF Frame
<1>5. ~Busy(t)' /\ task'[t].op = "none"
  BY IdleEffect DEF Busy, NoTask, Task
<1> QED BY <1>4, <1>5, FrameKeeps

\* The last steps, one lemma per action: the handle is emptied, ...
LEMMA FinishDropControl ==
  ASSUME ControlInv, NEW t \in Threads, FinishDrop(t)
  PROVE  ControlInv' /\ Frame(t)
<1> USE DEF ControlInv
<1>1. Busy(t) /\ Idle(t) /\ handle' = [handle EXCEPT ![task[t].dst] = Empty(Ctx(t))]
  BY DEF FinishDrop, Finishing, Busy
<1>2. handle' \in [Handles -> HandleType]
  BY <1>1, CtxType DEF TypeOK
<1>3. TypeOK'
  BY <1>1, <1>2, IdleEffect, SameHeapType, AbortType DEF FinishDrop, Finishing, TypeOK
<1> QED BY <1>1, <1>3, EndControl

\* ... takes over what the source held, ...
LEMMA FinishMoveAssignControl ==
  ASSUME ControlInv, NEW t \in Threads, FinishMoveAssign(t)
  PROVE  ControlInv' /\ Frame(t)
<1> USE DEF ControlInv
<1>1. /\ Busy(t) /\ Idle(t) /\ ChangesSource(t)
      /\ handle' = [handle EXCEPT ![task[t].dst] = handle[task[t].src],
                                  ![task[t].src] = Empty(Ctx(t))]
  BY DEF FinishMoveAssign, Finishing, Busy, ChangesSource
<1>2. handle[task[t].src] \in HandleType
  BY <1>1, Registers
<1>3. handle' \in [Handles -> HandleType]
  BY <1>1, <1>2, CtxType DEF TypeOK
<1>4. TypeOK'
  BY <1>1, <1>3, IdleEffect, SameHeapType, AbortType DEF FinishMoveAssign, Finishing, TypeOK
<1> QED BY <1>1, <1>4, EndControl

\* ... adopts new storage, ...
LEMMA FinishResetControl ==
  ASSUME ControlInv, NEW t \in Threads, FinishReset(t)
  PROVE  ControlInv' /\ Frame(t)
<1> USE DEF ControlInv
<1>1. Busy(t) /\ Idle(t)
  BY DEF FinishReset, Finishing, Busy
<1>2. PICK s \in Streams :
        /\ handle' = [handle EXCEPT ![task[t].dst] =
                        [cb |-> task[t].fresh, stream |-> s, prog |-> Ctx(t)]]
        /\ Initialise(t, task[t].fresh, task[t].to, s)
  BY DEF FinishReset
<1>3. task[t].fresh \in Blocks \cup {None} /\ task[t].to \in ExecTypes
  BY DEF TypeOK, TaskType
<1>4. [cb |-> task[t].fresh, stream |-> s, prog |-> Ctx(t)] \in HandleType
  BY <1>3, CtxType DEF HandleType
<1>5. handle' \in [Handles -> HandleType]
  BY <1>2, <1>4 DEF TypeOK
<1>6. TypeOK'
  BY <1>1, <1>2, <1>3, <1>5, IdleEffect, InitialiseType, AbortType
  DEF FinishReset, Finishing, TypeOK
<1> QED BY <1>1, <1>2, <1>6, EndControl

\* ... adopts the transferred storage, ...
LEMMA FinishTransferControl ==
  ASSUME ControlInv, NEW t \in Threads, FinishTransfer(t)
  PROVE  ControlInv' /\ Frame(t)
<1> USE DEF ControlInv
<1> DEFINE h == [cb |-> task[t].fresh, stream |-> handle[task[t].dst].stream,
                 prog |-> Ctx(t)]
<1>1. /\ Busy(t) /\ Idle(t) /\ Initialise(t, task[t].fresh, task[t].to, StreamOf(t))
      /\ handle' = [handle EXCEPT ![task[t].dst] = h]
  BY DEF FinishTransfer, Finishing, Busy
<1>2. task[t].fresh \in Blocks \cup {None} /\ task[t].to \in ExecTypes
  BY DEF TypeOK, TaskType
<1>3. h \in HandleType
  BY <1>1, <1>2, Registers, CtxType DEF HandleType
<1> HIDE DEF h
<1>4. handle' \in [Handles -> HandleType]
  BY <1>1, <1>3 DEF TypeOK
<1>5. TypeOK'
  BY <1>1, <1>2, <1>4, Registers, IdleEffect, InitialiseType, AbortType
  DEF FinishTransfer, Finishing, TypeOK
<1> QED BY <1>1, <1>5, EndControl

\* ... or shares what the source holds and goes on to count it.
LEMMA FinishAssignControl ==
  ASSUME ControlInv, NEW t \in Threads, FinishAssign(t)
  PROVE  ControlInv' /\ Frame(t)
<1> USE DEF ControlInv
<1> DEFINE d == task[t].dst
           s == task[t].src
<1>1. /\ Busy(t) /\ task[t].op = "assign" /\ TaskFits(t)
      /\ handle' = [handle EXCEPT ![d] = handle[s]]
  BY DEF FinishAssign, Finishing, Busy, TaskInv
<1>2. handle' \in [Handles -> HandleType]
  BY <1>1, Registers DEF TypeOK
<1>3. CASE handle[s].cb = None
  <2>1. Idle(t)
    BY <1>3 DEF FinishAssign
  <2>2. TypeOK'
    BY <1>2, <2>1, IdleEffect, SameHeapType, AbortType DEF FinishAssign, Finishing, TypeOK
  <2> QED BY <1>1, <2>1, <2>2, EndControl
<1>4. CASE handle[s].cb # None
  <2>1. BeginAcquire(t, "assign", d, s) /\ d \in Handles /\ s \in Handles /\ d # s
    BY <1>1, <1>4 DEF FinishAssign, TaskFits
  <2>2. /\ pc' \in [Threads -> PcValues] /\ task' \in [Threads -> TaskType]
        /\ OthersStay(t)
        /\ pc'[t] = "count"
        /\ task'[t] = Task("assign", d, s, 1, None, "host")
    BY <2>1, AcquireEffect
  <2>3. TypeOK'
    BY <1>2, <2>2, SameHeapType, AbortType DEF FinishAssign, Finishing, TypeOK
  <2>4. /\ task'[t].dst = d /\ task'[t].src = s /\ task'[t].op = "assign"
        /\ task'[t].dir = 1
    BY <2>2 DEF Task
  <2>5. handle'[d] = handle[s] /\ handle'[s] = handle[s]
    BY <1>1, <2>1 DEF TypeOK
  <2>6. \A u \in Threads \ {t} : Busy(u) => task[u].src # d /\ task[u].src \in Handles
    BY <1>1 DEF ExclusionInv, TaskInv, TaskFits
  <2>7. Frame(t)
    BY <1>1, <2>2, <2>6 DEF TypeOK, TaskFits, Frame
  <2>8. TaskFits(t)'
    BY <1>1, <1>4, <2>2, <2>4, <2>5 DEF TaskFits, ChangesSource
  <2>9. Apart(t)'
    BY <1>1, <2>2, <2>4 DEF Apart, OthersStay, ChangesSource, ExclusionInv, Busy
  <2>10. Linked(t)' /\ Busy(t)'
    BY <2>2, <2>4, <2>5 DEF Linked, Busy
  <2> QED BY <2>3, <2>7, <2>8, <2>9, <2>10, FrameKeeps
<1> QED BY <1>3, <1>4

\* A delivery changes the counters only.
LEMMA LandWriteControl ==
  ASSUME ControlInv, NEW s \in Streams, NEW b \in Blocks, LandWrite(s, b)
  PROVE  ControlInv'
<1> USE DEF ControlInv
<1>1. handle' = handle /\ pc' = pc /\ task' = task
  BY DEF LandWrite, Stay
<1>2. count' \in [Blocks -> Int] /\ flying' \in [Streams -> [Blocks -> Int \cup {None}]]
  BY DEF TypeOK, LandWrite
<1>3. TypeOK'
  BY <1>1, <1>2, AbortType DEF TypeOK, LandWrite
<1> QED BY <1>1, <1>3
    DEF TaskInv, TaskFits, ExclusionInv, AcquireInv, ChangesSource, Busy

\* So does nothing.
LEMMA StutterControl ==
  ASSUME ControlInv, UNCHANGED vars
  PROVE  ControlInv'
BY DEF ControlInv, vars, TypeOK, TaskInv, TaskFits, ExclusionInv, AcquireInv, ChangesSource, Busy

\* Every step keeps ControlInv.
LEMMA ControlStep ==
  ASSUME ControlInv, [Next]_vars
  PROVE  ControlInv'
<1>1. ASSUME NEW t \in Threads, Call(t) PROVE ControlInv'
  BY <1>1, MakeControl, ResetControl, RestreamControl, TransferControl,
     CopyConstructControl, MoveConstructControl, CopyAssignControl,
     MoveAssignControl, SwapControl, CloneControl DEF Call
<1>2. ASSUME NEW t \in Threads, Step(t) PROVE ControlInv'
  BY <1>2, CountAtomicControl, LockControl, ReadCountControl, WriteCountControl,
     UnlockControl, CleanControl, FinishDropControl, FinishAssignControl,
     FinishMoveAssignControl, FinishResetControl, FinishTransferControl DEF Step
<1>3. ASSUME NEW t \in Threads, LeaveScope(t) PROVE ControlInv'
  BY <1>3, DropControl DEF LeaveScope
<1>4. CASE Deliver
  BY <1>4, LandWriteControl DEF Deliver
<1>5. CASE UNCHANGED vars
  BY <1>5, StutterControl
<1> QED BY <1>1, <1>2, <1>3, <1>4, <1>5 DEF Next

\* Idle threads and empty handles satisfy ControlInv.
LEMMA ControlInit == Init => ControlInv
<1> SUFFICES ASSUME Init PROVE ControlInv
  OBVIOUS
<1> USE ConstantsAssumption
<1>1. TypeOK
  <2>1. handle \in [Handles -> HandleType]
    BY CtxType DEF Init
  <2>2. task \in [Threads -> TaskType] /\ pc \in [Threads -> PcValues]
    BY NoTaskType DEF Init, PcValues
  <2>3. flying \in [Streams -> [Blocks -> Int \cup {None}]]
    BY DEF Init
  <2>4. exec \in [Blocks -> ExecTypes] /\ mem \in [Blocks -> {"free", "new", "live"}]
    BY DEF Init, ExecTypes
  <2> QED BY <2>1, <2>2, <2>3, <2>4 DEF Init, TypeOK
<1>2. TaskInv /\ ExclusionInv /\ AcquireInv
  BY DEF Init, TaskInv, ExclusionInv, AcquireInv, Busy, NoTask, Task
<1> QED BY <1>1, <1>2 DEF ControlInv

\* Whatever threads interleave, each operation works on handles its thread may
\* modify, no operation modifies a handle another one reads, and a pointer that
\* still has to be counted shares the block of the pointer it was copied from.
THEOREM ControlCorrect == Spec => []ControlInv
<1>1. Init => ControlInv
  BY ControlInit
<1>2. ControlInv /\ [Next]_vars => ControlInv'
  BY ControlStep
<1> QED BY <1>1, <1>2, PTL DEF Spec

\* The variables of UnifiedPtr have their types in every reachable state.
THEOREM TypeCorrect == Spec => []TypeOK
<1>1. ControlInv => TypeOK
  BY DEF ControlInv
<1> QED BY <1>1, ControlCorrect, PTL

-----------------------------------------------------------------------------
(* Sets of owners *)

\* A block has finitely many owners: there are finitely many handles.
LEMMA OwnersFinite ==
  ASSUME NEW b
  PROVE  IsFiniteSet(Owners(b)) /\ Cardinality(Owners(b)) \in Nat
<1>1. Owners(b) \in SUBSET Handles
  BY DEF Owners
<1> QED BY <1>1, ConstantsAssumption, FS_Subset, FS_CardinalityType

\* The same after a step.
LEMMA OwnersFinitePrime ==
  ASSUME NEW b
  PROVE  IsFiniteSet(Owners(b)') /\ Cardinality(Owners(b)') \in Nat
<1>1. Owners(b)' \in SUBSET Handles
  BY DEF Owners
<1> QED BY <1>1, ConstantsAssumption, FS_Subset, FS_CardinalityType

\* A block without owners is one with zero of them.
LEMMA NoOwners ==
  ASSUME NEW b
  PROVE  Cardinality(Owners(b)) = 0 <=> Owners(b) = {}
BY OwnersFinite, FS_EmptySet

\* The same after a step.
LEMMA NoOwnersPrime ==
  ASSUME NEW b
  PROVE  Cardinality(Owners(b)') = 0 <=> Owners(b)' = {}
BY OwnersFinitePrime, FS_EmptySet

\* One owner taking the place of another.
LEMMA Exchange ==
  ASSUME NEW S, IsFiniteSet(S), NEW x \in S, NEW y, y \notin S
  PROVE  Cardinality((S \ {x}) \cup {y}) = Cardinality(S)
<1>1. IsFiniteSet(S \ {x}) /\ Cardinality(S \ {x}) = Cardinality(S) - 1
  BY FS_RemoveElement
<1>2. Cardinality((S \ {x}) \cup {y}) = Cardinality(S \ {x}) + 1
  BY <1>1, FS_AddElement
<1> QED BY <1>1, <1>2, FS_CardinalityType

-----------------------------------------------------------------------------
(* What a step of t leaves to the other threads *)

\* Another thread stays where it is, and with its block.
LEMMA Others ==
  ASSUME ControlInv, NEW t \in Threads, Frame(t), NEW u \in Threads \ {t}
  PROVE  /\ pc'[u] = pc[u] /\ task'[u] = task[u]
         /\ InSection(u)' <=> InSection(u)
         /\ Dying(u)' <=> Dying(u)
         /\ Busy(u)' <=> Busy(u)
         /\ InSection(u) => Busy(u)
         /\ Dying(u) => Busy(u)
         /\ Busy(u) => Counted(u)' = Counted(u) /\ StreamOf(u)' = StreamOf(u)
<1>1. pc'[u] = pc[u] /\ task'[u] = task[u]
  BY DEF Frame, OthersStay
<1>2. Busy(u) => handle'[task[u].dst] = handle[task[u].dst]
  BY DEF Frame, ControlInv, TaskInv, TaskFits
<1> QED BY <1>1, <1>2 DEF InSection, Dying, Busy, Counted, StreamOf

\* What the other threads' handles own stays.
LEMMA OtherOwners ==
  ASSUME ControlInv, NEW t \in Threads, Frame(t), NEW h \in Handles, OwnerOf[h] # t,
         NEW b
  PROVE  h \in Owners(b)' <=> h \in Owners(b)
BY ConstantsAssumption DEF Frame, OthersStay, Owners, Uncounted

\* The source of a running copy is counted.
LEMMA SourceCounted ==
  ASSUME ControlInv, NEW t \in Threads, Busy(t), task[t].op \in {"copy", "assign"}
  PROVE  ~Uncounted(task[t].src)
<1>1. TaskFits(t)
  BY DEF ControlInv, TaskInv
<1>2. CASE OwnerOf[task[t].src] = t
  BY <1>1, <1>2 DEF Uncounted, TaskFits
<1>3. CASE OwnerOf[task[t].src] # t
  <2> DEFINE u == OwnerOf[task[t].src]
  <2>1. u \in Threads \ {t}
    BY <1>1, <1>3, ConstantsAssumption DEF TaskFits
  <2>2. Busy(u) => task[u].dst # task[t].src
    BY <2>1 DEF ControlInv, ExclusionInv
  <2> QED BY <2>2 DEF Uncounted, Busy
<1> QED BY <1>2, <1>3

\* A handle that is not at the end of an operation holds a live block.
LEMMA HeldLive ==
  ASSUME ControlInv, NoUseAfterFree, NEW h \in Handles, handle[h].cb # None,
         ~(task[OwnerOf[h]].dst = h /\ pc[OwnerOf[h]] = "finish")
  PROVE  mem[handle[h].cb] = "live"
<1>1. CASE ~Uncounted(h)
  BY <1>1 DEF NoUseAfterFree
<1>2. CASE Uncounted(h)
  <2>1. /\ OwnerOf[h] \in Threads
        /\ task[OwnerOf[h]].dst = h
        /\ pc[OwnerOf[h]] \in {"count", "read", "write", "unlock", "clean"}
    BY <1>2, ConstantsAssumption DEF Uncounted
  <2> QED BY <2>1 DEF NoUseAfterFree, Counted
<1> QED BY <1>1, <1>2

\* A thread whose count is still to take effect finds an owner of its block.
LEMMA CountedHasOwner ==
  ASSUME ControlInv, NEW t \in Threads, pc[t] \in {"count", "read", "write"}
  PROVE  /\ Owners(Counted(t)) # {}
         /\ task[t].dir = -1 => task[t].dst \in Owners(Counted(t))
         /\ task[t].dir = 1 => task[t].dst \notin Owners(Counted(t))
<1>1. TaskFits(t) /\ Busy(t)
  BY DEF ControlInv, TaskInv, Busy
<1>2. task[t].dir \in {1, -1}
  BY DEF ControlInv, TypeOK, TaskType
<1>3. CASE task[t].dir = -1
  BY <1>1, <1>3 DEF TaskFits, Owners, Counted, Uncounted
<1>4. CASE task[t].dir = 1
  <2>1. task[t].src \in Owners(Counted(t))
    BY <1>1, <1>4, SourceCounted DEF TaskFits, ControlInv, AcquireInv, Owners, Counted
  <2>2. task[t].dst \notin Owners(Counted(t))
    BY <1>1, <1>4 DEF TaskFits, Owners, Uncounted
  <2> QED BY <1>4, <2>1, <2>2
<1> QED BY <1>2, <1>3, <1>4

\* Nobody but the one who frees it is left with a block without owners.
LEMMA DyingAlone ==
  ASSUME ControlInv, HeapInv, NEW t \in Threads, Dying(t), NEW u \in Threads \ {t},
         pc[u] \in {"count", "read", "write", "unlock", "clean"}
  PROVE  Counted(u) # Counted(t)
<1>1. Owners(Counted(t)) = {} /\ (Dying(u) => Counted(u) # Counted(t))
  BY DEF HeapInv, DyingInv
<1>2. CASE pc[u] \in {"count", "read", "write"}
  BY <1>1, <1>2, CountedHasOwner
<1>3. CASE pc[u] = "clean"
  <2>1. task[u].dir = -1
    BY <1>3 DEF ControlInv, TypeOK, TaskType, TaskInv, TaskFits, Busy
  <2> QED BY <1>1, <1>3, <2>1 DEF Dying
<1>4. CASE pc[u] = "unlock"
  <2>1. Cardinality(Owners(Counted(u))) = task[u].seen + task[u].dir
    BY <1>4 DEF HeapInv, SectionInv
  <2>2. task[u].dir \in {1, -1} /\ task[u].seen \in Int
    BY DEF ControlInv, TypeOK, TaskType
  <2>3. CASE task[u].dir = -1
    <3>1. CASE task[u].seen = 1
      BY <1>1, <1>4, <2>3, <3>1 DEF Dying
    <3>2. CASE task[u].seen # 1
      <4>1. Cardinality(Owners(Counted(u))) # 0
        BY <2>1, <2>2, <2>3, <3>2
      <4> QED BY <1>1, <4>1, NoOwners
    <3> QED BY <3>1, <3>2
  <2>4. CASE task[u].dir = 1
    <3>1. task[u].dst \in Owners(Counted(u))
      BY <1>4, <2>4 DEF ControlInv, TaskInv, TaskFits, Busy, Owners, Counted, Uncounted
    <3> QED BY <1>1, <3>1
  <2> QED BY <2>2, <2>3, <2>4
<1> QED BY <1>2, <1>3, <1>4

\* DeviceInv concerns the thread that steps only.
LEMMA DeviceKeeps ==
  ASSUME ControlInv, DeviceInv, NoUseAfterFree, NEW t \in Threads, Frame(t),
         \A b \in Blocks : mem[b] = "live" => exec'[b] = exec[b],
         t \in Device => DeviceFits(t)'
  PROVE  DeviceInv'
<1> SUFFICES ASSUME NEW u \in Device, u # t PROVE DeviceFits(u)'
  BY DEF DeviceInv
<1>1. u \in Threads \ {t} /\ DeviceFits(u)
  BY ConstantsAssumption DEF DeviceInv
<1>2. pc'[u] = pc[u] /\ task'[u] = task[u]
  BY <1>1, Others
<1>3. ASSUME NEW h \in Handles, OwnerOf[h] = u, handle'[h].cb # None,
             ~(task'[u].dst = h /\ pc'[u] = "finish")
      PROVE  Addressable(u, handle[h].cb)' 
  <2>1. handle'[h] = handle[h]
    BY <1>3 DEF Frame
  <2>2. mem[handle[h].cb] = "live" /\ handle[h].cb \in Blocks
    BY <1>2, <1>3, <2>1, HeldLive DEF ControlInv, TypeOK, HandleType
  <2> QED BY <1>1, <1>2, <1>3, <2>1, <2>2 DEF DeviceFits, Addressable, Ctx
<1>4. ASSUME task'[u].op \in {"copy", "assign"}, handle'[task'[u].src].cb # None
      PROVE  Addressable(u, handle[task[u].src].cb)'
  <2>1. Busy(u) /\ task[u].op \in {"copy", "assign"} /\ task[u].src \in Handles
    BY <1>1, <1>2, <1>4 DEF ControlInv, TaskInv, TaskFits
  <2>2. handle'[task[u].src] = handle[task[u].src]
    BY <1>1, <2>1 DEF Frame
  <2>3. mem[handle[task[u].src].cb] = "live" /\ handle[task[u].src].cb \in Blocks
    BY <1>1, <1>2, <1>4, <2>1, <2>2, SourceCounted
    DEF NoUseAfterFree, ControlInv, TypeOK, HandleType
  <2> QED BY <1>1, <1>2, <1>4, <2>1, <2>2, <2>3 DEF DeviceFits, Addressable, Ctx
<1> QED BY <1>1, <1>2, <1>3, <1>4 DEF DeviceFits

-----------------------------------------------------------------------------
(* Steps outside of a counter update *)

\* A block whose counter is about to be changed has an owner.
LEMMA CountedHaveOwners ==
  ControlInv => \A t \in Threads : pc[t] \in {"count", "read", "write"} =>
                  Counted(t) \in Blocks /\ Owners(Counted(t)) # {}
BY CountedHasOwner, Registers DEF Busy

\* The same after a step.
LEMMA CountedHaveOwnersPrime ==
  (ControlInv => \A t \in Threads : pc[t] \in {"count", "read", "write"} =>
                   Counted(t) \in Blocks /\ Owners(Counted(t)) # {})'
BY CountedHaveOwners, PTL

\* The steps of t outside a critical section and outside a release that has
\* brought the count to zero: the blocks that exist stay as they are, with as
\* many owners as before, and at most new ones come, each with one owner.
HeapStays(t) ==
  /\ UNCHANGED locked
  /\ \A b \in Blocks : mem[b] = "live" =>
       /\ mem'[b] = "live" /\ exec'[b] = exec[b] /\ count'[b] = count[b]
       /\ \A s \in Streams : flying'[s][b] = flying[s][b]
       /\ Cardinality(Owners(b)') = Cardinality(Owners(b))
  /\ \A b \in Blocks : mem[b] # "live" =>
       IF mem'[b] = "live"
       THEN /\ Cardinality(Owners(b)') = 1
            /\ IF Flying(b)'
               THEN exec'[b] = "gpu" /\ \A s \in Streams : flying'[s][b] \in {None, 1}
               ELSE count'[b] = 1
       ELSE Owners(b)' = {} /\ ~Flying(b)'
  /\ \A u \in Threads \ {t} : task[u].op \in {"reset", "transfer"} =>
       mem'[task[u].fresh] = "new"
  /\ \A b \in Blocks : mem'[b] = "new" =>
       \/ \E u \in Threads \ {t} : task[u].op \in {"reset", "transfer"} /\ task[u].fresh = b
       \/ task'[t].op \in {"reset", "transfer"} /\ task'[t].fresh = b
  /\ task'[t].op \in {"reset", "transfer"} =>
       /\ task'[t].fresh \in Blocks /\ mem'[task'[t].fresh] = "new"
       /\ \A u \in Threads \ {t} :
            task[u].op \in {"reset", "transfer"} => task[u].fresh # task'[t].fresh

\* A step that leaves the heap alone in this sense keeps HeapInv.
LEMMA HeapKeeps ==
  ASSUME ControlInv, ControlInv', HeapInv, NEW t \in Threads, Frame(t), HeapStays(t),
         ~InSection(t)', ~Dying(t), pc'[t] # "clean",
         t \in Device => DeviceFits(t)'
  PROVE  HeapInv'
<1> USE DEF HeapInv
<1>1. DeviceInv'
  BY DeviceKeeps DEF HeapStays
<1>2. FreshInv'
  BY Others DEF FreshInv, HeapStays
<1>3. ~Dying(t)'
  BY DEF Dying, InSection
<1>4. ASSUME NEW u \in Threads \ {t}, Busy(u)
      PROVE  Counted(u)' = Counted(u) /\ (pc[u] # "finish" => Counted(u) \in Blocks)
  BY <1>4, Others, Registers
<1>5. ASSUME NEW b \in Blocks, mem[b] = "live" PROVE Flying(b)' <=> Flying(b)
  BY <1>5 DEF Flying, HeapStays
<1>6. NoUseAfterFree'
  <2>1. ASSUME NEW h \in Handles, handle'[h].cb # None, ~Uncounted(h)'
        PROVE  mem'[handle'[h].cb] = "live"
    <3>1. PICK b \in Blocks : b = handle'[h].cb
      BY <2>1 DEF ControlInv, TypeOK, HandleType
    <3>2. h \in Owners(b)'
      BY <2>1, <3>1 DEF Owners
    <3> QED BY <3>1, <3>2 DEF HeapStays
  <2>2. ASSUME NEW u \in Threads \ {t},
               pc'[u] \in {"count", "read", "write", "unlock", "clean"}
        PROVE  mem'[Counted(u)'] = "live"
    <3>1. Busy(u) /\ pc[u] = pc'[u] /\ Counted(u)' = Counted(u) /\ Counted(u) \in Blocks
      BY <1>4, <2>2, Others DEF Busy
    <3> QED BY <2>2, <3>1 DEF NoUseAfterFree, HeapStays
  <2>3. ASSUME pc'[t] \in {"count", "read", "write", "unlock", "clean"}
        PROVE  mem'[Counted(t)'] = "live"
    <3>1. pc'[t] = "count"
      BY <2>3 DEF InSection
    <3>2. Counted(t)' \in Blocks /\ Owners(Counted(t))' # {}
      BY <3>1, CountedHaveOwnersPrime
    <3> QED BY <3>2 DEF HeapStays
  <2> QED BY <2>1, <2>2, <2>3 DEF NoUseAfterFree
<1>7. FlyingInv'
  BY <1>5 DEF FlyingInv, HeapStays
<1>8. CountMatchesOwners'
  <2> SUFFICES ASSUME NEW b \in Blocks, mem'[b] = "live"
               PROVE  IF Flying(b)'
                      THEN \A s \in Streams : flying'[s][b] \in {None, Cardinality(Owners(b)')}
                      ELSE count'[b] = Cardinality(Owners(b)')
    BY DEF CountMatchesOwners
  <2>1. CASE mem[b] = "live"
    BY <1>5, <2>1 DEF CountMatchesOwners, HeapStays
  <2>2. CASE mem[b] # "live"
    BY <2>2 DEF HeapStays
  <2> QED BY <2>1, <2>2
<1>9. SectionInv'
  <2>1. ASSUME NEW u \in Threads, InSection(u)'
        PROVE  /\ u # t /\ InSection(u) /\ pc'[u] = pc[u] /\ task'[u] = task[u]
               /\ Counted(u)' = Counted(u) /\ Counted(u) \in Blocks
               /\ mem[Counted(u)] = "live"
    BY <1>4, <2>1, Others DEF InSection, NoUseAfterFree
  <2>2. ASSUME NEW u \in Threads, InSection(u)'
        PROVE  /\ u \notin Device
               /\ exec'[Counted(u)'] = "gpu"
               /\ LockOf[Counted(u)'] \in locked'
               /\ \A v \in Threads \ {u} : InSection(v)' =>
                    LockOf[Counted(v)'] # LockOf[Counted(u)']
    BY <2>1, <2>2 DEF SectionInv, HeapStays
  <2>3. ASSUME NEW u \in Threads, pc'[u] = "write"
        PROVE  ~Flying(Counted(u))' /\ task'[u].seen = count'[Counted(u)']
    <3>1. InSection(u)' BY <2>3 DEF InSection
    <3> QED BY <1>5, <2>1, <2>3, <3>1 DEF SectionInv, HeapStays
  <2>4. ASSUME NEW u \in Threads, pc'[u] = "unlock"
        PROVE  Cardinality(Owners(Counted(u))') = task'[u].seen + task'[u].dir
    <3>1. InSection(u)' BY <2>4 DEF InSection
    <3>2. PICK b \in Blocks : b = Counted(u)
      BY <2>1, <3>1
    <3>3. Owners(Counted(u))' = Owners(b)' /\ Owners(Counted(u)) = Owners(b)
      BY <2>1, <3>1, <3>2 DEF Owners
    <3> QED BY <2>1, <2>4, <3>1, <3>2, <3>3 DEF SectionInv, HeapStays
  <2> QED BY <2>2, <2>3, <2>4 DEF SectionInv
<1>10. DyingInv'
  <2> SUFFICES ASSUME NEW u \in Threads, Dying(u)'
               PROVE  /\ Owners(Counted(u))' = {}
                      /\ \A v \in Threads \ {u} : Dying(v)' => Counted(v)' # Counted(u)'
    BY DEF DyingInv
  <2>1. u # t /\ Dying(u) /\ Busy(u) /\ Counted(u)' = Counted(u)
    BY <1>3, <1>4, Others
  <2>2. Counted(u) \in Blocks /\ mem[Counted(u)] = "live"
    BY <1>4, <2>1 DEF Dying, NoUseAfterFree
  <2>3. PICK b \in Blocks : b = Counted(u)
    BY <2>2
  <2>4. Owners(Counted(u))' = Owners(b)' /\ Owners(Counted(u)) = Owners(b)
    BY <2>1, <2>3 DEF Owners
  <2>5. Owners(Counted(u))' = {}
    BY <2>1, <2>2, <2>3, <2>4, NoOwners, NoOwnersPrime DEF DyingInv, HeapStays
  <2>6. ASSUME NEW v \in Threads \ {u}, Dying(v)' PROVE Counted(v)' # Counted(u)'
    BY <1>3, <1>4, <2>1, <2>6, Others DEF DyingInv
  <2> QED BY <2>5, <2>6
<1>11. NoOrphan'
  <2>1. ASSUME NEW b \in Blocks, mem'[b] = "live", Owners(b)' = {}
        PROVE  \E u \in Threads :
                 /\ Dying(u)' /\ Counted(u)' = b
                 /\ \A v \in Threads \ {u} : Dying(v)' => Counted(v)' # b
    <3>1. Cardinality(Owners(b)') = 0
      BY <2>1, NoOwnersPrime
    <3>2. mem[b] = "live" /\ Owners(b) = {}
      <4>1. mem[b] = "live" /\ Cardinality(Owners(b)') = Cardinality(Owners(b))
        <5>1. CASE mem[b] # "live"
          <6>1. Cardinality(Owners(b)') = 1
            BY <2>1, <5>1 DEF HeapStays
          <6> QED BY <3>1, <6>1
        <5>2. CASE mem[b] = "live"
          BY <5>2 DEF HeapStays
        <5> QED BY <5>1, <5>2
      <4> QED BY <3>1, <4>1, NoOwners
    <3>3. PICK u \in Threads : Dying(u) /\ Counted(u) = b
      BY <3>2 DEF NoOrphan
    <3>4. u # t /\ Dying(u)' /\ Counted(u)' = b
      BY <1>4, <3>3, Others
    <3> QED BY <1>10, <3>4 DEF DyingInv
  <2>2. ASSUME NEW b \in Blocks, mem'[b] = "new"
        PROVE  \E u \in Threads : task'[u].op \in {"reset", "transfer"} /\ task'[u].fresh = b
    BY <2>2, Others DEF HeapStays
  <2> QED BY <2>1, <2>2 DEF NoOrphan
<1> QED BY <1>1, <1>2, <1>6, <1>7, <1>8, <1>9, <1>10, <1>11

\* Owners change with the handles of the thread that steps.
LEMMA SameOwners ==
  ASSUME ControlInv, NEW t \in Threads, Frame(t),
         \A h \in Handles, b \in Blocks : OwnerOf[h] = t =>
           (handle'[h].cb = b /\ ~Uncounted(h)' <=> handle[h].cb = b /\ ~Uncounted(h))
  PROVE  \A b \in Blocks : Owners(b)' = Owners(b)
<1> SUFFICES ASSUME NEW b \in Blocks, NEW h \in Handles
             PROVE  h \in Owners(b)' <=> h \in Owners(b)
  BY DEF Owners
<1>1. CASE OwnerOf[h] # t
  BY <1>1, OtherOwners
<1>2. CASE OwnerOf[h] = t
  BY <1>2 DEF Owners
<1> QED BY <1>1, <1>2

\* Only an existing block has owners.
LEMMA NotLiveNoOwners ==
  ASSUME NoUseAfterFree, NEW b \in Blocks, mem[b] # "live"
  PROVE  Owners(b) = {}
BY ConstantsAssumption DEF NoUseAfterFree, Owners

\* A step that allocates nothing and moves owners at most.
LEMMA QuietStays ==
  ASSUME ControlInv, HeapInv, NEW t \in Threads, Frame(t), SameHeap,
         \A b \in Blocks : Cardinality(Owners(b)') = Cardinality(Owners(b)),
         task[t].op \notin {"reset", "transfer"}, task'[t].op \notin {"reset", "transfer"}
  PROVE  HeapStays(t)
<1> USE DEF HeapInv
<1>1. ASSUME NEW b \in Blocks, mem[b] # "live" PROVE mem'[b] # "live" /\ Owners(b)' = {} /\ ~Flying(b)'
  <2>1. Owners(b) = {}
    BY <1>1, NotLiveNoOwners
  <2>2. Owners(b)' = {}
    BY <2>1, NoOwners, NoOwnersPrime
  <2> QED BY <1>1, <2>2 DEF SameHeap, FlyingInv, Flying
<1>2. \A u \in Threads \ {t} : task[u].op \in {"reset", "transfer"} => mem'[task[u].fresh] = "new"
  BY DEF FreshInv, SameHeap
<1>3. ASSUME NEW b \in Blocks, mem'[b] = "new"
      PROVE  \E u \in Threads \ {t} : task[u].op \in {"reset", "transfer"} /\ task[u].fresh = b
  BY <1>3 DEF NoOrphan, SameHeap
<1> QED BY <1>1, <1>2, <1>3 DEF HeapStays, SameHeap

\* t is at the start of an operation.
LEMMA AtStart ==
  ASSUME ControlInv, NEW t \in Threads, pc[t] = "idle"
  PROVE  /\ \A h \in Handles : OwnerOf[h] = t => ~Uncounted(h)
         /\ ~InSection(t) /\ ~Dying(t) /\ task[t].op = "none"
BY DEF ControlInv, TaskInv, Busy, Uncounted, InSection, Dying

-----------------------------------------------------------------------------
(* Operations that start *)

\* The operations of a handle, one lemma per action: the new copy is not an
\* owner yet.
LEMMA CopyConstructHeap ==
  ASSUME ControlInv, HeapInv, NEW t \in Threads, NEW d \in Handles, NEW s \in Handles,
         CopyConstruct(t, d, s)
  PROVE  HeapInv'
<1> USE DEF HeapInv
<1>1. ControlInv' /\ Frame(t)
  BY CopyConstructControl
<1>2. /\ pc[t] = "idle" /\ SameHeap /\ MayCopy(t, d, s)
      /\ handle[d].cb = None /\ handle' = [handle EXCEPT ![d] = handle[s]]
      /\ BeginAcquire(t, "copy", d, s)
  BY DEF CopyConstruct, Start
<1>3. pc'[t] = "count" /\ task'[t] = Task("copy", d, s, 1, None, "host")
  BY <1>2, AcquireEffect DEF ControlInv
<1>4. /\ handle'[d] = handle[s] /\ \A h \in Handles : h # d => handle'[h] = handle[h]
  BY <1>2 DEF ControlInv, TypeOK
<1>5. \A b \in Blocks : Owners(b)' = Owners(b)
  BY <1>1, <1>2, <1>3, <1>4, AtStart, SameOwners, ConstantsAssumption DEF Uncounted, Task
<1>6. HeapStays(t)
  BY <1>1, <1>2, <1>3, <1>5, AtStart, QuietStays DEF Task
<1>7. ASSUME t \in Device PROVE DeviceFits(t)'
  <2>1. DeviceFits(t) /\ exec' = exec /\ d # s
    BY <1>2, <1>7 DEF DeviceInv, SameHeap, MayCopy
  <2> QED BY <1>2, <1>3, <1>4, <1>7, <2>1 DEF MayCopy, DeviceFits, Addressable, Task
<1> QED BY <1>1, <1>2, <1>3, <1>6, <1>7, AtStart, HeapKeeps DEF InSection

\* The operations that begin with the release of a handle and have not
\* allocated anything.
LEMMA BeginHeap ==
  ASSUME ControlInv, HeapInv, ControlInv', NEW t \in Threads, Frame(t),
         pc[t] = "idle", SameHeap, handle' = handle,
         NEW op \in {"assign", "moveAssign", "drop"},
         NEW h \in Handles, NEW s \in Handles, BeginRelease(t, op, h, s, None, "host"),
         t \in Device /\ op = "assign" /\ handle[s].cb # None =>
           Addressable(t, handle[s].cb)
  PROVE  HeapInv'
<1> USE DEF HeapInv
<1>1. /\ pc'[t] = (IF handle[h].cb = None THEN "finish" ELSE "count")
      /\ task'[t] = Task(op, h, s, -1, None, "host")
  BY ReleaseEffect DEF ControlInv, ExecTypes
<1>2. \A b \in Blocks : Owners(b)' = Owners(b)
  BY <1>1, AtStart, SameOwners, ConstantsAssumption DEF Uncounted, Task
<1>3. HeapStays(t)
  BY <1>1, <1>2, AtStart, QuietStays DEF Task
<1>4. ASSUME t \in Device PROVE DeviceFits(t)'
  <2>1. DeviceFits(t) /\ exec' = exec
    BY <1>4 DEF DeviceInv, SameHeap
  <2> QED BY <1>1, <1>4, <2>1 DEF DeviceFits, Addressable, Task
<1> QED BY <1>1, <1>3, <1>4, AtStart, HeapKeeps DEF InSection

\* Copy assignment starts with a release.
LEMMA CopyAssignHeap ==
  ASSUME ControlInv, HeapInv, NEW t \in Threads, NEW d \in Handles, NEW s \in Handles,
         CopyAssign(t, d, s)
  PROVE  HeapInv'
<1>1. /\ BeginRelease(t, "assign", d, s, None, "host") /\ handle' = handle
      /\ pc[t] = "idle" /\ SameHeap /\ MayCopy(t, d, s)
  BY DEF CopyAssign, Start
<1> QED BY <1>1, CopyAssignControl, BeginHeap DEF MayCopy

\* So does destruction.
LEMMA DropHeap ==
  ASSUME ControlInv, HeapInv, NEW t \in Threads, NEW h \in Handles, Drop(t, h)
  PROVE  HeapInv'
<1>1. /\ BeginRelease(t, "drop", h, h, None, "host") /\ handle' = handle
      /\ pc[t] = "idle" /\ SameHeap
  BY DEF Drop
<1> QED BY <1>1, DropControl, BeginHeap

\* An idle thread that changes no handle.
LEMMA NothingHeap ==
  ASSUME ControlInv, HeapInv, ControlInv', NEW t \in Threads, Frame(t),
         pc[t] = "idle", Stay, SameHeap,
         \A h \in Handles : handle'[h].cb = handle[h].cb
  PROVE  HeapInv'
<1> USE DEF HeapInv
<1>1. pc'[t] = pc[t] /\ task'[t] = task[t]
  BY DEF Stay
<1>2. \A b \in Blocks : Owners(b)' = Owners(b)
  BY <1>1, SameOwners, ConstantsAssumption DEF Uncounted
<1>3. HeapStays(t)
  BY <1>1, <1>2, AtStart, QuietStays
<1>4. ASSUME t \in Device PROVE DeviceFits(t)'
  <2>1. DeviceFits(t) /\ exec' = exec
    BY <1>4 DEF DeviceInv, SameHeap
  <2> QED BY <1>1, <1>4, <2>1, AtStart DEF DeviceFits, Addressable
<1> QED BY <1>1, <1>3, <1>4, AtStart, HeapKeeps DEF InSection

\* So does move assignment, unless an assert fires.
LEMMA MoveAssignHeap ==
  ASSUME ControlInv, HeapInv, NEW t \in Threads, NEW d \in Handles, NEW s \in Handles,
         MoveAssign(t, d, s)
  PROVE  HeapInv'
<1>1. ControlInv' /\ Frame(t) /\ pc[t] = "idle" /\ SameHeap
  BY MoveAssignControl DEF MoveAssign, Start
<1>2. CASE Writable(t, s)
  <2>1. BeginRelease(t, "moveAssign", d, s, None, "host") /\ handle' = handle
    BY <1>2 DEF MoveAssign
  <2> QED BY <1>1, <2>1, BeginHeap
<1>3. CASE ~Writable(t, s)
  <2>1. Stay /\ handle' = handle
    BY <1>3 DEF MoveAssign, Abort
  <2> QED BY <1>1, <2>1, NothingHeap
<1> QED BY <1>2, <1>3

\* Another stream for the same block.
LEMMA RestreamHeap ==
  ASSUME ControlInv, HeapInv, NEW t \in Threads, NEW h \in Handles, NEW s \in Streams,
         Restream(t, h, s)
  PROVE  HeapInv'
<1>1. ControlInv' /\ Frame(t) /\ pc[t] = "idle" /\ SameHeap /\ Stay
  BY RestreamControl DEF Restream, Start
<1>2. \A g \in Handles : handle'[g].cb = handle[g].cb
  BY DEF Restream, ControlInv, TypeOK, HandleType
<1> QED BY <1>1, <1>2, NothingHeap

\* An owner's place is taken by another handle of the same thread.
LEMMA MovedOwners ==
  ASSUME NEW b, NEW x \in Handles, NEW y \in Handles,
         x \in Owners(b), y \notin Owners(b), x \notin Owners(b)', y \in Owners(b)',
         \A h \in Handles \ {x, y} : h \in Owners(b)' <=> h \in Owners(b)
  PROVE  Cardinality(Owners(b)') = Cardinality(Owners(b))
<1>1. Owners(b)' = (Owners(b) \ {x}) \cup {y}
  BY DEF Owners
<1> QED BY <1>1, Exchange, OwnersFinite

\* A moved block has the new handle for an owner instead of the old one.
LEMMA MoveConstructHeap ==
  ASSUME ControlInv, HeapInv, NEW t \in Threads, NEW d \in Handles, NEW s \in Handles,
         MoveConstruct(t, d, s)
  PROVE  HeapInv'
<1> USE DEF HeapInv
<1>1. ControlInv' /\ Frame(t) /\ pc[t] = "idle" /\ SameHeap /\ Stay
  BY MoveConstructControl DEF MoveConstruct, Start
<1>2. /\ d # s /\ OwnerOf[d] = t /\ OwnerOf[s] = t
      /\ handle[d].cb = None /\ handle[s].cb # None
  BY DEF MoveConstruct, MayModify
<1>3. CASE ~Writable(t, s)
  BY <1>1, <1>3, NothingHeap DEF MoveConstruct, Abort
<1>4. CASE Writable(t, s)
  <2>1. /\ handle'[d] = handle[s] /\ handle'[s].cb = None
        /\ \A h \in Handles \ {d, s} : handle'[h] = handle[h]
    BY <1>2, <1>4 DEF MoveConstruct, ControlInv, TypeOK, Empty
  <2>2. \A h \in Handles : OwnerOf[h] = t => ~Uncounted(h) /\ ~Uncounted(h)'
    BY <1>1, AtStart DEF Stay, Uncounted
  <2>3. \A b \in Blocks, h \in Handles \ {d, s} : h \in Owners(b)' <=> h \in Owners(b)
    <3> SUFFICES ASSUME NEW b \in Blocks, NEW h \in Handles \ {d, s}
                 PROVE  h \in Owners(b)' <=> h \in Owners(b)
      OBVIOUS
    <3>1. CASE OwnerOf[h] # t
      BY <1>1, <3>1, OtherOwners
    <3>2. CASE OwnerOf[h] = t
      BY <2>1, <2>2, <3>2 DEF Owners
    <3> QED BY <3>1, <3>2
  <2>4. ASSUME NEW b \in Blocks PROVE Cardinality(Owners(b)') = Cardinality(Owners(b))
    <3>1. CASE handle[s].cb = b
      <4>1. s \in Owners(b) /\ d \notin Owners(b) /\ s \notin Owners(b)' /\ d \in Owners(b)'
        BY <1>2, <2>1, <2>2, <3>1, ConstantsAssumption DEF Owners
      <4> QED BY <2>3, <4>1, MovedOwners
    <3>2. CASE handle[s].cb # b
      <4>1. s \notin Owners(b) /\ d \notin Owners(b) /\ s \notin Owners(b)' /\ d \notin Owners(b)'
        BY <1>2, <2>1, <3>2, ConstantsAssumption DEF Owners
      <4>2. Owners(b)' = Owners(b)
        BY <2>3, <4>1 DEF Owners
      <4> QED BY <4>2
    <3> QED BY <3>1, <3>2
  <2>5. HeapStays(t)
    BY <1>1, <2>4, AtStart, QuietStays DEF Stay
  <2>6. ASSUME t \in Device PROVE DeviceFits(t)'
    <3>1. DeviceFits(t) /\ exec' = exec /\ task'[t].op = "none" /\ task[t].op = "none"
          /\ pc'[t] = "idle"
      BY <1>1, <2>6, AtStart DEF DeviceInv, SameHeap, Stay
    <3> QED BY <1>1, <1>2, <2>1, <2>6, <3>1 DEF DeviceFits, Addressable
  <2> QED BY <1>1, <2>5, <2>6, AtStart, HeapKeeps DEF Stay, InSection
<1> QED BY <1>3, <1>4

\* A swap exchanges the owners of two blocks.
LEMMA SwapHeap ==
  ASSUME ControlInv, HeapInv, NEW t \in Threads, NEW g \in Handles, NEW h \in Handles,
         Swap(t, g, h)
  PROVE  HeapInv'
<1> USE DEF HeapInv
<1>1. ControlInv' /\ Frame(t) /\ pc[t] = "idle" /\ SameHeap /\ Stay
  BY SwapControl DEF Swap, Start
<1>2. g # h /\ OwnerOf[g] = t /\ OwnerOf[h] = t
  BY DEF Swap, MayModify
<1>3. CASE handle' = handle
  BY <1>1, <1>3, NothingHeap
<1>4. CASE handle' = [handle EXCEPT ![g] = handle[h], ![h] = handle[g]]
  <2>1. /\ handle'[g] = handle[h] /\ handle'[h] = handle[g]
        /\ \A k \in Handles \ {g, h} : handle'[k] = handle[k]
    BY <1>2, <1>4 DEF ControlInv, TypeOK
  <2>2. \A k \in Handles : OwnerOf[k] = t => ~Uncounted(k) /\ ~Uncounted(k)'
    BY <1>1, AtStart DEF Stay, Uncounted
  <2>3. \A b \in Blocks, k \in Handles \ {g, h} : k \in Owners(b)' <=> k \in Owners(b)
    <3> SUFFICES ASSUME NEW b \in Blocks, NEW k \in Handles \ {g, h}
                 PROVE  k \in Owners(b)' <=> k \in Owners(b)
      OBVIOUS
    <3>1. CASE OwnerOf[k] # t
      BY <1>1, <3>1, OtherOwners
    <3>2. CASE OwnerOf[k] = t
      BY <2>1, <2>2, <3>2 DEF Owners
    <3> QED BY <3>1, <3>2
  <2>4. ASSUME NEW b \in Blocks PROVE Cardinality(Owners(b)') = Cardinality(Owners(b))
    <3>1. /\ g \in Owners(b) <=> handle[g].cb = b
          /\ h \in Owners(b) <=> handle[h].cb = b
          /\ g \in Owners(b)' <=> handle[h].cb = b
          /\ h \in Owners(b)' <=> handle[g].cb = b
      BY <1>2, <2>1, <2>2 DEF Owners
    <3>2. CASE handle[g].cb = b /\ handle[h].cb # b
      BY <2>3, <3>1, <3>2, MovedOwners
    <3>3. CASE handle[g].cb # b /\ handle[h].cb = b
      BY <2>3, <3>1, <3>3, MovedOwners
    <3>4. CASE handle[g].cb = b <=> handle[h].cb = b
      <4>1. Owners(b)' = Owners(b)
        BY <2>3, <3>1, <3>4 DEF Owners
      <4> QED BY <4>1
    <3> QED BY <3>2, <3>3, <3>4
  <2>5. HeapStays(t)
    BY <1>1, <2>4, AtStart, QuietStays DEF Stay
  <2>6. ASSUME t \in Device PROVE DeviceFits(t)'
    <3>1. DeviceFits(t) /\ exec' = exec /\ task'[t].op = "none" /\ task[t].op = "none"
          /\ pc'[t] = "idle" /\ pc[t] = "idle"
      BY <1>1, <2>6, AtStart DEF DeviceInv, SameHeap, Stay
    <3> QED BY <1>1, <1>2, <2>1, <2>6, <3>1 DEF DeviceFits, Addressable
  <2> QED BY <1>1, <2>5, <2>6, AtStart, HeapKeeps DEF Stay, InSection
<1> QED BY <1>3, <1>4 DEF Swap, Abort

-----------------------------------------------------------------------------
(* Operations that end *)

\* t is at the end of an operation.
LEMMA AtFinish ==
  ASSUME ControlInv, NEW t \in Threads, pc[t] = "finish"
  PROVE  /\ Busy(t) /\ TaskFits(t) /\ task[t].dir = -1
         /\ Uncounted(task[t].dst)
         /\ \A h \in Handles \ {task[t].dst} : OwnerOf[h] = t => ~Uncounted(h)
         /\ ~InSection(t) /\ ~Dying(t)
<1>1. Busy(t) /\ TaskFits(t)
  BY DEF ControlInv, TaskInv, Busy
<1>2. task[t].dir = -1
  BY <1>1 DEF ControlInv, TypeOK, TaskType, TaskFits
<1> QED BY <1>1, <1>2 DEF TaskFits, Uncounted, InSection, Dying

\* A step after which t is idle.
LEMMA AtEnd ==
  ASSUME ControlInv, NEW t \in Threads, Idle(t)
  PROVE  /\ pc'[t] = "idle" /\ task'[t].op = "none"
         /\ ~InSection(t)'
         /\ \A h \in Handles : OwnerOf[h] = t => ~Uncounted(h)'
BY IdleEffect DEF ControlInv, NoTask, Task, InSection, Uncounted

\* The handle that was released is not an owner any more when it is emptied.
LEMMA FinishDropHeap ==
  ASSUME ControlInv, HeapInv, NEW t \in Threads, FinishDrop(t)
  PROVE  HeapInv'
<1> USE DEF HeapInv
<1>1. ControlInv' /\ Frame(t) /\ pc[t] = "finish" /\ task[t].op = "drop"
      /\ SameHeap /\ Idle(t)
  BY FinishDropControl DEF FinishDrop, Finishing
<1>2. /\ task[t].dst \in Handles /\ handle'[task[t].dst].cb = None
      /\ \A h \in Handles \ {task[t].dst} : handle'[h] = handle[h]
  BY <1>1, AtFinish DEF FinishDrop, ControlInv, TypeOK, TaskFits, Empty
<1>3. \A b \in Blocks : Owners(b)' = Owners(b)
  BY <1>1, <1>2, AtFinish, AtEnd, SameOwners, ConstantsAssumption
<1>4. HeapStays(t)
  BY <1>1, <1>3, AtEnd, QuietStays
<1>5. ASSUME t \in Device PROVE DeviceFits(t)'
  <2>1. DeviceFits(t) /\ exec' = exec
    BY <1>1, <1>5 DEF DeviceInv, SameHeap
  <2> QED BY <1>1, <1>2, <1>5, <2>1, AtEnd DEF DeviceFits, Addressable
<1> QED BY <1>1, <1>4, <1>5, AtFinish, AtEnd, HeapKeeps

\* Nor is the destination of an assignment, before or after it takes the
\* members of the source.
LEMMA FinishAssignHeap ==
  ASSUME ControlInv, HeapInv, NEW t \in Threads, FinishAssign(t)
  PROVE  HeapInv'
<1> USE DEF HeapInv
<1>1. ControlInv' /\ Frame(t) /\ pc[t] = "finish" /\ task[t].op = "assign" /\ SameHeap
  BY FinishAssignControl DEF FinishAssign, Finishing
<1>0. PICK d \in Handles, s \in Handles : d = task[t].dst /\ s = task[t].src
  BY <1>1, AtFinish DEF TaskFits
<1>2. /\ d = task[t].dst /\ s = task[t].src /\ d # s /\ OwnerOf[d] = t
      /\ handle'[d] = handle[s]
      /\ \A h \in Handles \ {d} : handle'[h] = handle[h]
  BY <1>0, <1>1, AtFinish DEF FinishAssign, ControlInv, TypeOK, TaskFits
<1>3. ASSUME t \in Device PROVE DeviceFits(t) /\ exec' = exec
  BY <1>1, <1>3 DEF DeviceInv, SameHeap
<1>4. CASE handle[s].cb = None
  <2>1. Idle(t)
    BY <1>2, <1>4 DEF FinishAssign
  <2>2. \A b \in Blocks : Owners(b)' = Owners(b)
    BY <1>1, <1>2, <1>4, <2>1, AtFinish, AtEnd, SameOwners, ConstantsAssumption
  <2>3. HeapStays(t)
    BY <1>1, <2>1, <2>2, AtEnd, QuietStays
  <2>4. t \in Device => DeviceFits(t)'
    BY <1>1, <1>2, <1>3, <1>4, <2>1, AtEnd DEF DeviceFits, Addressable
  <2> QED BY <1>1, <2>1, <2>3, <2>4, AtFinish, AtEnd, HeapKeeps
<1>5. CASE handle[s].cb # None
  <2>1. BeginAcquire(t, "assign", d, s)
    BY <1>2, <1>5 DEF FinishAssign
  <2>2. pc'[t] = "count" /\ task'[t] = Task("assign", d, s, 1, None, "host")
    BY <1>2, <2>1, AcquireEffect DEF ControlInv
  <2>3. Uncounted(d)' /\ \A h \in Handles \ {d} : OwnerOf[h] = t => ~Uncounted(h)'
    BY <1>2, <2>2 DEF Uncounted, Task
  <2>4. \A b \in Blocks : Owners(b)' = Owners(b)
    <3>1. \A h \in Handles, b \in Blocks : OwnerOf[h] = t =>
            (handle'[h].cb = b /\ ~Uncounted(h)' <=> handle[h].cb = b /\ ~Uncounted(h))
      BY <1>1, <1>2, <2>3, AtFinish
    <3> QED BY <1>1, <3>1, SameOwners
  <2>5. HeapStays(t)
    BY <1>1, <2>2, <2>4, QuietStays DEF Task
  <2>6. t \in Device => DeviceFits(t)'
    BY <1>1, <1>2, <1>3, <2>2 DEF DeviceFits, Addressable, Task
  <2> QED BY <1>1, <2>2, <2>5, <2>6, AtFinish, HeapKeeps DEF InSection
<1> QED BY <1>4, <1>5

\* The destination of a move becomes an owner in the place of the source.
LEMMA FinishMoveAssignHeap ==
  ASSUME ControlInv, HeapInv, NEW t \in Threads, FinishMoveAssign(t)
  PROVE  HeapInv'
<1> USE DEF HeapInv
<1> DEFINE d == task[t].dst
           s == task[t].src
<1>1. ControlInv' /\ Frame(t) /\ pc[t] = "finish" /\ task[t].op = "moveAssign"
      /\ SameHeap /\ Idle(t)
  BY FinishMoveAssignControl DEF FinishMoveAssign, Finishing
<1>2. /\ d \in Handles /\ s \in Handles /\ OwnerOf[d] = t /\ OwnerOf[s] = t
      /\ handle'[s].cb = None
      /\ d # s => handle'[d] = handle[s]
      /\ \A h \in Handles \ {d, s} : handle'[h] = handle[h]
  BY <1>1, AtFinish
  DEF FinishMoveAssign, ControlInv, TypeOK, TaskFits, ChangesSource, Empty
<1>3. \A b \in Blocks, h \in Handles \ {d, s} : h \in Owners(b)' <=> h \in Owners(b)
  <2> SUFFICES ASSUME NEW b \in Blocks, NEW h \in Handles \ {d, s}
               PROVE  h \in Owners(b)' <=> h \in Owners(b)
    OBVIOUS
  <2>1. CASE OwnerOf[h] # t
    BY <1>1, <2>1, OtherOwners
  <2>2. CASE OwnerOf[h] = t
    BY <1>1, <1>2, <2>2, AtFinish, AtEnd DEF Owners
  <2> QED BY <2>1, <2>2
<1>4. ASSUME NEW b \in Blocks PROVE Cardinality(Owners(b)') = Cardinality(Owners(b))
  <2>1. d \notin Owners(b) /\ s \notin Owners(b)'
    BY <1>1, <1>2, AtFinish, ConstantsAssumption DEF Owners
  <2>2. CASE d # s /\ handle[s].cb = b
    <3>1. s \in Owners(b) /\ d \in Owners(b)'
      BY <1>1, <1>2, <2>2, AtFinish, AtEnd DEF Owners
    <3> QED BY <1>2, <1>3, <2>1, <3>1, MovedOwners
  <2>3. CASE ~(d # s /\ handle[s].cb = b)
    <3>1. s \notin Owners(b) /\ d \notin Owners(b)'
      BY <1>2, <2>1, <2>3 DEF Owners
    <3>2. Owners(b)' = Owners(b)
      BY <1>3, <2>1, <3>1 DEF Owners
    <3> QED BY <3>2
  <2> QED BY <2>2, <2>3
<1>5. HeapStays(t)
  BY <1>1, <1>4, AtEnd, QuietStays
<1>6. ASSUME t \in Device PROVE DeviceFits(t)'
  <2>1. DeviceFits(t) /\ exec' = exec
    BY <1>1, <1>6 DEF DeviceInv, SameHeap
  <2> QED BY <1>1, <1>2, <1>6, <2>1, AtEnd DEF DeviceFits, Addressable
<1> QED BY <1>1, <1>5, <1>6, AtFinish, AtEnd, HeapKeeps

-----------------------------------------------------------------------------
(* New blocks *)

\* t makes h the owner of block b, which did not exist before.
LEMMA CreateStays ==
  ASSUME ControlInv, HeapInv, ControlInv', NEW t \in Threads, Frame(t),
         NEW h \in Handles, OwnerOf[h] = t, NEW b \in Blocks, NEW e \in ExecTypes,
         NEW s \in Streams, t \in Device => e = "gpu", handle'[h].cb = b,
         \A g \in Handles \ {h} : handle'[g] = handle[g],
         handle[h].cb = None \/ Uncounted(h),
         \A g \in Handles \ {h} : OwnerOf[g] = t => ~Uncounted(g),
         \A g \in Handles : OwnerOf[g] = t => ~Uncounted(g)',
         Initialise(t, b, e, s), task'[t].op = "none",
         \/ mem[b] = "free" /\ task[t].op \notin {"reset", "transfer"}
         \/ task[t].op \in {"reset", "transfer"} /\ task[t].fresh = b
  PROVE  HeapStays(t)
<1> USE DEF HeapInv
<1>1. mem[b] # "live"
  BY DEF FreshInv
<1>2. /\ mem'[b] = "live" /\ exec'[b] = e /\ locked' = locked
      /\ \A c \in Blocks \ {b} :
           /\ mem'[c] = mem[c] /\ exec'[c] = exec[c] /\ count'[c] = count[c]
           /\ \A r \in Streams : flying'[r][c] = flying[r][c]
  BY DEF Initialise, ControlInv, TypeOK
<1>12. IF Flying(b)'
       THEN e = "gpu" /\ \A r \in Streams : flying'[r][b] \in {None, 1}
       ELSE count'[b] = 1
  <2>1. \A r \in Streams : flying[r][b] = None
    BY <1>1 DEF FlyingInv, Flying
  <2>2. CASE e \in {Ctx(t), "unified"}
    BY <2>1, <2>2 DEF Initialise, Flying, ControlInv, TypeOK
  <2>3. CASE e \notin {Ctx(t), "unified"}
    <3>1. e = "gpu"
      BY <2>3 DEF ExecTypes, Ctx
    <3>2. flying' = [flying EXCEPT ![s][b] = 1]
      BY <2>3 DEF Initialise
    <3>3. \A r \in Streams : flying'[r][b] \in {None, 1}
      BY <2>1, <3>2 DEF ControlInv, TypeOK
    <3>4. flying'[s][b] # None
      BY <3>2, ConstantsAssumption DEF ControlInv, TypeOK
    <3> QED BY <3>1, <3>3, <3>4 DEF Flying
  <2> QED BY <2>2, <2>3
<1>3. \A c \in Blocks \ {b} : Owners(c)' = Owners(c)
  <2> SUFFICES ASSUME NEW c \in Blocks \ {b}, NEW g \in Handles
               PROVE  g \in Owners(c)' <=> g \in Owners(c)
    BY DEF Owners
  <2>1. CASE OwnerOf[g] # t
    BY <2>1, OtherOwners
  <2>2. CASE OwnerOf[g] = t
    BY <2>2, ConstantsAssumption DEF Owners
  <2> QED BY <2>1, <2>2
<1>4. Owners(b)' = {h}
  <2>1. Owners(b) = {}
    BY <1>1, NotLiveNoOwners
  <2>2. ASSUME NEW g \in Handles \ {h} PROVE g \notin Owners(b)'
    <3>1. CASE OwnerOf[g] # t
      BY <2>1, <3>1, OtherOwners
    <3>2. CASE OwnerOf[g] = t
      BY <2>1, <2>2, <3>2 DEF Owners
    <3> QED BY <3>1, <3>2
  <2> QED BY <2>2 DEF Owners
<1>5. Cardinality(Owners(b)') = 1
  <2>1. Cardinality({h}) = 1
    BY FS_Singleton
  <2> HIDE DEF Owners, HeapInv
  <2> QED BY <1>4, <2>1, Zenon
<1>6. \A u \in Threads \ {t} : task[u].op \in {"reset", "transfer"} =>
        task[u].fresh \in Blocks \ {b} /\ mem[task[u].fresh] = "new"
  BY DEF FreshInv
<1>7. ASSUME NEW c \in Blocks \ {b}, mem[c] = "new"
      PROVE  \E u \in Threads \ {t} : task[u].op \in {"reset", "transfer"} /\ task[u].fresh = c
  BY <1>7 DEF NoOrphan
<1>8. \A c \in Blocks : mem[c] # "live" /\ c # b =>
        mem'[c] # "live" /\ Owners(c)' = {} /\ ~Flying(c)'
  BY <1>2, <1>3, NotLiveNoOwners DEF FlyingInv, Flying
<1>9. \A c \in Blocks : mem[c] = "live" =>
        /\ mem'[c] = "live" /\ exec'[c] = exec[c] /\ count'[c] = count[c]
        /\ \A r \in Streams : flying'[r][c] = flying[r][c]
        /\ Cardinality(Owners(c)') = Cardinality(Owners(c))
  BY <1>1, <1>2, <1>3
<1>10. \A c \in Blocks : mem[c] # "live" =>
         IF mem'[c] = "live"
         THEN /\ Cardinality(Owners(c)') = 1
              /\ IF Flying(c)'
                 THEN exec'[c] = "gpu" /\ \A r \in Streams : flying'[r][c] \in {None, 1}
                 ELSE count'[c] = 1
         ELSE Owners(c)' = {} /\ ~Flying(c)'
  <2> SUFFICES ASSUME NEW c \in Blocks, mem[c] # "live"
               PROVE  IF mem'[c] = "live"
                      THEN /\ Cardinality(Owners(c)') = 1
                           /\ IF Flying(c)'
                              THEN exec'[c] = "gpu" /\ \A r \in Streams : flying'[r][c] \in {None, 1}
                              ELSE count'[c] = 1
                      ELSE Owners(c)' = {} /\ ~Flying(c)'
    OBVIOUS
  <2>1. CASE c = b
    BY <1>2, <1>5, <1>12, <2>1
  <2>2. CASE c # b
    BY <1>8, <2>2
  <2> QED BY <2>1, <2>2
<1>11. \A c \in Blocks : mem'[c] = "new" => c # b /\ mem[c] = "new"
  BY <1>2
<1> QED BY <1>2, <1>6, <1>7, <1>9, <1>10, <1>11 DEF HeapStays

\* The same for a thread that runs device code.
LEMMA CreateFits ==
  ASSUME ControlInv, HeapInv, ControlInv', NEW t \in Device, NEW h \in Handles,
         OwnerOf[h] = t, NEW b \in Blocks, mem[b] # "live", NEW s \in Streams,
         Initialise(t, b, "gpu", s),
         handle'[h].cb = b,
         \A g \in Handles \ {h} : handle'[g] = handle[g],
         ~(\E g \in Handles \ {h} : task[t].dst = g /\ pc[t] = "finish"),
         task'[t].op = "none"
  PROVE  DeviceFits(t)'
<1> USE DEF HeapInv
<1>1. DeviceFits(t) /\ t \in Threads
  BY ConstantsAssumption DEF DeviceInv
<1>2. exec'[b] = "gpu" /\ \A c \in Blocks \ {b} : exec'[c] = exec[c]
  BY DEF Initialise, ControlInv, TypeOK
<1>3. ASSUME NEW g \in Handles \ {h}, OwnerOf[g] = t, handle[g].cb # None
      PROVE  Addressable(t, handle[g].cb) /\ handle[g].cb \in Blocks \ {b}
  <2>1. ~(task[t].dst = g /\ pc[t] = "finish")
    OBVIOUS
  <2>2. mem[handle[g].cb] = "live"
    BY <1>3, <2>1, HeldLive
  <2> QED BY <1>1, <1>3, <2>1, <2>2 DEF DeviceFits, ControlInv, TypeOK, HandleType
<1> QED BY <1>2, <1>3 DEF DeviceFits, Addressable, Ctx

\* A new block has one owner.
LEMMA MakeHeap ==
  ASSUME ControlInv, HeapInv, NEW t \in Threads, NEW h \in Handles, Make(t, h)
  PROVE  HeapInv'
<1> USE DEF HeapInv
<1>1. ControlInv' /\ Frame(t)
  BY MakeControl
<1>2. PICK b \in Blocks, s \in Streams :
        /\ mem[b] = "free"
        /\ Initialise(t, b, Ctx(t), s)
        /\ handle' = [handle EXCEPT ![h] = [cb |-> b, stream |-> s, prog |-> Ctx(t)]]
  BY DEF Make
<1>3. /\ handle'[h].cb = b /\ \A g \in Handles \ {h} : handle'[g] = handle[g]
  BY <1>2 DEF ControlInv, TypeOK
<1>4. pc[t] = "idle" /\ Stay /\ OwnerOf[h] = t /\ handle[h].cb = None
  BY DEF Make, Start, MayModify
<1>5. /\ pc'[t] = "idle" /\ task'[t].op = "none" /\ ~InSection(t)' /\ ~Dying(t)
      /\ \A g \in Handles : OwnerOf[g] = t => ~Uncounted(g) /\ ~Uncounted(g)'
  BY <1>4, AtStart DEF Stay, InSection, Uncounted
<1>6. HeapStays(t)
  <2>1. Ctx(t) \in ExecTypes /\ (t \in Device => Ctx(t) = "gpu")
    BY CtxType DEF Ctx
  <2> QED BY <1>1, <1>2, <1>3, <1>4, <1>5, <2>1, AtStart, CreateStays
<1>7. ASSUME t \in Device PROVE DeviceFits(t)'
  BY <1>1, <1>2, <1>3, <1>4, <1>5, <1>7, CreateFits DEF Ctx
<1> QED BY <1>1, <1>5, <1>6, <1>7, HeapKeeps

\* So has the copy of a block.
LEMMA CloneHeap ==
  ASSUME ControlInv, HeapInv, NEW t \in Threads, NEW d \in Handles, NEW s \in Handles,
         NEW e \in ExecTypes, Clone(t, d, s, e)
  PROVE  HeapInv'
<1> USE DEF HeapInv
<1>1. ControlInv' /\ Frame(t)
  BY CloneControl
<1>2. PICK b \in Blocks :
        /\ mem[b] = "free"
        /\ Initialise(t, b, e, handle[s].stream)
        /\ handle' = [handle EXCEPT ![d] =
                        [cb |-> b, stream |-> handle[s].stream, prog |-> Ctx(t)]]
  BY DEF Clone
<1>3. /\ handle'[d].cb = b /\ \A g \in Handles \ {d} : handle'[g] = handle[g]
  BY <1>2 DEF ControlInv, TypeOK
<1>4. /\ pc[t] = "idle" /\ Stay /\ OwnerOf[d] = t /\ handle[d].cb = None
      /\ t \in Device => e = "gpu"
      /\ handle[s].stream \in Streams
  BY DEF Clone, Start, MayModify, ControlInv, TypeOK, HandleType
<1>5. /\ pc'[t] = "idle" /\ task'[t].op = "none" /\ ~InSection(t)' /\ ~Dying(t)
      /\ \A g \in Handles : OwnerOf[g] = t => ~Uncounted(g) /\ ~Uncounted(g)'
  BY <1>4, AtStart DEF Stay, InSection, Uncounted
<1>6. HeapStays(t)
  BY <1>1, <1>2, <1>3, <1>4, <1>5, AtStart, CreateStays
<1>7. ASSUME t \in Device PROVE DeviceFits(t)'
  BY <1>1, <1>2, <1>3, <1>4, <1>5, <1>7, CreateFits
<1> QED BY <1>1, <1>5, <1>6, <1>7, HeapKeeps

\* The end of a reset or a transfer: the storage allocated before is adopted.
LEMMA AdoptHeap ==
  ASSUME ControlInv, HeapInv, ControlInv', NEW t \in Threads, Frame(t),
         pc[t] = "finish", task[t].op \in {"reset", "transfer"},
         NEW st \in Streams, NEW pr,
         handle' = [handle EXCEPT ![task[t].dst] =
                      [cb |-> task[t].fresh, stream |-> st, prog |-> pr]],
         Initialise(t, task[t].fresh, task[t].to, st), Idle(t)
  PROVE  HeapInv'
<1> USE DEF HeapInv
<1>1. PICK h \in Handles : h = task[t].dst /\ OwnerOf[h] = t
  BY AtFinish DEF TaskFits
<1>2. PICK b \in Blocks : b = task[t].fresh /\ mem[b] = "new"
  BY DEF FreshInv
<1>3. /\ handle'[h].cb = b /\ \A g \in Handles \ {h} : handle'[g] = handle[g]
  BY <1>1, <1>2 DEF ControlInv, TypeOK
<1>4. /\ pc'[t] = "idle" /\ task'[t].op = "none" /\ ~InSection(t)' /\ ~Dying(t)
      /\ Uncounted(h)
      /\ \A g \in Handles \ {h} : OwnerOf[g] = t => ~Uncounted(g)
      /\ \A g \in Handles : OwnerOf[g] = t => ~Uncounted(g)'
  BY <1>1, AtFinish, AtEnd
<1>5. HeapStays(t)
  <2>1. task[t].to \in ExecTypes /\ (t \in Device => task[t].to = "gpu")
    BY DEF DeviceInv, DeviceFits, ControlInv, TypeOK, TaskType
  <2> QED BY <1>1, <1>2, <1>3, <1>4, <2>1, CreateStays
<1>6. ASSUME t \in Device PROVE DeviceFits(t)'
  <2>1. task[t].to = "gpu"
    BY <1>6 DEF DeviceInv, DeviceFits
  <2> QED BY <1>1, <1>2, <1>3, <1>4, <1>6, <2>1, CreateFits
<1> QED BY <1>4, <1>5, <1>6, HeapKeeps

\* reset() adopts new storage.
LEMMA FinishResetHeap ==
  ASSUME ControlInv, HeapInv, NEW t \in Threads, FinishReset(t)
  PROVE  HeapInv'
<1>1. ControlInv' /\ Frame(t) /\ pc[t] = "finish" /\ task[t].op = "reset"
      /\ Idle(t)
  BY FinishResetControl DEF FinishReset, Finishing
<1>2. PICK s \in Streams :
        /\ handle' = [handle EXCEPT ![task[t].dst] =
                        [cb |-> task[t].fresh, stream |-> s, prog |-> Ctx(t)]]
        /\ Initialise(t, task[t].fresh, task[t].to, s)
  BY DEF FinishReset
<1> QED BY <1>1, <1>2, AdoptHeap

\* transfer() adopts the copy it made.
LEMMA FinishTransferHeap ==
  ASSUME ControlInv, HeapInv, NEW t \in Threads, FinishTransfer(t)
  PROVE  HeapInv'
<1>1. ControlInv' /\ Frame(t) /\ pc[t] = "finish" /\ task[t].op = "transfer"
      /\ Initialise(t, task[t].fresh, task[t].to, StreamOf(t)) /\ Idle(t)
      /\ handle' = [handle EXCEPT ![task[t].dst] =
                      [cb |-> task[t].fresh, stream |-> StreamOf(t), prog |-> Ctx(t)]]
  BY FinishTransferControl DEF FinishTransfer, Finishing, StreamOf
<1> QED BY <1>1, Registers, AdoptHeap DEF Busy

\* The beginning of a reset or a transfer.
LEMMA AllocateHeap ==
  ASSUME ControlInv, HeapInv, ControlInv', NEW t \in Threads, Frame(t), pc[t] = "idle",
         NEW op \in {"reset", "transfer"}, NEW h \in Handles, NEW b \in Blocks,
         NEW e \in ExecTypes, handle' = handle,
         Allocate(b), BeginRelease(t, op, h, h, b, e),
         t \in Device => op = "reset" /\ e = "gpu"
  PROVE  HeapInv'
<1> USE DEF HeapInv
<1>1. /\ pc'[t] = (IF handle[h].cb = None THEN "finish" ELSE "count")
      /\ task'[t] = Task(op, h, h, -1, b, e)
  BY ReleaseEffect DEF ControlInv
<1>2. \A c \in Blocks : Owners(c)' = Owners(c)
  BY <1>1, AtStart, SameOwners, ConstantsAssumption DEF Uncounted, Task
<1>3. /\ mem[b] = "free" /\ mem'[b] = "new"
      /\ \A c \in Blocks \ {b} : mem'[c] = mem[c]
      /\ UNCHANGED <<exec, count, flying, locked>>
  BY DEF Allocate, ControlInv, TypeOK
<1>4. task'[t].op = op /\ task'[t].fresh = b
  BY <1>1 DEF Task
<1>5. \A u \in Threads \ {t} : task[u].op \in {"reset", "transfer"} =>
        task[u].fresh \in Blocks \ {b} /\ mem[task[u].fresh] = "new"
  BY <1>3 DEF FreshInv
<1>6. \A c \in Blocks \ {b} : mem'[c] = "new" =>
        \E u \in Threads \ {t} : task[u].op \in {"reset", "transfer"} /\ task[u].fresh = c
  BY <1>3, AtStart DEF NoOrphan
<1>7. \A c \in Blocks : mem[c] # "live" =>
        mem'[c] # "live" /\ Owners(c)' = {} /\ ~Flying(c)'
  BY <1>2, <1>3, NotLiveNoOwners DEF FlyingInv, Flying
<1>8. HeapStays(t)
  BY <1>2, <1>3, <1>4, <1>5, <1>6, <1>7 DEF HeapStays
<1>9. ASSUME t \in Device PROVE DeviceFits(t)'
  <2>1. DeviceFits(t)
    BY <1>9 DEF DeviceInv
  <2> QED BY <1>1, <1>3, <1>9, <2>1 DEF DeviceFits, Addressable, Task
<1> QED BY <1>1, <1>8, <1>9, AtStart, HeapKeeps DEF InSection

\* reset() allocates ahead of the release.
LEMMA ResetHeap ==
  ASSUME ControlInv, HeapInv, NEW t \in Threads, NEW h \in Handles, Reset(t, h)
  PROVE  HeapInv'
<1>1. ControlInv' /\ Frame(t) /\ pc[t] = "idle" /\ handle' = handle
  BY ResetControl DEF Reset, Start
<1>2. PICK b \in Blocks : Allocate(b) /\ BeginRelease(t, "reset", h, h, b, Ctx(t))
  BY DEF Reset
<1>3. Ctx(t) \in ExecTypes /\ (t \in Device => Ctx(t) = "gpu")
  BY CtxType DEF Ctx
<1> QED BY <1>1, <1>2, <1>3, AllocateHeap

\* So does transfer().
LEMMA TransferHeap ==
  ASSUME ControlInv, HeapInv, NEW t \in Threads, NEW h \in Handles,
         NEW to \in ExecTypes, Transfer(t, h, to)
  PROVE  HeapInv'
<1>1. ControlInv' /\ Frame(t) /\ pc[t] = "idle" /\ handle' = handle
      /\ t \notin Device /\ handle[h].cb # None
  BY TransferControl DEF Transfer, Start
<1>2. PICK b \in Blocks, e \in {to, exec[handle[h].cb]} :
        Allocate(b) /\ BeginRelease(t, "transfer", h, h, b, e)
  BY DEF Transfer
<1>3. e \in ExecTypes
  BY <1>1 DEF ControlInv, TypeOK, HandleType
<1> QED BY <1>1, <1>2, <1>3, AllocateHeap

-----------------------------------------------------------------------------
(* Counter updates *)

\* t is about to change, or is changing, a counter.
LEMMA AtCount ==
  ASSUME ControlInv, NEW t \in Threads, pc[t] \notin {"idle", "finish"}
  PROVE  /\ Busy(t) /\ TaskFits(t) /\ task[t].dir \in {1, -1} /\ Counted(t) \in Blocks
         /\ \A h \in Handles \ {task[t].dst} : OwnerOf[h] = t => ~Uncounted(h)
         /\ task[t].op \in {"reset", "transfer"} => task[t].dir = -1
<1>1. Busy(t) /\ TaskFits(t)
  BY DEF ControlInv, TaskInv, Busy
<1> QED BY <1>1, Registers DEF TaskFits, Uncounted, ControlInv, TypeOK, TaskType

\* What t goes on with after the counter was changed.
LEMMA AfterCountFacts ==
  ASSUME ControlInv, NEW t \in Threads, pc[t] \in {"count", "unlock"},
         NEW prev, AfterCount(t, prev), handle' = handle
  PROVE  /\ ~InSection(t)'
         /\ task'[t].op \in {"reset", "transfer"} <=> task[t].op \in {"reset", "transfer"}
         /\ task'[t].op \in {"reset", "transfer"} => task'[t].fresh = task[t].fresh
         /\ pc'[t] \in {"count", "clean"} => Counted(t)' = Counted(t)
         /\ task[t].dir = 1 =>
              pc'[t] # "clean" /\ \A h \in Handles : OwnerOf[h] = t => ~Uncounted(h)'
         /\ task[t].dir = -1 =>
              /\ task'[t] = task[t] /\ pc'[t] = IF prev = 1 THEN "clean" ELSE "finish"
              /\ \A h \in Handles : OwnerOf[h] = t => (Uncounted(h)' <=> h = task[t].dst)
         /\ t \in Device /\ DeviceFits(t) /\ exec' = exec => DeviceFits(t)'
<1>1. Busy(t) /\ TaskFits(t) /\ task[t].dir \in {1, -1}
  BY AtCount
<1>2. CASE task[t].dir = -1
  <2>1. task' = task /\ pc'[t] = IF prev = 1 THEN "clean" ELSE "finish"
    BY <1>2 DEF AfterCount, AfterDecrement, AfterIncrement, ControlInv, TypeOK
  <2> QED BY <1>1, <1>2, <2>1
      DEF InSection, Counted, Uncounted, TaskFits, DeviceFits, Addressable
<1>3. CASE task[t].dir = 1
  <2>1. /\ task[t].op \in {"copy", "assign"} /\ task[t].src \in Handles
        /\ handle[task[t].src].cb = Counted(t) /\ Counted(t) \in Blocks
    BY <1>1, <1>3, AtCount DEF TaskFits, ControlInv, AcquireInv, Counted
  <2>2. CASE task[t].src \in Unique /\ Writable(t, task[t].src)
    <3>1. BeginRelease(t, "drop", task[t].src, task[t].src, None, "host")
      BY <1>3, <2>2 DEF AfterCount, AfterDecrement, AfterIncrement
    <3>2. /\ pc'[t] = "count"
          /\ task'[t] = Task("drop", task[t].src, task[t].src, -1, None, "host")
      BY <2>1, <3>1, ReleaseEffect, ConstantsAssumption DEF ControlInv, ExecTypes
    <3> QED BY <1>3, <2>1, <3>2
        DEF InSection, Counted, Uncounted, DeviceFits, Addressable, Task
  <2>3. CASE ~(task[t].src \in Unique /\ Writable(t, task[t].src))
    <3>1. Idle(t)
      BY <1>3, <2>3 DEF AfterCount, AfterDecrement, AfterIncrement
    <3>2. pc'[t] = "idle" /\ task'[t] = NoTask
      BY <3>1, IdleEffect DEF ControlInv
    <3> QED BY <1>3, <2>1, <3>2
        DEF InSection, Counted, Uncounted, DeviceFits, Addressable, NoTask, Task
  <2> QED BY <2>2, <2>3
<1> QED BY <1>1, <1>2, <1>3

\* An increment or a decrement takes effect.
LEMMA CountEffect ==
  ASSUME ControlInv, NEW t \in Threads, Frame(t), handle' = handle,
         pc[t] \in {"count", "write"},
         NEW b \in Blocks, b = Counted(t), NEW d \in Handles, d = task[t].dst,
         \A h \in Handles : OwnerOf[h] = t =>
           (Uncounted(h)' <=> h = d /\ task[t].dir = -1)
  PROVE  /\ \A c \in Blocks \ {b} : Owners(c)' = Owners(c)
         /\ Owners(b)' = IF task[t].dir = 1 THEN Owners(b) \cup {d} ELSE Owners(b) \ {d}
         /\ Cardinality(Owners(b)') = Cardinality(Owners(b)) + task[t].dir
         /\ Owners(b) # {}
<1>1. /\ TaskFits(t) /\ OwnerOf[d] = t /\ handle[d].cb = b
      /\ \A h \in Handles \ {d} : OwnerOf[h] = t => ~Uncounted(h)
      /\ task[t].dir \in {1, -1}
  BY AtCount DEF TaskFits, Counted
<1>2. /\ Owners(b) # {}
      /\ task[t].dir = -1 => d \in Owners(b)
      /\ task[t].dir = 1 => d \notin Owners(b)
  BY CountedHasOwner
<1>3. ASSUME NEW c \in Blocks, NEW h \in Handles \ {d}
      PROVE  h \in Owners(c)' <=> h \in Owners(c)
  <2>1. CASE OwnerOf[h] # t
    BY <2>1, OtherOwners
  <2>2. CASE OwnerOf[h] = t
    BY <1>1, <2>2 DEF Owners
  <2> QED BY <2>1, <2>2
<1>4. ASSUME NEW c \in Blocks \ {b} PROVE Owners(c)' = Owners(c)
  <2>1. d \notin Owners(c) /\ d \notin Owners(c)'
    BY <1>1 DEF Owners
  <2> QED BY <1>3, <2>1 DEF Owners
<1>5. d \in Owners(b)' <=> task[t].dir = 1
  BY <1>1 DEF Owners
<1>6. Owners(b)' = IF task[t].dir = 1 THEN Owners(b) \cup {d} ELSE Owners(b) \ {d}
  BY <1>1, <1>3, <1>5 DEF Owners
<1>7. Cardinality(Owners(b)') = Cardinality(Owners(b)) + task[t].dir
  <2>1. CASE task[t].dir = 1
    BY <1>2, <1>6, <2>1, OwnersFinite, FS_AddElement
  <2>2. CASE task[t].dir = -1
    <3>1. Owners(b)' = Owners(b) \ {d} /\ d \in Owners(b)
      BY <1>2, <1>6, <2>2
    <3>2. Cardinality(Owners(b) \ {d}) = Cardinality(Owners(b)) - 1
      BY <3>1, OwnersFinite, FS_RemoveElement
    <3> QED BY <2>2, <3>1, <3>2, OwnersFinite
  <2> QED BY <1>1, <2>1, <2>2
<1> QED BY <1>2, <1>4, <1>6, <1>7

\* The tasks of other threads that are inside an operation go on with their
\* blocks.
LEMMA OthersGoOn ==
  ASSUME ControlInv, NEW t \in Threads, Frame(t), handle' = handle,
         NEW u \in Threads \ {t}
  PROVE  /\ pc'[u] = pc[u] /\ task'[u] = task[u]
         /\ Counted(u)' = Counted(u) /\ StreamOf(u)' = StreamOf(u)
         /\ InSection(u)' <=> InSection(u)
         /\ Dying(u)' <=> Dying(u)
         /\ pc[u] \notin {"idle", "finish"} => Counted(u) \in Blocks
BY AtCount DEF Frame, OthersStay, Counted, StreamOf, InSection, Dying

\* A step that adopts and allocates nothing keeps FreshInv.
LEMMA FreshStays ==
  ASSUME ControlInv, FreshInv, NEW t \in Threads, Frame(t),
         task'[t].op \in {"reset", "transfer"} <=> task[t].op \in {"reset", "transfer"},
         task'[t].op \in {"reset", "transfer"} => task'[t].fresh = task[t].fresh,
         \A b \in Blocks : mem[b] = "new" => mem'[b] = "new"
  PROVE  /\ FreshInv'
         /\ \A b \in Blocks :
              (\E u \in Threads : task[u].op \in {"reset", "transfer"} /\ task[u].fresh = b)
              => \E u \in Threads : task'[u].op \in {"reset", "transfer"} /\ task'[u].fresh = b
<1>1. \A u \in Threads :
        /\ task'[u].op \in {"reset", "transfer"} <=> task[u].op \in {"reset", "transfer"}
        /\ task'[u].op \in {"reset", "transfer"} => task'[u].fresh = task[u].fresh
  BY DEF Frame, OthersStay
<1> QED BY <1>1 DEF FreshInv

-----------------------------------------------------------------------------
(* The hardware-atomic update *)

\* The hardware-atomic update: no thread is inside the section of the same
\* block.
LEMMA CountAtomicHeap ==
  ASSUME ControlInv, HeapInv, NEW t \in Threads, CountAtomic(t)
  PROVE  HeapInv'
<1> USE DEF HeapInv
<1>1. /\ ControlInv' /\ Frame(t) /\ handle' = handle /\ pc[t] = "count"
      /\ AfterCount(t, count[Counted(t)]) /\ Addressable(t, Counted(t))
      /\ UNCHANGED <<mem, exec, flying, locked>>
  BY CountAtomicControl DEF CountAtomic
<1>2. PICK b \in Blocks, d \in Handles : b = Counted(t) /\ d = task[t].dst
  BY <1>1, AtCount DEF TaskFits
<1>3. task[t].dir \in {1, -1} /\ mem[b] = "live" /\ count[b] \in Int
  BY <1>1, <1>2, AtCount DEF NoUseAfterFree, ControlInv, TypeOK
<1>4. /\ count'[b] = count[b] + task[t].dir
      /\ \A c \in Blocks \ {b} : count'[c] = count[c]
  BY <1>2 DEF CountAtomic, ControlInv, TypeOK
<1>5. ASSUME exec[b] = "gpu"
      PROVE  ~Flying(b) /\ \A u \in Threads \ {t} : InSection(u) => Counted(u) # b
  <2>1. t \in Device
    BY <1>1, <1>2, <1>5 DEF Addressable, Ctx
  <2> QED BY <1>2, <2>1 DEF CountAtomic, Flying, InSection
<1>6. ~Flying(b) /\ \A u \in Threads \ {t} : InSection(u) => Counted(u) # b
  BY <1>5 DEF FlyingInv, SectionInv
<1>7. count[b] = Cardinality(Owners(b))
  BY <1>3, <1>6 DEF CountMatchesOwners
<1>8. /\ ~InSection(t)'
      /\ task'[t].op \in {"reset", "transfer"} <=> task[t].op \in {"reset", "transfer"}
      /\ task'[t].op \in {"reset", "transfer"} => task'[t].fresh = task[t].fresh
      /\ pc'[t] \in {"count", "clean"} => Counted(t)' = b
      /\ task[t].dir = 1 => pc'[t] # "clean"
      /\ task[t].dir = -1 =>
           task'[t] = task[t] /\ pc'[t] = IF count[b] = 1 THEN "clean" ELSE "finish"
      /\ \A h \in Handles : OwnerOf[h] = t => (Uncounted(h)' <=> h = d /\ task[t].dir = -1)
      /\ t \in Device /\ DeviceFits(t) => DeviceFits(t)'
  BY <1>1, <1>2, <1>3, AfterCountFacts
<1>9. /\ \A c \in Blocks \ {b} : Owners(c)' = Owners(c)
      /\ Cardinality(Owners(b)') = Cardinality(Owners(b)) + task[t].dir
      /\ Owners(b) # {}
  BY <1>1, <1>2, <1>8, CountEffect
<1>10. \A c \in Blocks : Flying(c)' <=> Flying(c)
  BY <1>1 DEF Flying
<1>11. Dying(t)' <=> task[t].dir = -1 /\ count[b] = 1
  BY <1>3, <1>8 DEF Dying, InSection
<1>12. \A u \in Threads \ {t} : Dying(u) => Counted(u) # b
  <2> SUFFICES ASSUME NEW u \in Threads \ {t}, Dying(u), Counted(u) = b PROVE FALSE
    OBVIOUS
  <2>1. Owners(Counted(u)) = {}
    BY DEF DyingInv
  <2> QED BY <1>9, <2>1
<1>13. DeviceInv'
  BY <1>1, <1>8, DeviceKeeps DEF DeviceInv
<1>14. FreshInv' /\ \A c \in Blocks :
         (\E u \in Threads : task[u].op \in {"reset", "transfer"} /\ task[u].fresh = c)
         => \E u \in Threads : task'[u].op \in {"reset", "transfer"} /\ task'[u].fresh = c
  BY <1>1, <1>8, FreshStays
<1>15. SectionInv'
  <2>1. ASSUME NEW u \in Threads, InSection(u)'
        PROVE  /\ u \in Threads \ {t} /\ InSection(u) /\ pc'[u] = pc[u] /\ task'[u] = task[u]
               /\ Counted(u)' = Counted(u) /\ Counted(u) \in Blocks \ {b}
    BY <1>1, <1>6, <1>8, <2>1, OthersGoOn DEF InSection
  <2>2. ASSUME NEW u \in Threads, pc'[u] = "unlock"
        PROVE  Cardinality(Owners(Counted(u))') = task'[u].seen + task'[u].dir
    <3>1. InSection(u)' BY <2>2 DEF InSection
    <3>2. PICK c \in Blocks \ {b} : c = Counted(u)
      BY <2>1, <3>1
    <3>3. Owners(Counted(u))' = Owners(c)' /\ Owners(Counted(u)) = Owners(c)
      BY <2>1, <3>1, <3>2 DEF Owners
    <3> QED BY <1>9, <2>1, <2>2, <3>1, <3>2, <3>3 DEF SectionInv
  <2>3. ASSUME NEW u \in Threads, pc'[u] = "write"
        PROVE  ~Flying(Counted(u))' /\ task'[u].seen = count'[Counted(u)']
    <3>1. InSection(u)' BY <2>3 DEF InSection
    <3> QED BY <1>4, <1>10, <2>1, <2>3, <3>1 DEF SectionInv
  <2>4. ASSUME NEW u \in Threads, InSection(u)'
        PROVE  /\ u \notin Device
               /\ exec'[Counted(u)'] = "gpu"
               /\ LockOf[Counted(u)'] \in locked'
               /\ \A v \in Threads \ {u} : InSection(v)' =>
                    LockOf[Counted(v)'] # LockOf[Counted(u)']
    BY <1>1, <2>1, <2>4 DEF SectionInv
  <2> QED BY <2>2, <2>3, <2>4 DEF SectionInv
<1>16. DyingInv'
  <2>1. ASSUME Dying(t)' PROVE Owners(Counted(t))' = {} /\ Counted(t)' = b
    <3>1. Counted(t)' = b /\ Cardinality(Owners(b)') = 0
      BY <1>7, <1>8, <1>9, <1>11, <2>1 DEF Dying, InSection
    <3>2. Owners(Counted(t))' = Owners(b)'
      BY <3>1 DEF Owners
    <3> QED BY <3>1, <3>2, NoOwnersPrime
  <2>2. ASSUME NEW u \in Threads \ {t}, Dying(u)'
        PROVE  Owners(Counted(u))' = {} /\ Counted(u)' # b
    <3>1. Dying(u) /\ Counted(u)' = Counted(u) /\ Counted(u) \in Blocks \ {b}
      BY <1>1, <1>12, <2>2, OthersGoOn DEF Dying
    <3>2. PICK c \in Blocks \ {b} : c = Counted(u)
      BY <3>1
    <3>3. Owners(Counted(u))' = Owners(c)' /\ Owners(Counted(u)) = Owners(c)
      BY <3>1, <3>2 DEF Owners
    <3> QED BY <1>9, <3>1, <3>2, <3>3 DEF DyingInv
  <2>3. \A u, v \in Threads \ {t} : u # v /\ Dying(u)' /\ Dying(v)' =>
          Counted(u)' # Counted(v)'
    BY <1>1, OthersGoOn DEF DyingInv
  <2> QED BY <2>1, <2>2, <2>3 DEF DyingInv
<1>17. FlyingInv'
  BY <1>1, <1>10 DEF FlyingInv
<1>18. CountMatchesOwners'
  <2> SUFFICES ASSUME NEW c \in Blocks, mem'[c] = "live"
               PROVE  IF Flying(c)'
                      THEN \A s \in Streams : flying'[s][c] \in {None, Cardinality(Owners(c)')}
                      ELSE count'[c] = Cardinality(Owners(c)')
    BY DEF CountMatchesOwners
  <2>1. CASE c = b
    BY <1>4, <1>6, <1>7, <1>9, <1>10, <2>1
  <2>2. CASE c # b
    BY <1>1, <1>4, <1>9, <1>10, <2>2 DEF CountMatchesOwners
  <2> QED BY <2>1, <2>2
<1>19. NoUseAfterFree'
  <2>1. ASSUME NEW h \in Handles, handle'[h].cb # None, ~Uncounted(h)'
        PROVE  mem'[handle'[h].cb] = "live"
    <3>1. CASE handle[h].cb = b
      BY <1>1, <1>3, <3>1
    <3>2. CASE handle[h].cb # b
      <4>1. PICK c \in Blocks \ {b} : c = handle[h].cb
        BY <1>1, <2>1, <3>2 DEF ControlInv, TypeOK, HandleType
      <4>2. h \in Owners(c)
        BY <1>1, <1>9, <2>1, <4>1 DEF Owners
      <4> QED BY <1>1, <4>1, <4>2, ConstantsAssumption DEF NoUseAfterFree, Owners
    <3> QED BY <3>1, <3>2
  <2>2. ASSUME NEW u \in Threads \ {t},
               pc'[u] \in {"count", "read", "write", "unlock", "clean"}
        PROVE  mem'[Counted(u)'] = "live"
    BY <1>1, <2>2, OthersGoOn DEF NoUseAfterFree
  <2>3. ASSUME pc'[t] \in {"count", "read", "write", "unlock", "clean"}
        PROVE  mem'[Counted(t)'] = "live"
    BY <1>1, <1>3, <1>8, <2>3 DEF InSection
  <2> QED BY <2>1, <2>2, <2>3 DEF NoUseAfterFree
<1>20. NoOrphan'
  <2>1. ASSUME NEW c \in Blocks, mem'[c] = "live", Owners(c)' = {}
        PROVE  \E u \in Threads : Dying(u)' /\ Counted(u)' = c
    <3>1. CASE c = b
      <4>1. Cardinality(Owners(b)') = 0
        BY <2>1, <3>1, NoOwnersPrime
      <4>2. task[t].dir = -1 /\ count[b] = 1
        BY <1>3, <1>7, <1>9, <4>1, OwnersFinite
      <4> QED BY <1>8, <1>11, <3>1, <4>2
    <3>2. CASE c # b
      <4>1. Owners(c) = {} /\ mem[c] = "live"
        BY <1>1, <1>9, <2>1, <3>2
      <4>2. PICK u \in Threads : Dying(u) /\ Counted(u) = c
        BY <4>1 DEF NoOrphan
      <4>3. u # t
        BY <1>1, <4>2 DEF Dying
      <4> QED BY <1>1, <4>2, <4>3, OthersGoOn
    <3> QED BY <3>1, <3>2
  <2>2. ASSUME NEW c \in Blocks, mem'[c] = "new"
        PROVE  \E u \in Threads : task'[u].op \in {"reset", "transfer"} /\ task'[u].fresh = c
    BY <1>1, <1>14, <2>2 DEF NoOrphan
  <2> QED BY <1>16, <2>1, <2>2 DEF NoOrphan, DyingInv
<1> QED BY <1>13, <1>14, <1>15, <1>16, <1>17, <1>18, <1>19, <1>20

-----------------------------------------------------------------------------
(* The staged update *)

\* A step that changes no handle, no owners, and neither mem nor exec, keeps
\* what does not concern the counters.
LEMMA StillOwned ==
  ASSUME ControlInv, HeapInv, NEW t \in Threads, Frame(t),
         UNCHANGED <<handle, mem, exec>>,
         \A h \in Handles : OwnerOf[h] = t => (Uncounted(h)' <=> Uncounted(h)),
         task'[t].op \in {"reset", "transfer"} <=> task[t].op \in {"reset", "transfer"},
         task'[t].op \in {"reset", "transfer"} => task'[t].fresh = task[t].fresh,
         pc'[t] \in {"count", "read", "write", "unlock", "clean"} =>
           /\ Counted(t)' = Counted(t)
           /\ pc[t] \in {"count", "read", "write", "unlock", "clean"},
         Dying(t)' <=> Dying(t)
  PROVE  /\ FreshInv' /\ DyingInv' /\ NoUseAfterFree' /\ NoOrphan'
         /\ \A b \in Blocks : Owners(b)' = Owners(b)
<1> USE DEF HeapInv
<1>1. \A b \in Blocks : Owners(b)' = Owners(b)
  BY SameOwners
<1>2. FreshInv' /\ \A c \in Blocks :
         (\E u \in Threads : task[u].op \in {"reset", "transfer"} /\ task[u].fresh = c)
         => \E u \in Threads : task'[u].op \in {"reset", "transfer"} /\ task'[u].fresh = c
  BY FreshStays
<1>3. ASSUME NEW u \in Threads
      PROVE  /\ Dying(u)' <=> Dying(u)
             /\ Dying(u) => Counted(u)' = Counted(u) /\ Counted(u) \in Blocks
  <2>1. CASE u = t
    BY <2>1, AtCount DEF Dying
  <2>2. CASE u # t
    BY <2>2, OthersGoOn DEF Dying
  <2> QED BY <2>1, <2>2
<1>4. DyingInv'
  <2>1. ASSUME NEW u \in Threads, Dying(u)' PROVE Owners(Counted(u))' = {}
    <3>1. PICK c \in Blocks : c = Counted(u)
      BY <1>3, <2>1
    <3>2. Owners(Counted(u))' = Owners(c)' /\ Owners(Counted(u)) = Owners(c)
      BY <1>3, <2>1, <3>1 DEF Owners
    <3> QED BY <1>1, <1>3, <2>1, <3>1, <3>2 DEF DyingInv
  <2> QED BY <1>3, <2>1 DEF DyingInv
<1>5. NoUseAfterFree'
  <2>1. ASSUME NEW h \in Handles, handle'[h].cb # None, ~Uncounted(h)'
        PROVE  mem'[handle'[h].cb] = "live"
    <3>1. CASE OwnerOf[h] = t
      BY <2>1, <3>1 DEF NoUseAfterFree
    <3>2. CASE OwnerOf[h] # t
      BY <2>1, <3>2, ConstantsAssumption DEF NoUseAfterFree, Uncounted, Frame, OthersStay
    <3> QED BY <3>1, <3>2
  <2>2. ASSUME NEW u \in Threads,
               pc'[u] \in {"count", "read", "write", "unlock", "clean"}
        PROVE  mem'[Counted(u)'] = "live"
    <3>1. CASE u = t
      BY <2>2, <3>1 DEF NoUseAfterFree
    <3>2. CASE u # t
      BY <2>2, <3>2, OthersGoOn DEF NoUseAfterFree
    <3> QED BY <3>1, <3>2
  <2> QED BY <2>1, <2>2 DEF NoUseAfterFree
<1>6. NoOrphan'
  BY <1>1, <1>2, <1>3 DEF NoOrphan
<1> QED BY <1>1, <1>2, <1>4, <1>5, <1>6

\* Whoever takes the lock is alone in the block's section.
LEMMA LockHeap ==
  ASSUME ControlInv, HeapInv, NEW t \in Threads, Lock(t)
  PROVE  HeapInv'
<1> USE DEF HeapInv
<1>1. /\ Frame(t) /\ pc[t] = "count" /\ pc'[t] = "read" /\ task' = task
      /\ ~Addressable(t, Counted(t)) /\ LockOf[Counted(t)] \notin locked
      /\ locked' = locked \cup {LockOf[Counted(t)]}
      /\ UNCHANGED <<handle, mem, exec, count, flying>>
  BY LockControl DEF Lock, ControlInv, TypeOK
<1>2. /\ Counted(t)' = Counted(t) /\ Counted(t) \in Blocks
      /\ \A h \in Handles : OwnerOf[h] = t => (Uncounted(h)' <=> Uncounted(h))
      /\ ~Dying(t) /\ ~Dying(t)'
  BY <1>1, AtCount DEF Counted, Uncounted, Dying
<1>3. /\ FreshInv' /\ DyingInv' /\ NoUseAfterFree' /\ NoOrphan'
      /\ \A b \in Blocks : Owners(b)' = Owners(b)
  BY <1>1, <1>2, StillOwned
<1>4. t \notin Device /\ exec[Counted(t)] = "gpu"
  <2>1. handle[task[t].dst].cb = Counted(t) /\ task[t].dst \in Handles
        /\ OwnerOf[task[t].dst] = t /\ Counted(t) # None
    BY <1>1, <1>2, AtCount, ConstantsAssumption DEF TaskFits, Counted
  <2>2. t \in Device => Addressable(t, Counted(t))
    BY <1>1, <2>1 DEF DeviceInv, DeviceFits
  <2> QED BY <1>1, <1>2, <2>2 DEF Addressable, Ctx, ControlInv, TypeOK, ExecTypes
<1>5. DeviceInv'
  BY <1>1, <1>4, DeviceKeeps
<1>6. \A c \in Blocks : Flying(c)' <=> Flying(c)
  BY <1>1 DEF Flying
<1>7. SectionInv'
  <2>1. ASSUME NEW u \in Threads, u # t, InSection(u)'
        PROVE  /\ InSection(u) /\ pc'[u] = pc[u] /\ task'[u] = task[u]
               /\ Counted(u)' = Counted(u) /\ Counted(u) \in Blocks
               /\ LockOf[Counted(u)] # LockOf[Counted(t)]
    BY <1>1, <2>1, OthersGoOn DEF InSection, SectionInv
  <2>2. ASSUME NEW u \in Threads, InSection(u)'
        PROVE  /\ u \notin Device
               /\ exec'[Counted(u)'] = "gpu"
               /\ LockOf[Counted(u)'] \in locked'
               /\ \A v \in Threads \ {u} : InSection(v)' =>
                    LockOf[Counted(v)'] # LockOf[Counted(u)']
    BY <1>1, <1>2, <1>4, <2>1, <2>2 DEF SectionInv
  <2>3. ASSUME NEW u \in Threads, pc'[u] = "write"
        PROVE  ~Flying(Counted(u))' /\ task'[u].seen = count'[Counted(u)']
    BY <1>1, <1>6, <2>1, <2>3 DEF SectionInv, InSection
  <2>4. ASSUME NEW u \in Threads, pc'[u] = "unlock"
        PROVE  Cardinality(Owners(Counted(u))') = task'[u].seen + task'[u].dir
    <3>1. u # t /\ InSection(u)' BY <1>1, <2>4 DEF InSection
    <3>2. PICK c \in Blocks : c = Counted(u)
      BY <2>1, <3>1
    <3>3. Owners(Counted(u))' = Owners(c)' /\ Owners(Counted(u)) = Owners(c)
      BY <2>1, <3>1, <3>2 DEF Owners
    <3> QED BY <1>3, <2>1, <2>4, <3>1, <3>2, <3>3 DEF SectionInv
  <2> QED BY <2>2, <2>3, <2>4 DEF SectionInv
<1>8. FlyingInv'
  BY <1>1, <1>6 DEF FlyingInv
<1>9. CountMatchesOwners'
  BY <1>1, <1>3, <1>6 DEF CountMatchesOwners
<1> QED BY <1>3, <1>5, <1>7, <1>8, <1>9

\* The field that is read is the number of owners: nothing is under way to it.
LEMMA ReadCountHeap ==
  ASSUME OneStream, ControlInv, HeapInv, NEW t \in Threads, ReadCount(t)
  PROVE  HeapInv'
<1> USE DEF HeapInv
<1>1. /\ Frame(t) /\ pc[t] = "read" /\ pc'[t] = "write"
      /\ flying[StreamOf(t)][Counted(t)] = None
      /\ task'[t] = [task[t] EXCEPT !.seen = count[Counted(t)]]
      /\ UNCHANGED <<handle, mem, exec, count, flying, locked>>
  BY ReadCountControl DEF ReadCount, SameHeap, ControlInv, TypeOK
<1>2. /\ Counted(t)' = Counted(t) /\ Counted(t) \in Blocks
      /\ task'[t].seen = count[Counted(t)]
      /\ task'[t].op = task[t].op /\ task'[t].fresh = task[t].fresh
      /\ \A h \in Handles : OwnerOf[h] = t => (Uncounted(h)' <=> Uncounted(h))
      /\ ~Dying(t) /\ ~Dying(t)'
  BY <1>1, AtCount DEF Counted, Uncounted, Dying, ControlInv, TypeOK, TaskType
<1>3. /\ FreshInv' /\ DyingInv' /\ NoUseAfterFree' /\ NoOrphan'
      /\ \A b \in Blocks : Owners(b)' = Owners(b)
  BY <1>1, <1>2, StillOwned
<1>4. t \notin Device
  BY <1>1 DEF SectionInv, InSection
<1>5. DeviceInv'
  BY <1>1, <1>4, DeviceKeeps
<1>6. \A c \in Blocks : Flying(c)' <=> Flying(c)
  BY <1>1 DEF Flying
<1>7. ~Flying(Counted(t))
  BY <1>1, AtCount, Registers DEF OneStream, Flying
<1>8. SectionInv'
  <2>1. ASSUME NEW u \in Threads, InSection(u)'
        PROVE  /\ InSection(u) /\ Counted(u)' = Counted(u) /\ Counted(u) \in Blocks
               /\ u # t => pc'[u] = pc[u] /\ task'[u] = task[u]
    BY <1>1, <1>2, <2>1, OthersGoOn DEF InSection
  <2>2. ASSUME NEW u \in Threads, InSection(u)'
        PROVE  /\ u \notin Device
               /\ exec'[Counted(u)'] = "gpu"
               /\ LockOf[Counted(u)'] \in locked'
               /\ \A v \in Threads \ {u} : InSection(v)' =>
                    LockOf[Counted(v)'] # LockOf[Counted(u)']
    BY <1>1, <2>1, <2>2 DEF SectionInv
  <2>3. ASSUME NEW u \in Threads, pc'[u] = "write"
        PROVE  ~Flying(Counted(u))' /\ task'[u].seen = count'[Counted(u)']
    <3>1. CASE u = t
      BY <1>1, <1>2, <1>7, <3>1 DEF Flying
    <3>2. CASE u # t
      <4>1. PICK c \in Blocks : c = Counted(u)
        BY <2>1, <2>3 DEF InSection
      <4>2. Counted(u)' = c /\ pc[u] = "write" /\ task'[u] = task[u]
        BY <2>1, <2>3, <3>2, <4>1 DEF InSection
      <4>3. ~Flying(c) /\ task[u].seen = count[c]
        BY <4>1, <4>2 DEF SectionInv
      <4>4. Flying(Counted(u))' <=> Flying(c)'
        BY <4>2 DEF Flying
      <4> QED BY <1>1, <1>6, <4>2, <4>3, <4>4
    <3> QED BY <3>1, <3>2
  <2>4. ASSUME NEW u \in Threads, pc'[u] = "unlock"
        PROVE  Cardinality(Owners(Counted(u))') = task'[u].seen + task'[u].dir
    <3>1. u # t /\ InSection(u)' BY <1>1, <2>4 DEF InSection
    <3>2. PICK c \in Blocks : c = Counted(u)
      BY <2>1, <3>1
    <3>3. Owners(Counted(u))' = Owners(c)' /\ Owners(Counted(u)) = Owners(c)
      BY <2>1, <3>1, <3>2 DEF Owners
    <3> QED BY <1>3, <2>1, <2>4, <3>1, <3>2, <3>3 DEF SectionInv
  <2> QED BY <2>2, <2>3, <2>4 DEF SectionInv
<1>9. FlyingInv'
  BY <1>1, <1>6 DEF FlyingInv
<1>10. CountMatchesOwners'
  BY <1>1, <1>3, <1>6 DEF CountMatchesOwners
<1> QED BY <1>3, <1>5, <1>8, <1>9, <1>10

\* The lock is given up; whoever saw 1 is still the one to free the block.
LEMMA UnlockHeap ==
  ASSUME ControlInv, HeapInv, NEW t \in Threads, Unlock(t)
  PROVE  HeapInv'
<1> USE DEF HeapInv
<1>1. /\ Frame(t) /\ pc[t] = "unlock" /\ AfterCount(t, task[t].seen)
      /\ locked' = locked \ {LockOf[Counted(t)]}
      /\ UNCHANGED <<handle, mem, exec, count, flying>>
  BY UnlockControl DEF Unlock
<1>2. /\ ~InSection(t)'
      /\ task'[t].op \in {"reset", "transfer"} <=> task[t].op \in {"reset", "transfer"}
      /\ task'[t].op \in {"reset", "transfer"} => task'[t].fresh = task[t].fresh
      /\ pc'[t] \in {"count", "clean"} => Counted(t)' = Counted(t)
      /\ task[t].dir = 1 =>
           pc'[t] # "clean" /\ \A h \in Handles : OwnerOf[h] = t => ~Uncounted(h)'
      /\ task[t].dir = -1 =>
           /\ task'[t] = task[t] /\ pc'[t] = IF task[t].seen = 1 THEN "clean" ELSE "finish"
           /\ \A h \in Handles : OwnerOf[h] = t => (Uncounted(h)' <=> h = task[t].dst)
  BY <1>1, AfterCountFacts
<1>3. /\ TaskFits(t) /\ task[t].dir \in {1, -1} /\ Counted(t) \in Blocks
      /\ \A h \in Handles \ {task[t].dst} : OwnerOf[h] = t => ~Uncounted(h)
  BY <1>1, AtCount
<1>4. \A h \in Handles : OwnerOf[h] = t => (Uncounted(h)' <=> Uncounted(h))
  <2>1. Uncounted(task[t].dst) <=> task[t].dir = -1
    BY <1>1, <1>3 DEF Uncounted, TaskFits
  <2> QED BY <1>2, <1>3, <2>1 DEF TaskFits
<1>5. Dying(t)' <=> Dying(t)
  BY <1>1, <1>2, <1>3 DEF Dying, InSection
<1>6. pc'[t] \in {"count", "read", "write", "unlock", "clean"} =>
        Counted(t)' = Counted(t)
  BY <1>2 DEF InSection
<1>7. /\ FreshInv' /\ DyingInv' /\ NoUseAfterFree' /\ NoOrphan'
      /\ \A b \in Blocks : Owners(b)' = Owners(b)
  BY <1>1, <1>2, <1>4, <1>5, <1>6, StillOwned
<1>8. t \notin Device
  BY <1>1 DEF SectionInv, InSection
<1>9. DeviceInv'
  BY <1>1, <1>8, DeviceKeeps
<1>10. \A c \in Blocks : Flying(c)' <=> Flying(c)
  BY <1>1 DEF Flying
<1>11. SectionInv'
  <2>1. ASSUME NEW u \in Threads, InSection(u)'
        PROVE  /\ u # t /\ InSection(u) /\ pc'[u] = pc[u] /\ task'[u] = task[u]
               /\ Counted(u)' = Counted(u) /\ Counted(u) \in Blocks
               /\ LockOf[Counted(u)] # LockOf[Counted(t)]
    BY <1>1, <1>2, <2>1, OthersGoOn DEF InSection, SectionInv
  <2>2. ASSUME NEW u \in Threads, InSection(u)'
        PROVE  /\ u \notin Device
               /\ exec'[Counted(u)'] = "gpu"
               /\ LockOf[Counted(u)'] \in locked'
               /\ \A v \in Threads \ {u} : InSection(v)' =>
                    LockOf[Counted(v)'] # LockOf[Counted(u)']
    BY <1>1, <2>1, <2>2 DEF SectionInv
  <2>3. ASSUME NEW u \in Threads, pc'[u] = "write"
        PROVE  ~Flying(Counted(u))' /\ task'[u].seen = count'[Counted(u)']
    <3>1. InSection(u)' BY <2>3 DEF InSection
    <3> QED BY <1>1, <1>10, <2>1, <2>3, <3>1 DEF SectionInv
  <2>4. ASSUME NEW u \in Threads, pc'[u] = "unlock"
        PROVE  Cardinality(Owners(Counted(u))') = task'[u].seen + task'[u].dir
    <3>1. InSection(u)' BY <2>4 DEF InSection
    <3>2. PICK c \in Blocks : c = Counted(u)
      BY <2>1, <3>1
    <3>3. Owners(Counted(u))' = Owners(c)' /\ Owners(Counted(u)) = Owners(c)
      BY <2>1, <3>1, <3>2 DEF Owners
    <3> QED BY <1>7, <2>1, <2>4, <3>1, <3>2, <3>3 DEF SectionInv
  <2> QED BY <2>2, <2>3, <2>4 DEF SectionInv
<1>12. FlyingInv'
  BY <1>1, <1>10 DEF FlyingInv
<1>13. CountMatchesOwners'
  BY <1>1, <1>7, <1>10 DEF CountMatchesOwners
<1> QED BY <1>7, <1>9, <1>11, <1>12, <1>13

\* A delivered counter was the number of owners already.
LEMMA LandWriteHeap ==
  ASSUME OneStream, ControlInv, HeapInv, NEW s \in Streams, NEW b \in Blocks,
         LandWrite(s, b)
  PROVE  HeapInv'
<1> USE DEF HeapInv
<1>1. /\ UNCHANGED <<handle, mem, exec, locked, pc, task>> /\ flying[s][b] # None
      /\ count' = [count EXCEPT ![b] = flying[s][b]]
      /\ flying' = [flying EXCEPT ![s][b] = None]
  BY DEF LandWrite, Stay
<1>2. ASSUME NEW c \in Blocks \ {b}
      PROVE  /\ count'[c] = count[c] /\ (Flying(c)' <=> Flying(c))
             /\ \A r \in Streams : flying'[r][c] = flying[r][c]
  BY <1>1 DEF Flying, ControlInv, TypeOK
<1>3. Flying(b) /\ ~Flying(b)' /\ count'[b] = flying[s][b]
  BY <1>1 DEF Flying, OneStream, ControlInv, TypeOK
<1>4. ASSUME NEW h \in Handles PROVE Uncounted(h)' <=> Uncounted(h)
  BY <1>1 DEF Uncounted
<1>5. ASSUME NEW c PROVE Owners(c)' = Owners(c)
  BY <1>1, <1>4 DEF Owners
<1>6. ASSUME NEW u \in Threads
      PROVE  /\ Counted(u)' = Counted(u) /\ (InSection(u)' <=> InSection(u))
             /\ (Dying(u)' <=> Dying(u)) /\ Owners(Counted(u))' = Owners(Counted(u))
  <2>1. Counted(u)' = Counted(u) /\ (InSection(u)' <=> InSection(u)) /\ (Dying(u)' <=> Dying(u))
    BY <1>1 DEF Counted, InSection, Dying
  <2> QED BY <1>1, <1>4, <2>1 DEF Owners
<1>7. DeviceInv' /\ FreshInv'
  BY <1>1 DEF DeviceInv, DeviceFits, Addressable, Ctx, FreshInv
<1>8. SectionInv'
  <2>1. ASSUME NEW u \in Threads, pc[u] = "write"
        PROVE  ~Flying(Counted(u))' /\ task[u].seen = count'[Counted(u)]
    <3>1. PICK c \in Blocks : c = Counted(u)
      BY <2>1, AtCount
    <3>2. ~Flying(c) /\ task[u].seen = count[c]
      BY <2>1, <3>1 DEF SectionInv
    <3>3. Flying(Counted(u))' <=> Flying(c)'
      BY <1>6, <3>1 DEF Flying
    <3> QED BY <1>2, <1>3, <3>1, <3>2, <3>3
  <2> QED BY <1>1, <1>6, <2>1 DEF SectionInv
<1>9. DyingInv'
  BY <1>6 DEF DyingInv
<1>10. FlyingInv'
  BY <1>1, <1>2, <1>3 DEF FlyingInv
<1>11. CountMatchesOwners'
  <2> SUFFICES ASSUME NEW c \in Blocks, mem'[c] = "live"
               PROVE  IF Flying(c)'
                      THEN \A r \in Streams : flying'[r][c] \in {None, Cardinality(Owners(c)')}
                      ELSE count'[c] = Cardinality(Owners(c)')
    BY DEF CountMatchesOwners
  <2>1. CASE c = b
    BY <1>1, <1>3, <1>5, <2>1 DEF CountMatchesOwners
  <2>2. CASE c # b
    BY <1>1, <1>2, <1>5, <2>2 DEF CountMatchesOwners
  <2> QED BY <2>1, <2>2
<1>12. NoUseAfterFree'
  BY <1>1, <1>4, <1>6 DEF NoUseAfterFree
<1>13. NoOrphan'
  BY <1>1, <1>5, <1>6 DEF NoOrphan
<1> QED BY <1>7, <1>8, <1>9, <1>10, <1>11, <1>12, <1>13

\* What ops and aborted are does not matter.
LEMMA QuietHeap ==
  ASSUME HeapInv, UNCHANGED <<handle, mem, exec, count, flying, locked, pc, task>>
  PROVE  HeapInv'
<1> USE DEF HeapInv
<1>1. UNCHANGED <<handle, mem, exec, count, flying, locked, pc, task>>
  OBVIOUS
<1>2. ASSUME NEW h \in Handles PROVE Uncounted(h)' <=> Uncounted(h)
  BY <1>1 DEF Uncounted
<1>3. ASSUME NEW c PROVE Owners(c)' = Owners(c) /\ (Flying(c)' <=> Flying(c))
  BY <1>1, <1>2 DEF Owners, Flying
<1>4. ASSUME NEW u \in Threads
      PROVE  /\ Counted(u)' = Counted(u) /\ (InSection(u)' <=> InSection(u))
             /\ (Dying(u)' <=> Dying(u)) /\ Owners(Counted(u))' = Owners(Counted(u))
             /\ (Flying(Counted(u))' <=> Flying(Counted(u)))
  <2>1. Counted(u)' = Counted(u) /\ (InSection(u)' <=> InSection(u)) /\ (Dying(u)' <=> Dying(u))
    BY <1>1 DEF Counted, InSection, Dying
  <2> QED BY <1>1, <1>2, <2>1 DEF Owners, Flying
<1>5. DeviceInv' /\ FreshInv'
  BY <1>1 DEF DeviceInv, DeviceFits, Addressable, Ctx, FreshInv
<1>6. SectionInv' /\ DyingInv'
  BY <1>1, <1>4 DEF SectionInv, DyingInv
<1>7. FlyingInv' /\ CountMatchesOwners'
  BY <1>1, <1>3 DEF FlyingInv, CountMatchesOwners
<1>8. NoUseAfterFree' /\ NoOrphan'
  BY <1>1, <1>2, <1>3, <1>4 DEF NoUseAfterFree, NoOrphan
<1> QED BY <1>5, <1>6, <1>7, <1>8

\* The staged update takes effect when the value is handed to the stream.
LEMMA WriteCountHeap ==
  ASSUME OneStream, ControlInv, HeapInv, NEW t \in Threads, WriteCount(t)
  PROVE  HeapInv'
<1> USE DEF HeapInv
<1>1. /\ Frame(t) /\ pc[t] = "write" /\ pc'[t] = "unlock" /\ task' = task
      /\ UNCHANGED <<handle, mem, exec, count, locked>>
  BY WriteCountControl DEF WriteCount, ControlInv, TypeOK
<1>2. PICK b \in Blocks, d \in Handles : b = Counted(t) /\ d = task[t].dst
  BY <1>1, AtCount DEF TaskFits
<1>3. /\ task[t].dir \in {1, -1} /\ mem[b] = "live" /\ count[b] \in Int /\ TaskFits(t)
      /\ Counted(t)' = b /\ exec[b] = "gpu" /\ ~Flying(b) /\ task[t].seen = count[b]
  <2>1. task[t].dir \in {1, -1} /\ mem[b] = "live" /\ count[b] \in Int /\ TaskFits(t)
    BY <1>1, <1>2, AtCount DEF NoUseAfterFree, ControlInv, TypeOK
  <2>2. Counted(t)' = b
    BY <1>1, <1>2 DEF Counted
  <2>3. exec[b] = "gpu"
    BY <1>1, <1>2 DEF SectionInv, InSection
  <2>4. ~Flying(b) /\ task[t].seen = count[b]
    <3>1. ~Flying(Counted(t)) /\ task[t].seen = count[Counted(t)]
      BY <1>1 DEF SectionInv
    <3> QED BY <1>2, <3>1
  <2> QED BY <2>1, <2>2, <2>3, <2>4
<1>4. count[b] = Cardinality(Owners(b))
  BY <1>3 DEF CountMatchesOwners
<1>5. /\ StreamOf(t) \in Streams
      /\ flying' = [flying EXCEPT ![StreamOf(t)][b] = count[b] + task[t].dir]
  BY <1>1, <1>2, <1>3, Registers DEF WriteCount, TaskFits, Busy
<1>6. /\ \A s \in Streams : flying'[s][b] = count[b] + task[t].dir
      /\ Flying(b)'
      /\ \A c \in Blocks \ {b} : \A s \in Streams : flying'[s][c] = flying[s][c]
  <2>1. \A s \in Streams : flying'[s][b] = count[b] + task[t].dir
    BY <1>5 DEF OneStream, ControlInv, TypeOK
  <2>2. Flying(b)'
    BY <1>3, <1>5, <2>1, ConstantsAssumption DEF Flying
  <2> QED BY <1>5, <2>1, <2>2 DEF ControlInv, TypeOK
<1>7. \A c \in Blocks \ {b} : Flying(c)' <=> Flying(c)
  BY <1>6 DEF Flying
<1>8. \A h \in Handles : OwnerOf[h] = t => (Uncounted(h)' <=> h = d /\ task[t].dir = -1)
  BY <1>1, <1>2, <1>3 DEF Uncounted
<1>9. /\ \A c \in Blocks \ {b} : Owners(c)' = Owners(c)
      /\ Cardinality(Owners(b)') = Cardinality(Owners(b)) + task[t].dir
      /\ Owners(b) # {}
  BY <1>1, <1>2, <1>8, CountEffect
<1>10. Dying(t)' <=> task[t].dir = -1 /\ count[b] = 1
  BY <1>1, <1>3 DEF Dying
<1>11. \A u \in Threads \ {t} : Dying(u) => Counted(u) # b
  <2> SUFFICES ASSUME NEW u \in Threads \ {t}, Dying(u), Counted(u) = b PROVE FALSE
    OBVIOUS
  <2>1. Owners(Counted(u)) = {}
    BY DEF DyingInv
  <2> QED BY <1>9, <2>1
<1>12. \A u \in Threads \ {t} : InSection(u) => Counted(u) # b
  BY <1>1, <1>2 DEF SectionInv, InSection
<1>13. DeviceInv'
  <2>1. t \notin Device
    BY <1>1 DEF SectionInv, InSection
  <2> QED BY <1>1, <2>1, DeviceKeeps
<1>14. FreshInv' /\ \A c \in Blocks :
         (\E u \in Threads : task[u].op \in {"reset", "transfer"} /\ task[u].fresh = c)
         => \E u \in Threads : task'[u].op \in {"reset", "transfer"} /\ task'[u].fresh = c
  BY <1>1, FreshStays
<1>15. SectionInv'
  <2>1. ASSUME NEW u \in Threads \ {t}, InSection(u)'
        PROVE  /\ InSection(u) /\ pc'[u] = pc[u] /\ task'[u] = task[u]
               /\ Counted(u)' = Counted(u) /\ Counted(u) \in Blocks \ {b}
    BY <1>1, <1>12, <2>1, OthersGoOn DEF InSection
  <2>2. ASSUME NEW u \in Threads, pc'[u] = "unlock"
        PROVE  Cardinality(Owners(Counted(u))') = task'[u].seen + task'[u].dir
    <3>1. CASE u = t
      <4>1. Owners(Counted(t))' = Owners(b)'
        BY <1>3 DEF Owners
      <4> QED BY <1>1, <1>3, <1>4, <1>9, <3>1, <4>1
    <3>2. CASE u # t
      <4>1. InSection(u)' BY <2>2 DEF InSection
      <4>2. PICK c \in Blocks \ {b} : c = Counted(u)
        BY <2>1, <3>2, <4>1
      <4>3. Owners(Counted(u))' = Owners(c)' /\ Owners(Counted(u)) = Owners(c)
        BY <2>1, <3>2, <4>1, <4>2 DEF Owners
      <4> QED BY <1>9, <2>1, <2>2, <3>2, <4>1, <4>2, <4>3 DEF SectionInv
    <3> QED BY <3>1, <3>2
  <2>3. ASSUME NEW u \in Threads, pc'[u] = "write"
        PROVE  ~Flying(Counted(u))' /\ task'[u].seen = count'[Counted(u)']
    <3>1. u \in Threads \ {t} /\ InSection(u)' BY <1>1, <2>3 DEF InSection
    <3>2. PICK c \in Blocks \ {b} : c = Counted(u)
      BY <2>1, <3>1
    <3>3. Counted(u)' = c /\ pc[u] = "write" /\ task'[u] = task[u]
      BY <2>1, <2>3, <3>1, <3>2
    <3>4. ~Flying(c) /\ task[u].seen = count[c]
      BY <3>2, <3>3 DEF SectionInv
    <3>5. Flying(Counted(u))' <=> Flying(c)'
      BY <3>3 DEF Flying
    <3> QED BY <1>1, <1>7, <3>3, <3>4, <3>5
  <2>4. ASSUME NEW u \in Threads, InSection(u)'
        PROVE  /\ InSection(u) /\ Counted(u)' = Counted(u) /\ Counted(u) \in Blocks
    BY <1>1, <1>2, <1>3, <2>1, <2>4 DEF InSection
  <2>5. ASSUME NEW u \in Threads, InSection(u)'
        PROVE  /\ u \notin Device
               /\ exec'[Counted(u)'] = "gpu"
               /\ LockOf[Counted(u)'] \in locked'
               /\ \A v \in Threads \ {u} : InSection(v)' =>
                    LockOf[Counted(v)'] # LockOf[Counted(u)']
    BY <1>1, <2>4, <2>5 DEF SectionInv
  <2> QED BY <2>2, <2>3, <2>5 DEF SectionInv
<1>16. DyingInv'
  <2>1. ASSUME Dying(t)' PROVE Owners(Counted(t))' = {} /\ Counted(t)' = b
    <3>1. Cardinality(Owners(b)') = 0
      BY <1>4, <1>9, <1>10, <2>1
    <3>2. Owners(Counted(t))' = Owners(b)'
      BY <1>3 DEF Owners
    <3> QED BY <1>3, <3>1, <3>2, NoOwnersPrime
  <2>2. ASSUME NEW u \in Threads \ {t}, Dying(u)'
        PROVE  Owners(Counted(u))' = {} /\ Counted(u)' # b
    <3>1. Dying(u) /\ Counted(u)' = Counted(u) /\ Counted(u) \in Blocks \ {b}
      BY <1>1, <1>11, <2>2, OthersGoOn DEF Dying
    <3>2. PICK c \in Blocks \ {b} : c = Counted(u)
      BY <3>1
    <3>3. Owners(Counted(u))' = Owners(c)' /\ Owners(Counted(u)) = Owners(c)
      BY <3>1, <3>2 DEF Owners
    <3> QED BY <1>9, <3>1, <3>2, <3>3 DEF DyingInv
  <2>3. \A u, v \in Threads \ {t} : u # v /\ Dying(u)' /\ Dying(v)' =>
          Counted(u)' # Counted(v)'
    BY <1>1, OthersGoOn DEF DyingInv
  <2> QED BY <2>1, <2>2, <2>3 DEF DyingInv
<1>17. FlyingInv'
  BY <1>1, <1>3, <1>7 DEF FlyingInv
<1>18. CountMatchesOwners'
  <2> SUFFICES ASSUME NEW c \in Blocks, mem'[c] = "live"
               PROVE  IF Flying(c)'
                      THEN \A s \in Streams : flying'[s][c] \in {None, Cardinality(Owners(c)')}
                      ELSE count'[c] = Cardinality(Owners(c)')
    BY DEF CountMatchesOwners
  <2>1. CASE c = b
    BY <1>4, <1>6, <1>9, <2>1
  <2>2. CASE c # b
    BY <1>1, <1>6, <1>7, <1>9, <2>2 DEF CountMatchesOwners
  <2> QED BY <2>1, <2>2
<1>19. NoUseAfterFree'
  <2>1. ASSUME NEW h \in Handles, handle'[h].cb # None, ~Uncounted(h)'
        PROVE  mem'[handle'[h].cb] = "live"
    <3>1. CASE handle[h].cb = b
      BY <1>1, <1>3, <3>1
    <3>2. CASE handle[h].cb # b
      <4>1. PICK c \in Blocks \ {b} : c = handle[h].cb
        BY <1>1, <2>1, <3>2 DEF ControlInv, TypeOK, HandleType
      <4>2. h \in Owners(c)
        BY <1>1, <1>9, <2>1, <4>1 DEF Owners
      <4> QED BY <1>1, <4>1, <4>2, ConstantsAssumption DEF NoUseAfterFree, Owners
    <3> QED BY <3>1, <3>2
  <2>2. ASSUME NEW u \in Threads \ {t},
               pc'[u] \in {"count", "read", "write", "unlock", "clean"}
        PROVE  mem'[Counted(u)'] = "live"
    BY <1>1, <2>2, OthersGoOn DEF NoUseAfterFree
  <2> QED BY <1>1, <1>3, <2>1, <2>2 DEF NoUseAfterFree
<1>20. NoOrphan'
  <2>1. ASSUME NEW c \in Blocks, mem'[c] = "live", Owners(c)' = {}
        PROVE  \E u \in Threads : Dying(u)' /\ Counted(u)' = c
    <3>1. CASE c = b
      <4>1. Cardinality(Owners(b)') = 0
        BY <2>1, <3>1, NoOwnersPrime
      <4>2. task[t].dir = -1 /\ count[b] = 1
        BY <1>3, <1>4, <1>9, <4>1, OwnersFinite
      <4> QED BY <1>3, <1>10, <3>1, <4>2
    <3>2. CASE c # b
      <4>1. Owners(c) = {} /\ mem[c] = "live"
        BY <1>1, <1>9, <2>1, <3>2
      <4>2. PICK u \in Threads : Dying(u) /\ Counted(u) = c
        BY <4>1 DEF NoOrphan
      <4>3. u # t
        BY <1>1, <4>2 DEF Dying
      <4> QED BY <1>1, <4>2, <4>3, OthersGoOn
    <3> QED BY <3>1, <3>2
  <2>2. ASSUME NEW c \in Blocks, mem'[c] = "new"
        PROVE  \E u \in Threads : task'[u].op \in {"reset", "transfer"} /\ task'[u].fresh = c
    BY <1>1, <1>14, <2>2 DEF NoOrphan
  <2> QED BY <1>16, <2>1, <2>2 DEF NoOrphan, DyingInv
<1> QED BY <1>13, <1>14, <1>15, <1>16, <1>17, <1>18, <1>19, <1>20

-----------------------------------------------------------------------------
(* The release *)

\* The block that is freed has no owner and no thread at its counter.
LEMMA CleanHeap ==
  ASSUME OneStream, ControlInv, HeapInv, NEW t \in Threads, Clean(t)
  PROVE  HeapInv'
<1> USE DEF HeapInv
<1>1. /\ Frame(t) /\ pc[t] = "clean" /\ UNCHANGED <<handle, exec, count, flying, locked, task>>
  BY CleanControl DEF Clean, Abort
<1>2. CASE ~Writable(t, task[t].dst)
  <2>1. /\ Frame(t) /\ UNCHANGED <<handle, mem, exec, pc, task>>
    BY <1>1, <1>2 DEF Clean
  <2>2. UNCHANGED <<handle, mem, exec, count, flying, locked, pc, task>>
    BY <1>1, <2>1
  <2> QED BY <2>2, QuietHeap
<1>3. CASE Writable(t, task[t].dst)
  <2>1. /\ flying[StreamOf(t)][Counted(t)] = None /\ pc'[t] = "finish"
        /\ mem' = [mem EXCEPT ![Counted(t)] = "free"]
    BY <1>1, <1>3 DEF Clean, ControlInv, TypeOK
  <2>2. PICK b \in Blocks, d \in Handles : b = Counted(t) /\ d = task[t].dst
    BY <1>1, AtCount DEF TaskFits
  <2>3. TaskFits(t) /\ task[t].dir = -1 /\ Dying(t) /\ mem[b] = "live"
    <3>1. TaskFits(t) /\ task[t].dir = -1
      BY <1>1, AtCount DEF TaskFits
    <3> QED BY <1>1, <2>2, <3>1 DEF Dying, NoUseAfterFree
  <2>4. Owners(b) = {} /\ \A u \in Threads \ {t} :
          pc[u] \in {"count", "read", "write", "unlock", "clean"} => Counted(u) # b
    <3>1. Owners(Counted(t)) = {}
      BY <2>3 DEF DyingInv
    <3> QED BY <2>2, <2>3, <3>1, DyingAlone
  <2>5. ~Flying(b)
    BY <1>1, <2>1, <2>2, Registers DEF OneStream, Flying, Busy
  <2>6. mem'[b] = "free" /\ \A c \in Blocks \ {b} : mem'[c] = mem[c]
    BY <2>1, <2>2 DEF ControlInv, TypeOK
  <2>7. \A h \in Handles : OwnerOf[h] = t => (Uncounted(h)' <=> Uncounted(h))
    BY <1>1, <2>1, <2>3 DEF Uncounted
  <2>8. \A c \in Blocks : Owners(c)' = Owners(c)
    BY <1>1, <2>7, SameOwners
  <2>9. \A c \in Blocks : Flying(c)' <=> Flying(c)
    BY <1>1 DEF Flying
  <2>10. ASSUME NEW u \in Threads, pc'[u] \in {"count", "read", "write", "unlock", "clean"}
         PROVE  /\ u # t /\ pc'[u] = pc[u] /\ task'[u] = task[u]
                /\ Counted(u)' = Counted(u) /\ Counted(u) \in Blocks \ {b}
                /\ (Dying(u)' <=> Dying(u))
    BY <1>1, <2>1, <2>4, <2>10, OthersGoOn
  <2>11. DeviceInv'
    <3>1. t \in Device => DeviceFits(t)'
      BY <1>1, <2>1 DEF DeviceInv, DeviceFits, Addressable, Ctx
    <3> QED BY <1>1, <3>1, DeviceKeeps
  <2>12. FreshInv' /\ \A c \in Blocks :
           (\E u \in Threads : task[u].op \in {"reset", "transfer"} /\ task[u].fresh = c)
           => \E u \in Threads : task'[u].op \in {"reset", "transfer"} /\ task'[u].fresh = c
    BY <1>1, <2>3, <2>6, FreshStays
  <2>13. SectionInv'
    <3>1. ASSUME NEW u \in Threads, InSection(u)'
          PROVE  /\ u # t /\ InSection(u) /\ pc'[u] = pc[u] /\ task'[u] = task[u]
                 /\ Counted(u)' = Counted(u) /\ Counted(u) \in Blocks \ {b}
      BY <2>10, <3>1 DEF InSection
    <3>2. ASSUME NEW u \in Threads, InSection(u)'
          PROVE  /\ u \notin Device
                 /\ exec'[Counted(u)'] = "gpu"
                 /\ LockOf[Counted(u)'] \in locked'
                 /\ \A v \in Threads \ {u} : InSection(v)' =>
                      LockOf[Counted(v)'] # LockOf[Counted(u)']
      BY <1>1, <3>1, <3>2 DEF SectionInv
    <3>3. ASSUME NEW u \in Threads, pc'[u] = "write"
          PROVE  ~Flying(Counted(u))' /\ task'[u].seen = count'[Counted(u)']
      <4>1. PICK c \in Blocks : c = Counted(u)
        BY <2>10, <3>3
      <4>2. Counted(u)' = c /\ pc[u] = "write" /\ task'[u] = task[u]
        BY <2>10, <3>3, <4>1
      <4>3. ~Flying(c) /\ task[u].seen = count[c]
        BY <4>1, <4>2 DEF SectionInv
      <4>4. Flying(Counted(u))' <=> Flying(c)'
        BY <4>2 DEF Flying
      <4> QED BY <1>1, <2>9, <4>2, <4>3, <4>4
    <3>4. ASSUME NEW u \in Threads, pc'[u] = "unlock"
          PROVE  Cardinality(Owners(Counted(u))') = task'[u].seen + task'[u].dir
      <4>1. PICK c \in Blocks : c = Counted(u)
        BY <2>10, <3>4
      <4>2. Owners(Counted(u))' = Owners(c)' /\ Owners(Counted(u)) = Owners(c)
        BY <2>10, <3>4, <4>1 DEF Owners
      <4> QED BY <2>8, <2>10, <3>4, <4>1, <4>2 DEF SectionInv
    <3> QED BY <3>2, <3>3, <3>4 DEF SectionInv
  <2>14. DyingInv'
    <3>1. ASSUME NEW u \in Threads, Dying(u)'
          PROVE  /\ u # t /\ Dying(u) /\ Counted(u)' = Counted(u) /\ Counted(u) \in Blocks
      BY <2>10, <3>1 DEF Dying
    <3>2. ASSUME NEW u \in Threads, Dying(u)' PROVE Owners(Counted(u))' = {}
      <4>1. PICK c \in Blocks : c = Counted(u)
        BY <3>1, <3>2
      <4>2. Owners(Counted(u))' = Owners(c)' /\ Owners(Counted(u)) = Owners(c)
        BY <3>1, <3>2, <4>1 DEF Owners
      <4> QED BY <2>8, <3>1, <3>2, <4>1, <4>2 DEF DyingInv
    <3> QED BY <3>1, <3>2 DEF DyingInv
  <2>15. FlyingInv'
    BY <1>1, <2>5, <2>6, <2>9 DEF FlyingInv
  <2>16. CountMatchesOwners'
    BY <1>1, <2>6, <2>8, <2>9 DEF CountMatchesOwners
  <2>17. NoUseAfterFree'
    <3>1. ASSUME NEW h \in Handles, handle'[h].cb # None, ~Uncounted(h)'
          PROVE  mem'[handle'[h].cb] = "live"
      <4>1. PICK c \in Blocks : c = handle[h].cb
        BY <1>1, <3>1 DEF ControlInv, TypeOK, HandleType
      <4>2. h \in Owners(c)
        BY <1>1, <2>8, <3>1, <4>1 DEF Owners
      <4> QED BY <1>1, <2>4, <2>6, <4>1, <4>2, ConstantsAssumption DEF NoUseAfterFree, Owners
    <3> QED BY <2>6, <2>10, <3>1 DEF NoUseAfterFree
  <2>18. NoOrphan'
    <3>1. ASSUME NEW c \in Blocks, mem'[c] = "live", Owners(c)' = {}
          PROVE  \E u \in Threads : Dying(u)' /\ Counted(u)' = c
      <4>1. c # b /\ mem[c] = "live" /\ Owners(c) = {}
        BY <2>6, <2>8, <3>1
      <4>2. PICK u \in Threads : Dying(u) /\ Counted(u) = c
        BY <4>1 DEF NoOrphan
      <4>3. u # t
        BY <2>2, <4>1, <4>2
      <4> QED BY <1>1, <4>2, <4>3, OthersGoOn
    <3>2. ASSUME NEW c \in Blocks, mem'[c] = "new"
          PROVE  \E u \in Threads : task'[u].op \in {"reset", "transfer"} /\ task'[u].fresh = c
      BY <2>6, <2>12, <3>2 DEF NoOrphan
    <3> QED BY <2>14, <3>1, <3>2 DEF NoOrphan, DyingInv
  <2> QED BY <2>11, <2>12, <2>13, <2>14, <2>15, <2>16, <2>17, <2>18
<1> QED BY <1>2, <1>3

-----------------------------------------------------------------------------
(* Theorems *)

\* Every step keeps HeapInv.
LEMMA HeapStep ==
  ASSUME OneStream, ControlInv, HeapInv, [Next]_vars
  PROVE  HeapInv'
<1>1. ASSUME NEW t \in Threads, Call(t) PROVE HeapInv'
  BY <1>1, MakeHeap, ResetHeap, RestreamHeap, TransferHeap, CopyConstructHeap,
     MoveConstructHeap, CopyAssignHeap, MoveAssignHeap, SwapHeap, CloneHeap DEF Call
<1>2. ASSUME NEW t \in Threads, Step(t) PROVE HeapInv'
  BY <1>2, CountAtomicHeap, LockHeap, ReadCountHeap, WriteCountHeap, UnlockHeap,
     CleanHeap, FinishDropHeap, FinishAssignHeap, FinishMoveAssignHeap,
     FinishResetHeap, FinishTransferHeap DEF Step
<1>3. ASSUME NEW t \in Threads, LeaveScope(t) PROVE HeapInv'
  BY <1>3, DropHeap DEF LeaveScope
<1>4. CASE Deliver
  BY <1>4, LandWriteHeap DEF Deliver
<1>5. CASE UNCHANGED vars
  BY <1>5, QuietHeap DEF vars
<1> QED BY <1>1, <1>2, <1>3, <1>4, <1>5 DEF Next

\* An empty heap satisfies HeapInv.
LEMMA HeapInit == Init => HeapInv
<1> SUFFICES ASSUME Init PROVE HeapInv
  OBVIOUS
<1> USE ConstantsAssumption
<1>1. /\ \A t \in Threads : pc[t] = "idle" /\ task[t].op = "none" /\ task[t].dst = None
      /\ \A h \in Handles : handle[h].cb = None
      /\ \A b \in Blocks : mem[b] = "free" /\ ~Flying(b)
  BY DEF Init, NoTask, Task, Empty, Flying
<1>2. \A t \in Threads : ~InSection(t) /\ ~Dying(t)
  BY <1>1 DEF InSection, Dying
<1> QED BY <1>1, <1>2
    DEF HeapInv, DeviceInv, DeviceFits, FreshInv, SectionInv, DyingInv, FlyingInv,
        CountMatchesOwners, NoUseAfterFree, NoOrphan

\* With one stream the inductive invariant holds in every reachable state, for
\* any number of threads, handles, blocks and locks: the counter protocol of
\* inc_dec_counter() and release() keeps all of its parts together.
THEOREM InvariantCorrect ==
  ASSUME OneStream
  PROVE  Spec => []IInv
<1>1. Init => IInv
  BY ControlInit, HeapInit DEF IInv
<1>2. IInv /\ [Next]_vars => IInv'
  BY ControlStep, HeapStep DEF IInv
<1> QED BY <1>1, <1>2, PTL DEF Spec

\* With one stream the reference count, as it is in memory or on its way there,
\* is the number of owning pointers of the block in every reachable state.
THEOREM CountCorrect ==
  ASSUME OneStream
  PROVE  Spec => []CountMatchesOwners
<1>1. IInv => CountMatchesOwners
  BY DEF IInv, HeapInv
<1> QED BY <1>1, InvariantCorrect, PTL

\* With one stream release() never frees a block that a pointer owns or whose
\* counter a thread is about to touch, and never frees a block twice.
THEOREM NoUseAfterFreeCorrect ==
  ASSUME OneStream
  PROVE  Spec => []NoUseAfterFree
<1>1. IInv => NoUseAfterFree
  BY DEF IInv, HeapInv
<1> QED BY <1>1, InvariantCorrect, PTL

\* With one stream no storage becomes unreachable: a block without owners has
\* exactly one thread on its way to free it.
THEOREM NoOrphanCorrect ==
  ASSUME OneStream
  PROVE  Spec => []NoOrphan
<1>1. IInv => NoOrphan
  BY DEF IInv, HeapInv
<1> QED BY <1>1, InvariantCorrect, PTL

-----------------------------------------------------------------------------
(* What follows from the invariant.                                        *)
(*                                                                         *)
(* UnifiedPtr implements SharedOwnership: each step of a thread creates a  *)
(* block, adds, removes, passes or trades owners, reclaims a block without *)
(* owners, or is not visible.                                              *)
(*                                                                         *)
(* A unique pointer is the only owner of its block: copies of a unique     *)
(* pointer, which the code lets through, end with the source released.     *)

-----------------------------------------------------------------------------
(* Steps that are not visible *)

\* The owners of all blocks stay, and so do the blocks that exist.
Invisible ==
  \A b \in Blocks : Owners(b)' = Owners(b) /\ (mem'[b] = "live" <=> mem[b] = "live")

\* What keeps the owners and the existing blocks is a stuttering step of
\* SharedOwnership.
LEMMA InvisibleStutters == Invisible => UNCHANGED Ownership!vars
BY DEF Invisible, Ownership!vars

\* An operation starts with a release: its handle is counted until the
\* decrement takes effect.
LEMMA BeginInvisible ==
  ASSUME ControlInv, NEW t \in Threads, Frame(t), pc[t] = "idle", handle' = handle,
         NEW op \in {"assign", "moveAssign", "drop", "reset", "transfer"},
         NEW h \in Handles, NEW s \in Handles, NEW c \in Blocks \cup {None},
         NEW e \in ExecTypes, BeginRelease(t, op, h, s, c, e),
         \A b \in Blocks : mem'[b] = "live" <=> mem[b] = "live"
  PROVE  Invisible
<1>1. /\ pc'[t] = (IF handle[h].cb = None THEN "finish" ELSE "count")
      /\ task'[t] = Task(op, h, s, -1, c, e)
  BY ReleaseEffect DEF ControlInv
<1>2. \A b \in Blocks : Owners(b)' = Owners(b)
  BY <1>1, AtStart, SameOwners, ConstantsAssumption DEF Uncounted, Task
<1> QED BY <1>2 DEF Invisible

\* A thread that stays idle and changes no control block.
LEMMA StayInvisible ==
  ASSUME ControlInv, NEW t \in Threads, Frame(t), Stay, mem' = mem,
         \A h \in Handles : handle'[h].cb = handle[h].cb
  PROVE  Invisible
<1>1. pc'[t] = pc[t] /\ task'[t] = task[t]
  BY DEF Stay
<1>2. \A b \in Blocks : Owners(b)' = Owners(b)
  BY <1>1, SameOwners, ConstantsAssumption DEF Uncounted
<1> QED BY <1>2 DEF Invisible

\* A thread that is inside an operation, changes no handle, and counts the
\* handles as before.
LEMMA CountedInvisible ==
  ASSUME ControlInv, NEW t \in Threads, Frame(t), handle' = handle, mem' = mem,
         \A h \in Handles : OwnerOf[h] = t => (Uncounted(h)' <=> Uncounted(h))
  PROVE  Invisible
<1>1. \A b \in Blocks : Owners(b)' = Owners(b)
  BY SameOwners
<1> QED BY <1>1 DEF Invisible

\* Copy construction takes the members; the new owner joins with the increment.
LEMMA CopyConstructInvisible ==
  ASSUME ControlInv, NEW t \in Threads, NEW d \in Handles, NEW s \in Handles,
         CopyConstruct(t, d, s)
  PROVE  Invisible
<1>1. Frame(t)
  BY CopyConstructControl
<1>2. /\ pc[t] = "idle" /\ mem' = mem /\ OwnerOf[d] = t
      /\ handle[d].cb = None /\ handle' = [handle EXCEPT ![d] = handle[s]]
      /\ BeginAcquire(t, "copy", d, s)
  BY DEF CopyConstruct, Start, SameHeap, MayCopy, MayModify
<1>3. pc'[t] = "count" /\ task'[t] = Task("copy", d, s, 1, None, "host")
  BY <1>2, AcquireEffect DEF ControlInv
<1>4. \A h \in Handles : h # d => handle'[h] = handle[h]
  BY <1>2 DEF ControlInv, TypeOK
<1>5. Uncounted(d)' /\ \A h \in Handles \ {d} : OwnerOf[h] = t => ~Uncounted(h)'
  BY <1>2, <1>3 DEF Uncounted, Task
<1>6. \A b \in Blocks : Owners(b)' = Owners(b)
  BY <1>1, <1>2, <1>4, <1>5, AtStart, SameOwners, ConstantsAssumption
<1> QED BY <1>2, <1>6 DEF Invisible

\* So does the second half of a copy assignment.
LEMMA FinishAssignInvisible ==
  ASSUME ControlInv, NEW t \in Threads, FinishAssign(t)
  PROVE  Invisible
<1>1. Frame(t) /\ pc[t] = "finish" /\ task[t].op = "assign" /\ mem' = mem
  BY FinishAssignControl DEF FinishAssign, Finishing, SameHeap
<1>0. PICK d \in Handles, s \in Handles : d = task[t].dst /\ s = task[t].src
  BY <1>1, AtFinish DEF TaskFits
<1>2. /\ d # s /\ OwnerOf[d] = t /\ handle'[d] = handle[s]
      /\ \A h \in Handles \ {d} : handle'[h] = handle[h]
  BY <1>0, <1>1, AtFinish DEF FinishAssign, ControlInv, TypeOK, TaskFits
<1>3. CASE handle[s].cb = None
  <2>1. Idle(t)
    BY <1>0, <1>3 DEF FinishAssign
  <2>2. \A b \in Blocks : Owners(b)' = Owners(b)
    BY <1>0, <1>1, <1>2, <1>3, <2>1, AtFinish, AtEnd, SameOwners, ConstantsAssumption
  <2> QED BY <1>1, <2>2 DEF Invisible
<1>4. CASE handle[s].cb # None
  <2>1. BeginAcquire(t, "assign", d, s)
    BY <1>0, <1>4 DEF FinishAssign
  <2>2. pc'[t] = "count" /\ task'[t] = Task("assign", d, s, 1, None, "host")
    BY <2>1, AcquireEffect DEF ControlInv
  <2>3. Uncounted(d)' /\ \A h \in Handles \ {d} : OwnerOf[h] = t => ~Uncounted(h)'
    BY <1>2, <2>2 DEF Uncounted, Task
  <2>4. \A h \in Handles, b \in Blocks : OwnerOf[h] = t =>
          (handle'[h].cb = b /\ ~Uncounted(h)' <=> handle[h].cb = b /\ ~Uncounted(h))
    BY <1>0, <1>1, <1>2, <2>3, AtFinish
  <2>5. \A b \in Blocks : Owners(b)' = Owners(b)
    BY <1>1, <2>4, SameOwners
  <2> QED BY <1>1, <2>5 DEF Invisible
<1> QED BY <1>3, <1>4

\* A handle that is emptied had left with the decrement.
LEMMA FinishDropInvisible ==
  ASSUME ControlInv, NEW t \in Threads, FinishDrop(t)
  PROVE  Invisible
<1>1. Frame(t) /\ pc[t] = "finish" /\ mem' = mem /\ Idle(t)
  BY FinishDropControl DEF FinishDrop, Finishing, SameHeap
<1>2. /\ task[t].dst \in Handles /\ handle'[task[t].dst].cb = None
      /\ \A h \in Handles \ {task[t].dst} : handle'[h] = handle[h]
  BY <1>1, AtFinish DEF FinishDrop, ControlInv, TypeOK, TaskFits, Empty
<1>3. \A b \in Blocks : Owners(b)' = Owners(b)
  BY <1>1, <1>2, AtFinish, AtEnd, SameOwners, ConstantsAssumption
<1> QED BY <1>1, <1>3 DEF Invisible

\* A staged count took effect when it was written, not when the lock is given
\* back.
LEMMA UnlockInvisible ==
  ASSUME ControlInv, NEW t \in Threads, Unlock(t)
  PROVE  Invisible
<1>1. Frame(t) /\ pc[t] = "unlock" /\ AfterCount(t, task[t].seen)
      /\ handle' = handle /\ mem' = mem
  BY UnlockControl DEF Unlock
<1>2. /\ task[t].dir = 1 => \A h \in Handles : OwnerOf[h] = t => ~Uncounted(h)'
      /\ task[t].dir = -1 =>
           \A h \in Handles : OwnerOf[h] = t => (Uncounted(h)' <=> h = task[t].dst)
  BY <1>1, AfterCountFacts
<1>3. /\ TaskFits(t) /\ task[t].dir \in {1, -1}
      /\ \A h \in Handles \ {task[t].dst} : OwnerOf[h] = t => ~Uncounted(h)
  BY <1>1, AtCount
<1>4. \A h \in Handles : OwnerOf[h] = t => (Uncounted(h)' <=> Uncounted(h))
  <2>1. Uncounted(task[t].dst) <=> task[t].dir = -1
    BY <1>1, <1>3 DEF Uncounted, TaskFits
  <2> QED BY <1>2, <1>3, <2>1 DEF TaskFits
<1> QED BY <1>1, <1>4, CountedInvisible

\* Moving on inside inc_dec_counter() without changing the counter.
LEMMA LockInvisible ==
  ASSUME ControlInv, NEW t \in Threads, Lock(t)
  PROVE  Invisible
<1>1. /\ Frame(t) /\ pc[t] = "count" /\ pc'[t] = "read" /\ task' = task
      /\ handle' = handle /\ mem' = mem
  BY LockControl DEF Lock, ControlInv, TypeOK
<1> QED BY <1>1, CountedInvisible DEF Uncounted

\* Reading the counter changes the registers of the thread only.
LEMMA ReadCountInvisible ==
  ASSUME ControlInv, NEW t \in Threads, ReadCount(t)
  PROVE  Invisible
<1>1. /\ Frame(t) /\ pc[t] = "read" /\ pc'[t] = "write"
      /\ task'[t] = [task[t] EXCEPT !.seen = count[Counted(t)]]
      /\ handle' = handle /\ mem' = mem
  BY ReadCountControl DEF ReadCount, SameHeap, ControlInv, TypeOK
<1>2. \A h \in Handles : OwnerOf[h] = t => (Uncounted(h)' <=> Uncounted(h))
  BY <1>1 DEF Uncounted, ControlInv, TypeOK, TaskType
<1> QED BY <1>1, <1>2, CountedInvisible

\* Delivering a counter, and steps that do nothing, concern no thread.
LEMMA NobodyInvisible ==
  ASSUME UNCHANGED <<handle, mem, pc, task>>
  PROVE  Invisible
<1>1. ASSUME NEW h \in Handles PROVE Uncounted(h)' <=> Uncounted(h)
  BY DEF Uncounted
<1> QED BY <1>1 DEF Invisible, Owners

-----------------------------------------------------------------------------
(* Steps that are visible *)

\* A count that takes effect lets an owner in or out.
LEMMA CountVisible ==
  ASSUME ControlInv, HeapInv, NEW t \in Threads, Frame(t), handle' = handle, mem' = mem,
         pc[t] \in {"count", "write"},
         \A h \in Handles : OwnerOf[h] = t =>
           (Uncounted(h)' <=> h = task[t].dst /\ task[t].dir = -1)
  PROVE  Ownership!Next
<1>1. PICK b \in Blocks, d \in Handles : b = Counted(t) /\ d = task[t].dst
  BY AtCount DEF TaskFits
<1>2. task[t].dir \in {1, -1} /\ mem[b] = "live"
  BY <1>1, AtCount DEF HeapInv, NoUseAfterFree
<1>3. /\ \A c \in Blocks \ {b} : Owners(c)' = Owners(c)
      /\ Owners(b)' = IF task[t].dir = 1 THEN Owners(b) \cup {d} ELSE Owners(b) \ {d}
      /\ Owners(b) # {}
  BY <1>1, CountEffect
<1>4. CASE task[t].dir = 1
  <2>1. Ownership!Join(d, b)
    BY <1>2, <1>3, <1>4 DEF Ownership!Join
  <2> QED BY <2>1 DEF Ownership!Next
<1>5. CASE task[t].dir = -1
  <2>1. d \in Owners(b)
    BY <1>1, <1>5, CountedHasOwner
  <2>2. Owners(b)' = Owners(b) \ {d}
    BY <1>3, <1>5
  <2>3. d \in Owners(b)
    BY <1>1, <2>1
  <2>4. Ownership!Leave(d, b)
    BY <1>3, <2>2, <2>3 DEF Ownership!Leave
  <2> QED BY <2>4 DEF Ownership!Next
<1> QED BY <1>2, <1>4, <1>5

\* The hardware-atomic update is such a count.
LEMMA CountAtomicVisible ==
  ASSUME ControlInv, HeapInv, NEW t \in Threads, CountAtomic(t)
  PROVE  Ownership!Next
<1>1. /\ Frame(t) /\ handle' = handle /\ mem' = mem /\ pc[t] = "count"
      /\ AfterCount(t, count[Counted(t)])
  BY CountAtomicControl DEF CountAtomic
<1>2. task[t].dir \in {1, -1}
  BY <1>1, AtCount
<1>3. \A h \in Handles : OwnerOf[h] = t =>
        (Uncounted(h)' <=> h = task[t].dst /\ task[t].dir = -1)
  BY <1>1, <1>2, AfterCountFacts
<1> QED BY <1>1, <1>3, CountVisible

\* So is the write of the staged update.
LEMMA WriteCountVisible ==
  ASSUME ControlInv, HeapInv, NEW t \in Threads, WriteCount(t)
  PROVE  Ownership!Next
<1>1. /\ Frame(t) /\ handle' = handle /\ mem' = mem /\ pc[t] = "write"
      /\ pc'[t] = "unlock" /\ task' = task
  BY WriteCountControl DEF WriteCount, ControlInv, TypeOK
<1>2. task[t].dir \in {1, -1}
  BY <1>1, AtCount
<1>3. \A h \in Handles : OwnerOf[h] = t =>
        (Uncounted(h)' <=> h = task[t].dst /\ task[t].dir = -1)
  BY <1>1, <1>2 DEF Uncounted
<1> QED BY <1>1, <1>3, CountVisible

\* What is freed has no owner.
LEMMA CleanVisible ==
  ASSUME ControlInv, HeapInv, NEW t \in Threads, Clean(t)
  PROVE  Ownership!Next \/ Invisible
<1>1. /\ Frame(t) /\ pc[t] = "clean" /\ handle' = handle /\ task' = task
  BY CleanControl DEF Clean, Abort
<1>2. CASE ~Writable(t, task[t].dst)
  <2>1. UNCHANGED <<handle, mem, pc, task>>
    BY <1>1, <1>2 DEF Clean
  <2> QED BY <2>1, NobodyInvisible
<1>3. CASE Writable(t, task[t].dst)
  <2>1. PICK b \in Blocks : b = Counted(t)
    BY <1>1, AtCount
  <2>2. pc'[t] = "finish" /\ mem' = [mem EXCEPT ![b] = "free"]
    BY <1>1, <1>3, <2>1 DEF Clean, ControlInv, TypeOK
  <2>3. TaskFits(t) /\ task[t].dir = -1 /\ Dying(t)
    BY <1>1, AtCount DEF TaskFits, Dying
  <2>4. mem[b] = "live" /\ Owners(b) = {}
    <3>1. Owners(Counted(t)) = {} /\ mem[Counted(t)] = "live"
      BY <1>1, <2>3 DEF HeapInv, DyingInv, NoUseAfterFree
    <3> QED BY <2>1, <3>1
  <2>5. \A h \in Handles : OwnerOf[h] = t => (Uncounted(h)' <=> Uncounted(h))
    BY <1>1, <2>2 DEF Uncounted
  <2>6. \A c \in Blocks : Owners(c)' = Owners(c)
    BY <1>1, <2>5, SameOwners
  <2>7. mem'[b] = "free" /\ \A c \in Blocks \ {b} : mem'[c] = mem[c]
    BY <2>2 DEF ControlInv, TypeOK
  <2>8. Ownership!Reclaim(b)
    BY <2>4, <2>6, <2>7 DEF Ownership!Reclaim
  <2> QED BY <2>8 DEF Ownership!Next
<1> QED BY <1>2, <1>3

\* A new block comes with one owner.
LEMMA CreateVisible ==
  ASSUME ControlInv, HeapInv, NEW t \in Threads, Frame(t),
         NEW h \in Handles, OwnerOf[h] = t, NEW b \in Blocks, mem[b] # "live",
         handle'[h].cb = b, \A g \in Handles \ {h} : handle'[g] = handle[g],
         handle[h].cb = None \/ Uncounted(h),
         \A g \in Handles \ {h} : OwnerOf[g] = t => ~Uncounted(g),
         \A g \in Handles : OwnerOf[g] = t => ~Uncounted(g)',
         mem' = [mem EXCEPT ![b] = "live"]
  PROVE  Ownership!Next
<1>1. Owners(b) = {}
  BY NotLiveNoOwners DEF HeapInv
<1>2. ASSUME NEW c \in Blocks, NEW g \in Handles \ {h}
      PROVE  g \in Owners(c)' <=> g \in Owners(c)
  <2>1. CASE OwnerOf[g] # t
    BY <2>1, OtherOwners
  <2>2. CASE OwnerOf[g] = t
    BY <2>2 DEF Owners
  <2> QED BY <2>1, <2>2
<1>3. ASSUME NEW c \in Blocks \ {b} PROVE Owners(c)' = Owners(c)
  <2>1. h \notin Owners(c) /\ h \notin Owners(c)'
    BY ConstantsAssumption DEF Owners
  <2> QED BY <1>2, <2>1 DEF Owners
<1>4. Owners(b)' = {h}
  <2>1. h \in Owners(b)'
    BY DEF Owners
  <2> QED BY <1>1, <1>2, <2>1 DEF Owners
<1>5. mem'[b] = "live" /\ \A c \in Blocks \ {b} : mem'[c] = mem[c]
  BY DEF ControlInv, TypeOK
<1>6. Ownership!Create(h, b)
  BY <1>3, <1>4, <1>5 DEF Ownership!Create
<1> QED BY <1>6 DEF Ownership!Next

\* Construction from fresh storage creates a block.
LEMMA MakeVisible ==
  ASSUME ControlInv, HeapInv, NEW t \in Threads, NEW h \in Handles, Make(t, h)
  PROVE  Ownership!Next
<1>1. Frame(t)
  BY MakeControl
<1>2. PICK b \in Blocks, s \in Streams :
        /\ mem[b] = "free"
        /\ Initialise(t, b, Ctx(t), s)
        /\ handle' = [handle EXCEPT ![h] = [cb |-> b, stream |-> s, prog |-> Ctx(t)]]
  BY DEF Make
<1>3. /\ handle'[h].cb = b /\ \A g \in Handles \ {h} : handle'[g] = handle[g]
  BY <1>2 DEF ControlInv, TypeOK
<1>4. pc[t] = "idle" /\ Stay /\ OwnerOf[h] = t /\ handle[h].cb = None
  BY DEF Make, Start, MayModify
<1>5. \A g \in Handles : OwnerOf[g] = t => ~Uncounted(g) /\ ~Uncounted(g)'
  BY <1>4, AtStart DEF Stay, Uncounted
<1> QED BY <1>1, <1>2, <1>3, <1>4, <1>5, CreateVisible DEF Initialise

\* So does the transfer of a handle with its own storage.
LEMMA CloneVisible ==
  ASSUME ControlInv, HeapInv, NEW t \in Threads, NEW d \in Handles, NEW s \in Handles,
         NEW e \in ExecTypes, Clone(t, d, s, e)
  PROVE  Ownership!Next
<1>1. Frame(t)
  BY CloneControl
<1>2. PICK b \in Blocks :
        /\ mem[b] = "free"
        /\ Initialise(t, b, e, handle[s].stream)
        /\ handle' = [handle EXCEPT ![d] =
                        [cb |-> b, stream |-> handle[s].stream, prog |-> Ctx(t)]]
  BY DEF Clone
<1>3. /\ handle'[d].cb = b /\ \A g \in Handles \ {d} : handle'[g] = handle[g]
  BY <1>2 DEF ControlInv, TypeOK
<1>4. pc[t] = "idle" /\ Stay /\ OwnerOf[d] = t /\ handle[d].cb = None
  BY DEF Clone, Start, MayModify
<1>5. \A g \in Handles : OwnerOf[g] = t => ~Uncounted(g) /\ ~Uncounted(g)'
  BY <1>4, AtStart DEF Stay, Uncounted
<1> QED BY <1>1, <1>2, <1>3, <1>4, <1>5, CreateVisible DEF Initialise

\* Storage that was allocated ahead becomes a block when it is initialised.
LEMMA AdoptVisible ==
  ASSUME ControlInv, HeapInv, NEW t \in Threads, Frame(t),
         pc[t] = "finish", task[t].op \in {"reset", "transfer"},
         NEW st, NEW pr,
         handle' = [handle EXCEPT ![task[t].dst] =
                      [cb |-> task[t].fresh, stream |-> st, prog |-> pr]],
         Initialise(t, task[t].fresh, task[t].to, st), Idle(t)
  PROVE  Ownership!Next
<1>1. PICK h \in Handles : h = task[t].dst /\ OwnerOf[h] = t
  BY AtFinish DEF TaskFits
<1>2. PICK b \in Blocks : b = task[t].fresh /\ mem[b] = "new"
  BY DEF HeapInv, FreshInv
<1>3. /\ handle'[h].cb = b /\ \A g \in Handles \ {h} : handle'[g] = handle[g]
  BY <1>1, <1>2 DEF ControlInv, TypeOK
<1>4. /\ Uncounted(h)
      /\ \A g \in Handles \ {h} : OwnerOf[g] = t => ~Uncounted(g)
      /\ \A g \in Handles : OwnerOf[g] = t => ~Uncounted(g)'
  BY <1>1, AtFinish, AtEnd
<1> QED BY <1>1, <1>2, <1>3, <1>4, CreateVisible DEF Initialise

\* The end of reset() adopts storage that nobody owned.
LEMMA FinishResetVisible ==
  ASSUME ControlInv, HeapInv, NEW t \in Threads, FinishReset(t)
  PROVE  Ownership!Next
<1>1. Frame(t) /\ pc[t] = "finish" /\ task[t].op = "reset" /\ Idle(t)
  BY FinishResetControl DEF FinishReset, Finishing
<1>2. PICK s \in Streams :
        /\ handle' = [handle EXCEPT ![task[t].dst] =
                        [cb |-> task[t].fresh, stream |-> s, prog |-> Ctx(t)]]
        /\ Initialise(t, task[t].fresh, task[t].to, s)
  BY DEF FinishReset
<1> QED BY <1>1, <1>2, AdoptVisible

\* So does the end of transfer().
LEMMA FinishTransferVisible ==
  ASSUME ControlInv, HeapInv, NEW t \in Threads, FinishTransfer(t)
  PROVE  Ownership!Next
<1>1. Frame(t) /\ pc[t] = "finish" /\ task[t].op = "transfer"
      /\ Initialise(t, task[t].fresh, task[t].to, StreamOf(t)) /\ Idle(t)
      /\ handle' = [handle EXCEPT ![task[t].dst] =
                      [cb |-> task[t].fresh, stream |-> StreamOf(t), prog |-> Ctx(t)]]
  BY FinishTransferControl DEF FinishTransfer, Finishing, StreamOf
<1> QED BY <1>1, AdoptVisible

\* What a thread's handle s held is held by its handle d, which held nothing.
LEMMA PassVisible ==
  ASSUME ControlInv, NEW t \in Threads, Frame(t), mem' = mem,
         NEW s \in Handles, NEW d \in Handles \ {s}, OwnerOf[s] = t, OwnerOf[d] = t,
         \A b \in Blocks : d \notin Owners(b),
         NEW b \in Blocks, handle[s].cb = b, handle'[d].cb = b, handle'[s].cb = None,
         \A h \in Handles \ {d, s} : handle'[h] = handle[h],
         \A h \in Handles \ {d} : OwnerOf[h] = t => ~Uncounted(h),
         \A h \in Handles : OwnerOf[h] = t => ~Uncounted(h)'
  PROVE  Ownership!Next
<1>1. ASSUME NEW c \in Blocks, NEW h \in Handles \ {d, s}
      PROVE  h \in Owners(c)' <=> h \in Owners(c)
  <2>1. CASE OwnerOf[h] # t
    BY <2>1, OtherOwners
  <2>2. CASE OwnerOf[h] = t
    BY <2>2 DEF Owners
  <2> QED BY <2>1, <2>2
<1>2. s \in Owners(b) /\ d \in Owners(b)' /\ s \notin Owners(b)'
  BY ConstantsAssumption DEF Owners
<1>3. Owners(b)' = (Owners(b) \ {s}) \cup {d}
  BY <1>1, <1>2 DEF Owners
<1>4. ASSUME NEW c \in Blocks \ {b} PROVE Owners(c)' = Owners(c)
  <2>1. s \notin Owners(c) /\ s \notin Owners(c)' /\ d \notin Owners(c) /\ d \notin Owners(c)'
    BY ConstantsAssumption DEF Owners
  <2> QED BY <1>1, <2>1 DEF Owners
<1>5. Ownership!Pass(s, d, b)
  BY <1>2, <1>3, <1>4 DEF Ownership!Pass
<1> QED BY <1>5 DEF Ownership!Next

\* A move construction passes the block on, unless its assert fires.
LEMMA MoveConstructVisible ==
  ASSUME ControlInv, NEW t \in Threads, NEW d \in Handles, NEW s \in Handles,
         MoveConstruct(t, d, s)
  PROVE  Ownership!Next \/ Invisible
<1>1. Frame(t) /\ pc[t] = "idle" /\ mem' = mem /\ Stay
  BY MoveConstructControl DEF MoveConstruct, Start, SameHeap
<1>2. CASE ~Writable(t, s)
  <2>1. handle' = handle
    BY <1>2 DEF MoveConstruct, Abort
  <2> QED BY <1>1, <2>1, StayInvisible
<1>3. CASE Writable(t, s)
  <2>1. /\ d # s /\ OwnerOf[d] = t /\ OwnerOf[s] = t
        /\ handle[d].cb = None /\ handle[s].cb # None
    BY DEF MoveConstruct, MayModify
  <2>2. PICK b \in Blocks : handle[s].cb = b
    BY <2>1 DEF ControlInv, TypeOK, HandleType
  <2>3. /\ handle'[d].cb = b /\ handle'[s].cb = None
        /\ \A h \in Handles \ {d, s} : handle'[h] = handle[h]
    BY <1>3, <2>1, <2>2 DEF MoveConstruct, ControlInv, TypeOK, Empty
  <2>4. \A h \in Handles : OwnerOf[h] = t => ~Uncounted(h) /\ ~Uncounted(h)'
    BY <1>1, AtStart DEF Stay, Uncounted
  <2>5. \A c \in Blocks : d \notin Owners(c)
    BY <2>1, ConstantsAssumption DEF Owners
  <2> QED BY <1>1, <2>1, <2>2, <2>3, <2>4, <2>5, PassVisible
<1> QED BY <1>2, <1>3

\* A move assignment passes the block on after its release; nothing is passed
\* on by an empty source, or from a handle to itself.
LEMMA FinishMoveAssignVisible ==
  ASSUME ControlInv, NEW t \in Threads, FinishMoveAssign(t)
  PROVE  Ownership!Next \/ Invisible
<1>1. /\ Frame(t) /\ pc[t] = "finish" /\ task[t].op = "moveAssign"
      /\ mem' = mem /\ Idle(t)
  BY FinishMoveAssignControl DEF FinishMoveAssign, Finishing, SameHeap
<1>2. PICK d \in Handles, s \in Handles : d = task[t].dst /\ s = task[t].src
  BY <1>1, AtFinish DEF TaskFits
<1>3. /\ OwnerOf[d] = t /\ OwnerOf[s] = t /\ handle'[s].cb = None
      /\ d # s => handle'[d] = handle[s]
      /\ \A h \in Handles \ {d, s} : handle'[h] = handle[h]
  BY <1>1, <1>2, AtFinish
  DEF FinishMoveAssign, ControlInv, TypeOK, TaskFits, ChangesSource, Empty
<1>4. /\ Uncounted(d)
      /\ \A h \in Handles \ {d} : OwnerOf[h] = t => ~Uncounted(h)
      /\ \A h \in Handles : OwnerOf[h] = t => ~Uncounted(h)'
  BY <1>1, <1>2, AtFinish, AtEnd
<1>5. CASE d # s /\ handle[s].cb # None
  <2>1. PICK b \in Blocks : handle[s].cb = b
    BY <1>5 DEF ControlInv, TypeOK, HandleType
  <2>2. \A c \in Blocks : d \notin Owners(c)
    BY <1>4 DEF Owners
  <2> QED BY <1>1, <1>3, <1>4, <1>5, <2>1, <2>2, PassVisible
<1>6. CASE ~(d # s /\ handle[s].cb # None)
  <2>1. ASSUME NEW h \in Handles, NEW b \in Blocks, OwnerOf[h] = t
        PROVE  handle'[h].cb = b /\ ~Uncounted(h)' <=> handle[h].cb = b /\ ~Uncounted(h)
    BY <1>3, <1>4, <1>6, <2>1, ConstantsAssumption
  <2>2. \A b \in Blocks : Owners(b)' = Owners(b)
    BY <1>1, <2>1, SameOwners
  <2> QED BY <1>1, <2>2 DEF Invisible
<1> QED BY <1>5, <1>6

\* swap() trades what the two handles own, unless its assert fires.
LEMMA SwapVisible ==
  ASSUME ControlInv, NEW t \in Threads, NEW g \in Handles, NEW h \in Handles, Swap(t, g, h)
  PROVE  Ownership!Next \/ Invisible
<1>1. Frame(t) /\ pc[t] = "idle" /\ mem' = mem /\ Stay
  BY SwapControl DEF Swap, Start, SameHeap
<1>2. g # h /\ OwnerOf[g] = t /\ OwnerOf[h] = t
  BY DEF Swap, MayModify
<1>3. CASE handle' = handle
  BY <1>1, <1>3, StayInvisible
<1>4. CASE handle' = [handle EXCEPT ![g] = handle[h], ![h] = handle[g]]
  <2>1. /\ handle'[g] = handle[h] /\ handle'[h] = handle[g]
        /\ \A k \in Handles \ {g, h} : handle'[k] = handle[k]
    BY <1>2, <1>4 DEF ControlInv, TypeOK
  <2>2. \A k \in Handles : OwnerOf[k] = t => ~Uncounted(k) /\ ~Uncounted(k)'
    BY <1>1, AtStart DEF Stay, Uncounted
  <2>3. ASSUME NEW b \in Blocks, NEW k \in Handles \ {g, h}
        PROVE  k \in Owners(b)' <=> k \in Owners(b)
    <3>1. CASE OwnerOf[k] # t
      BY <1>1, <3>1, OtherOwners
    <3>2. CASE OwnerOf[k] = t
      BY <2>1, <2>2, <3>2 DEF Owners
    <3> QED BY <3>1, <3>2
  <2>4. ASSUME NEW b \in Blocks
        PROVE  /\ g \in Owners(b)' <=> h \in Owners(b)
               /\ h \in Owners(b)' <=> g \in Owners(b)
    BY <1>2, <2>1, <2>2 DEF Owners
  <2>5. ASSUME NEW b \in Blocks
        PROVE  Owners(b)' = {k \in Handles : \/ k \notin {g, h} /\ k \in Owners(b)
                                             \/ k = g /\ h \in Owners(b)
                                             \/ k = h /\ g \in Owners(b)}
    BY <1>2, <2>3, <2>4 DEF Owners
  <2>6. Ownership!Trade(g, h)
    BY <1>1, <2>5 DEF Ownership!Trade
  <2> QED BY <2>6 DEF Ownership!Next
<1> QED BY <1>3, <1>4 DEF Swap, Abort

-----------------------------------------------------------------------------
(* The other operations that start *)

\* Another stream for the same block.
LEMMA RestreamInvisible ==
  ASSUME ControlInv, NEW t \in Threads, NEW h \in Handles, NEW s \in Streams,
         Restream(t, h, s)
  PROVE  Invisible
<1>1. Frame(t) /\ mem' = mem /\ Stay
  BY RestreamControl DEF Restream, SameHeap
<1>2. \A g \in Handles : handle'[g].cb = handle[g].cb
  BY DEF Restream, ControlInv, TypeOK, HandleType
<1> QED BY <1>1, <1>2, StayInvisible

\* A copy assignment starts with a release.
LEMMA CopyAssignInvisible ==
  ASSUME ControlInv, NEW t \in Threads, NEW d \in Handles, NEW s \in Handles,
         CopyAssign(t, d, s)
  PROVE  Invisible
<1>1. /\ Frame(t) /\ pc[t] = "idle" /\ handle' = handle /\ mem' = mem
      /\ BeginRelease(t, "assign", d, s, None, "host")
  BY CopyAssignControl DEF CopyAssign, Start, SameHeap
<1> QED BY <1>1, BeginInvisible DEF ExecTypes

\* So does a move assignment, unless its assert fires.
LEMMA MoveAssignInvisible ==
  ASSUME ControlInv, NEW t \in Threads, NEW d \in Handles, NEW s \in Handles,
         MoveAssign(t, d, s)
  PROVE  Invisible
<1>1. Frame(t) /\ pc[t] = "idle" /\ mem' = mem
  BY MoveAssignControl DEF MoveAssign, Start, SameHeap
<1>2. CASE Writable(t, s)
  <2>1. BeginRelease(t, "moveAssign", d, s, None, "host") /\ handle' = handle
    BY <1>2 DEF MoveAssign
  <2> QED BY <1>1, <2>1, BeginInvisible DEF ExecTypes
<1>3. CASE ~Writable(t, s)
  <2>1. Stay /\ handle' = handle
    BY <1>3 DEF MoveAssign, Abort
  <2> QED BY <1>1, <2>1, StayInvisible
<1> QED BY <1>2, <1>3

\* Destruction is a release.
LEMMA DropInvisible ==
  ASSUME ControlInv, NEW t \in Threads, NEW h \in Handles, Drop(t, h)
  PROVE  Invisible
<1>1. /\ Frame(t) /\ pc[t] = "idle" /\ handle' = handle /\ mem' = mem
      /\ BeginRelease(t, "drop", h, h, None, "host")
  BY DropControl DEF Drop, SameHeap
<1> QED BY <1>1, BeginInvisible DEF ExecTypes

\* Storage that is allocated ahead does not exist for the users yet.
LEMMA AllocateHides ==
  ASSUME ControlInv, NEW b \in Blocks, Allocate(b)
  PROVE  \A c \in Blocks : mem'[c] = "live" <=> mem[c] = "live"
BY DEF Allocate, ControlInv, TypeOK

\* reset() allocates ahead of its release.
LEMMA ResetInvisible ==
  ASSUME ControlInv, NEW t \in Threads, NEW h \in Handles, Reset(t, h)
  PROVE  Invisible
<1>1. Frame(t) /\ pc[t] = "idle" /\ handle' = handle
  BY ResetControl DEF Reset, Start
<1>2. PICK b \in Blocks : Allocate(b) /\ BeginRelease(t, "reset", h, h, b, Ctx(t))
  BY DEF Reset
<1> QED BY <1>1, <1>2, AllocateHides, BeginInvisible, CtxType

\* So does transfer().
LEMMA TransferInvisible ==
  ASSUME ControlInv, NEW t \in Threads, NEW h \in Handles, NEW to \in ExecTypes,
         Transfer(t, h, to)
  PROVE  Invisible
<1>1. Frame(t) /\ pc[t] = "idle" /\ handle' = handle /\ handle[h].cb # None
  BY TransferControl DEF Transfer, Start
<1>2. PICK b \in Blocks, e \in {to, exec[handle[h].cb]} :
        Allocate(b) /\ BeginRelease(t, "transfer", h, h, b, e)
  BY DEF Transfer
<1>3. e \in ExecTypes
  BY <1>1 DEF ControlInv, TypeOK, HandleType
<1> QED BY <1>1, <1>2, <1>3, AllocateHides, BeginInvisible

-----------------------------------------------------------------------------
(* The refinement *)

\* Nothing is owned at the start.
LEMMA OwnershipInit == Init => Ownership!Init
<1> SUFFICES ASSUME Init PROVE Ownership!Init
  OBVIOUS
<1>1. /\ \A h \in Handles : handle[h].cb = None
      /\ \A b \in Blocks : mem[b] = "free"
  BY DEF Init, Empty
<1>2. \A b \in Blocks : Owners(b) = {}
  BY <1>1, ConstantsAssumption DEF Owners
<1> QED BY <1>1, <1>2 DEF Ownership!Init

\* A step of the program is a step of SharedOwnership, or not visible there.
LEMMA OwnershipStep ==
  ASSUME IInv, [Next]_vars
  PROVE  [Ownership!Next]_(Ownership!vars)
<1> USE DEF IInv
<1>1. ASSUME NEW t \in Threads, Call(t) PROVE Ownership!Next \/ Invisible
  BY <1>1, MakeVisible, ResetInvisible, RestreamInvisible, TransferInvisible,
     CopyConstructInvisible, MoveConstructVisible, CopyAssignInvisible,
     MoveAssignInvisible, SwapVisible, CloneVisible DEF Call
<1>2. ASSUME NEW t \in Threads, Step(t) PROVE Ownership!Next \/ Invisible
  BY <1>2, CountAtomicVisible, LockInvisible, ReadCountInvisible, WriteCountVisible,
     UnlockInvisible, CleanVisible, FinishDropInvisible, FinishAssignInvisible,
     FinishMoveAssignVisible, FinishResetVisible, FinishTransferVisible DEF Step
<1>3. ASSUME NEW t \in Threads, LeaveScope(t) PROVE Invisible
  BY <1>3, DropInvisible DEF LeaveScope
<1>4. ASSUME Deliver PROVE Invisible
  <2>1. UNCHANGED <<handle, mem, pc, task>>
    BY <1>4 DEF Deliver, LandWrite, Stay
  <2> QED BY <2>1, NobodyInvisible
<1>5. ASSUME UNCHANGED vars PROVE Invisible
  BY <1>5, NobodyInvisible DEF vars
<1>6. Ownership!Next \/ Invisible
  BY <1>1, <1>2, <1>3, <1>4, <1>5 DEF Next
<1> QED BY <1>6, InvisibleStutters

\* With one stream every behaviour of the program, whatever the interleaving of
\* its threads, is one of SharedOwnership: storage is reclaimed when its last
\* owner has left, never before, and nobody joins a block without owners.
THEOREM OwnershipImplemented ==
  ASSUME OneStream
  PROVE  Spec => ImplementsOwnership
<1>1. Init => Ownership!Init
  BY OwnershipInit
<1>2. IInv /\ [Next]_vars => [Ownership!Next]_(Ownership!vars)
  BY OwnershipStep
<1> QED BY <1>1, <1>2, InvariantCorrect, PTL DEF Spec, ImplementsOwnership, Ownership!Spec

-----------------------------------------------------------------------------
(* The invariant *)

\* The members of h are left over from a block that was released.
Stale(h) ==
  LET t == OwnerOf[h]
  IN  /\ task[t].dst = h /\ task[t].dir = -1
      /\ pc[t] \in {"unlock", "clean", "finish"}

\* The block h has, counted or not yet counted.
Held(h) == IF Stale(h) THEN None ELSE handle[h].cb

\* Thread t copies a unique pointer it may write to.
Handing(t) ==
  /\ task[t].op \in {"copy", "assign"} /\ task[t].dir = 1
  /\ task[t].src \in Unique /\ Writable(t, task[t].src)

\* Thread t has still to decrement the counter of a handle it empties.
Dropping(t) == task[t].op = "drop" /\ pc[t] \in {"count", "read", "write"}

\* Unique pointer h and handle g have the same block for the time being: one is
\* copied to the other, or the one that was copied is on its way out.
Sharing(h, g) ==
  LET t == OwnerOf[h]
  IN  \/ Handing(t) /\ {h, g} = {task[t].src, task[t].dst}
      \/ Dropping(t) /\ task[t].dst \in {h, g}

\* h is a unique pointer that may be written to.
Exclusive(h) == h \in Unique /\ Held(h) # None /\ Writable(OwnerOf[h], h)

\* Nobody else has the block of such a pointer, but for a while a copy.
AloneInv ==
  \A h \in Handles : Exclusive(h) =>
    \A g \in Handles \ {h} : Held(g) = Held(h) => Sharing(h, g)

\* A unique pointer is assigned from a unique pointer only.
PolicyInv ==
  \A t \in Threads : task[t].op \in {"assign", "moveAssign"} /\ task[t].dst \in Unique =>
    task[t].src \in Unique

SoleInv == AloneInv /\ PolicyInv

-----------------------------------------------------------------------------
(* What a step of one thread leaves as it is *)

\* What other threads have, and how they share it, is not touched by t.
LEMMA OthersHold ==
  ASSUME ControlInv, NEW t \in Threads, Frame(t), NEW h \in Handles, OwnerOf[h] # t
  PROVE  /\ Held(h)' = Held(h) /\ (Exclusive(h)' <=> Exclusive(h))
         /\ \A g \in Handles : Sharing(h, g) => Sharing(h, g)'
<1> DEFINE u == OwnerOf[h]
<1>1. u \in Threads /\ u # t /\ handle'[h] = handle[h] /\ pc'[u] = pc[u] /\ task'[u] = task[u]
  BY ConstantsAssumption DEF Frame, OthersStay
<1>2. Held(h)' = Held(h) /\ (Exclusive(h)' <=> Exclusive(h))
  BY <1>1 DEF Held, Stale, Exclusive, Writable, Ctx
<1>3. ASSUME Handing(u) PROVE Handing(u)'
  <2>1. task[u].src \in Handles /\ OwnerOf[task[u].src] = u
    BY <1>1, <1>3, ConstantsAssumption
    DEF Handing, ControlInv, TaskInv, TaskFits, Busy, ChangesSource
  <2>2. handle'[task[u].src] = handle[task[u].src]
    BY <1>1, <2>1 DEF Frame
  <2> QED BY <1>1, <1>3, <2>2 DEF Handing, Writable, Ctx
<1>4. Dropping(u)' <=> Dropping(u)
  BY <1>1 DEF Dropping
<1> QED BY <1>1, <1>2, <1>3, <1>4 DEF Sharing

\* What t has to see to: that its own unique pointers are alone, and that it
\* gets nothing of a unique pointer of somebody else.
LEMMA AloneKeeps ==
  ASSUME ControlInv, AloneInv, NEW t \in Threads, Frame(t),
         \A h \in Handles : OwnerOf[h] = t /\ Exclusive(h)' =>
           \A g \in Handles \ {h} : Held(g)' = Held(h)' => Sharing(h, g)',
         \A g, h \in Handles :
           /\ OwnerOf[g] = t /\ OwnerOf[h] # t
           /\ Exclusive(h) /\ Held(g)' = Held(h)
           => Sharing(h, g)
  PROVE  AloneInv'
<1> SUFFICES ASSUME NEW h \in Handles, Exclusive(h)', NEW g \in Handles \ {h},
                    Held(g)' = Held(h)'
             PROVE  Sharing(h, g)'
  BY DEF AloneInv
<1>1. CASE OwnerOf[h] = t
  BY <1>1
<1>2. CASE OwnerOf[h] # t
  <2>1. Held(h)' = Held(h) /\ Exclusive(h)
    BY <1>2, OthersHold
  <2>2. Sharing(h, g)
    <3>1. CASE OwnerOf[g] = t
      BY <1>2, <2>1, <3>1
    <3>2. CASE OwnerOf[g] # t
      <4>1. Held(g)' = Held(g)
        BY <3>2, OthersHold
      <4> QED BY <2>1, <4>1 DEF AloneInv
    <3> QED BY <3>1, <3>2
  <2> QED BY <1>2, <2>2, OthersHold
<1> QED BY <1>1, <1>2

\* A step in which t gets no block.
LEMMA AloneQuiet ==
  ASSUME ControlInv, AloneInv, NEW t \in Threads, Frame(t),
         \A g \in Handles : OwnerOf[g] = t =>
           Held(g)' = None \/ (Held(g)' = Held(g) /\ handle'[g].prog = handle[g].prog),
         \A h, g \in Handles :
           /\ OwnerOf[h] = t /\ Exclusive(h) /\ Sharing(h, g)
           /\ h # g /\ Held(h)' # None /\ Held(g)' = Held(h)'
           => Sharing(h, g)'
  PROVE  AloneInv'
<1>1. ASSUME NEW g \in Handles PROVE Held(g)' \in {None, Held(g)}
  BY OthersHold
<1>2. ASSUME NEW h \in Handles, OwnerOf[h] = t, Exclusive(h)',
             NEW g \in Handles \ {h}, Held(g)' = Held(h)'
      PROVE  Sharing(h, g)'
  <2>1. Held(h)' # None
    BY <1>2 DEF Exclusive
  <2>2. Exclusive(h) /\ Held(g) = Held(h)
    BY <1>1, <1>2, <2>1 DEF Exclusive, Writable, Ctx
  <2>3. Sharing(h, g)
    BY <2>2 DEF AloneInv
  <2> QED BY <1>2, <2>1, <2>2, <2>3
<1>3. ASSUME NEW g \in Handles, NEW h \in Handles, OwnerOf[g] = t, OwnerOf[h] # t,
             Exclusive(h), Held(g)' = Held(h)
      PROVE  Sharing(h, g)
  <2>1. Held(g) = Held(h) /\ g # h
    BY <1>1, <1>3 DEF Exclusive
  <2> QED BY <1>3, <2>1 DEF AloneInv
<1> QED BY <1>2, <1>3, AloneKeeps

\* d comes to have what s has.  Nobody else is operating on s, and s is empty
\* afterwards unless t goes on to release it.
LEMMA AloneTake ==
  ASSUME ControlInv, AloneInv, NEW t \in Threads, Frame(t),
         NEW d \in Handles, NEW s \in Handles \ {d}, OwnerOf[d] = t,
         \A h, g \in Handles : OwnerOf[h] = t => ~Sharing(h, g),
         \A u \in Threads \ {t} : Busy(u) =>
           task[u].dst # s /\ (ChangesSource(u) => task[u].src # s),
         s \in Unique => OwnerOf[s] = t,
         d \in Unique => s \in Unique,
         Held(d)' = Held(s), handle'[d].prog = handle[s].prog,
         \A g \in Handles \ {d, s} : OwnerOf[g] = t =>
           Held(g)' = Held(g) /\ handle'[g].prog = handle[g].prog,
         \/ Held(s)' = None
         \/ /\ Held(s)' = Held(s) /\ handle'[s].prog = handle[s].prog
            /\ s \in Unique /\ Writable(t, s) => Sharing(s, d)' /\ Sharing(d, s)'
  PROVE  AloneInv'
<1>1. ASSUME NEW g \in Handles \ {d}, Held(g)' # None PROVE Held(g)' = Held(g)
  <2>1. CASE OwnerOf[g] = t
    BY <1>1, <2>1
  <2>2. CASE OwnerOf[g] # t
    BY <2>2, OthersHold
  <2> QED BY <2>1, <2>2
<1>2. ASSUME NEW h \in Handles, OwnerOf[h] = t, Exclusive(h)',
             NEW g \in Handles \ {h}, Held(g)' = Held(h)'
      PROVE  Sharing(h, g)'
  <2>1. Held(h)' # None /\ Held(g)' # None
    BY <1>2 DEF Exclusive
  <2>2. ASSUME NEW x \in Handles, OwnerOf[x] = t, Exclusive(x),
               NEW y \in Handles \ {x}, Held(y) = Held(x)
        PROVE  FALSE
    BY <2>2 DEF AloneInv
  <2>3. CASE h = d
    <3>1. OwnerOf[s] = t /\ Exclusive(s) /\ Writable(t, s)
      BY <1>2, <2>1, <2>3 DEF Exclusive, Writable, Ctx
    <3>2. g = s
      BY <1>1, <1>2, <2>1, <2>2, <2>3, <3>1
    <3> QED BY <2>1, <2>3, <3>1, <3>2 DEF Exclusive
  <2>4. CASE h # d /\ g = d
    <3>1. Held(h) = Held(s) /\ Exclusive(h)
      BY <1>1, <1>2, <2>1, <2>4 DEF Exclusive, Writable, Ctx
    <3>2. h = s
      BY <1>2, <2>2, <3>1
    <3> QED BY <1>2, <2>1, <2>4, <3>1, <3>2 DEF Exclusive
  <2>5. CASE h # d /\ g # d
    <3>1. Held(g) = Held(h) /\ Exclusive(h)
      BY <1>1, <1>2, <2>1, <2>5 DEF Exclusive, Writable, Ctx
    <3> QED BY <1>2, <2>2, <3>1
  <2> QED BY <2>3, <2>4, <2>5
<1>3. ASSUME NEW g \in Handles, NEW h \in Handles, OwnerOf[g] = t, OwnerOf[h] # t,
             Exclusive(h), Held(g)' = Held(h)
      PROVE  Sharing(h, g)
  <2>1. Held(h) # None /\ h \in Unique
    BY <1>3 DEF Exclusive
  <2>2. CASE g # d
    <3>1. Held(g) = Held(h) /\ g # h
      BY <1>1, <1>3, <2>1, <2>2
    <3> QED BY <1>3, <3>1 DEF AloneInv
  <2>3. CASE g = d
    <3> DEFINE u == OwnerOf[h]
    <3>1. u \in Threads \ {t}
      BY <1>3, ConstantsAssumption
    <3>2. h # s /\ Held(s) = Held(h)
      BY <1>3, <2>1, <2>3
    <3>3. Sharing(h, s)
      BY <1>3, <3>2 DEF AloneInv
    <3>4. Busy(u) /\ task[u].dst # s
      <4>1. pc[u] # "idle"
        BY <3>1, <3>3 DEF Sharing, Handing, Dropping, ControlInv, TaskInv, Busy
      <4> QED BY <3>1, <4>1 DEF Busy
    <3>5. ~(Handing(u) /\ {h, s} = {task[u].src, task[u].dst})
      BY <3>1, <3>2, <3>4 DEF Handing, ChangesSource
    <3>6. Dropping(u) /\ task[u].dst = h
      BY <3>3, <3>4, <3>5 DEF Sharing
    <3> QED BY <3>6 DEF Sharing
  <2> QED BY <2>2, <2>3
<1> QED BY <1>2, <1>3, AloneKeeps

\* A handle gets a block that nobody has.
LEMMA AloneNew ==
  ASSUME ControlInv, NoUseAfterFree, AloneInv, NEW t \in Threads, Frame(t),
         NEW d \in Handles, OwnerOf[d] = t, NEW b \in Blocks, mem[b] # "live",
         Held(d)' = b,
         \A h, g \in Handles : OwnerOf[h] = t => ~Sharing(h, g),
         \A g \in Handles \ {d} : OwnerOf[g] = t =>
           Held(g)' = Held(g) /\ handle'[g].prog = handle[g].prog
  PROVE  AloneInv'
<1>1. ASSUME NEW g \in Handles PROVE Held(g) # b
  <2> SUFFICES ASSUME Held(g) = b PROVE FALSE
    OBVIOUS
  <2>1. ~Stale(g) /\ handle[g].cb = b
    BY ConstantsAssumption DEF Held
  <2>2. Uncounted(g)
    BY <2>1, ConstantsAssumption DEF NoUseAfterFree
  <2>3. pc[OwnerOf[g]] \in {"count", "read", "write"} /\ task[OwnerOf[g]].dst = g
    BY <2>1, <2>2 DEF Uncounted, Stale
  <2> QED BY <2>1, <2>3, ConstantsAssumption DEF NoUseAfterFree, Counted
<1>2. ASSUME NEW g \in Handles \ {d} PROVE Held(g)' = Held(g)
  BY OthersHold
<1>3. ASSUME NEW h \in Handles, OwnerOf[h] = t, Exclusive(h)',
             NEW g \in Handles \ {h}, Held(g)' = Held(h)'
      PROVE  FALSE
  <2>1. h # d /\ g # d
    BY <1>1, <1>2, <1>3
  <2>2. Exclusive(h) /\ Held(g) = Held(h)
    BY <1>2, <1>3, <2>1 DEF Exclusive, Writable, Ctx
  <2> QED BY <1>3, <2>2 DEF AloneInv
<1>4. ASSUME NEW g \in Handles, NEW h \in Handles, OwnerOf[g] = t, OwnerOf[h] # t,
             Exclusive(h), Held(g)' = Held(h)
      PROVE  Sharing(h, g)
  <2>1. g # d /\ Held(g) = Held(h) /\ g # h
    BY <1>1, <1>2, <1>4
  <2> QED BY <1>4, <2>1 DEF AloneInv
<1> QED BY <1>3, <1>4, AloneKeeps

\* The other threads keep to the policies as long as t does.
LEMMA PolicyKeeps ==
  ASSUME PolicyInv, NEW t \in Threads, Frame(t),
         task'[t].op \in {"assign", "moveAssign"} /\ task'[t].dst \in Unique =>
           task'[t].src \in Unique
  PROVE  PolicyInv'
BY DEF PolicyInv, Frame, OthersStay

\* Between operations t has no copy under way, nor after its release.
LEMMA Unshared ==
  ASSUME ControlInv, NEW t \in Threads, pc[t] \in {"idle", "finish"}
  PROVE  /\ \A h, g \in Handles : OwnerOf[h] = t => ~Sharing(h, g)
         /\ \A h \in Handles : OwnerOf[h] = t =>
              (Stale(h) <=> pc[t] = "finish" /\ task[t].dst = h)
<1>1. ~Handing(t) /\ ~Dropping(t)
  BY AtStart, AtFinish DEF Handing, Dropping
<1>2. pc[t] = "finish" => task[t].dir = -1
  BY AtFinish
<1> QED BY <1>1, <1>2 DEF Sharing, Stale

\* After an operation nothing of t is left over.
LEMMA EndHolds ==
  ASSUME ControlInv, NEW t \in Threads, Idle(t)
  PROVE  \A h \in Handles : OwnerOf[h] = t => Held(h)' = handle'[h].cb
<1>1. pc'[t] = "idle"
  BY AtEnd
<1> QED BY <1>1 DEF Held, Stale

\* The policies do not concern a thread that is idle after the step.
LEMMA EndPolicy ==
  ASSUME ControlInv, PolicyInv, NEW t \in Threads, Frame(t), Idle(t)
  PROVE  PolicyInv'
BY AtEnd, PolicyKeeps

\* An operation that is over in one step leaves the registers alone.
LEMMA StayHolds ==
  ASSUME ControlInv, PolicyInv, NEW t \in Threads, Frame(t), pc[t] = "idle", Stay
  PROVE  /\ \A h \in Handles : OwnerOf[h] = t =>
              Held(h) = handle[h].cb /\ Held(h)' = handle'[h].cb
         /\ PolicyInv'
<1>1. pc'[t] = "idle" /\ task'[t] = task[t] /\ task[t].op = "none"
  BY AtStart DEF Stay
<1> QED BY <1>1, PolicyKeeps DEF Held, Stale

-----------------------------------------------------------------------------
(* Operations that start *)

\* An operation starts with a release.
LEMMA BeginSole ==
  ASSUME ControlInv, SoleInv, NEW t \in Threads, Frame(t), pc[t] = "idle", handle' = handle,
         NEW op \in {"assign", "moveAssign", "drop", "reset", "transfer"},
         NEW h \in Handles, NEW s \in Handles, NEW c \in Blocks \cup {None},
         NEW e \in ExecTypes, BeginRelease(t, op, h, s, c, e),
         op \in {"assign", "moveAssign"} /\ h \in Unique => s \in Unique
  PROVE  SoleInv'
<1> USE DEF SoleInv
<1>1. /\ pc'[t] = (IF handle[h].cb = None THEN "finish" ELSE "count")
      /\ task'[t] = Task(op, h, s, -1, c, e)
  BY ReleaseEffect DEF ControlInv
<1>2. \A g \in Handles : OwnerOf[g] = t => Held(g)' = Held(g)
  <2> SUFFICES ASSUME NEW g \in Handles, OwnerOf[g] = t PROVE Held(g)' = Held(g)
    OBVIOUS
  <2>1. Held(g) = handle[g].cb
    BY Unshared DEF Held
  <2>2. Stale(g)' => handle[g].cb = None
    BY <1>1 DEF Stale, Task
  <2> QED BY <2>1, <2>2 DEF Held
<1>3. AloneInv'
  BY <1>2, Unshared, AloneQuiet
<1>4. PolicyInv'
  BY <1>1, PolicyKeeps DEF Task
<1> QED BY <1>3, <1>4

\* A step that changes no block of any handle and no register.
LEMMA StaySole ==
  ASSUME ControlInv, SoleInv, NEW t \in Threads, Frame(t), pc[t] = "idle", Stay,
         \A h \in Handles : handle'[h].cb = handle[h].cb /\ handle'[h].prog = handle[h].prog
  PROVE  SoleInv'
<1> USE DEF SoleInv
<1>1. \A h \in Handles : OwnerOf[h] = t => Held(h)' = Held(h)
  BY StayHolds
<1> QED BY <1>1, Unshared, StayHolds, AloneQuiet

\* The operations of a handle, one lemma per action: the copy of a unique
\* pointer shares its block until the source is released.
LEMMA CopyConstructSole ==
  ASSUME ControlInv, SoleInv, NEW t \in Threads, NEW d \in Handles, NEW s \in Handles,
         CopyConstruct(t, d, s)
  PROVE  SoleInv'
<1> USE DEF SoleInv
<1>1. /\ Frame(t) /\ pc[t] = "idle" /\ MayCopy(t, d, s) /\ d # s
      /\ handle[d].cb = None /\ handle' = [handle EXCEPT ![d] = handle[s]]
      /\ BeginAcquire(t, "copy", d, s)
  BY CopyConstructControl DEF CopyConstruct, Start, MayCopy
<1>2. pc'[t] = "count" /\ task'[t] = Task("copy", d, s, 1, None, "host")
  BY <1>1, AcquireEffect DEF ControlInv
<1>3. /\ handle'[d] = handle[s]
      /\ \A h \in Handles \ {d} : handle'[h] = handle[h]
  BY <1>1 DEF ControlInv, TypeOK
<1>4. \A h \in Handles : OwnerOf[h] = t => Held(h) = handle[h].cb /\ Held(h)' = handle'[h].cb
  BY <1>1, <1>2, Unshared DEF Held, Stale
<1>5. /\ OwnerOf[d] = t /\ (s \in Unique => OwnerOf[s] = t) /\ (d \in Unique => s \in Unique)
      /\ \A u \in Threads \ {t} : Busy(u) =>
           task[u].dst # s /\ (ChangesSource(u) => task[u].src # s)
  BY <1>1 DEF MayCopy, MayModify, MayRead, Busy
<1>6. Held(s) = handle[s].cb /\ Held(s)' = Held(s)
  <2>1. CASE OwnerOf[s] = t
    BY <1>1, <1>3, <1>4, <2>1
  <2>2. CASE OwnerOf[s] # t
    <3>1. ~Stale(s)
      BY <1>5, <2>2, ConstantsAssumption DEF Stale, Busy
    <3> QED BY <1>1, <2>2, <3>1, OthersHold DEF Held
  <2> QED BY <2>1, <2>2
<1>7. s \in Unique /\ Writable(t, s) => Sharing(s, d)' /\ Sharing(d, s)'
  BY <1>1, <1>2, <1>3, <1>5 DEF Sharing, Handing, Task, Writable, Ctx
<1>8. AloneInv'
  BY <1>1, <1>3, <1>4, <1>5, <1>6, <1>7, Unshared, AloneTake
<1>9. PolicyInv'
  BY <1>1, <1>2, PolicyKeeps DEF Task
<1> QED BY <1>8, <1>9

\* A move leaves nothing in the source.
LEMMA MoveConstructSole ==
  ASSUME ControlInv, SoleInv, NEW t \in Threads, NEW d \in Handles, NEW s \in Handles,
         MoveConstruct(t, d, s)
  PROVE  SoleInv'
<1> USE DEF SoleInv
<1>1. Frame(t) /\ pc[t] = "idle" /\ Stay
  BY MoveConstructControl DEF MoveConstruct, Start
<1>2. CASE ~Writable(t, s)
  BY <1>1, <1>2, StaySole DEF MoveConstruct, Abort
<1>3. CASE Writable(t, s)
  <2>1. /\ d # s /\ OwnerOf[d] = t /\ OwnerOf[s] = t /\ (d \in Unique => s \in Unique)
        /\ \A u \in Threads \ {t} : Busy(u) => task[u].src # s
    BY DEF MoveConstruct, MayModify, Busy
  <2>2. /\ handle'[d] = handle[s] /\ handle'[s].cb = None
        /\ \A h \in Handles \ {d, s} : handle'[h] = handle[h]
    BY <1>3, <2>1 DEF MoveConstruct, ControlInv, TypeOK, Empty
  <2>3. \A h \in Handles : OwnerOf[h] = t =>
          Held(h) = handle[h].cb /\ Held(h)' = handle'[h].cb
    BY <1>1, StayHolds
  <2>4. \A u \in Threads \ {t} : Busy(u) => task[u].dst # s
    BY <2>1 DEF ControlInv, TaskInv, TaskFits
  <2>5. AloneInv'
    BY <1>1, <2>1, <2>2, <2>3, <2>4, Unshared, AloneTake
  <2> QED BY <1>1, <2>5, StayHolds
<1> QED BY <1>2, <1>3

\* Two pointers of one thread, both unique or both shared, change places.
LEMMA SwapSole ==
  ASSUME ControlInv, SoleInv, NEW t \in Threads, NEW g \in Handles, NEW h \in Handles,
         Swap(t, g, h)
  PROVE  SoleInv'
<1> USE DEF SoleInv
<1>1. Frame(t) /\ pc[t] = "idle" /\ Stay
  BY SwapControl DEF Swap, Start
<1>2. /\ g # h /\ OwnerOf[g] = t /\ OwnerOf[h] = t /\ (g \in Unique <=> h \in Unique)
      /\ \A u \in Threads \ {t} : Busy(u) => task[u].src # g /\ task[u].src # h
  BY DEF Swap, MayModify, Busy
<1>3. CASE handle' = handle
  BY <1>1, <1>3, StaySole
<1>4. CASE handle' = [handle EXCEPT ![g] = handle[h], ![h] = handle[g]]
  <2> DEFINE twin(k) == IF k = g THEN h ELSE IF k = h THEN g ELSE k
  <2>1. \A k \in Handles : twin(k) \in Handles /\ handle'[k] = handle[twin(k)]
    BY <1>2, <1>4 DEF ControlInv, TypeOK
  <2>2. \A k \in Handles : Held(k)' = Held(twin(k))
    <3> SUFFICES ASSUME NEW k \in Handles PROVE Held(k)' = Held(twin(k))
      OBVIOUS
    <3>1. CASE OwnerOf[k] = t
      BY <1>1, <1>2, <2>1, <3>1, StayHolds
    <3>2. CASE OwnerOf[k] # t
      BY <1>1, <1>2, <3>2, OthersHold
    <3> QED BY <3>1, <3>2
  <2>3. \A k \in Handles : OwnerOf[k] = t /\ Exclusive(k)' => Exclusive(twin(k))
    BY <1>2, <2>1, <2>2 DEF Exclusive, Writable, Ctx
  <2>4. ASSUME NEW k \in Handles, OwnerOf[k] = t, Exclusive(k)',
               NEW j \in Handles \ {k}, Held(j)' = Held(k)'
        PROVE  FALSE
    <3>1. /\ Exclusive(twin(k)) /\ OwnerOf[twin(k)] = t /\ twin(k) \in Handles
          /\ twin(j) \in Handles \ {twin(k)} /\ Held(twin(j)) = Held(twin(k))
      BY <1>2, <2>2, <2>3, <2>4
    <3>2. Sharing(twin(k), twin(j))
      BY <3>1 DEF AloneInv
    <3> QED BY <1>1, <3>1, <3>2, Unshared
  <2>5. ASSUME NEW j \in Handles, NEW k \in Handles, OwnerOf[j] = t, OwnerOf[k] # t,
               Exclusive(k), Held(j)' = Held(k)
        PROVE  Sharing(k, j)
    <3> DEFINE u == OwnerOf[k]
    <3>1. u \in Threads \ {t} /\ twin(j) \in Handles \ {k} /\ OwnerOf[twin(j)] = t
          /\ Held(twin(j)) = Held(k)
      BY <1>2, <2>2, <2>5, ConstantsAssumption
    <3>2. Sharing(k, twin(j))
      BY <2>5, <3>1 DEF AloneInv
    <3>3. Busy(u) /\ TaskFits(u)
      BY <3>1, <3>2 DEF Sharing, Handing, Dropping, ControlInv, TaskInv, Busy
    <3>4. CASE j \in {g, h}
      <4>1. task[u].src # twin(j) /\ task[u].dst # twin(j)
        BY <1>2, <3>1, <3>3, <3>4 DEF TaskFits
      <4>2. ~(Handing(u) /\ {k, twin(j)} = {task[u].src, task[u].dst})
        BY <3>1, <4>1
      <4>3. Dropping(u) /\ task[u].dst = k
        BY <3>2, <4>1, <4>2 DEF Sharing
      <4> QED BY <4>3 DEF Sharing
    <3>5. CASE j \notin {g, h}
      BY <3>2, <3>5
    <3> QED BY <3>4, <3>5
  <2>6. AloneInv'
    BY <1>1, <2>4, <2>5, AloneKeeps
  <2> QED BY <1>1, <2>6, StayHolds
<1> QED BY <1>3, <1>4 DEF Swap, Abort

\* Construction from fresh storage.
LEMMA MakeSole ==
  ASSUME ControlInv, HeapInv, SoleInv, NEW t \in Threads, NEW h \in Handles, Make(t, h)
  PROVE  SoleInv'
<1> USE DEF SoleInv
<1>1. Frame(t) /\ pc[t] = "idle" /\ Stay /\ OwnerOf[h] = t
  BY MakeControl DEF Make, Start, MayModify
<1>2. PICK b \in Blocks, s \in Streams :
        /\ mem[b] = "free"
        /\ handle' = [handle EXCEPT ![h] = [cb |-> b, stream |-> s, prog |-> Ctx(t)]]
  BY DEF Make
<1>3. handle'[h].cb = b /\ \A g \in Handles \ {h} : handle'[g] = handle[g]
  BY <1>2 DEF ControlInv, TypeOK
<1>4. AloneInv'
  BY <1>1, <1>2, <1>3, StayHolds, Unshared, AloneNew DEF HeapInv
<1> QED BY <1>1, <1>4, StayHolds

\* A copy of a handle that gets storage of its own.
LEMMA CloneSole ==
  ASSUME ControlInv, HeapInv, SoleInv, NEW t \in Threads, NEW d \in Handles,
         NEW s \in Handles, NEW e \in ExecTypes, Clone(t, d, s, e)
  PROVE  SoleInv'
<1> USE DEF SoleInv
<1>0. Frame(t)
  BY CloneControl
<1>1. pc[t] = "idle" /\ Stay /\ OwnerOf[d] = t
  BY DEF Clone, Start, MayModify
<1>2. PICK b \in Blocks :
        /\ mem[b] = "free"
        /\ handle' = [handle EXCEPT ![d] =
                        [cb |-> b, stream |-> handle[s].stream, prog |-> Ctx(t)]]
  BY DEF Clone
<1>3. handle'[d].cb = b /\ \A g \in Handles \ {d} : handle'[g] = handle[g]
  BY <1>2 DEF ControlInv, TypeOK
<1>4. AloneInv'
  BY <1>0, <1>1, <1>2, <1>3, StayHolds, Unshared, AloneNew DEF HeapInv
<1> QED BY <1>0, <1>1, <1>4, StayHolds

\* Another stream for the same block.
LEMMA RestreamSole ==
  ASSUME ControlInv, SoleInv, NEW t \in Threads, NEW h \in Handles, NEW s \in Streams,
         Restream(t, h, s)
  PROVE  SoleInv'
<1>1. Frame(t) /\ pc[t] = "idle" /\ Stay
  BY RestreamControl DEF Restream, Start
<1>2. \A g \in Handles : handle'[g].cb = handle[g].cb /\ handle'[g].prog = handle[g].prog
  BY DEF Restream, ControlInv, TypeOK, HandleType
<1> QED BY <1>1, <1>2, StaySole

\* A copy assignment starts with a release.
LEMMA CopyAssignSole ==
  ASSUME ControlInv, SoleInv, NEW t \in Threads, NEW d \in Handles, NEW s \in Handles,
         CopyAssign(t, d, s)
  PROVE  SoleInv'
<1>1. /\ Frame(t) /\ pc[t] = "idle" /\ handle' = handle
      /\ BeginRelease(t, "assign", d, s, None, "host") /\ (d \in Unique => s \in Unique)
  BY CopyAssignControl DEF CopyAssign, Start, MayCopy
<1> QED BY <1>1, BeginSole DEF ExecTypes

\* So does a move assignment, unless its assert fires.
LEMMA MoveAssignSole ==
  ASSUME ControlInv, SoleInv, NEW t \in Threads, NEW d \in Handles, NEW s \in Handles,
         MoveAssign(t, d, s)
  PROVE  SoleInv'
<1>1. Frame(t) /\ pc[t] = "idle" /\ (d \in Unique => s \in Unique)
  BY MoveAssignControl DEF MoveAssign, Start
<1>2. CASE Writable(t, s)
  <2>1. BeginRelease(t, "moveAssign", d, s, None, "host") /\ handle' = handle
    BY <1>2 DEF MoveAssign
  <2> QED BY <1>1, <2>1, BeginSole DEF ExecTypes
<1>3. CASE ~Writable(t, s)
  <2>1. Stay /\ handle' = handle
    BY <1>3 DEF MoveAssign, Abort
  <2> QED BY <1>1, <2>1, StaySole
<1> QED BY <1>2, <1>3

\* Destruction is a release.
LEMMA DropSole ==
  ASSUME ControlInv, SoleInv, NEW t \in Threads, NEW h \in Handles, Drop(t, h)
  PROVE  SoleInv'
<1>1. /\ Frame(t) /\ pc[t] = "idle" /\ handle' = handle
      /\ BeginRelease(t, "drop", h, h, None, "host")
  BY DropControl DEF Drop
<1> QED BY <1>1, BeginSole DEF ExecTypes

\* reset() starts with one, too.
LEMMA ResetSole ==
  ASSUME ControlInv, SoleInv, NEW t \in Threads, NEW h \in Handles, Reset(t, h)
  PROVE  SoleInv'
<1>1. Frame(t) /\ pc[t] = "idle" /\ handle' = handle
  BY ResetControl DEF Reset, Start
<1>2. PICK b \in Blocks : BeginRelease(t, "reset", h, h, b, Ctx(t))
  BY DEF Reset
<1> QED BY <1>1, <1>2, BeginSole, CtxType

\* And so does transfer().
LEMMA TransferSole ==
  ASSUME ControlInv, SoleInv, NEW t \in Threads, NEW h \in Handles, NEW to \in ExecTypes,
         Transfer(t, h, to)
  PROVE  SoleInv'
<1>1. Frame(t) /\ pc[t] = "idle" /\ handle' = handle /\ handle[h].cb # None
  BY TransferControl DEF Transfer, Start
<1>2. PICK b \in Blocks, e \in {to, exec[handle[h].cb]} :
        BeginRelease(t, "transfer", h, h, b, e)
  BY DEF Transfer
<1>3. e \in ExecTypes
  BY <1>1 DEF ControlInv, TypeOK, HandleType
<1> QED BY <1>1, <1>2, <1>3, BeginSole

-----------------------------------------------------------------------------
(* Operations that go on *)

\* t goes on with the same registers.  A handle whose decrement has taken
\* effect is stale.
LEMMA GoOnSole ==
  ASSUME ControlInv, SoleInv, NEW t \in Threads, Frame(t), handle' = handle,
         pc[t] \notin {"idle", "finish"}, pc'[t] \in PcValues \ {"idle"},
         pc[t] \in {"unlock", "clean"} => pc'[t] \in {"clean", "finish"},
         task'[t].op = task[t].op, task'[t].dst = task[t].dst,
         task'[t].src = task[t].src, task'[t].dir = task[t].dir
  PROVE  SoleInv'
<1> USE DEF SoleInv
<1>1. ASSUME NEW g \in Handles, OwnerOf[g] = t PROVE Held(g)' \in {None, Held(g)}
  <2>1. Stale(g) => Stale(g)'
    BY <1>1 DEF Stale
  <2> QED BY <2>1 DEF Held
<1>2. ASSUME NEW h \in Handles, NEW g \in Handles, OwnerOf[h] = t, Sharing(h, g),
             Held(h)' # None, Held(g)' = Held(h)'
      PROVE  Sharing(h, g)'
  <2>1. CASE Handing(t) /\ {h, g} = {task[t].src, task[t].dst}
    BY <1>2, <2>1 DEF Sharing, Handing, Writable, Ctx
  <2>2. CASE Dropping(t) /\ task[t].dst \in {h, g}
    <3>1. task[t].dir = -1 /\ OwnerOf[task[t].dst] = t /\ task[t].dst \in Handles
      BY <2>2, AtCount DEF Dropping, TaskFits
    <3>2. ~Stale(task[t].dst)'
      BY <1>2, <2>2 DEF Held
    <3>3. pc'[t] \in {"count", "read", "write"}
      BY <3>1, <3>2 DEF Stale, PcValues
    <3> QED BY <1>2, <2>2, <3>3 DEF Sharing, Dropping
  <2> QED BY <1>2, <2>1, <2>2 DEF Sharing
<1>3. AloneInv'
  BY <1>1, <1>2, AloneQuiet
<1>4. PolicyInv'
  BY PolicyKeeps DEF PolicyInv
<1> QED BY <1>3, <1>4

\* A unique pointer that was copied is released next, if it may be.
LEMMA AfterCountSole ==
  ASSUME ControlInv, SoleInv, NEW t \in Threads, Frame(t), handle' = handle,
         pc[t] \in {"count", "unlock"}, NEW prev, AfterCount(t, prev)
  PROVE  SoleInv'
<1>1. TaskFits(t) /\ task[t].dir \in {1, -1} /\ Counted(t) \in Blocks /\ Busy(t)
  BY AtCount
<1>2. CASE task[t].dir = -1
  <2>1. task'[t] = task[t] /\ pc'[t] \in {"clean", "finish"}
    BY <1>2, AfterCountFacts
  <2> QED BY <2>1, GoOnSole DEF PcValues
<1>3. CASE task[t].dir = 1
  <2> DEFINE s == task[t].src
             away == s \in Unique /\ Writable(t, s)
  <2>1. /\ s \in Handles /\ OwnerOf[task[t].dst] = t /\ task[t].op \in {"copy", "assign"}
        /\ handle[s].cb = Counted(t) /\ handle[s].cb # None
    BY <1>1, <1>3, ConstantsAssumption DEF TaskFits, ControlInv, AcquireInv, Counted
  <2>2. IF away
        THEN pc'[t] = "count" /\ task'[t] = Task("drop", s, s, -1, None, "host")
        ELSE pc'[t] = "idle" /\ task'[t] = NoTask
    <3>1. CASE away
      <4>1. BeginRelease(t, "drop", s, s, None, "host")
        BY <1>3, <3>1 DEF AfterCount, AfterIncrement
      <4> QED BY <2>1, <3>1, <4>1, ReleaseEffect DEF ControlInv, ExecTypes
    <3>2. CASE ~away
      <4>1. Idle(t)
        BY <1>3, <3>2 DEF AfterCount, AfterIncrement
      <4> QED BY <3>2, <4>1, IdleEffect DEF ControlInv
    <3> QED BY <3>1, <3>2
  <2>3. ASSUME NEW g \in Handles, OwnerOf[g] = t PROVE Held(g)' = Held(g)
    BY <1>3, <2>2, <2>3 DEF Held, Stale
  <2>4. ASSUME NEW h \in Handles, NEW g \in Handles, OwnerOf[h] = t, Sharing(h, g)
        PROVE  Sharing(h, g)'
    <3>1. Handing(t) /\ {h, g} = {s, task[t].dst}
      BY <2>1, <2>4 DEF Sharing, Dropping
    <3>2. pc'[t] = "count" /\ task'[t].op = "drop" /\ task'[t].dst = s
      BY <2>2, <3>1 DEF Handing, Task
    <3>3. s \in {h, g}
      BY <3>1
    <3> QED BY <2>4, <3>2, <3>3 DEF Sharing, Dropping
  <2>5. AloneInv'
    BY <2>3, <2>4, AloneQuiet DEF SoleInv
  <2>6. PolicyInv'
    BY <2>2, PolicyKeeps DEF SoleInv, Task, NoTask
  <2> QED BY <2>5, <2>6 DEF SoleInv
<1> QED BY <1>1, <1>2, <1>3

\* The steps of inc_dec_counter() and of the release, one lemma per action: the
\* hardware-atomic update.
LEMMA CountAtomicSole ==
  ASSUME ControlInv, SoleInv, NEW t \in Threads, CountAtomic(t)
  PROVE  SoleInv'
<1>1. Frame(t)
  BY CountAtomicControl
<1> QED BY <1>1, AfterCountSole DEF CountAtomic

\* The lock of the staged update.
LEMMA LockSole ==
  ASSUME ControlInv, SoleInv, NEW t \in Threads, Lock(t)
  PROVE  SoleInv'
<1>1. Frame(t)
  BY LockControl
<1>2. pc[t] = "count" /\ pc'[t] = "read" /\ task' = task /\ handle' = handle
  BY DEF Lock, ControlInv, TypeOK
<1> QED BY <1>1, <1>2, GoOnSole DEF PcValues

\* Its read.
LEMMA ReadCountSole ==
  ASSUME ControlInv, SoleInv, NEW t \in Threads, ReadCount(t)
  PROVE  SoleInv'
<1>1. Frame(t)
  BY ReadCountControl
<1>2. /\ pc[t] = "read" /\ pc'[t] = "write" /\ handle' = handle
      /\ task'[t] = [task[t] EXCEPT !.seen = count[Counted(t)]]
  BY DEF ReadCount, ControlInv, TypeOK
<1>3. /\ task'[t].op = task[t].op /\ task'[t].dst = task[t].dst
      /\ task'[t].src = task[t].src /\ task'[t].dir = task[t].dir
  BY <1>2 DEF ControlInv, TypeOK, TaskType
<1> QED BY <1>1, <1>2, <1>3, GoOnSole DEF PcValues

\* Its write.
LEMMA WriteCountSole ==
  ASSUME ControlInv, SoleInv, NEW t \in Threads, WriteCount(t)
  PROVE  SoleInv'
<1>1. Frame(t)
  BY WriteCountControl
<1>2. pc[t] = "write" /\ pc'[t] = "unlock" /\ task' = task /\ handle' = handle
  BY DEF WriteCount, ControlInv, TypeOK
<1> QED BY <1>1, <1>2, GoOnSole DEF PcValues

\* And its end.
LEMMA UnlockSole ==
  ASSUME ControlInv, SoleInv, NEW t \in Threads, Unlock(t)
  PROVE  SoleInv'
<1>1. Frame(t)
  BY UnlockControl
<1> QED BY <1>1, AfterCountSole DEF Unlock

\* A step that changes no handle and no register.
LEMMA NobodySole ==
  ASSUME SoleInv, UNCHANGED <<handle, pc, task>>
  PROVE  SoleInv'
<1>1. ASSUME NEW h \in Handles
      PROVE  /\ Held(h)' = Held(h) /\ (Exclusive(h)' <=> Exclusive(h))
             /\ \A g \in Handles : Sharing(h, g)' <=> Sharing(h, g)
  <2>1. Held(h)' = Held(h)
    BY DEF Held, Stale
  <2>2. Exclusive(h)' <=> Exclusive(h)
    BY <2>1 DEF Exclusive, Writable, Ctx
  <2> QED BY <2>1, <2>2 DEF Sharing, Handing, Dropping, Writable, Ctx
<1>2. AloneInv'
  BY <1>1 DEF SoleInv, AloneInv
<1> QED BY <1>2 DEF SoleInv, PolicyInv

\* The members stay when the block is freed.
LEMMA CleanSole ==
  ASSUME ControlInv, SoleInv, NEW t \in Threads, Clean(t)
  PROVE  SoleInv'
<1>1. Frame(t) /\ pc[t] = "clean" /\ handle' = handle /\ task' = task
  BY CleanControl DEF Clean, Abort
<1>2. CASE ~Writable(t, task[t].dst)
  BY <1>1, <1>2, NobodySole DEF Clean
<1>3. CASE Writable(t, task[t].dst)
  <2>1. pc'[t] = "finish"
    BY <1>3 DEF Clean, ControlInv, TypeOK
  <2> QED BY <1>1, <2>1, GoOnSole DEF PcValues
<1> QED BY <1>2, <1>3

-----------------------------------------------------------------------------
(* Operations that end *)

\* The handle is emptied.
LEMMA EmptiedSole ==
  ASSUME ControlInv, SoleInv, NEW t \in Threads, Frame(t), pc[t] = "finish", Idle(t),
         handle'[task[t].dst].cb = None,
         \A h \in Handles \ {task[t].dst} : handle'[h] = handle[h]
  PROVE  SoleInv'
<1>1. ASSUME NEW g \in Handles, OwnerOf[g] = t
      PROVE  Held(g)' = None \/ (Held(g)' = Held(g) /\ handle'[g].prog = handle[g].prog)
  <2>1. Held(g)' = handle'[g].cb
    BY <1>1, EndHolds
  <2>2. g # task[t].dst => Held(g) = handle[g].cb
    BY <1>1, Unshared DEF Held
  <2> QED BY <2>1, <2>2
<1>2. AloneInv'
  BY <1>1, Unshared, AloneQuiet DEF SoleInv
<1> QED BY <1>2, EndPolicy DEF SoleInv

\* As by a destruction.
LEMMA FinishDropSole ==
  ASSUME ControlInv, SoleInv, NEW t \in Threads, FinishDrop(t)
  PROVE  SoleInv'
<1>1. Frame(t) /\ pc[t] = "finish" /\ Idle(t)
  BY FinishDropControl DEF FinishDrop, Finishing
<1>2. /\ handle'[task[t].dst].cb = None
      /\ \A h \in Handles \ {task[t].dst} : handle'[h] = handle[h]
  BY <1>1, AtFinish DEF FinishDrop, ControlInv, TypeOK, TaskFits, Empty
<1> QED BY <1>1, <1>2, EmptiedSole

\* The second half of a copy assignment is like a copy construction.
LEMMA FinishAssignSole ==
  ASSUME ControlInv, SoleInv, NEW t \in Threads, FinishAssign(t)
  PROVE  SoleInv'
<1> USE DEF SoleInv
<1>1. Frame(t) /\ pc[t] = "finish" /\ task[t].op = "assign"
  BY FinishAssignControl DEF FinishAssign, Finishing
<1>2. PICK d \in Handles, s \in Handles : d = task[t].dst /\ s = task[t].src
  BY <1>1, AtFinish DEF TaskFits
<1>3. /\ d # s /\ OwnerOf[d] = t /\ handle'[d] = handle[s]
      /\ \A h \in Handles \ {d} : handle'[h] = handle[h]
      /\ d \in Unique => s \in Unique
      /\ s \in Unique => OwnerOf[s] = t
  BY <1>1, <1>2, AtFinish
  DEF FinishAssign, ControlInv, TypeOK, TaskFits, ChangesSource, PolicyInv
<1>4. CASE handle[s].cb = None
  <2>1. Idle(t)
    BY <1>2, <1>4 DEF FinishAssign
  <2> QED BY <1>1, <1>2, <1>3, <1>4, <2>1, EmptiedSole
<1>5. CASE handle[s].cb # None
  <2>1. BeginAcquire(t, "assign", d, s)
    BY <1>2, <1>5 DEF FinishAssign
  <2>2. pc'[t] = "count" /\ task'[t] = Task("assign", d, s, 1, None, "host")
    BY <2>1, AcquireEffect DEF ControlInv
  <2>3. \A h \in Handles : OwnerOf[h] = t =>
          /\ h # d => Held(h) = handle[h].cb
          /\ Held(h)' = handle'[h].cb
    BY <1>1, <1>2, <2>2, Unshared DEF Held, Stale
  <2>4. \A u \in Threads \ {t} : Busy(u) =>
          task[u].dst # s /\ (ChangesSource(u) => task[u].src # s)
    BY <1>1, <1>2 DEF ControlInv, ExclusionInv, Busy
  <2>5. Held(s) = handle[s].cb /\ Held(s)' = Held(s)
    <3>1. CASE OwnerOf[s] = t
      BY <1>3, <2>3, <3>1
    <3>2. CASE OwnerOf[s] # t
      <4>1. ~Stale(s)
        BY <2>4, <3>2, ConstantsAssumption DEF Stale, Busy
      <4> QED BY <1>1, <3>2, <4>1, OthersHold DEF Held
    <3> QED BY <3>1, <3>2
  <2>6. s \in Unique /\ Writable(t, s) => Sharing(s, d)' /\ Sharing(d, s)'
    BY <1>3, <2>2 DEF Sharing, Handing, Task, Writable, Ctx
  <2>7. AloneInv'
    BY <1>1, <1>3, <2>3, <2>4, <2>5, <2>6, Unshared, AloneTake
  <2>8. PolicyInv'
    BY <1>1, <1>3, <2>2, PolicyKeeps DEF Task
  <2> QED BY <2>7, <2>8
<1> QED BY <1>4, <1>5

\* That of a move assignment is like a move construction, or empties the handle
\* that was moved to itself.
LEMMA FinishMoveAssignSole ==
  ASSUME ControlInv, SoleInv, NEW t \in Threads, FinishMoveAssign(t)
  PROVE  SoleInv'
<1> USE DEF SoleInv
<1>1. /\ Frame(t) /\ pc[t] = "finish" /\ task[t].op = "moveAssign" /\ Idle(t)
  BY FinishMoveAssignControl DEF FinishMoveAssign, Finishing
<1>2. PICK d \in Handles, s \in Handles : d = task[t].dst /\ s = task[t].src
  BY <1>1, AtFinish DEF TaskFits
<1>3. /\ OwnerOf[d] = t /\ OwnerOf[s] = t /\ handle'[s].cb = None
      /\ d # s => handle'[d] = handle[s]
      /\ \A h \in Handles \ {d, s} : handle'[h] = handle[h]
      /\ d \in Unique => s \in Unique
  BY <1>1, <1>2, AtFinish
  DEF FinishMoveAssign, ControlInv, TypeOK, TaskFits, ChangesSource, Empty, PolicyInv
<1>4. CASE d = s
  BY <1>1, <1>2, <1>3, <1>4, EmptiedSole
<1>5. CASE d # s
  <2>1. \A h \in Handles : OwnerOf[h] = t =>
          /\ h # d => Held(h) = handle[h].cb
          /\ Held(h)' = handle'[h].cb
    BY <1>1, <1>2, Unshared, EndHolds DEF Held
  <2>2. \A u \in Threads \ {t} : Busy(u) =>
          task[u].dst # s /\ (ChangesSource(u) => task[u].src # s)
    BY <1>1, <1>2 DEF ControlInv, ExclusionInv, Busy
  <2>3. AloneInv'
    BY <1>1, <1>3, <1>5, <2>1, <2>2, Unshared, AloneTake
  <2> QED BY <1>1, <2>3, EndPolicy
<1> QED BY <1>4, <1>5

\* Storage that was allocated ahead is adopted.
LEMMA AdoptSole ==
  ASSUME ControlInv, HeapInv, SoleInv, NEW t \in Threads, Frame(t), pc[t] = "finish",
         task[t].op \in {"reset", "transfer"}, Idle(t), NEW st, NEW pr,
         handle' = [handle EXCEPT ![task[t].dst] =
                      [cb |-> task[t].fresh, stream |-> st, prog |-> pr]]
  PROVE  SoleInv'
<1> USE DEF SoleInv
<1>1. PICK d \in Handles : d = task[t].dst /\ OwnerOf[d] = t
  BY AtFinish DEF TaskFits
<1>2. PICK b \in Blocks : b = task[t].fresh /\ mem[b] = "new"
  BY DEF HeapInv, FreshInv
<1>3. handle'[d].cb = b /\ \A g \in Handles \ {d} : handle'[g] = handle[g]
  BY <1>1, <1>2 DEF ControlInv, TypeOK
<1>4. \A g \in Handles : OwnerOf[g] = t =>
        /\ g # d => Held(g) = handle[g].cb
        /\ Held(g)' = handle'[g].cb
  BY <1>1, Unshared, EndHolds DEF Held
<1>5. AloneInv'
  BY <1>1, <1>2, <1>3, <1>4, Unshared, AloneNew DEF HeapInv
<1> QED BY <1>5, EndPolicy

\* By reset().
LEMMA FinishResetSole ==
  ASSUME ControlInv, HeapInv, SoleInv, NEW t \in Threads, FinishReset(t)
  PROVE  SoleInv'
<1>1. Frame(t) /\ pc[t] = "finish" /\ task[t].op = "reset" /\ Idle(t)
  BY FinishResetControl DEF FinishReset, Finishing
<1>2. PICK s \in Streams :
        handle' = [handle EXCEPT ![task[t].dst] =
                     [cb |-> task[t].fresh, stream |-> s, prog |-> Ctx(t)]]
  BY DEF FinishReset
<1> QED BY <1>1, <1>2, AdoptSole

\* And by transfer().
LEMMA FinishTransferSole ==
  ASSUME ControlInv, HeapInv, SoleInv, NEW t \in Threads, FinishTransfer(t)
  PROVE  SoleInv'
<1>1. Frame(t) /\ pc[t] = "finish" /\ task[t].op = "transfer" /\ Idle(t)
      /\ handle' = [handle EXCEPT ![task[t].dst] =
                      [cb |-> task[t].fresh, stream |-> StreamOf(t), prog |-> Ctx(t)]]
  BY FinishTransferControl DEF FinishTransfer, Finishing, StreamOf
<1> QED BY <1>1, AdoptSole

-----------------------------------------------------------------------------
(* Theorem *)

\* Every step keeps SoleInv.
LEMMA SoleStep ==
  ASSUME IInv, SoleInv, [Next]_vars
  PROVE  SoleInv'
<1> USE DEF IInv
<1>1. ASSUME NEW t \in Threads, Call(t) PROVE SoleInv'
  BY <1>1, MakeSole, ResetSole, RestreamSole, TransferSole, CopyConstructSole,
     MoveConstructSole, CopyAssignSole, MoveAssignSole, SwapSole, CloneSole DEF Call
<1>2. ASSUME NEW t \in Threads, Step(t) PROVE SoleInv'
  BY <1>2, CountAtomicSole, LockSole, ReadCountSole, WriteCountSole, UnlockSole,
     CleanSole, FinishDropSole, FinishAssignSole, FinishMoveAssignSole,
     FinishResetSole, FinishTransferSole DEF Step
<1>3. ASSUME NEW t \in Threads, LeaveScope(t) PROVE SoleInv'
  BY <1>3, DropSole DEF LeaveScope
<1>4. CASE Deliver
  <2>1. UNCHANGED <<handle, pc, task>>
    BY <1>4 DEF Deliver, LandWrite, Stay
  <2> QED BY <2>1, NobodySole
<1>5. CASE UNCHANGED vars
  BY <1>5, NobodySole DEF vars
<1> QED BY <1>1, <1>2, <1>3, <1>4, <1>5 DEF Next

\* Nothing is held at the start.
LEMMA SoleInit == Init => SoleInv
<1> SUFFICES ASSUME Init PROVE SoleInv
  OBVIOUS
<1>1. /\ \A t \in Threads : pc[t] = "idle" /\ task[t].op = "none"
      /\ \A h \in Handles : handle[h].cb = None
  BY DEF Init, NoTask, Task, Empty
<1>2. \A h \in Handles : Held(h) = None
  BY <1>1 DEF Held
<1> QED BY <1>1, <1>2 DEF SoleInv, AloneInv, PolicyInv, Exclusive

\* A pointer whose thread is idle shares nothing.
LEMMA IdleIsSole == IInv /\ SoleInv => UniqueIsSole
<1> SUFFICES ASSUME IInv, SoleInv, NEW h \in Unique, handle[h].cb # None,
                    Writable(OwnerOf[h], h), pc[OwnerOf[h]] = "idle"
             PROVE  Owners(handle[h].cb) = {h}
  BY DEF UniqueIsSole
<1> USE DEF IInv
<1>1. h \in Handles /\ OwnerOf[h] \in Threads
  BY ConstantsAssumption
<1>2. Held(h) = handle[h].cb /\ Exclusive(h) /\ ~Uncounted(h)
  BY <1>1, AtStart DEF Held, Stale, Exclusive
<1>3. ASSUME NEW g \in Handles \ {h}, g \in Owners(handle[h].cb) PROVE FALSE
  <2>1. Held(g) = Held(h)
    BY <1>2, <1>3 DEF Owners, Uncounted, Held, Stale
  <2>2. Sharing(h, g)
    BY <1>1, <1>2, <2>1 DEF SoleInv, AloneInv
  <2> QED BY <1>1, <2>2, Unshared
<1> QED BY <1>1, <1>2, <1>3 DEF Owners

\* With one stream a unique pointer that may write to its block is the block's
\* only owner while nobody operates on it, whatever was copied from it before.
THEOREM UniqueCorrect ==
  ASSUME OneStream
  PROVE  Spec => []UniqueIsSole
<1>1. Init => SoleInv
  BY SoleInit
<1>2. IInv /\ SoleInv /\ [Next]_vars => SoleInv'
  BY SoleStep
<1>3. IInv /\ SoleInv => UniqueIsSole
  BY IdleIsSole
<1> QED BY <1>1, <1>2, <1>3, InvariantCorrect, PTL DEF Spec
=============================================================================
