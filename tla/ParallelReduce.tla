---------------------------- MODULE ParallelReduce ----------------------------
(***************************************************************************)
(* op_parallel: a reduction in layers.  A layer of m values is cut into    *)
(* groups of "serial" values, one unit reduces one group, and the results  *)
(* are written behind the layer, where they are the next layer:            *)
(*                                                                         *)
(*    cells   0 .. n-1 | n .. n+m1-1 | n+m1 .. | ...  | the last cell      *)
(*                                                                         *)
(* A value is known by the input positions it was reduced from, in their   *)
(* order: those from "from" up to and without "upto".  So the operation    *)
(* only has to be associative, as + and * of the code are up to rounding.  *)
(*                                                                         *)
(* With CUDA the transfers and kernels are queued in a stream, the host    *)
(* goes on, and the units of a kernel run in any order; otherwise each     *)
(* command has run when the next is given.  That a dispatch over n indices *)
(* runs each of them once is EachIndexOnce of KernelRun.  "fallback" is    *)
(* op_parallel_core called on memory of the host in a CUDA build that      *)
(* finds no device.                                                        *)
(***************************************************************************)
EXTENDS Integers, Sequences, FiniteSets, SequencesExt

CONSTANTS Counts,   \* numbers of values a caller reduces
          Serials,  \* its n_serial
          Kinds,    \* subset of {"add", "subtract"}: with and without a first value kept apart
          Paths,    \* subset of {"device", "host", "fallback"}
          Word      \* 2^64, or a smaller number in its place

WordAssumption ==
  Word \in Nat \ {0} /\ \A c \in Counts, s \in Serials : c < Word /\ s \in 1 .. Word - 1

\* What reductions need of users: something to reduce, groups of two at least,
\* room for the layers, and no fallback.
SensibleCalls ==
  /\ Kinds \subseteq {"add", "subtract"} /\ Paths \subseteq {"device", "host"}
  /\ \A n \in Counts : n \in Nat \ {0}
  /\ \A s \in Serials : s \in Nat /\ s >= 2
  /\ \A n \in Counts, s \in Serials : 3 * n < Word /\ n + s <= Word

VARIABLES call,    \* the caller's arguments
          pc,      \* where the host is
          neff,    \* cells of the buffer
          left,    \* values of the layer in hand
          at,      \* cell the layer starts at
          cells,   \* the buffer d_vals, <<>> while there is none
          h_res,   \* the result the host will read
          queue,   \* commands in the stream, the first one being run
          strayed, \* a unit has left the buffer
          result   \* what the caller got

vars == <<call, pc, neff, left, at, cells, h_res, queue, strayed, result>>

\* What fresh memory holds, and what is reduced from it or from values that do
\* not follow one another.
Garbage == [from |-> 0, upto |-> 0]
Mixed   == [from |-> 0, upto |-> 1]

\* The input at position p, and values by the operation, one after the other.
Input(p)    == [from |-> p, upto |-> p + 1]
Combined(v) ==
  IF /\ \A j \in DOMAIN v : v[j].from > 0
     /\ \A j \in 1 .. Len(v) - 1 : v[j + 1].from = v[j].upto
    THEN [from |-> v[1].from, upto |-> v[Len(v)].upto]
  ELSE Mixed

\* Positions of the input op_parallel is given: subtract_parallel and
\* divide_parallel keep the first value and reduce the others.
First(c)  == IF c.kind = "subtract" THEN 2 ELSE 1
Amount(c) == c.count + 1 - First(c)

\* Mutant of NOps: one group too many.
NOpsUp(m, s) == (m + s) \div s

NOps(m, s) == ((((m - 1) % Word) + s) % Word) \div s

\* add_serial, subtract_serial, ...: one pass over the values.
Serial(c) == [from |-> 1, upto |-> c.count + 1]

-----------------------------------------------------------------------------
(* Units.                                                                  *)

\* Mutant: the last group is as long as the others.
GroupSizeFull(i, m, s) == s

\* How many values unit i takes of a layer of m.
GroupSize(i, m, s) == IF i * s + s > m THEN (m - i * s) % Word ELSE s

\* The cells of its group, in order; an operation reads the first in any case.
Group(i, c) ==
  LET s == call.serial
      k == GroupSize(i, c.m, s)
  IN  [j \in 1 .. IF k = 0 THEN 1 ELSE k |-> c.at + i * s + j - 1]

Op(group) == Combined([j \in DOMAIN group |-> cells[group[j]]])

\* The indices kernel() lets through; the fallback calls the unit itself.
Admitted(c) ==
  IF call.path = "fallback" THEN 0 .. c.m - 1 ELSE 0 .. NOps(c.m, call.serial) - 1

Inside(i, c) == ToSet(Group(i, c)) \cup {c.at + c.m + i} \subseteq DOMAIN cells

-----------------------------------------------------------------------------
Init ==
  /\ call = [kind |-> "add", count |-> 1, serial |-> 1, path |-> "host"]
  /\ pc = "idle" /\ neff = 0 /\ left = 0 /\ at = 0
  /\ cells = <<>> /\ h_res = Garbage /\ queue = <<>>
  /\ strayed = FALSE /\ result = Garbage

\* subtract_parallel of one value returns it.
Begin(c) ==
  /\ pc = "idle" /\ queue = <<>>
  /\ call' = c
  /\ IF c.kind = "subtract" /\ c.count = 1
       THEN pc' = "done" /\ result' = Input(1) /\ UNCHANGED left
     ELSE pc' = "sizing" /\ left' = Amount(c) /\ UNCHANGED result
  /\ neff' = 0 /\ at' = 0
  /\ UNCHANGED <<cells, h_res, queue, strayed>>

\* One level of parallel_op_n_mem.
Size ==
  /\ pc = "sizing" /\ left # 1
  /\ neff' = (neff + left) % Word
  /\ left' = NOps(left, call.serial)
  /\ UNCHANGED <<call, pc, at, cells, h_res, queue, strayed, result>>

\* Its last level, the two allocations and the transfer of the values.
Allocate ==
  /\ pc = "sizing" /\ left = 1
  /\ neff' = neff + 1
  /\ cells' = [c \in 0 .. neff |-> Garbage]
  /\ h_res' = Garbage
  /\ queue' = <<[do |-> "in"]>>
  /\ left' = Amount(call)
  /\ pc' = "layers"
  /\ UNCHANGED <<call, at, strayed, result>>

\* The host gives its next command.
Ready == call.path = "device" \/ queue = <<>>

\* One level of op_parallel_core.
Layer ==
  /\ pc = "layers" /\ left # 1 /\ Ready
  /\ LET kernel == [do |-> "kernel", m |-> left, at |-> at] IN
       queue' = Append(queue, [do |-> "kernel", m |-> left, at |-> at, todo |-> Admitted(kernel)])
  /\ at' = at + left
  /\ left' = NOps(left, call.serial)
  /\ UNCHANGED <<call, pc, neff, cells, h_res, strayed, result>>

Collect ==
  /\ pc = "layers" /\ left = 1 /\ Ready
  /\ queue' = Append(queue, [do |-> "out"])
  /\ pc' = "collect"
  /\ UNCHANGED <<call, neff, left, at, cells, h_res, strayed, result>>

\* stream.synchronize(), then the buffer is given back.
Synchronize ==
  /\ pc = "collect" /\ queue = <<>>
  /\ queue' = Append(queue, [do |-> "free"])
  /\ pc' = "read"
  /\ UNCHANGED <<call, neff, left, at, cells, h_res, strayed, result>>

\* *h_res is returned, and combined with the value kept apart.
Return ==
  /\ pc = "read"
  /\ result' = IF call.kind = "subtract" THEN Combined(<<Input(1), h_res>>) ELSE h_res
  /\ pc' = "done"
  /\ UNCHANGED <<call, neff, left, at, cells, h_res, queue, strayed>>

Finish ==
  /\ pc = "done"
  /\ pc' = "idle"
  /\ UNCHANGED <<call, neff, left, at, cells, h_res, queue, strayed, result>>

-----------------------------------------------------------------------------
(* The stream: the command at the head of the queue.                       *)
Heads(what) == queue # <<>> /\ Head(queue).do = what

CopyIn ==
  /\ Heads("in")
  /\ cells' = [c \in DOMAIN cells |-> IF c < Amount(call) THEN Input(First(call) + c) ELSE cells[c]]
  /\ queue' = Tail(queue)
  /\ UNCHANGED <<call, pc, neff, left, at, h_res, strayed, result>>

RunUnit(i) ==
  /\ Heads("kernel") /\ i \in Head(queue).todo
  /\ LET c    == Head(queue)
         rest == c.todo \ {i}
     IN  /\ IF Inside(i, c)
              THEN cells' = [cells EXCEPT ![c.at + c.m + i] = Op(Group(i, c))] /\ UNCHANGED strayed
            ELSE strayed' = TRUE /\ UNCHANGED cells
         /\ queue' = IF rest = {} THEN Tail(queue) ELSE <<[c EXCEPT !.todo = rest]>> \o Tail(queue)
  /\ UNCHANGED <<call, pc, neff, left, at, h_res, result>>

CopyOut ==
  /\ Heads("out")
  /\ h_res' = cells[neff - 1]
  /\ queue' = Tail(queue)
  /\ UNCHANGED <<call, pc, neff, left, at, cells, strayed, result>>

Free ==
  /\ Heads("free")
  /\ cells' = <<>>
  /\ queue' = Tail(queue)
  /\ UNCHANGED <<call, pc, neff, left, at, h_res, strayed, result>>

Units  == \E i \in 0 .. left + at : RunUnit(i)
Stream == CopyIn \/ Units \/ CopyOut \/ Free

Host == Size \/ Allocate \/ Layer \/ Collect \/ Synchronize \/ Return \/ Finish

Call == \E c \in [kind : Kinds, count : Counts, serial : Serials, path : Paths] : Begin(c)

Next == Call \/ Host \/ Stream

Spec == Init /\ [][Next]_vars
\* The host thread goes on, and the device works off its stream.
FairSpec == Spec /\ WF_vars(Host) /\ WF_vars(Stream)
-----------------------------------------------------------------------------
TypeOK ==
  /\ call.kind \in {"add", "subtract"} /\ call.path \in {"device", "host", "fallback"}
  /\ pc \in {"idle", "sizing", "layers", "collect", "read", "done"}
  /\ neff \in 0 .. Word - 1 /\ left \in 0 .. Word - 1 /\ at \in Nat
  /\ \A c \in DOMAIN cells : cells[c] \in [from : Nat, upto : Nat]
  /\ \A j \in DOMAIN queue : queue[j].do \in {"in", "kernel", "out", "free"}
  /\ strayed \in BOOLEAN

\* The layers fit the buffer parallel_op_n_mem asks for, whatever the sizes of
\* the last groups: no unit reads or writes a cell outside it.
StaysInBuffer == ~strayed

\* No unit reads a cell before the unit that fills it, or the transfer, has run,
\* or a group of values that do not follow one another.
ReadsSettledCells == \A c \in DOMAIN cells : cells[c] # Mixed

\* The caller gets what one pass over the values gives, in their order: no
\* value is lost, counted twice or moved past another.
ResultIsSerial == pc = "done" => result = Serial(call)

\* A reduction returns what one pass over the values gives; no unit leaves the
\* buffer parallel_op_n_mem asked for, or reads a cell before it is filled.
ReductionsAreSerial == TypeOK /\ ResultIsSerial /\ StaysInBuffer /\ ReadsSettledCells

\* op_parallel returns ("Run a grouped parallel operation and return the final
\* reduced value.").
Returns == [](pc = "sizing" => <>(pc = "done"))

=============================================================================
