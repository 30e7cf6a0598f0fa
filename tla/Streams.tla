------------------------------ MODULE Streams ------------------------------
(***************************************************************************)
(* The wrappers of CUDA streams and events: who owns a raw stream and      *)
(* destroys it, and the order the host gives to work in several streams by *)
(* recording events in one and letting another wait for them.              *)
(***************************************************************************)
EXTENDS Naturals, Sequences, FiniteSets

CONSTANTS Wrappers,   \* places for IvyCudaStream objects
          Raws,       \* raw streams
          Given,      \* the raw streams that come from outside
          Events,     \* IvyCudaEvent objects
          EventFlags, \* flags they are constructed with
          MaxWork,    \* bound on the pieces of work
          MaxRecords, \* bound on the recordings of an event
          MaxQueue,   \* bound on what a stream has to do
          Managed,    \* make_stream is used
          None

ASSUME StreamsAssumption == /\ Given \subseteq Raws /\ None \notin Raws \cup Events
                            /\ MaxWork \in Nat /\ MaxRecords \in Nat /\ MaxQueue \in Nat
                            /\ Managed \in BOOLEAN

VARIABLES wrapper,  \* wrapper[w]: how it was made, its stream, is_owned_
          live,     \* raw streams that exist
          queue,    \* queue[r]: what stream r has to do
          recorded, \* recorded[e]: flags_ of e, and for each time it was
                    \* recorded the work before that
          measures, \* events whose raw event takes times
          reached,  \* recordings the device has come to
          done,     \* work that is done
          before,   \* before[r]: work that comes before what r is given next
          needs,    \* needs[k]: work that comes before k
          known     \* work the host has waited for

vars == <<wrapper, live, queue, recorded, measures, reached, done, before, needs, known>>

NoWrapper == [kind |-> "none", raw |-> None, owned |-> FALSE]
Work      == 1 .. MaxWork

Init == /\ wrapper = [w \in Wrappers |-> NoWrapper]
        /\ live = Given
        /\ queue = [r \in Raws |-> <<>>]
        /\ recorded = [e \in Events |-> [flags |-> None, after |-> <<>>]]
        /\ measures = {}
        /\ reached = {}
        /\ done = {}
        /\ before = [r \in Raws |-> {}]
        /\ needs = <<>>
        /\ known = {}

\* How often e was recorded, and the work before its mth recording.
Times(e)    == Len(recorded[e].after)
After(e, m) == recorded[e].after[m]

streaming == <<recorded, measures, reached, done, needs, known>>
owning    == <<wrapper, live, measures>>

\* Users do not use a stream, nor own it, that is gone or owned by another.
Usable(w)   == wrapper[w].raw \in live
Ownerless(r) == r \in live /\ \A w \in Wrappers : wrapper[w].raw = r => ~wrapper[w].owned
Unused(r)   == r \notin live \cup Given /\ queue[r] = <<>> /\ \A w \in Wrappers : wrapper[w].raw # r
-----------------------------------------------------------------------------
(* Ownership *)

\* buildRawStream: a stream with nothing to do.
Build(w, kind) ==
  \E r \in Raws :
    /\ Unused(r)
    /\ wrapper' = [wrapper EXCEPT ![w] = [kind |-> kind, raw |-> r, owned |-> TRUE]]
    /\ live' = live \cup {r}
    /\ before' = [before EXCEPT ![r] = {}]
    /\ UNCHANGED <<queue, streaming>>

\* A stream that is there, to own only if nobody else does.
Wrap(w, kind) ==
  \E r \in live, own \in BOOLEAN :
    /\ own => Ownerless(r)
    /\ wrapper' = [wrapper EXCEPT ![w] = [kind |-> kind, raw |-> r, owned |-> own]]
    /\ UNCHANGED <<live, queue, before, streaming>>

\* IvyCudaStream(flags, priority) and IvyCudaStream(st, do_own)
Construct(w) ==
  wrapper[w].kind = "none" /\ (Build(w, "local") \/ Wrap(w, "local"))

\* make_stream by flags or from a raw stream; a stream that is there before is
\* given to destroy_stream first.
Make(w) ==
  Managed /\ wrapper[w].kind \in {"none", "managed"} /\ (Build(w, "managed") \/ Wrap(w, "managed"))

\* Mutant of Destruct: the flag is not looked at.
DestructAlways(w) ==
  /\ wrapper[w].kind = "local"
  /\ live' = live \ {wrapper[w].raw}
  /\ wrapper' = [wrapper EXCEPT ![w] = NoWrapper]
  /\ UNCHANGED <<queue, before, streaming>>

\* ~IvyBaseStream.  What is queued in a destroyed stream is still done.
Destruct(w) ==
  /\ wrapper[w].kind = "local"
  /\ live' = IF wrapper[w].owned THEN live \ {wrapper[w].raw} ELSE live
  /\ wrapper' = [wrapper EXCEPT ![w] = NoWrapper]
  /\ UNCHANGED <<queue, before, streaming>>

\* destroy_stream: the memory is freed, the destructor does not run.
Destroy(w) ==
  /\ wrapper[w].kind = "managed"
  /\ wrapper' = [wrapper EXCEPT ![w] = NoWrapper]
  /\ UNCHANGED <<live, queue, before, streaming>>

Swap(v, w) ==
  /\ wrapper[v].kind # "none" /\ wrapper[w].kind # "none"
  /\ wrapper' = [wrapper EXCEPT ![v] = [wrapper[w] EXCEPT !.kind = wrapper[v].kind],
                               ![w] = [wrapper[v] EXCEPT !.kind = wrapper[w].kind]]
  /\ UNCHANGED <<live, queue, before, streaming>>
-----------------------------------------------------------------------------
(* Order *)

Queue(r, task) == Len(queue[r]) < MaxQueue /\ queue' = [queue EXCEPT ![r] = Append(@, task)]

\* A kernel, a transfer or a callback, given to a stream.
Launch(w) ==
  /\ Usable(w) /\ Len(needs) < MaxWork
  /\ LET r == wrapper[w].raw
         k == Len(needs) + 1
     IN  /\ Queue(r, [does |-> "work", of |-> k])
         /\ needs' = Append(needs, before[r])
         /\ before' = [before EXCEPT ![r] = @ \cup {k}]
  /\ UNCHANGED <<owning, recorded, reached, done, known>>

\* IvyCudaEvent(flags): the raw event is created without them.
NewEvent(e) ==
  /\ recorded[e].flags = None
  /\ \E f \in EventFlags : recorded' = [recorded EXCEPT ![e].flags = f]
  /\ measures' = measures \cup {e}
  /\ UNCHANGED <<wrapper, live, queue, reached, done, before, needs, known>>

\* event.record(stream)
Record(e, w) ==
  /\ Usable(w) /\ recorded[e].flags # None /\ Times(e) < MaxRecords
  /\ LET r == wrapper[w].raw IN
       /\ Queue(r, [does |-> "record", of |-> <<e, Times(e) + 1>>])
       /\ recorded' = [recorded EXCEPT ![e].after = Append(@, before[r])]
  /\ UNCHANGED <<owning, reached, done, before, needs, known>>

\* Mutant of Wait: the stream waits for the first recording.
WaitFirst(w, e) ==
  /\ Usable(w)
  /\ Times(e) > 0
  /\ LET r == wrapper[w].raw IN
       /\ Queue(r, [does |-> "wait", of |-> <<e, 1>>])
       /\ before' = [before EXCEPT ![r] = @ \cup After(e, Times(e))]
  /\ UNCHANGED <<owning, streaming>>

\* Mutant of Wait: the stream waits for the recording after the last one.
WaitNext(w, e) ==
  /\ Usable(w)
  /\ Times(e) > 0
  /\ LET r == wrapper[w].raw IN
       /\ Queue(r, [does |-> "wait", of |-> <<e, Times(e) + 1>>])
       /\ before' = [before EXCEPT ![r] = @ \cup After(e, Times(e))]
  /\ UNCHANGED <<owning, streaming>>

\* stream.wait(event): for the last recording there was when it was called.
Wait(w, e) ==
  /\ Usable(w)
  /\ Times(e) > 0
  /\ LET r == wrapper[w].raw IN
       /\ Queue(r, [does |-> "wait", of |-> <<e, Times(e)>>])
       /\ before' = [before EXCEPT ![r] = @ \cup After(e, Times(e))]
  /\ UNCHANGED <<owning, streaming>>

\* The host waits for all a stream has to do, or for the last recording.
Synchronize(w) ==
  /\ Usable(w) /\ queue[wrapper[w].raw] = <<>>
  /\ known' = known \cup before[wrapper[w].raw]
  /\ UNCHANGED <<owning, queue, recorded, reached, done, before, needs>>

SynchronizeEvent(e) ==
  /\ recorded[e].flags # None
  /\ Times(e) > 0 => <<e, Times(e)>> \in reached
  /\ known' = known \cup (IF Times(e) > 0 THEN After(e, Times(e)) ELSE {})
  /\ UNCHANGED <<owning, queue, recorded, reached, done, before, needs>>

\* The device does the first task of a stream; a wait ends when its recording
\* has been reached.
Run(r) ==
  /\ queue[r] # <<>>
  /\ LET task == Head(queue[r]) IN
       /\ task.does = "wait" => task.of \in reached
       /\ done' = IF task.does = "work" THEN done \cup {task.of} ELSE done
       /\ reached' = IF task.does = "record" THEN reached \cup {task.of} ELSE reached
  /\ queue' = [queue EXCEPT ![r] = Tail(@)]
  /\ UNCHANGED <<owning, recorded, before, needs, known>>

Next ==
  \/ \E w \in Wrappers : Construct(w) \/ Make(w) \/ Destruct(w) \/ Destroy(w)
                         \/ Launch(w) \/ Synchronize(w)
  \/ \E v, w \in Wrappers : v # w /\ Swap(v, w)
  \/ \E e \in Events : NewEvent(e) \/ SynchronizeEvent(e)
                         \/ \E w \in Wrappers : Record(e, w) \/ Wait(w, e)
  \/ \E r \in Raws : Run(r)

Spec == Init /\ [][Next]_vars
\* The device works on every stream.
FairSpec == Spec /\ \A r \in Raws : WF_vars(Run(r))
-----------------------------------------------------------------------------
\* A task is of work, or of a recording, that was made.
Sane(task) ==
  IF task.does = "work" THEN task.of \in DOMAIN needs
  ELSE task.of[1] \in Events /\ task.of[2] \in 1 .. Times(task.of[1])

\* Streams are given work that was launched, and record and wait for what
\* record() was called for (Launch, Record, Wait): no wait is for a recording
\* nobody asked for.  What is done, reached or waited for was made, too.
TypeOK ==
  /\ \A w \in Wrappers : wrapper[w].raw \in Raws \cup {None} /\ wrapper[w].owned \in BOOLEAN
  /\ live \subseteq Raws /\ done \subseteq DOMAIN needs /\ known \subseteq DOMAIN needs
  /\ \A r \in Raws : \A i \in DOMAIN queue[r] :
       queue[r][i].does \in {"work", "record", "wait"} /\ Sane(queue[r][i])
  /\ \A p \in reached : p[1] \in Events /\ p[2] \in 1 .. Times(p[1])

\* A raw stream is destroyed by its owner and no one else: what a wrapper owns
\* is there, and it has one owner.
OwnersHaveStreams ==
  \A v, w \in Wrappers :
    /\ wrapper[v].owned => wrapper[v].raw \in live
    /\ v # w /\ wrapper[v].owned /\ wrapper[w].owned => wrapper[v].raw # wrapper[w].raw

\* "If it is owned, the stream will be destroyed when the class is destroyed."
\* (IvyCudaStream.hh:16): a raw stream the library has built lives exactly as
\* long as a wrapper that owns it.
OwnedStreamsEnd ==
  \A r \in live \ Given : \E w \in Wrappers : wrapper[w].raw = r /\ wrapper[w].owned

\* "The flags_ member is used to specify the behavior of the event as in CUDA
\* definitions." (IvyCudaEvent.hh:22): an event takes times unless its flags
\* disable that.
FlagsTakeEffect ==
  \A e \in Events : recorded[e].flags # None =>
    (e \in measures <=> recorded[e].flags # "DisableTiming")

\* Work is done after what its stream was given before and, across streams,
\* after what an event the stream waited for was recorded after; what the host
\* has waited for is done.
OrderKept == /\ \A k \in done : needs[k] \subseteq done
             /\ known \subseteq done

\* Everything the host hands to the device is done, also after its wrapper or
\* its stream are gone: waits for events never block each other.
AllDone == \A k \in Work : (k \in DOMAIN needs) ~> (k \in done)
=============================================================================
