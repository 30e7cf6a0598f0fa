--------------------------- MODULE StreamsProofs ---------------------------
(***************************************************************************)
(* No stream is destroyed under its owner, and work is done in the order   *)
(* that streams and events give it, for any number of wrappers, streams,   *)
(* events and pieces of work.                                              *)
(***************************************************************************)
EXTENDS Streams, TLAPS

Tasks == [does : {"work"}, of : Nat] \cup [does : {"record", "wait"}, of : Events \X Nat]

\* Values of the variables; work and recordings that are named were made.
Typed ==
  /\ wrapper \in [Wrappers -> [kind : {"none", "local", "managed"},
                               raw : Raws \cup {None}, owned : BOOLEAN]]
  /\ live \in SUBSET Raws
  /\ needs \in Seq(SUBSET Nat)
  /\ queue \in [Raws -> Seq(Tasks)]
  /\ recorded \in [Events -> [flags : EventFlags \cup {None}, after : Seq(SUBSET DOMAIN needs)]]
  /\ before \in [Raws -> SUBSET DOMAIN needs]
  /\ done \in SUBSET DOMAIN needs
  /\ reached \in SUBSET (Events \X Nat)

\* Two wrappers do not own one stream, nor one a stream that is gone; who owns
\* none has no stream to lose.
Owning ==
  /\ \A w \in Wrappers : wrapper[w].owned => wrapper[w].raw \in live
  /\ \A v, w \in Wrappers :
       v # w /\ wrapper[v].owned /\ wrapper[w].owned => wrapper[v].raw # wrapper[w].raw

\* Work that comes before a task, and what is done when it is.
Needed(task) ==
  CASE task.does = "work"   -> needs[task.of]
    [] task.does = "record" -> After(task.of[1], task.of[2])
    [] task.does = "wait"   -> {}
Brings(task) ==
  CASE task.does = "work"   -> {task.of}
    [] task.does = "record" -> {}
    [] task.does = "wait"   -> After(task.of[1], task.of[2])

\* What comes before a task in a queue, and before what is queued next, is
\* done or brought by the tasks in front of it.
Ordered(r) ==
  /\ \A i \in DOMAIN queue[r] :
       /\ Sane(queue[r][i])
       /\ \A x \in Needed(queue[r][i]) : x \in done \/ \E j \in 1 .. i - 1 : x \in Brings(queue[r][j])
  /\ \A x \in before[r] : x \in done \/ \E j \in DOMAIN queue[r] : x \in Brings(queue[r][j])

\* Recordings the device has come to were made, and all before them is done.
Settled ==
  /\ \A p \in reached : p[2] \in 1 .. Times(p[1]) /\ After(p[1], p[2]) \subseteq done
  /\ \A k \in done : needs[k] \subseteq done
  /\ known \subseteq done

Inv == Typed /\ Owning /\ (\A r \in Raws : Ordered(r)) /\ Settled
-----------------------------------------------------------------------------
\* Work and recordings that were made stay what they are.
Grows ==
  /\ \A k \in DOMAIN needs : k \in DOMAIN needs' /\ needs'[k] = needs[k]
  /\ \A e \in Events : \A m \in 1 .. Times(e) :
       m \in 1 .. Times(e)' /\ recorded'[e].after[m] = recorded[e].after[m]

LEMMA TaskCases ==
  ASSUME NEW task \in Tasks
  PROVE  \/ task.does = "work" /\ task.of \in Nat
         \/ task.does = "record" /\ task.of \in Events \X Nat
         \/ task.does = "wait" /\ task.of \in Events \X Nat
BY DEF Tasks

\* So do tasks of them.
LEMMA TasksStay ==
  ASSUME Grows, NEW task \in Tasks, Sane(task)
  PROVE  Sane(task)' /\ Needed(task)' = Needed(task) /\ Brings(task)' = Brings(task)
BY TaskCases DEF Grows, Sane, Needed, Brings, After

\* A stream that gets nothing to do stays in order, also when more is done,
\* or less comes before what it gets next.
LEMMA StayOrdered ==
  ASSUME Typed, Grows, NEW r \in Raws, Ordered(r),
         queue'[r] = queue[r], before'[r] \subseteq before[r], done \subseteq done'
  PROVE  Ordered(r)'
<1>1. \A i \in DOMAIN queue[r] : queue[r][i] \in Tasks /\ i \in Nat
  BY DEF Typed
<1>2. \A task \in Tasks : Sane(task) => /\ Sane(task)' /\ Needed(task)' = Needed(task)
                                        /\ Brings(task)' = Brings(task)
  BY TasksStay
<1>3. \A i \in DOMAIN queue[r] : \A j \in 1 .. i - 1 : j \in DOMAIN queue[r]
  BY DEF Typed
<1>4. ASSUME NEW i \in DOMAIN queue'[r]
      PROVE  /\ Sane(queue[r][i])'
             /\ \A x \in Needed(queue[r][i])' :
                  x \in done' \/ \E j \in 1 .. i - 1 : x \in Brings(queue[r][j])'
  BY <1>1, <1>2, <1>3, <1>4 DEF Ordered
<1>5. ASSUME NEW x \in before'[r]
      PROVE  x \in done' \/ \E j \in DOMAIN queue'[r] : x \in Brings(queue[r][j])'
  BY <1>1, <1>2, <1>5 DEF Ordered
<1> QED
  BY <1>4, <1>5 DEF Ordered

\* So does a stream that gets a task of which all that comes before it comes
\* before what the stream gets next.
LEMMA AppendOrdered ==
  ASSUME Typed, Grows, NEW r \in Raws, Ordered(r), NEW task \in Tasks, Sane(task)',
         queue'[r] = Append(queue[r], task), done' = done,
         Needed(task)' \subseteq before[r], before'[r] \subseteq before[r] \cup Brings(task)'
  PROVE  Ordered(r)'
<1> DEFINE n == Len(queue[r])
<1>1. /\ n \in Nat /\ DOMAIN queue[r] = 1 .. n /\ DOMAIN queue'[r] = 1 .. n + 1
      /\ \A i \in 1 .. n : queue[r][i] \in Tasks /\ queue'[r][i] = queue[r][i]
      /\ queue'[r][n + 1] = task
  <2>1. queue[r] \in Seq(Tasks)
    BY DEF Typed
  <2> QED
    BY <2>1
<1> HIDE DEF n
<1>2. \A t \in Tasks : Sane(t) => Sane(t)' /\ Needed(t)' = Needed(t) /\ Brings(t)' = Brings(t)
  BY TasksStay
<1>3. ASSUME NEW x \in before[r]
      PROVE  x \in done' \/ \E j \in 1 .. n : x \in Brings(queue[r][j])'
  BY <1>1, <1>2, <1>3 DEF Ordered
<1>4. ASSUME NEW i \in 1 .. n
      PROVE  /\ Sane(queue[r][i])'
             /\ \A x \in Needed(queue[r][i])' :
                  x \in done' \/ \E j \in 1 .. i - 1 : x \in Brings(queue[r][j])'
  <2>1. \A j \in 1 .. i - 1 : j \in 1 .. n
    BY <1>1
  <2>2. /\ Sane(queue[r][i])
        /\ \A x \in Needed(queue[r][i]) : x \in done \/ \E j \in 1 .. i - 1 : x \in Brings(queue[r][j])
    BY <1>1, <1>4 DEF Ordered
  <2>3. \A j \in 1 .. n : queue'[r][j] = queue[r][j] /\ queue[r][j] \in Tasks
    BY <1>1
  <2>4. \A j \in 1 .. n : Sane(queue[r][j])
    BY <1>1 DEF Ordered
  <2>5. \A j \in 1 .. n : Brings(queue[r][j])' = Brings(queue[r][j])
    BY <1>2, <2>3, <2>4
  <2>6. Sane(queue[r][i])' /\ Needed(queue[r][i])' = Needed(queue[r][i])
    BY <1>2, <1>4, <2>2, <2>3
  <2> QED
    BY <2>1, <2>2, <2>5, <2>6
<1>5. /\ Sane(task)'
      /\ \A x \in Needed(task)' :
           x \in done' \/ \E j \in 1 .. n : x \in Brings(queue[r][j])'
  BY <1>1, <1>3
<1>6. ASSUME NEW x \in before'[r]
      PROVE  x \in done' \/ \E j \in 1 .. n + 1 : x \in Brings(queue[r][j])'
  <2>1. CASE x \in before[r]
    BY <1>1, <1>3, <2>1
  <2>2. CASE x \in Brings(task)'
    <3>1. n + 1 \in 1 .. n + 1
      BY <1>1
    <3> QED
      BY <1>1, <2>2, <3>1
  <2> QED
    BY <1>6, <2>1, <2>2
<1>7. \A j \in 1 .. n : j \in 1 .. n + 1
  BY <1>1
<1>8. ASSUME NEW i \in 1 .. n + 1
      PROVE  /\ Sane(queue[r][i])'
             /\ \A x \in Needed(queue[r][i])' :
                  x \in done' \/ \E j \in 1 .. i - 1 : x \in Brings(queue[r][j])'
  <2>1. CASE i \in 1 .. n
    BY <1>4, <2>1
  <2>2. CASE i = n + 1
    <3>1. i - 1 = n /\ queue'[r][i] = task
      BY <1>1, <2>2
    <3> QED
      BY <1>5, <3>1
  <2> QED
    BY <1>1, <2>1, <2>2
<1> QED
  BY <1>1, <1>6, <1>8 DEF Ordered

\* And a stream whose first task is done.
LEMMA TailOrdered ==
  ASSUME Typed, Grows, NEW r \in Raws, Ordered(r), queue[r] # <<>>,
         queue'[r] = Tail(queue[r]), before'[r] = before[r],
         done \subseteq done', Brings(Head(queue[r])) \subseteq done'
  PROVE  Ordered(r)'
<1> DEFINE n == Len(queue[r])
<1>1. /\ n \in Nat \ {0} /\ DOMAIN queue[r] = 1 .. n /\ DOMAIN queue'[r] = 1 .. n - 1
      /\ \A i \in 1 .. n : queue[r][i] \in Tasks
      /\ \A i \in 1 .. n - 1 : queue'[r][i] = queue[r][i + 1]
      /\ Head(queue[r]) = queue[r][1]
  <2>1. queue[r] \in Seq(Tasks)
    BY DEF Typed
  <2> QED
    BY <2>1
<1> HIDE DEF n
<1>2. \A t \in Tasks : Sane(t) => Sane(t)' /\ Needed(t)' = Needed(t) /\ Brings(t)' = Brings(t)
  BY TasksStay
<1>3. ASSUME NEW m \in 1 .. n, NEW x, \E j \in 1 .. m : x \in Brings(queue[r][j])
      PROVE  x \in done' \/ \E j \in 1 .. m - 1 : x \in Brings(queue[r][j])'
  <2>1. PICK j \in 1 .. m : x \in Brings(queue[r][j])
    BY <1>3
  <2>2. CASE j = 1
    BY <1>1, <2>1, <2>2
  <2>3. CASE j # 1
    <3>1. j - 1 \in 1 .. m - 1 /\ j - 1 \in 1 .. n - 1 /\ j \in 1 .. n /\ (j - 1) + 1 = j
      BY <1>1, <2>3
    <3>2. Brings(queue[r][j])  = Brings(queue[r][j - 1])'
      BY <1>1, <1>2, <3>1 DEF Ordered
    <3> QED
      BY <2>1, <3>1, <3>2
  <2> QED
    BY <2>2, <2>3
<1>4. ASSUME NEW i \in 1 .. n - 1
      PROVE  /\ Sane(queue[r][i])'
             /\ \A x \in Needed(queue[r][i])' :
                  x \in done' \/ \E j \in 1 .. i - 1 : x \in Brings(queue[r][j])'
  <2>1. i + 1 \in 1 .. n /\ i \in 1 .. n /\ (i + 1) - 1 = i
    BY <1>1
  <2>2. Sane(queue[r][i + 1]) /\ queue'[r][i] = queue[r][i + 1] /\ queue[r][i + 1] \in Tasks
    BY <1>1, <2>1 DEF Ordered
  <2>3. Sane(queue[r][i])' /\ Needed(queue[r][i])' = Needed(queue[r][i + 1])
    BY <1>2, <2>2
  <2>4. \A x \in Needed(queue[r][i + 1]) : x \in done \/ \E j \in 1 .. i : x \in Brings(queue[r][j])
    BY <1>1, <2>1 DEF Ordered
  <2> QED
    BY <1>3, <2>1, <2>3, <2>4
<1>5. ASSUME NEW x \in before'[r]
      PROVE  x \in done' \/ \E j \in 1 .. n - 1 : x \in Brings(queue[r][j])'
  <2>1. n \in 1 .. n
    BY <1>1
  <2> QED
    BY <1>1, <1>3, <1>5, <2>1 DEF Ordered
<1> QED
  BY <1>1, <1>4, <1>5 DEF Ordered
-----------------------------------------------------------------------------
(* Steps of the owners *)

\* They leave the order as it is, or forget what comes before an idle stream.
LEMMA OwnersKeepOrder ==
  ASSUME Inv, UNCHANGED <<queue, recorded, reached, done, needs, known>>,
         \A r \in Raws : before'[r] \subseteq before[r]
  PROVE  Grows /\ (\A r \in Raws : Ordered(r)') /\ Settled'
<1>1. Grows
  BY DEF Inv, Typed, Grows, Times
<1>2. \A r \in Raws : Ordered(r)'
  BY <1>1, StayOrdered DEF Inv
<1>3. Settled'
  BY DEF Inv, Settled, Times, After
<1> QED
  BY <1>1, <1>2, <1>3

LEMMA BuildKeeps ==
  ASSUME Inv, NEW w \in Wrappers, NEW kind \in {"local", "managed"}, Build(w, kind)
  PROVE  Inv'
<1>1. PICK r \in Raws :
        /\ Unused(r)
        /\ wrapper' = [wrapper EXCEPT ![w] = [kind |-> kind, raw |-> r, owned |-> TRUE]]
        /\ live' = live \cup {r}
        /\ before' = [before EXCEPT ![r] = {}]
        /\ UNCHANGED <<queue, streaming>>
  BY DEF Build
<1>2. UNCHANGED <<queue, recorded, reached, done, needs, known>>
  BY <1>1 DEF streaming
<1>3. \A q \in Raws : before'[q] \subseteq before[q]
  BY <1>1 DEF Inv, Typed
<1>4. Typed'
  BY <1>1, <1>2 DEF Inv, Typed
<1>5. Owning'
  <2>1. \A v \in Wrappers : wrapper[v].raw # r
    BY <1>1 DEF Unused
  <2>2. wrapper'[w].raw = r /\ r \in live'
    BY <1>1 DEF Inv, Typed
  <2>3. \A v \in Wrappers : v # w => wrapper'[v] = wrapper[v]
    BY <1>1 DEF Inv, Typed
  <2>4. live \subseteq live'
    BY <1>1
  <2> QED
    BY <2>1, <2>2, <2>3, <2>4 DEF Inv, Owning
<1> QED
  BY <1>2, <1>3, <1>4, <1>5, OwnersKeepOrder DEF Inv

LEMMA WrapKeeps ==
  ASSUME Inv, NEW w \in Wrappers, NEW kind \in {"local", "managed"}, Wrap(w, kind)
  PROVE  Inv'
<1>1. PICK r \in live, own \in BOOLEAN :
        /\ own => Ownerless(r)
        /\ wrapper' = [wrapper EXCEPT ![w] = [kind |-> kind, raw |-> r, owned |-> own]]
        /\ UNCHANGED <<live, queue, before, streaming>>
  BY DEF Wrap
<1>2. UNCHANGED <<live, before, queue, recorded, reached, done, needs, known>>
  BY <1>1 DEF streaming
<1>3. Typed'
  BY <1>1, <1>2 DEF Inv, Typed
<1>4. Owning'
  <2>1. own => \A v \in Wrappers : wrapper[v].raw = r => ~wrapper[v].owned
    BY <1>1 DEF Ownerless
  <2>2. wrapper'[w].raw = r /\ wrapper'[w].owned = own /\ r \in live'
    BY <1>1, <1>2 DEF Inv, Typed
  <2>3. \A v \in Wrappers : v # w => wrapper'[v] = wrapper[v]
    BY <1>1 DEF Inv, Typed
  <2> QED
    BY <1>2, <2>1, <2>2, <2>3 DEF Inv, Owning
<1> QED
  BY <1>2, <1>3, <1>4, OwnersKeepOrder DEF Inv

LEMMA DestructKeeps ==
  ASSUME Inv, NEW w \in Wrappers, Destruct(w) \/ Destroy(w)
  PROVE  Inv'
<1>1. /\ wrapper' = [wrapper EXCEPT ![w] = NoWrapper]
      /\ live' = live \/ (wrapper[w].owned /\ live' = live \ {wrapper[w].raw})
      /\ UNCHANGED <<queue, before, streaming>>
  <2>1. CASE Destroy(w)
    BY <2>1 DEF Destroy
  <2>2. CASE Destruct(w)
    <3>1. live' = IF wrapper[w].owned THEN live \ {wrapper[w].raw} ELSE live
      BY <2>2 DEF Destruct
    <3>2. live' = live \/ (wrapper[w].owned /\ live' = live \ {wrapper[w].raw})
      BY <3>1, Zenon
    <3> QED
      BY <2>2, <3>2 DEF Destruct
  <2> QED
    BY <2>1, <2>2
<1>2. UNCHANGED <<before, queue, recorded, reached, done, needs, known>>
  BY <1>1 DEF streaming
<1>3. Typed'
  BY <1>1, <1>2 DEF Inv, Typed, NoWrapper
<1>4. Owning'
  <2>1. ~wrapper'[w].owned
    BY <1>1 DEF Inv, Typed, NoWrapper
  <2>2. \A v \in Wrappers : v # w => wrapper'[v] = wrapper[v]
    BY <1>1 DEF Inv, Typed
  <2> QED
    BY <1>1, <2>1, <2>2 DEF Inv, Owning
<1> QED
  BY <1>2, <1>3, <1>4, OwnersKeepOrder DEF Inv

LEMMA SwapKeeps ==
  ASSUME Inv, NEW v \in Wrappers, NEW w \in Wrappers, v # w, Swap(v, w)
  PROVE  Inv'
<1>1. /\ wrapper' = [wrapper EXCEPT ![v] = [wrapper[w] EXCEPT !.kind = wrapper[v].kind],
                                    ![w] = [wrapper[v] EXCEPT !.kind = wrapper[w].kind]]
      /\ UNCHANGED <<live, before, queue, recorded, reached, done, needs, known>>
  BY DEF Swap, streaming
<1>2. /\ wrapper'[v].raw = wrapper[w].raw /\ wrapper'[v].owned = wrapper[w].owned
      /\ wrapper'[w].raw = wrapper[v].raw /\ wrapper'[w].owned = wrapper[v].owned
      /\ \A u \in Wrappers : u # v /\ u # w => wrapper'[u] = wrapper[u]
  BY <1>1 DEF Inv, Typed
<1>3. Typed'
  <2> DEFINE R == [kind : {"none", "local", "managed"}, raw : Raws \cup {None}, owned : BOOLEAN]
  <2>1. wrapper[v] \in R /\ wrapper[w] \in R
    BY DEF Inv, Typed
  <2>2. /\ [wrapper[w] EXCEPT !.kind = wrapper[v].kind] \in R
        /\ [wrapper[v] EXCEPT !.kind = wrapper[w].kind] \in R
    BY <2>1
  <2>3. wrapper' \in [Wrappers -> R]
    BY <1>1, <2>2 DEF Inv, Typed
  <2> QED
    BY <1>1, <2>3 DEF Inv, Typed
<1>4. Owning'
  <2> DEFINE from(u) == IF u = v THEN w ELSE IF u = w THEN v ELSE u
  <2>1. \A u \in Wrappers : /\ from(u) \in Wrappers
                            /\ wrapper'[u].raw = wrapper[from(u)].raw
                            /\ wrapper'[u].owned = wrapper[from(u)].owned
    BY <1>2
  <2>2. \A t, u \in Wrappers : t # u => from(t) # from(u)
    OBVIOUS
  <2> HIDE DEF from
  <2>3. ASSUME NEW u \in Wrappers, wrapper'[u].owned
        PROVE  wrapper'[u].raw \in live'
    <3>1. from(u) \in Wrappers /\ wrapper[from(u)].owned
      BY <2>1, <2>3
    <3>2. wrapper[from(u)].raw \in live
      BY <3>1 DEF Inv, Owning
    <3>3. live' = live /\ wrapper'[u].raw = wrapper[from(u)].raw
      BY <1>1, <2>1
    <3> QED
      BY <3>2, <3>3
  <2>4. \A t, u \in Wrappers : t # u /\ wrapper'[t].owned /\ wrapper'[u].owned => wrapper'[t].raw # wrapper'[u].raw
    <3> SUFFICES ASSUME NEW t \in Wrappers, NEW u \in Wrappers, t # u,
                        wrapper'[t].owned, wrapper'[u].owned
                 PROVE  wrapper'[t].raw # wrapper'[u].raw
      OBVIOUS
    <3>1. from(t) \in Wrappers /\ from(u) \in Wrappers /\ from(t) # from(u)
      BY <2>1, <2>2
    <3>2. wrapper[from(t)].owned /\ wrapper[from(u)].owned
      BY <2>1
    <3> QED
      BY <2>1, <3>1, <3>2 DEF Inv, Owning
  <2> QED
    BY <2>3, <2>4 DEF Owning
<1> QED
  BY <1>1, <1>3, <1>4, OwnersKeepOrder DEF Inv
-----------------------------------------------------------------------------
(* Steps of the host *)

LEMMA LaunchKeeps ==
  ASSUME Inv, NEW w \in Wrappers, Launch(w)
  PROVE  Inv'
<1>1. PICK r \in Raws : r = wrapper[w].raw
  BY DEF Launch, Usable, Inv, Typed
<1>2. PICK k \in Nat : k = Len(needs) + 1
  BY DEF Inv, Typed
<1> DEFINE task == [does |-> "work", of |-> k]
<1>3. /\ queue' = [queue EXCEPT ![r] = Append(@, task)]
      /\ needs' = Append(needs, before[r])
      /\ before' = [before EXCEPT ![r] = @ \cup {k}]
      /\ UNCHANGED <<wrapper, live, recorded, reached, done, known>>
  BY <1>1, <1>2 DEF Launch, Queue, owning
<1>4. before[r] \in SUBSET DOMAIN needs /\ needs \in Seq(SUBSET Nat)
  BY DEF Inv, Typed
<1>5. /\ DOMAIN needs = 1 .. k - 1 /\ DOMAIN needs' = 1 .. k /\ k \in DOMAIN needs'
      /\ \A i \in DOMAIN needs : i \in DOMAIN needs' /\ needs'[i] = needs[i]
      /\ needs'[k] = before[r]
      /\ needs' \in Seq(SUBSET Nat)
  <2>1. before[r] \in SUBSET Nat
    BY <1>4
  <2> QED
    BY <1>2, <1>3, <1>4, <2>1
<1>6. Grows
  BY <1>3, <1>5 DEF Grows, Times
<1>7. task \in Tasks
  BY DEF Tasks
<1>8. Typed'
  <2>1. queue' \in [Raws -> Seq(Tasks)]
    BY <1>3, <1>7 DEF Inv, Typed
  <2>2. SUBSET DOMAIN needs \subseteq SUBSET DOMAIN needs'
    BY <1>5
  <2>3. recorded' \in [Events -> [flags : EventFlags \cup {None}, after : Seq(SUBSET DOMAIN needs')]]
    <3>1. ASSUME NEW e \in Events
          PROVE  recorded[e] \in [flags : EventFlags \cup {None}, after : Seq(SUBSET DOMAIN needs')]
      <4>1. recorded[e] \in [flags : EventFlags \cup {None}, after : Seq(SUBSET DOMAIN needs)]
        BY DEF Inv, Typed
      <4>2. recorded[e].after \in Seq(SUBSET DOMAIN needs')
        BY <4>1, <2>2
      <4> QED
        BY <4>1, <4>2
    <3> QED
      BY <1>3, <3>1 DEF Inv, Typed
  <2>4. before' \in [Raws -> SUBSET DOMAIN needs']
    BY <1>3, <1>4, <1>5, <2>2 DEF Inv, Typed
  <2>5. done' \in SUBSET DOMAIN needs'
    BY <1>3, <1>5 DEF Inv, Typed
  <2> QED
    BY <1>3, <1>5, <2>1, <2>3, <2>4, <2>5 DEF Inv, Typed
<1>9. Owning'
  BY <1>3 DEF Inv, Owning
<1>10. Ordered(r)'
  <2>1. queue'[r] = Append(queue[r], task) /\ before'[r] = before[r] \cup {k}
    BY <1>3 DEF Inv, Typed
  <2>2. Sane(task)' /\ Needed(task)' = before[r] /\ Brings(task)' = {k}
    BY <1>5 DEF Sane, Needed, Brings
  <2> QED
    BY <1>3, <1>6, <1>7, <2>1, <2>2, AppendOrdered DEF Inv
<1>11. \A q \in Raws : q # r => Ordered(q)'
  <2>1. \A q \in Raws : q # r => queue'[q] = queue[q] /\ before'[q] = before[q]
    BY <1>3 DEF Inv, Typed
  <2> QED
    BY <1>3, <1>6, <2>1, StayOrdered DEF Inv
<1>12. Settled'
  BY <1>3, <1>5 DEF Inv, Typed, Settled, Times, After
<1> QED
  BY <1>8, <1>9, <1>10, <1>11, <1>12 DEF Inv

LEMMA NewEventKeeps ==
  ASSUME Inv, NEW e \in Events, NewEvent(e)
  PROVE  Inv'
<1>1. PICK f \in EventFlags : recorded' = [recorded EXCEPT ![e].flags = f]
  BY DEF NewEvent
<1>2. UNCHANGED <<wrapper, live, queue, reached, done, before, needs, known>>
  BY DEF NewEvent
<1>3. \A d \in Events : recorded'[d].after = recorded[d].after
  BY <1>1 DEF Inv, Typed
<1>4. Typed'
  <2> DEFINE R == [flags : EventFlags \cup {None}, after : Seq(SUBSET DOMAIN needs)]
  <2>1. [recorded[e] EXCEPT !.flags = f] \in R
    BY DEF Inv, Typed
  <2>2. recorded' \in [Events -> R]
    BY <1>1, <2>1 DEF Inv, Typed
  <2> QED
    BY <1>2, <2>2 DEF Inv, Typed
<1>5. Grows
  BY <1>2, <1>3 DEF Grows, Times
<1>6. \A r \in Raws : Ordered(r)'
  BY <1>2, <1>5, StayOrdered DEF Inv
<1>7. Owning' /\ Settled'
  <2>1. Owning'
    BY <1>2 DEF Inv, Owning
  <2>2. \A p \in reached : p[1] \in Events
    BY DEF Inv, Typed
  <2>3. Settled'
    BY <1>2, <1>3, <2>2 DEF Inv, Settled, Times, After
  <2> QED
    BY <2>1, <2>3
<1> QED
  BY <1>4, <1>6, <1>7 DEF Inv

LEMMA RecordKeeps ==
  ASSUME Inv, NEW e \in Events, NEW w \in Wrappers, Record(e, w)
  PROVE  Inv'
<1>1. PICK r \in Raws : r = wrapper[w].raw
  BY DEF Record, Usable, Inv, Typed
<1>2. PICK m \in Nat : m = Times(e) + 1
  BY DEF Inv, Typed, Times
<1> DEFINE task == [does |-> "record", of |-> <<e, m>>]
           old == recorded[e].after
<1>3. /\ queue' = [queue EXCEPT ![r] = Append(@, task)]
      /\ recorded' = [recorded EXCEPT ![e].after = Append(@, before[r])]
      /\ UNCHANGED <<wrapper, live, reached, done, before, needs, known>>
  BY <1>1, <1>2 DEF Record, Queue, owning
<1>4. before[r] \in SUBSET DOMAIN needs /\ old \in Seq(SUBSET DOMAIN needs) /\ Len(old) = m - 1
  BY <1>2 DEF Inv, Typed, Times
<1>5. /\ recorded'[e].after = Append(old, before[r])
      /\ \A d \in Events : d # e => recorded'[d] = recorded[d]
  BY <1>3 DEF Inv, Typed
<1>6. /\ Append(old, before[r]) \in Seq(SUBSET DOMAIN needs)
      /\ Len(Append(old, before[r])) = m /\ Append(old, before[r])[m] = before[r]
      /\ \A i \in 1 .. m - 1 : Append(old, before[r])[i] = old[i]
  BY <1>4
<1>7. Grows
  BY <1>2, <1>3, <1>4, <1>5, <1>6 DEF Grows, Times
<1>8. task \in Tasks
  BY DEF Tasks
<1>9. Typed'
  <2> DEFINE R == [flags : EventFlags \cup {None}, after : Seq(SUBSET DOMAIN needs)]
  <2>1. [recorded[e] EXCEPT !.after = Append(old, before[r])] \in R
    <3> DEFINE F == EventFlags \cup {None}
               A == Seq(SUBSET DOMAIN needs)
               new == Append(old, before[r])
    <3>1. recorded[e] \in [flags : F, after : A] /\ new \in A
      BY <1>6 DEF Inv, Typed
    <3> HIDE DEF F, A, new
    <3>2. [recorded[e] EXCEPT !.after = new] \in [flags : F, after : A]
      BY <3>1
    <3> QED BY <3>2 DEF F, A, new
  <2>2. recorded' \in [Events -> R]
    BY <1>3, <2>1 DEF Inv, Typed
  <2>3. queue' \in [Raws -> Seq(Tasks)]
    BY <1>3, <1>8 DEF Inv, Typed
  <2> QED
    BY <1>3, <2>2, <2>3 DEF Inv, Typed
<1>10. Owning'
  BY <1>3 DEF Inv, Owning
<1>11. Ordered(r)'
  <2>1. queue'[r] = Append(queue[r], task) /\ before'[r] = before[r]
    BY <1>3 DEF Inv, Typed
  <2>2. Sane(task)' /\ Needed(task)' = before[r]
    BY <1>2, <1>5, <1>6 DEF Sane, Needed, Times, After
  <2> QED
    BY <1>3, <1>7, <1>8, <2>1, <2>2, AppendOrdered DEF Inv
<1>12. \A q \in Raws : q # r => Ordered(q)'
  <2>1. \A q \in Raws : q # r => queue'[q] = queue[q] /\ before'[q] = before[q]
    BY <1>3 DEF Inv, Typed
  <2> QED
    BY <1>3, <1>7, <2>1, StayOrdered DEF Inv
<1>13. Settled'
  <2>1. \A p \in reached : p[1] \in Events
    BY DEF Inv, Typed
  <2> QED
    BY <1>3, <1>7, <2>1 DEF Inv, Settled, Times, After, Grows
<1> QED
  BY <1>9, <1>10, <1>11, <1>12, <1>13 DEF Inv

LEMMA WaitKeeps ==
  ASSUME Inv, NEW e \in Events, NEW w \in Wrappers, Wait(w, e)
  PROVE  Inv'
<1>1. PICK r \in Raws : r = wrapper[w].raw
  BY DEF Wait, Usable, Inv, Typed
<1>2. PICK m \in Nat : m = Times(e)
  BY DEF Inv, Typed, Times
<1> DEFINE task == [does |-> "wait", of |-> <<e, m>>]
<1>3. /\ queue' = [queue EXCEPT ![r] = Append(@, task)]
      /\ before' = [before EXCEPT ![r] = @ \cup After(e, m)]
      /\ UNCHANGED <<wrapper, live, recorded, reached, done, needs, known>>
      /\ m \in 1 .. Times(e)
  BY <1>1, <1>2 DEF Wait, Queue, owning, streaming
<1>4. After(e, m) \in SUBSET DOMAIN needs
  BY <1>3 DEF Inv, Typed, Times, After
<1>5. Grows
  BY <1>3 DEF Grows, Times
<1>6. task \in Tasks
  BY DEF Tasks
<1>7. Typed'
  <2>1. queue' \in [Raws -> Seq(Tasks)]
    BY <1>3, <1>6 DEF Inv, Typed
  <2>2. before' \in [Raws -> SUBSET DOMAIN needs]
    BY <1>3, <1>4 DEF Inv, Typed
  <2> QED
    BY <1>3, <2>1, <2>2 DEF Inv, Typed
<1>8. Owning'
  BY <1>3 DEF Inv, Owning
<1>9. Ordered(r)'
  <2>1. queue'[r] = Append(queue[r], task) /\ before'[r] = before[r] \cup After(e, m)
    BY <1>3 DEF Inv, Typed
  <2>2. Sane(task)' /\ Needed(task)' = {} /\ Brings(task)' = After(e, m)
    BY <1>3 DEF Sane, Needed, Brings, Times, After
  <2> QED
    BY <1>3, <1>5, <1>6, <2>1, <2>2, AppendOrdered DEF Inv
<1>10. \A q \in Raws : q # r => Ordered(q)'
  <2>1. \A q \in Raws : q # r => queue'[q] = queue[q] /\ before'[q] = before[q]
    BY <1>3 DEF Inv, Typed
  <2> QED
    BY <1>3, <1>5, <2>1, StayOrdered DEF Inv
<1>11. Settled'
  BY <1>3 DEF Inv, Settled, Times, After
<1> QED
  BY <1>7, <1>8, <1>9, <1>10, <1>11 DEF Inv

\* The host waits for work that is done.
LEMMA SynchronizeKeeps ==
  ASSUME Inv, \/ \E w \in Wrappers : Synchronize(w)
              \/ \E e \in Events : SynchronizeEvent(e)
  PROVE  Inv'
<1>1. UNCHANGED <<wrapper, live, queue, recorded, reached, done, before, needs>>
  BY DEF Synchronize, SynchronizeEvent, owning
<1>2. known' \subseteq done
  <2>1. known \subseteq done
    BY DEF Inv, Settled
  <2>2. ASSUME NEW w \in Wrappers, Synchronize(w)
        PROVE  known' \subseteq done
    <3>1. PICK r \in Raws : r = wrapper[w].raw
      BY <2>2 DEF Synchronize, Usable, Inv, Typed
    <3>2. queue[r] = <<>> /\ known' = known \cup before[r]
      BY <2>2, <3>1 DEF Synchronize
    <3>3. before[r] \subseteq done
      BY <3>2 DEF Inv, Ordered
    <3> QED
      BY <2>1, <3>2, <3>3
  <2>3. ASSUME NEW e \in Events, SynchronizeEvent(e)
        PROVE  known' \subseteq done
    <3>1. CASE Times(e) > 0
      BY <2>1, <2>3, <3>1 DEF SynchronizeEvent, Inv, Settled
    <3>2. CASE ~(Times(e) > 0)
      BY <2>1, <2>3, <3>2 DEF SynchronizeEvent
    <3> QED
      BY <3>1, <3>2
  <2> QED
    BY <2>2, <2>3
<1>3. Typed'
  BY <1>1 DEF Inv, Typed
<1>4. Owning'
  BY <1>1 DEF Inv, Owning
<1>5. Grows
  BY <1>1 DEF Grows, Times
<1>6. \A r \in Raws : Ordered(r)'
  BY <1>1, <1>5, StayOrdered DEF Inv
<1>7. Settled'
  BY <1>1, <1>2 DEF Inv, Settled, Times, After
<1> QED
  BY <1>3, <1>4, <1>6, <1>7 DEF Inv
-----------------------------------------------------------------------------
(* Steps of the device *)

LEMMA RunKeeps ==
  ASSUME Inv, NEW r \in Raws, Run(r)
  PROVE  Inv'
<1>1. PICK task \in Tasks : task = queue[r][1] /\ task = Head(queue[r]) /\ 1 \in DOMAIN queue[r]
  BY DEF Run, Inv, Typed
<1>2. /\ queue[r] # <<>>
      /\ task.does = "wait" => task.of \in reached
      /\ done' = IF task.does = "work" THEN done \cup {task.of} ELSE done
      /\ reached' = IF task.does = "record" THEN reached \cup {task.of} ELSE reached
      /\ queue' = [queue EXCEPT ![r] = Tail(@)]
      /\ UNCHANGED <<wrapper, live, recorded, before, needs, known>>
  BY <1>1 DEF Run, owning
<1>3. Sane(task) /\ Needed(task) \subseteq done
  BY <1>1 DEF Inv, Ordered
<1>4. done \subseteq done' /\ Brings(task) \subseteq done'
  BY <1>2, TaskCases DEF Brings, Inv, Settled
<1>5. Grows
  BY <1>2 DEF Grows, Times
<1>6. Typed'
  <2>1. queue' \in [Raws -> Seq(Tasks)]
    BY <1>2 DEF Inv, Typed
  <2>2. done' \in SUBSET DOMAIN needs
    BY <1>2, <1>3 DEF Inv, Typed, Sane
  <2>3. reached' \in SUBSET (Events \X Nat)
    BY <1>2, TaskCases DEF Inv, Typed
  <2> QED
    BY <1>2, <2>1, <2>2, <2>3 DEF Inv, Typed
<1>7. Owning'
  BY <1>2 DEF Inv, Owning
<1>8. Ordered(r)'
  <2>1. queue'[r] = Tail(queue[r]) /\ before'[r] = before[r]
    BY <1>2 DEF Inv, Typed
  <2> QED
    BY <1>1, <1>2, <1>4, <1>5, <2>1, TailOrdered DEF Inv
<1>9. \A q \in Raws : q # r => Ordered(q)'
  <2>1. \A q \in Raws : q # r => queue'[q] = queue[q] /\ before'[q] = before[q]
    BY <1>2 DEF Inv, Typed
  <2> QED
    BY <1>4, <1>5, <2>1, StayOrdered DEF Inv
<1>10. Settled'
  <2>1. ASSUME NEW p \in reached'
        PROVE  p[2] \in 1 .. Times(p[1]) /\ After(p[1], p[2]) \subseteq done
    <3>1. CASE p \in reached
      BY <3>1 DEF Inv, Settled
    <3>2. CASE p \notin reached
      <4>1. task.does = "record" /\ p = task.of
        BY <1>2, <2>1, <3>2
      <4> QED
        BY <1>3, <4>1 DEF Sane, Needed
    <3> QED
      BY <3>1, <3>2
  <2>2. ASSUME NEW k \in done'
        PROVE  needs[k] \subseteq done
    <3>1. CASE k \in done
      BY <3>1 DEF Inv, Settled
    <3>2. CASE k \notin done
      <4>1. task.does = "work" /\ k = task.of
        BY <1>2, <2>2, <3>2
      <4> QED
        BY <1>3, <4>1 DEF Needed
    <3> QED
      BY <3>1, <3>2
  <2>3. known \subseteq done
    BY DEF Inv, Settled
  <2> QED
    BY <1>2, <1>4, <2>1, <2>2, <2>3 DEF Settled, Times, After
<1> QED
  BY <1>6, <1>7, <1>8, <1>9, <1>10 DEF Inv
-----------------------------------------------------------------------------
LEMMA InitInv == Init => Inv
<1> SUFFICES ASSUME Init PROVE Inv
  OBVIOUS
<1>1. Typed
  BY StreamsAssumption DEF Init, Typed, NoWrapper
<1>2. Owning
  BY DEF Init, Owning, NoWrapper
<1>3. \A r \in Raws : Ordered(r)
  BY DEF Init, Ordered
<1>4. Settled
  BY DEF Init, Settled
<1> QED
  BY <1>1, <1>2, <1>3, <1>4 DEF Inv

LEMMA StutterKeeps ==
  ASSUME Inv, UNCHANGED vars
  PROVE  Inv'
<1>1. UNCHANGED <<wrapper, live, queue, recorded, reached, done, before, needs, known>>
  BY DEF vars
<1>2. Typed' /\ Owning'
  BY <1>1 DEF Inv, Typed, Owning
<1>3. (\A r \in Raws : Ordered(r)') /\ Settled'
  BY <1>1, OwnersKeepOrder
<1> QED
  BY <1>2, <1>3 DEF Inv

THEOREM InvHolds == Spec => []Inv
<1>1. Inv /\ [Next]_vars => Inv'
  <2> SUFFICES ASSUME Inv, [Next]_vars
               PROVE  Inv'
    OBVIOUS
  <2>1. ASSUME NEW w \in Wrappers, Construct(w) \/ Make(w) \/ Destruct(w) \/ Destroy(w) \/ Launch(w) \/ Synchronize(w)
        PROVE  Inv'
    BY <2>1, BuildKeeps, WrapKeeps, DestructKeeps, LaunchKeeps, SynchronizeKeeps DEF Construct, Make
  <2>2. ASSUME NEW v \in Wrappers, NEW w \in Wrappers, v # w, Swap(v, w)
        PROVE  Inv'
    BY <2>2, SwapKeeps
  <2>3. ASSUME NEW e \in Events, NewEvent(e) \/ SynchronizeEvent(e) \/ \E w \in Wrappers : Record(e, w) \/ Wait(w, e)
        PROVE  Inv'
    BY <2>3, NewEventKeeps, SynchronizeKeeps, RecordKeeps, WaitKeeps
  <2>4. ASSUME NEW r \in Raws, Run(r)
        PROVE  Inv'
    BY <2>4, RunKeeps
  <2> QED
    BY <2>1, <2>2, <2>3, <2>4, StutterKeeps DEF Next
<1> QED
  BY InitInv, <1>1, PTL DEF Spec

\* Streams are given work that was launched, and record and wait for recordings that
\* record() was called for; what is done, reached or waited for was made, too.
THEOREM TypeCorrect == Spec => []TypeOK
<1>1. Inv => TypeOK
  <2> SUFFICES ASSUME Inv PROVE TypeOK
    OBVIOUS
  <2>1. \A w \in Wrappers : wrapper[w].raw \in Raws \cup {None} /\ wrapper[w].owned \in BOOLEAN
    BY DEF Inv, Typed
  <2>2. live \subseteq Raws /\ done \subseteq DOMAIN needs /\ known \subseteq DOMAIN needs
    BY DEF Inv, Typed, Settled
  <2>3. ASSUME NEW r \in Raws, NEW i \in DOMAIN queue[r]
        PROVE  queue[r][i].does \in {"work", "record", "wait"} /\ Sane(queue[r][i])
    <3>1. queue[r][i] \in Tasks
      BY <2>3 DEF Inv, Typed
    <3>2. Sane(queue[r][i])
      BY DEF Inv, Ordered
    <3> QED
      BY <3>1, <3>2, TaskCases
  <2>4. \A p \in reached : p[1] \in Events /\ p[2] \in 1 .. Times(p[1])
    BY DEF Inv, Typed, Settled
  <2> QED
    BY <2>1, <2>2, <2>3, <2>4 DEF TypeOK
<1> QED
  BY <1>1, InvHolds, PTL

\* The ownership flag of IvyBaseStream (IvyBaseStream.h:69, :88): what a
\* wrapper owns exists and is owned by no other.
THEOREM OwnersKeepStreams == Spec => []OwnersHaveStreams
<1>1. Inv => OwnersHaveStreams
  BY DEF Inv, Owning, OwnersHaveStreams
<1> QED
  BY <1>1, InvHolds, PTL

\* record and wait (IvyCudaEvent.h:38, IvyCudaStream.h:94): work is done after
\* all that comes before it, and what the host has waited for is done, however
\* often events are recorded again and whatever becomes of wrappers.
THEOREM OrderIsKept == Spec => []OrderKept
<1>1. Inv => OrderKept
  BY DEF Inv, Settled, OrderKept
<1> QED
  BY <1>1, InvHolds, PTL
=============================================================================
