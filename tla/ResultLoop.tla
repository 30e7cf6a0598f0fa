----------------------------- MODULE ResultLoop -----------------------------
(***************************************************************************)
(* The loop in which transfer_internal_memory transfers the elements of an *)
(* array and gathers whether all of it succeeded, by threads of OpenMP     *)
(* from Threshold elements on and by one thread below.  With Reduction     *)
(* each thread gathers results of its own, which are brought together at   *)
(* the end; without it all threads work on the one variable.               *)
(***************************************************************************)
EXTENDS Naturals, FiniteSets

CONSTANTS Workers,    \* how many threads a parallel loop has
          Sizes,      \* lengths of the arrays
          Threshold,  \* NUM_CPU_THREADS_THRESHOLD
          None,       \* nothing called, nothing read, not transferred
          Reduction   \* the pragma has reduction(&:res)

ASSUME LoopAssumption == /\ Workers \in Nat \ {0} /\ Sizes \subseteq Nat
                         /\ Threshold \in Nat /\ Reduction \in BOOLEAN
                         /\ None \notin BOOLEAN

VARIABLES n,        \* elements of the array
          next,     \* the next element of each thread
          answer,   \* what the transfer of it returned, while that is not used
          read,     \* res as the thread has read it, while it has not written
          own,      \* the results a thread gathers with a reduction
          res,      \* the result of the loop
          outcome   \* what the transfer of each element returned

loopVars == <<n, next, answer, read, own, res, outcome>>

Threads == 1 .. Workers

\* Below the threshold one thread runs the plain loop.
Parallel == n >= Threshold
Team     == IF Parallel THEN Threads ELSE {1}

\* schedule(static): each thread takes one row of elements, first to last.
Share    == IF Parallel THEN (n + Workers - 1) \div Workers ELSE n
Limit(k) == IF k * Share < n THEN k * Share ELSE n
Start(t) == Limit(t - 1)
End(t)   == Limit(t)
Gathers  == Parallel /\ Reduction

InitLoop == /\ n \in Sizes
            /\ next = [t \in Threads |-> Start(t)]
            /\ answer = [t \in Threads |-> None]
            /\ read = [t \in Threads |-> None]
            /\ own = [t \in Threads |-> TRUE]
            /\ res = TRUE
            /\ outcome = [i \in 0 .. n - 1 |-> None]

Working(t) == t \in Team /\ next[t] < End(t)

\* The transfer of one element, which may fail.
Transfer(t) ==
  /\ Working(t) /\ answer[t] = None
  /\ \E ok \in BOOLEAN : /\ answer' = [answer EXCEPT ![t] = ok]
                         /\ outcome' = [outcome EXCEPT ![next[t]] = ok]
  /\ UNCHANGED <<n, next, read, own, res>>

\* res &= ... on the thread's own copy.
Gather(t) ==
  /\ Gathers /\ Working(t) /\ answer[t] # None
  /\ own' = [own EXCEPT ![t] = @ /\ answer[t]]
  /\ next' = [next EXCEPT ![t] = @ + 1]
  /\ answer' = [answer EXCEPT ![t] = None]
  /\ UNCHANGED <<n, read, res, outcome>>

\* res &= ... on the shared variable, a read and a write.
Read(t) ==
  /\ ~Gathers /\ Working(t) /\ answer[t] # None /\ read[t] = None
  /\ read' = [read EXCEPT ![t] = res]
  /\ UNCHANGED <<n, next, answer, own, res, outcome>>

Write(t) ==
  /\ read[t] # None
  /\ res' = (read[t] /\ answer[t])
  /\ next' = [next EXCEPT ![t] = @ + 1]
  /\ answer' = [answer EXCEPT ![t] = None]
  /\ read' = [read EXCEPT ![t] = None]
  /\ UNCHANGED <<n, own, outcome>>

\* A thread that has done its share adds its results, one thread at a time,
\* and is then past the end.
Combine(t) ==
  /\ Gathers /\ t \in Team /\ next[t] = End(t)
  /\ res' = (res /\ own[t])
  /\ next' = [next EXCEPT ![t] = n + 1]
  /\ UNCHANGED <<n, answer, read, own, outcome>>

\* Mutant: a thread leaves without adding its results.
FinishedEarly == \A t \in Team : next[t] >= End(t)

\* The end of the loop, where all threads meet.
Finished == \A t \in Team : next[t] = IF Gathers THEN n + 1 ELSE End(t)

Thread(t) == Transfer(t) \/ Gather(t) \/ Read(t) \/ Write(t) \/ Combine(t)

NextLoop == \E t \in Threads : Thread(t)

SpecLoop == InitLoop /\ [][NextLoop]_loopVars
\* Every thread of the team goes on.
FairLoop == SpecLoop /\ \A t \in Threads : WF_loopVars(Thread(t))
-----------------------------------------------------------------------------
\* Positions lie in the shares of the threads, and an element is transferred
\* when its thread has been there or just called for it.
LoopTyped ==
  /\ next \in [Threads -> 0 .. n + 1] /\ res \in BOOLEAN
  /\ \A t \in Team : Working(t) => outcome[next[t]] = answer[t]
  /\ \A t \in Threads : read[t] # None => answer[t] # None

\* "under OpenMP this must use a reduction to avoid a data race on the shared
\* accumulator" (IvyAllocator.h:249): when the loop has ended every element
\* was transferred, and the result is true if and only if each transfer
\* succeeded, however the threads' accumulations interleave.
FailuresReported ==
  /\ LoopTyped
  /\ Finished => /\ \A i \in DOMAIN outcome : outcome[i] # None
                 /\ res <=> \A i \in DOMAIN outcome : outcome[i] = TRUE

\* The loop ends.
Ends == <>Finished
=============================================================================
