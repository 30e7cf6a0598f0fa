--------------------------- MODULE ParallelProofs ---------------------------
(***************************************************************************)
(* Parallel work.  With the reduction the loop of a transfer reports every *)
(* failure, for any number of threads and any length of the array.         *)
(*                                                                         *)
(* The reduction in layers returns what one pass over the values gives,    *)
(* for any number of values, any group size from two on and any order in   *)
(* which host, stream and units go on.  Its invariant names the layers of  *)
(* the call: those parallel_op_n_mem has counted while it counts, and then *)
(* all of them, with the commands that are done, given and left, and the   *)
(* values that the filled layers must have.                                *)
(***************************************************************************)
EXTENDS ResultLoop, ParallelReduce, SequenceTheorems, TLAPS

-----------------------------------------------------------------------------
(* The loop.                                                               *)
\* The elements a thread has in its row.
Row(t) == {i \in 0 .. n - 1 : Start(t) <= i /\ i < End(t)}

\* Values of the variables.
Typed ==
  /\ n \in Nat
  /\ next \in [Threads -> Nat]
  /\ answer \in [Threads -> BOOLEAN \cup {None}]
  /\ read \in [Threads -> BOOLEAN \cup {None}]
  /\ own \in [Threads -> BOOLEAN]
  /\ res \in BOOLEAN
  /\ outcome \in [0 .. n - 1 -> BOOLEAN \cup {None}]

\* A thread of the team is inside its row, or past the end after a reduction.
InRow(t) == \/ Start(t) <= next[t] /\ next[t] <= End(t)
            \/ Gathers /\ next[t] = n + 1

\* The elements it has been at were transferred.
Passed(t) == \A i \in Row(t) : i < next[t] => outcome[i] \in BOOLEAN

\* What it has gathered is whether all of them succeeded.
Gathered(t) == own[t] = TRUE <=> \A i \in Row(t) : i < next[t] => outcome[i] = TRUE

\* A call that has returned is recorded.
Called(t) == answer[t] # None => Working(t) /\ outcome[next[t]] = answer[t]

\* With a reduction res is what the threads that are past the end gathered;
\* without it, what the one thread has seen.
Reduced ==
  IF Gathers
  THEN res = TRUE <=> \A t \in Threads : next[t] = n + 1 => own[t] = TRUE
  ELSE /\ res = TRUE <=> \A i \in Row(1) : i < next[1] => outcome[i] = TRUE
       /\ read[1] # None => read[1] = res /\ answer[1] # None

Inv ==
  /\ Typed
  /\ \A t \in Team : InRow(t) /\ Passed(t) /\ Called(t) /\ (Gathers => Gathered(t))
  /\ Reduced
  /\ \A t \in Threads : (Gathers \/ t # 1) => read[t] = None
\* Elements a thread has not called for were not transferred.
Waits(t) == \A i \in Row(t) : i > next[t] \/ (i = next[t] /\ answer[t] = None) => outcome[i] = None

Ahead == /\ \A t \in Threads : next[t] <= n + 1
         /\ \A t \in Team : Waits(t)
-----------------------------------------------------------------------------
\* The rows: each element is in exactly one.
LEMMA LimitMonotone ==
  ASSUME n \in Nat, NEW k \in Nat, NEW l \in Nat, k <= l
  PROVE  Limit(k) \in 0 .. n /\ Limit(k) <= Limit(l)
<1> DEFINE S == Share
<1>1. S \in Nat
  BY LoopAssumption DEF Share
<1>2. k * S \in Nat /\ l * S \in Nat /\ k * S <= l * S
  BY <1>1
<1>3. Limit(k) = IF k * S < n THEN k * S ELSE n
  BY DEF Limit
<1>4. Limit(l) = IF l * S < n THEN l * S ELSE n
  BY DEF Limit
<1> HIDE DEF S
<1> QED
  BY <1>2, <1>3, <1>4

LEMMA RowsDisjoint ==
  ASSUME n \in Nat, NEW t \in Threads, NEW u \in Threads, t # u
  PROVE  Row(t) \cap Row(u) = {}
<1>1. t \in Nat /\ u \in Nat /\ t >= 1 /\ u >= 1
  BY LoopAssumption DEF Threads
<1>2. \A k, l \in Nat : k <= l => Limit(k) \in 0 .. n /\ Limit(k) <= Limit(l)
  BY LimitMonotone
<1>3. CASE t <= u - 1
  <2>1. End(t) <= Start(u) /\ End(t) \in 0 .. n /\ Start(u) \in 0 .. n
    BY <1>1, <1>2, <1>3 DEF Start, End
  <2> QED
    BY <2>1 DEF Row
<1>4. CASE u <= t - 1
  <2>1. End(u) <= Start(t) /\ End(u) \in 0 .. n /\ Start(t) \in 0 .. n
    BY <1>1, <1>2, <1>4 DEF Start, End
  <2> QED
    BY <2>1 DEF Row
<1> QED
  BY <1>1, <1>3, <1>4

LEMMA RowsCover ==
  ASSUME n \in Nat, NEW i \in 0 .. n - 1, Parallel
  PROVE  \E t \in Threads : i \in Row(t)
<1> DEFINE S == (n + Workers - 1) \div Workers
           q == i \div S
<1>1. S \in Nat \ {0} /\ n <= S * Workers
  BY LoopAssumption
<1>2. Share = S
  BY DEF Share
<1> HIDE DEF S
<1>3. q \in Nat /\ q * S <= i /\ i < (q + 1) * S
  BY <1>1
<1> HIDE DEF q
<1>4. q < Workers
  <2>1. q * S < Workers * S
    BY <1>1, <1>3, LoopAssumption
  <2> QED
    BY <2>1, <1>1, <1>3, LoopAssumption
<1>5. q + 1 \in Threads
  BY <1>3, <1>4, LoopAssumption DEF Threads
<1>6. Start(q + 1) = q * S
  BY <1>1, <1>2, <1>3 DEF Start, Limit
<1>7. End(q + 1) = IF (q + 1) * S < n THEN (q + 1) * S ELSE n
  BY <1>2 DEF End, Limit
<1>8. i \in Row(q + 1)
  BY <1>1, <1>3, <1>6, <1>7 DEF Row
<1> QED
  BY <1>5, <1>8

\* What a row is made of; below the threshold the first is all there is.
LEMMA RowBounds ==
  ASSUME n \in Nat, NEW t \in Threads
  PROVE  Start(t) \in 0 .. n /\ End(t) \in 0 .. n /\ Start(t) <= End(t)
<1>1. t \in Nat /\ t - 1 \in Nat /\ t - 1 <= t
  BY LoopAssumption DEF Threads
<1> QED
  BY <1>1, LimitMonotone DEF Start, End

LEMMA SingleRow ==
  ASSUME n \in Nat, ~Parallel
  PROVE  Start(1) = 0 /\ End(1) = n /\ Row(1) = 0 .. n - 1
<1>1. Share = n
  BY DEF Share
<1>2. Limit(0) = 0
  BY <1>1 DEF Limit
<1>3. Limit(1) = n
  BY <1>1 DEF Limit
<1> QED
  BY <1>2, <1>3 DEF Start, End, Row

\* Without the reduction's variables there is one thread.
LEMMA SingleThread ==
  ASSUME Reduction, ~Gathers
  PROVE  ~Parallel /\ Team = {1} /\ 1 \in Threads
BY LoopAssumption DEF Gathers, Team, Threads

\* Rows depend on the length of the array only.
LEMMA RowsStay ==
  ASSUME n' = n
  PROVE  /\ Parallel' = Parallel /\ Gathers' = Gathers /\ Team' = Team
         /\ \A t : Start(t)' = Start(t) /\ End(t)' = End(t) /\ Row(t)' = Row(t)
BY DEF Parallel, Gathers, Team, Start, End, Row, Limit, Share, Parallel

\* A thread that works is at an element of its row.
LEMMA WorkingInRow ==
  ASSUME Typed, NEW t \in Team, InRow(t), Working(t)
  PROVE  /\ t \in Threads /\ next[t] \in Row(t) /\ next[t] \in Nat
         /\ next[t] \in 0 .. n - 1 /\ next[t] # n + 1 /\ next[t] + 1 <= End(t)
<1>1. t \in Threads
  BY LoopAssumption DEF Team, Threads
<1>2. Start(t) \in 0 .. n /\ End(t) \in 0 .. n
  BY <1>1, RowBounds DEF Typed
<1>3. next[t] \in Nat /\ next[t] < End(t)
  BY <1>1 DEF Typed, Working
<1> QED
  BY <1>1, <1>2, <1>3 DEF InRow, Row, Typed
-----------------------------------------------------------------------------
\* The steps of a thread keep Inv.
LEMMA TransferKeeps ==
  ASSUME Reduction, Inv, NEW t \in Threads, Transfer(t)
  PROVE  Inv'
<1> USE DEF Inv
<1>1. PICK ok \in BOOLEAN : /\ answer' = [answer EXCEPT ![t] = ok]
                            /\ outcome' = [outcome EXCEPT ![next[t]] = ok]
  BY DEF Transfer
<1>2. /\ n' = n /\ next' = next /\ read' = read /\ own' = own /\ res' = res
      /\ answer[t] = None /\ Working(t)
  BY DEF Transfer
<1>3. t \in Team /\ next[t] \in Row(t) /\ next[t] \in 0 .. n - 1
  BY <1>2, WorkingInRow DEF Working
<1>4. Typed'
  BY <1>1, <1>2 DEF Typed
<1>5. \A i \in 0 .. n - 1 : i # next[t] => outcome'[i] = outcome[i]
  BY <1>1 DEF Typed
<1>6. outcome'[next[t]] = ok
  BY <1>1, <1>3 DEF Typed
<1>7. ASSUME NEW u \in Team
      PROVE  InRow(u)' /\ Passed(u)' /\ Called(u)' /\ (Gathers => Gathered(u)')
  <2>1. u \in Threads
    BY LoopAssumption DEF Team, Threads
  <2>2. Row(u)' = Row(u) /\ Start(u)' = Start(u) /\ End(u)' = End(u) /\ Gathers' = Gathers /\ Team' = Team
    BY <1>2, RowsStay
  <2>3. \A i \in Row(u) : i \in 0 .. n - 1 /\ (i < next[u] => i # next[t])
    <3>1. u = t \/ next[t] \notin Row(u)
      BY <1>3, <2>1, RowsDisjoint DEF Typed
    <3>2. CASE u = t
      BY <3>2 DEF Row, Typed
    <3>3. CASE next[t] \notin Row(u)
      BY <3>3 DEF Row
    <3> QED
      BY <3>1, <3>2, <3>3
  <2>4. InRow(u)'
    BY <1>2, <2>2 DEF InRow
  <2>5. Passed(u)'
    BY <1>2, <1>5, <2>2, <2>3 DEF Passed
  <2>6. Gathers => Gathered(u)'
    BY <1>2, <1>5, <2>2, <2>3 DEF Gathered
  <2>7. Called(u)'
    <3>1. Working(u)' <=> Working(u)
      BY <1>2, <2>2 DEF Working
    <3>2. CASE u = t
      BY <3>1, <3>2, <1>1, <1>2, <1>6 DEF Called, Typed
    <3>3. CASE u # t
      <4>1. answer'[u] = answer[u]
        BY <3>3, <1>1, <2>1 DEF Typed
      <4>2. Working(u) => next[u] \in Row(u) /\ next[u] # next[t] /\ next[u] \in 0 .. n - 1
        BY <1>3, <2>1, <3>3, WorkingInRow, RowsDisjoint DEF Typed
      <4> QED
        BY <1>2, <1>5, <3>1, <4>1, <4>2 DEF Called
    <3> QED
      BY <3>2, <3>3
  <2> QED
    BY <2>4, <2>5, <2>6, <2>7
<1>8. Reduced'
  <2>1. Gathers' = Gathers /\ Row(1)' = Row(1)
    BY <1>2, RowsStay
  <2>2. CASE Gathers
    BY <2>1, <2>2, <1>2 DEF Reduced
  <2>3. CASE ~Gathers
    <3>1. t = 1 /\ ~Parallel
      BY <1>3, <2>3, SingleThread
    <3>2. Row(1) = 0 .. n - 1 /\ next[1] \in Nat
      BY <1>3, <3>1, SingleRow DEF Typed, Threads, Team
    <3>3. \A i \in Row(1) : i < next[1] => outcome'[i] = outcome[i]
      BY <1>5, <3>1, <3>2 DEF Typed
    <3>4. read[1] = None /\ read'[1] = None
      BY <1>2, <2>3, <3>1 DEF Reduced
    <3> QED
      BY <1>2, <2>1, <2>3, <3>3, <3>4 DEF Reduced
  <2> QED
    BY <2>2, <2>3
<1>9. \A u \in Threads : (Gathers' \/ u # 1) => read'[u] = None
  BY <1>2, RowsStay
<1>10. Team' = Team /\ Gathers' = Gathers
  BY <1>2, RowsStay
<1> QED
  BY <1>4, <1>7, <1>8, <1>9, <1>10

LEMMA GatherKeeps ==
  ASSUME Reduction, Inv, NEW t \in Threads, Gather(t)
  PROVE  Inv'
<1> USE DEF Inv
<1>1. /\ n' = n /\ read' = read /\ res' = res /\ outcome' = outcome
      /\ own' = [own EXCEPT ![t] = @ /\ answer[t]]
      /\ next' = [next EXCEPT ![t] = @ + 1]
      /\ answer' = [answer EXCEPT ![t] = None]
      /\ Gathers /\ Working(t) /\ answer[t] # None
  BY DEF Gather
<1>2. t \in Team /\ next[t] \in Row(t) /\ next[t] \in 0 .. n - 1 /\ next[t] + 1 <= End(t) /\ next[t] # n + 1
  BY <1>1, WorkingInRow DEF Working
<1>3. outcome[next[t]] = answer[t] /\ answer[t] \in BOOLEAN
  BY <1>1, <1>2 DEF Called, Typed
<1>4. Typed'
  BY <1>1, <1>3 DEF Typed
<1>5. /\ Gathers' = Gathers /\ Team' = Team
      /\ \A u : Row(u)' = Row(u) /\ Start(u)' = Start(u) /\ End(u)' = End(u)
  BY <1>1, RowsStay
<1>6. next'[t] = next[t] + 1 /\ answer'[t] = None /\ own'[t] = (own[t] /\ answer[t])
  BY <1>1 DEF Typed
<1>7. \A u \in Threads : u # t => next'[u] = next[u] /\ answer'[u] = answer[u] /\ own'[u] = own[u]
  BY <1>1 DEF Typed
<1>8. own'[t] = TRUE <=> own[t] = TRUE /\ answer[t] = TRUE
  BY <1>3, <1>6 DEF Typed
<1>9. \A i \in Row(t) : i < next[t] + 1 <=> i < next[t] \/ i = next[t]
  BY <1>2 DEF Row
<1>10. InRow(t)' /\ Passed(t)' /\ Called(t)' /\ Gathered(t)'
  <2>1. InRow(t)'
    BY <1>2, <1>5, <1>6, RowBounds DEF InRow, Row, Typed
  <2>2. Passed(t)'
    BY <1>1, <1>2, <1>3, <1>5, <1>6, <1>9 DEF Passed
  <2>3. Called(t)'
    BY <1>6 DEF Called
  <2>4. own[t] = TRUE <=> \A i \in Row(t) : i < next[t] => outcome[i] = TRUE
    BY <1>1, <1>2 DEF Gathered
  <2>5. own'[t] = TRUE <=> \A i \in Row(t) : i < next[t] + 1 => outcome[i] = TRUE
    BY <1>2, <1>3, <1>8, <1>9, <2>4
  <2>6. Gathered(t)'
    BY <1>1, <1>5, <1>6, <2>5 DEF Gathered
  <2> QED
    BY <2>1, <2>2, <2>3, <2>6
<1>11. ASSUME NEW u \in Team, u # t
       PROVE  InRow(u)' /\ Passed(u)' /\ Called(u)' /\ Gathered(u)'
  <2>1. next'[u] = next[u] /\ answer'[u] = answer[u] /\ own'[u] = own[u]
    BY <1>7, <1>11, LoopAssumption DEF Team, Threads
  <2> QED
    BY <2>1, <1>1, <1>5 DEF InRow, Passed, Called, Gathered, Working
<1>12. Reduced'
  <2>1. \A u \in Threads : next'[u] = n + 1 => next[u] = n + 1 /\ own'[u] = own[u]
    BY <1>2, <1>6, <1>7 DEF Typed
  <2>2. \A u \in Threads : next[u] = n + 1 => next'[u] = n + 1 /\ own'[u] = own[u]
    BY <1>2, <1>7
  <2> QED
    BY <1>1, <1>5, <2>1, <2>2 DEF Reduced
<1> QED
  BY <1>1, <1>4, <1>5, <1>10, <1>11, <1>12

LEMMA ReadKeeps ==
  ASSUME Reduction, Inv, NEW t \in Threads, Read(t)
  PROVE  Inv'
<1> USE DEF Inv
<1>1. /\ n' = n /\ next' = next /\ answer' = answer /\ own' = own /\ res' = res /\ outcome' = outcome
      /\ read' = [read EXCEPT ![t] = res]
      /\ ~Gathers /\ Working(t) /\ answer[t] # None
  BY DEF Read
<1>2. Team = {1} /\ 1 \in Threads /\ t = 1
  BY <1>1, SingleThread DEF Working
<1>3. read'[1] = res /\ \A u \in Threads : u # 1 => read'[u] = read[u]
  BY <1>1, <1>2 DEF Typed
<1>4. /\ Gathers' = Gathers /\ Team' = Team
      /\ \A u : Row(u)' = Row(u) /\ Start(u)' = Start(u) /\ End(u)' = End(u)
  BY <1>1, RowsStay
<1>5. Typed'
  BY <1>1 DEF Typed
<1>6. \A u \in Team : InRow(u)' /\ Passed(u)' /\ Called(u)'
  BY <1>1, <1>4 DEF InRow, Passed, Called, Working
<1>7. Reduced'
  BY <1>1, <1>2, <1>3, <1>4 DEF Reduced
<1> QED
  BY <1>1, <1>3, <1>4, <1>5, <1>6, <1>7

LEMMA WriteKeeps ==
  ASSUME Reduction, Inv, NEW t \in Threads, Write(t)
  PROVE  Inv'
<1> USE DEF Inv
<1>1. /\ n' = n /\ own' = own /\ outcome' = outcome
      /\ res' = (read[t] /\ answer[t])
      /\ next' = [next EXCEPT ![t] = @ + 1]
      /\ answer' = [answer EXCEPT ![t] = None]
      /\ read' = [read EXCEPT ![t] = None]
      /\ read[t] # None
  BY DEF Write
<1>2. ~Gathers /\ t = 1
  BY <1>1
<1>3. Team = {1} /\ 1 \in Threads /\ ~Parallel
  BY <1>2, SingleThread
<1>4. read[1] = res /\ answer[1] # None
  BY <1>1, <1>2 DEF Reduced
<1>5. Working(1) /\ outcome[next[1]] = answer[1] /\ answer[1] \in BOOLEAN
  BY <1>3, <1>4 DEF Called, Typed
<1>6. next[1] \in Row(1) /\ next[1] \in 0 .. n - 1 /\ next[1] + 1 <= End(1)
  BY <1>3, <1>5, WorkingInRow
<1>7. /\ Gathers' = Gathers /\ Team' = Team
      /\ \A u : Row(u)' = Row(u) /\ Start(u)' = Start(u) /\ End(u)' = End(u)
  BY <1>1, RowsStay
<1>8. res' = TRUE <=> res = TRUE /\ answer[1] = TRUE
  BY <1>1, <1>2, <1>4, <1>5 DEF Typed
<1>9. res' \in BOOLEAN
  BY <1>1
<1>10. next'[1] = next[1] + 1 /\ answer'[1] = None /\ read'[1] = None
  BY <1>1, <1>2, <1>3 DEF Typed
<1>11. Typed'
  BY <1>1, <1>9 DEF Typed
<1>12. \A i \in Row(1) : i < next[1] + 1 <=> i < next[1] \/ i = next[1]
  BY <1>6 DEF Row
<1>13. InRow(1)'
  BY <1>3, <1>6, <1>7, <1>10, RowBounds DEF InRow, Row, Typed
<1>14. Passed(1)' /\ Called(1)'
  BY <1>1, <1>3, <1>5, <1>6, <1>7, <1>10, <1>12 DEF Passed, Called
<1>15. Reduced'
  <2>1. res = TRUE <=> \A i \in Row(1) : i < next[1] => outcome[i] = TRUE
    BY <1>2 DEF Reduced
  <2>2. res' = TRUE <=> \A i \in Row(1) : i < next[1] + 1 => outcome[i] = TRUE
    BY <1>5, <1>6, <1>8, <1>12, <2>1
  <2> QED
    BY <1>1, <1>2, <1>7, <1>10, <2>2 DEF Reduced
<1>16. \A u \in Threads : u # 1 => read'[u] = None
  BY <1>1, <1>2 DEF Typed
<1> QED
  BY <1>2, <1>3, <1>7, <1>11, <1>13, <1>14, <1>15, <1>16

LEMMA CombineKeeps ==
  ASSUME Reduction, Inv, NEW t \in Threads, Combine(t)
  PROVE  Inv'
<1> USE DEF Inv
<1>1. /\ n' = n /\ answer' = answer /\ read' = read /\ own' = own /\ outcome' = outcome
      /\ res' = (res /\ own[t])
      /\ next' = [next EXCEPT ![t] = n + 1]
      /\ Gathers /\ t \in Team /\ next[t] = End(t)
  BY DEF Combine
<1>2. End(t) \in 0 .. n
  BY RowBounds DEF Typed
<1>3. /\ Gathers' = Gathers /\ Team' = Team
      /\ \A u : Row(u)' = Row(u) /\ Start(u)' = Start(u) /\ End(u)' = End(u)
  BY <1>1, RowsStay
<1>4. next'[t] = n + 1 /\ next[t] # n + 1 /\ \A u \in Threads : u # t => next'[u] = next[u]
  BY <1>1, <1>2 DEF Typed
<1>5. res' \in BOOLEAN /\ (res' = TRUE <=> res = TRUE /\ own[t] = TRUE)
  BY <1>1 DEF Typed
<1>6. Typed'
  BY <1>1, <1>5 DEF Typed
<1>7. \A i \in Row(t) : i < next[t] /\ i < n + 1
  BY <1>1, <1>2 DEF Row, Typed
<1>8. InRow(t)' /\ Passed(t)' /\ Called(t)' /\ Gathered(t)'
  <2>1. ~Working(t)
    BY <1>1, <1>2 DEF Working
  <2>2. answer[t] = None
    BY <1>1, <2>1 DEF Called
  <2> QED
    BY <1>1, <1>3, <1>4, <1>7, <2>2 DEF InRow, Passed, Called, Gathered
<1>9. ASSUME NEW u \in Team, u # t
      PROVE  InRow(u)' /\ Passed(u)' /\ Called(u)' /\ Gathered(u)'
  <2>1. next'[u] = next[u]
    BY <1>4, <1>9, LoopAssumption DEF Team, Threads
  <2> QED
    BY <2>1, <1>1, <1>3 DEF InRow, Passed, Called, Gathered, Working
<1>10. Reduced'
  BY <1>1, <1>3, <1>4, <1>5 DEF Reduced
<1> QED
  BY <1>1, <1>3, <1>6, <1>8, <1>9, <1>10
-----------------------------------------------------------------------------
LEMMA InitInv ==
  ASSUME Reduction, InitLoop
  PROVE  Inv
<1>1. n \in Nat /\ n \in Sizes
  BY LoopAssumption DEF InitLoop
<1>2. \A t \in Threads : Start(t) \in 0 .. n /\ End(t) \in 0 .. n /\ Start(t) <= End(t)
  BY <1>1, RowBounds
<1>3. /\ next = [t \in Threads |-> Start(t)]
      /\ answer = [t \in Threads |-> None] /\ read = [t \in Threads |-> None]
      /\ own = [t \in Threads |-> TRUE] /\ res = TRUE
      /\ outcome = [i \in 0 .. n - 1 |-> None]
  BY DEF InitLoop
<1>4. Typed
  BY <1>1, <1>2, <1>3 DEF Typed
<1>5. Team \subseteq Threads /\ 1 \in Threads
  BY LoopAssumption DEF Team, Threads
<1>6. \A t \in Threads : /\ next[t] = Start(t) /\ next[t] # n + 1 /\ answer[t] = None
                         /\ own[t] = TRUE /\ read[t] = None
  BY <1>1, <1>2, <1>3
<1>7. \A t \in Threads : \A i \in Row(t) : ~(i < next[t])
  BY <1>2, <1>6 DEF Row
<1>8. \A t \in Team : InRow(t) /\ Passed(t) /\ Called(t) /\ Gathered(t)
  BY <1>2, <1>5, <1>6, <1>7 DEF InRow, Passed, Called, Gathered
<1>9. Reduced
  BY <1>3, <1>5, <1>6, <1>7 DEF Reduced
<1> QED
  BY <1>4, <1>6, <1>8, <1>9 DEF Inv

LEMMA StutterKeeps ==
  ASSUME Inv, UNCHANGED loopVars
  PROVE  Inv'
<1>1. /\ n' = n /\ next' = next /\ answer' = answer /\ read' = read /\ own' = own
      /\ res' = res /\ outcome' = outcome
  BY DEF loopVars
<1>2. /\ Gathers' = Gathers /\ Team' = Team
      /\ \A u : Row(u)' = Row(u) /\ Start(u)' = Start(u) /\ End(u)' = End(u)
  BY <1>1, RowsStay
<1> QED
  BY <1>1, <1>2 DEF Inv, Typed, InRow, Passed, Called, Working, Gathered, Reduced

\* What is ahead of a thread stays as it was.
LEMMA AheadKeeps ==
  ASSUME Reduction, Inv, Ahead, NEW t \in Threads, Thread(t)
  PROVE  Ahead'
<1>1. n' = n
  BY DEF Thread, Transfer, Gather, Read, Write, Combine
<1>2. Team' = Team /\ Team \subseteq Threads /\ \A u : Row(u)' = Row(u)
  BY <1>1, RowsStay, LoopAssumption DEF Team, Threads
<1>3. Typed /\ n \in Nat /\ \A u \in Threads : next[u] \in Nat
  BY DEF Inv, Typed
<1>4. \A u \in Team : \A i \in Row(u) : i \in Nat
  BY <1>3 DEF Row, Typed
<1>5. CASE Transfer(t)
  <2>1. PICK ok \in BOOLEAN : /\ answer' = [answer EXCEPT ![t] = ok]
                              /\ outcome' = [outcome EXCEPT ![next[t]] = ok]
    BY <1>5 DEF Transfer
  <2>2. t \in Team /\ next[t] \in Row(t) /\ next[t] \in 0 .. n - 1 /\ next' = next
    BY <1>3, <1>5, WorkingInRow DEF Transfer, Working, Inv
  <2>3. ASSUME NEW u \in Team, NEW i \in Row(u), i > next[u] \/ (i = next[u] /\ answer'[u] = None)
        PROVE  outcome'[i] = None
    <3>1. i # next[t] /\ (i > next[u] \/ (i = next[u] /\ answer[u] = None))
      <4>1. CASE u = t
        <5>1. answer'[t] # None
          BY <1>3, <2>1, LoopAssumption DEF Typed
        <5> QED BY <1>3, <1>4, <2>3, <4>1, <5>1
      <4>2. CASE u # t
        <5>1. next[t] \notin Row(u) /\ answer'[u] = answer[u]
          BY <1>2, <1>3, <2>1, <2>2, <4>2, RowsDisjoint DEF Typed
        <5> QED BY <2>3, <5>1
      <4> QED BY <4>1, <4>2
    <3>2. outcome'[i] = outcome[i]
      BY <1>3, <2>1, <3>1 DEF Typed, Row
    <3> QED BY <3>1, <3>2 DEF Ahead, Waits
  <2> QED BY <1>1, <1>2, <2>2, <2>3 DEF Ahead, Waits
<1>6. CASE Gather(t) \/ Write(t)
  <2>1. /\ next' = [next EXCEPT ![t] = @ + 1] /\ answer' = [answer EXCEPT ![t] = None]
        /\ outcome' = outcome
    BY <1>6 DEF Gather, Write
  <2>2. Working(t)
    <3>1. CASE Gather(t)
      BY <3>1 DEF Gather
    <3>2. CASE Write(t)
      <4>1. ~Gathers /\ t = 1 /\ answer[1] # None
        BY <3>2 DEF Write, Inv, Reduced
      <4>2. 1 \in Team
        BY <4>1, SingleThread
      <4> QED BY <4>1, <4>2 DEF Inv, Called
    <3> QED BY <1>6, <3>1, <3>2
  <2>3. next[t] \in 0 .. n - 1
    BY <1>3, <2>2, WorkingInRow DEF Working, Inv
  <2>4. next'[t] = next[t] + 1 /\ \A u \in Threads : u # t => next'[u] = next[u] /\ answer'[u] = answer[u]
    BY <1>3, <2>1 DEF Typed
  <2>5. \A u \in Threads : next'[u] <= n + 1
    BY <1>3, <2>3, <2>4 DEF Ahead
  <2>6. ASSUME NEW u \in Team, NEW i \in Row(u), i > next'[u] \/ (i = next'[u] /\ answer'[u] = None)
        PROVE  outcome[i] = None
    <3>1. u = t => i > next[t]
      BY <1>3, <1>4, <2>4, <2>6
    <3>2. u # t => next'[u] = next[u] /\ answer'[u] = answer[u]
      BY <1>2, <2>4
    <3>3. i > next[u] \/ (i = next[u] /\ answer[u] = None)
      BY <2>6, <3>1, <3>2
    <3> QED BY <3>3 DEF Ahead, Waits
  <2> QED BY <1>1, <1>2, <2>1, <2>5, <2>6 DEF Ahead, Waits
<1>7. CASE Read(t)
  BY <1>1, <1>2, <1>7 DEF Read, Ahead, Waits
<1>8. CASE Combine(t)
  <2>1. next' = [next EXCEPT ![t] = n + 1] /\ answer' = answer /\ outcome' = outcome
    BY <1>8 DEF Combine
  <2>2. next'[t] = n + 1 /\ \A u \in Threads : u # t => next'[u] = next[u]
    BY <1>3, <2>1 DEF Typed
  <2>3. \A u \in Threads : next'[u] <= n + 1
    BY <1>3, <2>2 DEF Ahead
  <2>4. ASSUME NEW u \in Team, NEW i \in Row(u), i > next'[u] \/ (i = next'[u] /\ answer[u] = None)
        PROVE  outcome[i] = None
    <3>1. u = t => ~(i >= n + 1)
      BY <1>3 DEF Row, Typed
    <3>2. u # t
      BY <1>3, <1>4, <2>2, <2>4, <3>1 DEF Typed
    <3> QED BY <1>2, <2>2, <2>4, <3>2 DEF Ahead, Waits
  <2> QED BY <1>1, <1>2, <2>1, <2>3, <2>4 DEF Ahead, Waits
<1> QED BY <1>5, <1>6, <1>7, <1>8 DEF Thread

\* At first nothing was transferred.
LEMMA InitAhead ==
  ASSUME InitLoop
  PROVE  Ahead
<1>1. n \in Nat /\ next = [t \in Threads |-> Start(t)] /\ outcome = [i \in 0 .. n - 1 |-> None]
  BY LoopAssumption DEF InitLoop
<1>2. \A t \in Threads : next[t] <= n + 1
  BY <1>1, RowBounds
<1>3. \A t \in Team : Waits(t)
  BY <1>1 DEF Waits, Row
<1> QED BY <1>2, <1>3 DEF Ahead

\* Positions lie in the rows, and answers are about the elements there.
LEMMA InvTypes ==
  ASSUME Reduction, Inv, Ahead
  PROVE  LoopTyped
<1> USE DEF Inv
<1>1. Typed
  OBVIOUS
<1>2. next \in [Threads -> 0 .. n + 1]
  BY <1>1 DEF Ahead, Typed
<1>3. ASSUME NEW t \in Team, Working(t) PROVE outcome[next[t]] = answer[t]
  <2>1. CASE answer[t] # None
    BY <2>1 DEF Called
  <2>2. CASE answer[t] = None
    <3>1. next[t] \in Row(t)
      BY <1>1, <1>3, WorkingInRow
    <3> QED BY <2>2, <3>1 DEF Ahead, Waits
  <2> QED BY <2>1, <2>2
<1>4. ASSUME NEW t \in Threads, read[t] # None PROVE answer[t] # None
  <2>1. ~Gathers /\ t = 1
    BY <1>4
  <2> QED BY <1>4, <2>1 DEF Reduced
<1> QED BY <1>1, <1>2, <1>3, <1>4 DEF LoopTyped, Typed

\* At the end of the loop the result is what Inv says of all rows together.
LEMMA InvReports ==
  ASSUME Reduction, Inv, Ahead
  PROVE  FailuresReported
<1> SUFFICES ASSUME Finished
             PROVE  /\ \A i \in DOMAIN outcome : outcome[i] # None
                    /\ res <=> \A i \in DOMAIN outcome : outcome[i] = TRUE
  BY InvTypes DEF FailuresReported
<1> USE DEF Inv
<1>1. DOMAIN outcome = 0 .. n - 1 /\ n \in Nat /\ res \in BOOLEAN
  BY DEF Typed
<1>2. CASE Gathers
  <2>1. Team = Threads /\ Parallel
    BY <1>2 DEF Gathers, Team
  <2>2. \A t \in Threads : next[t] = n + 1
    BY <1>2, <2>1 DEF Finished
  <2>3. \A t \in Threads : \A i \in Row(t) : i \in 0 .. n - 1 /\ i < n + 1
    BY <1>1 DEF Row
  <2>4. \A i \in 0 .. n - 1 : \E t \in Threads : i \in Row(t)
    BY <1>1, <2>1, RowsCover
  <2>5. \A t \in Threads : \A i \in Row(t) : outcome[i] \in BOOLEAN
    BY <2>1, <2>2, <2>3 DEF Passed
  <2>6. \A t \in Threads : own[t] = TRUE <=> \A i \in Row(t) : outcome[i] = TRUE
    BY <1>2, <2>1, <2>2, <2>3 DEF Gathered
  <2>7. res = TRUE <=> \A t \in Threads : own[t] = TRUE
    BY <1>2, <2>2 DEF Reduced
  <2>8. \A i \in 0 .. n - 1 : outcome[i] # None
    BY <2>4, <2>5, LoopAssumption
  <2>9. res = TRUE <=> \A i \in 0 .. n - 1 : outcome[i] = TRUE
    BY <2>3, <2>4, <2>6, <2>7
  <2> QED
    BY <1>1, <2>8, <2>9
<1>3. CASE ~Gathers
  <2>1. Team = {1} /\ ~Parallel
    BY <1>3, SingleThread
  <2>2. Row(1) = 0 .. n - 1 /\ End(1) = n
    BY <1>1, <2>1, SingleRow
  <2>3. next[1] = n
    BY <1>3, <2>1, <2>2 DEF Finished
  <2>4. \A i \in 0 .. n - 1 : i < next[1]
    BY <1>1, <2>3
  <2>5. \A i \in 0 .. n - 1 : outcome[i] \in BOOLEAN
    BY <2>1, <2>2, <2>4 DEF Passed
  <2>6. res = TRUE <=> \A i \in 0 .. n - 1 : outcome[i] = TRUE
    BY <1>3, <2>2, <2>4 DEF Reduced
  <2>7. \A i \in 0 .. n - 1 : outcome[i] # None
    BY <2>5, LoopAssumption
  <2> QED
    BY <1>1, <2>6, <2>7
<1> QED
  BY <1>2, <1>3

\* With the reduction of IvyAllocator.h:253 the loop returns true if and only
\* if the transfer of every element succeeded, for any number of threads and
\* any length, however the threads interleave.
THEOREM ReductionReports ==
  ASSUME Reduction
  PROVE  SpecLoop => []FailuresReported
<1> DEFINE I == Inv /\ Ahead
<1>1. InitLoop => I
  BY InitInv, InitAhead
<1>2. I /\ [NextLoop]_loopVars => I'
  <2> SUFFICES ASSUME I, [NextLoop]_loopVars
               PROVE  I'
    OBVIOUS
  <2>1. ASSUME NEW t \in Threads, Thread(t)
        PROVE  Inv'
    BY <2>1, TransferKeeps, GatherKeeps, ReadKeeps, WriteKeeps, CombineKeeps DEF Thread
  <2>2. ASSUME NEW t \in Threads, Thread(t)
        PROVE  Ahead'
    BY <2>2, AheadKeeps
  <2>3. CASE UNCHANGED loopVars
    <3>1. n' = n /\ next' = next /\ answer' = answer /\ outcome' = outcome
      BY <2>3 DEF loopVars
    <3>2. Team' = Team /\ \A u : Row(u)' = Row(u)
      BY <3>1, RowsStay
    <3>3. Ahead'
      BY <3>1, <3>2 DEF Ahead, Waits
    <3> QED BY <2>3, <3>3, StutterKeeps
  <2> QED
    BY <2>1, <2>2, <2>3 DEF NextLoop
<1>3. I => FailuresReported
  BY InvReports
<1> HIDE DEF I
<1> QED BY <1>1, <1>2, <1>3, PTL DEF SpecLoop

-----------------------------------------------------------------------------
(* The sizes of the layers.                                              *)

\* What a call needs: something to reduce, groups of two at least, a buffer whose
\* size and group bounds that do not overflow.
Sensible(c) ==
  /\ c.kind \in {"add", "subtract"} /\ c.path \in {"device", "host"}
  /\ c.count \in Nat \ {0} /\ c.serial \in Nat /\ c.serial >= 2
  /\ 3 * c.count < Word /\ c.count + c.serial <= Word

\* Multiplication is monotonic.
LEMMA Products ==
  ASSUME NEW a \in Int, NEW b \in Int, NEW s \in Nat, a <= b
  PROVE  a * s <= b * s /\ a * s \in Int /\ b * s \in Int
<1>1. (b - a) * s >= 0
  OBVIOUS
<1>2. (b - a) * s = b * s - a * s
  OBVIOUS
<1>3. a * s \in Int /\ b * s \in Int
  OBVIOUS
<1> QED BY <1>1, <1>2, <1>3

\* The groups of s cover m values, all but the last are full.
Groups(q, m, s) == q \in Nat \ {0} /\ m <= q * s /\ (q - 1) * s < m

\* How many groups there are.
LEMMA NumberOfGroups ==
  ASSUME NEW m \in Nat \ {0}, NEW s \in Nat \ {0}, m + s <= Word, Word \in Nat
  PROVE  Groups(NOps(m, s), m, s)
<1> DEFINE size == m - 1 + s
           q == size \div s
<1>1. NOps(m, s) = q
  <2>1. m - 1 \in 0 .. Word - 1 /\ size \in 0 .. Word - 1
    OBVIOUS
  <2>2. (m - 1) % Word = m - 1
    BY <2>1
  <2>3. size % Word = size
    BY <2>1
  <2> QED BY <2>2, <2>3 DEF NOps
<1>2. size \in Nat /\ size >= s
  OBVIOUS
<1> HIDE DEF size
<1>3. q \in Int /\ q * s <= size /\ size < (q + 1) * s
  BY <1>2
<1> HIDE DEF q
<1>4. (q + 1) * s = q * s + s /\ (q - 1) * s = q * s - s /\ q * s \in Int
  BY <1>3
<1>5. m <= q * s /\ (q - 1) * s < m
  BY <1>3, <1>4 DEF size
<1>6. q >= 1
  <2>1. CASE q <= 0
    <3>1. q * s <= 0 * s /\ 0 * s = 0
      BY <1>3, <2>1, Products
    <3> QED BY <1>4, <1>5, <3>1
  <2> QED BY <1>3, <2>1
<1> QED BY <1>1, <1>3, <1>5, <1>6 DEF Groups

\* Their results are fewer, and take less than twice the room.
LEMMA FewerGroups ==
  ASSUME NEW m \in Nat \ {0}, m # 1, NEW s \in Nat, s >= 2, NEW q, Groups(q, m, s)
  PROVE  q < m /\ 3 * q <= 2 * m
<1>1. q \in Nat \ {0} /\ (q - 1) * s < m /\ (q - 1) * s \in Int
  BY DEF Groups
<1>2. (q - 1) * 2 <= (q - 1) * s
  <2>1. (s - 2) * (q - 1) >= 0
    BY <1>1
  <2>2. (s - 2) * (q - 1) = (q - 1) * s - (q - 1) * 2
    BY <1>1
  <2> QED BY <1>1, <2>1, <2>2
<1>3. 2 * q <= m + 1
  BY <1>1, <1>2
<1> QED BY <1>1, <1>3

\* What a group is: its values begin at f, there are k of them, and the next one
\* begins where they end.
Piece(i, m, s, f, k) ==
  /\ f = i * s /\ f \in Nat /\ f < m /\ k \in Nat \ {0} /\ f + k <= m
  /\ f + k = IF (i + 1) * s < m THEN (i + 1) * s ELSE m

\* Group i.
LEMMA PieceOf ==
  ASSUME NEW m \in Nat \ {0}, m < Word, Word \in Nat, NEW s \in Nat, s >= 1, NEW q, Groups(q, m, s),
         NEW i \in 0 .. q - 1
  PROVE  Piece(i, m, s, i * s, GroupSize(i, m, s))
<1>1. q \in Nat \ {0} /\ (q - 1) * s < m /\ (q - 1) * s \in Int
  BY DEF Groups
<1>2. i * s <= (q - 1) * s /\ i * s \in Int
  <2>1. i \in Int /\ q - 1 \in Int /\ i <= q - 1
    BY <1>1
  <2> QED BY <2>1, Products
<1>3. i * s \in Nat
  <2>1. i \in Nat
    BY <1>1
  <2> QED BY <2>1
<1>4. (i + 1) * s = i * s + s
  OBVIOUS
<1> DEFINE f == i * s
<1>5. f \in Nat /\ f < m /\ (i + 1) * s = f + s
  BY <1>1, <1>2, <1>3, <1>4
<1> DEFINE k == GroupSize(i, m, s)
<1>6. k = IF f + s > m THEN (m - f) % Word ELSE s
  BY DEF GroupSize
<1> HIDE DEF f, k
<1>7. (m - f) % Word = m - f
  BY <1>5
<1>8. k \in Nat \ {0} /\ f + k <= m /\ f + k = IF f + s < m THEN f + s ELSE m
  BY <1>5, <1>6, <1>7
<1> QED BY <1>5, <1>8 DEF Piece, f, k

-----------------------------------------------------------------------------
(* Layers *)

Value == [from : Nat, upto : Nat]

\* A layer of m values, the first in cell "at"; value i is reduced from the input
\* at the positions from bound[i] up to bound[i + 1].
LayerType == [m : Nat \ {0}, at : Nat, bound : [Nat -> Nat \ {0}]]

\* The layer of the values given, and the one behind a layer.
Bottom(c) == [m |-> Amount(c), at |-> 0, bound |-> [i \in Nat |-> First(c) + i]]
Behind(l, s) ==
  [m |-> NOps(l.m, s), at |-> l.at + l.m,
   bound |-> [i \in Nat |-> l.bound[IF i * s < l.m THEN i * s ELSE l.m]]]

\* Its values are all of the input, and it lies in the first 3 * Amount(c) cells.
Fits(l, c) ==
  /\ l \in LayerType /\ l.m <= Amount(c) /\ l.at + 3 * l.m <= 3 * Amount(c)
  /\ l.bound[0] = First(c) /\ l.bound[l.m] = c.count + 1

\* The layers of call c, as far as they are known.
Layers(T, c) ==
  /\ T \in Seq(LayerType) /\ Len(T) \in Nat \ {0} /\ T[1] = Bottom(c)
  /\ \A x \in 1 .. Len(T) : Fits(T[x], c) /\ T[x].at + T[x].m <= T[Len(T)].at + T[Len(T)].m
  /\ \A x \in 1 .. Len(T) - 1 : T[x].m # 1 /\ T[x + 1] = Behind(T[x], c.serial)

\* The values of a layer.
ValueIn(l, i) == [from |-> l.bound[i], upto |-> l.bound[i + 1]]

\* What a call is about.
LEMMA Inputs ==
  ASSUME NEW c, Sensible(c)
  PROVE  /\ First(c) \in {1, 2} /\ Amount(c) \in Nat /\ c.count + 1 = First(c) + Amount(c)
         /\ Amount(c) <= c.count /\ (First(c) = 2 <=> c.kind = "subtract")
         /\ (~(c.kind = "subtract" /\ c.count = 1) => Amount(c) # 0)
BY DEF Sensible, First, Amount

\* The first layer.
LEMMA BottomFits ==
  ASSUME NEW c, Sensible(c), Amount(c) # 0
  PROVE  Layers(<<Bottom(c)>>, c)
<1> DEFINE a == Amount(c)
           f == First(c)
           l == Bottom(c)
<1>1. a \in Nat \ {0} /\ f \in Nat \ {0} /\ c.count + 1 = f + a
  BY Inputs
<1>2. l = [m |-> a, at |-> 0, bound |-> [i \in Nat |-> f + i]]
  BY DEF Bottom
<1> HIDE DEF a, f, l
<1>3. l.m = a /\ l.at = 0 /\ l.bound = [i \in Nat |-> f + i]
  BY <1>2
<1>4. l.bound \in [Nat -> Nat \ {0}] /\ l.bound[0] = f /\ l.bound[a] = f + a
  BY <1>1, <1>3
<1>5. l \in LayerType
  BY <1>1, <1>2, <1>4 DEF LayerType
<1>6. Fits(l, c)
  BY <1>1, <1>3, <1>4, <1>5 DEF Fits, a, f
<1> HIDE DEF Fits
<1>7. <<l>> \in Seq(LayerType) /\ Len(<<l>>) = 1 /\ <<l>>[1] = l
  BY <1>5
<1>8. \A x \in 1 .. Len(<<l>>) :
         Fits(<<l>>[x], c) /\ <<l>>[x].at + <<l>>[x].m <= <<l>>[Len(<<l>>)].at + <<l>>[Len(<<l>>)].m
  <2> SUFFICES ASSUME NEW x \in 1 .. Len(<<l>>)
               PROVE  Fits(<<l>>[x], c) /\ <<l>>[x].at + <<l>>[x].m
                         <= <<l>>[Len(<<l>>)].at + <<l>>[Len(<<l>>)].m
    OBVIOUS
  <2>1. x = 1
    BY <1>7
  <2> QED BY <1>1, <1>3, <1>6, <1>7, <2>1
<1>9. 1 .. Len(<<l>>) - 1 = {}
  BY <1>7
<1> QED BY <1>7, <1>8, <1>9 DEF Layers, l

\* The layer behind a layer.
LEMMA BehindFits ==
  ASSUME Word \in Nat, NEW c, Sensible(c), NEW l, Fits(l, c), l.m # 1
  PROVE  /\ Fits(Behind(l, c.serial), c) /\ Behind(l, c.serial).at = l.at + l.m
         /\ Behind(l, c.serial).m = NOps(l.m, c.serial)
         /\ Groups(NOps(l.m, c.serial), l.m, c.serial)
<1> DEFINE s == c.serial
           q == NOps(l.m, s)
           new == Behind(l, s)
           b == [i \in Nat |-> l.bound[IF i * s < l.m THEN i * s ELSE l.m]]
<1>1. /\ l.m \in Nat \ {0} /\ l.at \in Nat /\ l.bound \in [Nat -> Nat \ {0}]
      /\ s \in Nat /\ s >= 2 /\ l.m + s <= Word
      /\ l.m <= Amount(c) /\ l.at + 3 * l.m <= 3 * Amount(c) /\ Amount(c) \in Nat
  BY Inputs DEF Fits, LayerType, Sensible
<1> HIDE DEF s
<1>2. Groups(q, l.m, s)
  BY <1>1, NumberOfGroups
<1>3. q \in Nat \ {0} /\ l.m <= q * s /\ q * s \in Int
  BY <1>1, <1>2 DEF Groups
<1>4. q < l.m /\ 3 * q <= 2 * l.m
  BY <1>1, <1>2, FewerGroups
<1> HIDE DEF q
<1>5. ASSUME NEW i \in Nat PROVE (IF i * s < l.m THEN i * s ELSE l.m) \in Nat
  BY <1>1
<1>6. b \in [Nat -> Nat \ {0}]
  BY <1>1, <1>5
<1>7. b[0] = l.bound[0]
  <2>1. 0 * s = 0
    BY <1>1
  <2> QED BY <1>1, <2>1
<1>8. b[q] = l.bound[l.m]
  <2>1. ~(q * s < l.m)
    BY <1>1, <1>3
  <2> QED BY <1>3, <2>1
<1>9. new = [m |-> q, at |-> l.at + l.m, bound |-> b]
  BY DEF Behind, q
<1> HIDE DEF new, b
<1>10. new.m = q /\ new.at = l.at + l.m /\ new.bound = b
  BY <1>9
<1>11. new \in LayerType
  BY <1>1, <1>3, <1>6, <1>9 DEF LayerType
<1>12. new.m <= Amount(c) /\ new.at + 3 * new.m <= 3 * Amount(c)
  BY <1>1, <1>3, <1>4, <1>10
<1>13. Fits(new, c)
  BY <1>7, <1>8, <1>10, <1>11, <1>12 DEF Fits
<1> QED BY <1>2, <1>10, <1>13 DEF new, q, s

\* One layer more.
LEMMA LayersGrow ==
  ASSUME Word \in Nat, NEW c, Sensible(c), NEW T, Layers(T, c), T[Len(T)].m # 1
  PROVE  Layers(Append(T, Behind(T[Len(T)], c.serial)), c)
<1> DEFINE N == Len(T)
           l == T[N]
           new == Behind(l, c.serial)
           U == Append(T, new)
<1>1. /\ T \in Seq(LayerType) /\ N \in Nat \ {0} /\ T[1] = Bottom(c)
      /\ \A x \in 1 .. N : Fits(T[x], c) /\ T[x].at + T[x].m <= l.at + l.m
      /\ \A x \in 1 .. N - 1 : T[x].m # 1 /\ T[x + 1] = Behind(T[x], c.serial)
  BY DEF Layers
<1>2. Fits(l, c)
  BY <1>1
<1> HIDE DEF l
<1>3. /\ Fits(new, c) /\ new.at = l.at + l.m /\ new.m \in Nat \ {0} /\ l.m # 1
      /\ new \in LayerType
  <2>1. l.m # 1
    BY DEF l
  <2>2. Fits(new, c) /\ new.at = l.at + l.m
    BY <1>2, <2>1, BehindFits
  <2> QED BY <2>1, <2>2 DEF Fits, LayerType
<1> HIDE DEF new, N
<1>4. /\ U \in Seq(LayerType) /\ Len(U) = N + 1 /\ U[N + 1] = new
      /\ \A x \in 1 .. N : U[x] = T[x]
  BY <1>1, <1>3 DEF N
<1> HIDE DEF U
<1>5. ASSUME NEW x \in 1 .. N + 1
      PROVE  Fits(U[x], c) /\ U[x].at + U[x].m <= new.at + new.m
  <2>1. CASE x = N + 1
    <3>1. U[x] = new
      BY <1>4, <2>1
    <3>2. new.at \in Nat /\ new.m \in Nat
      BY <1>3 DEF LayerType
    <3>3. new.at + new.m <= new.at + new.m
      BY <3>2
    <3> QED BY <1>3, <3>1, <3>3
  <2>2. CASE x # N + 1
    <3>1. x \in 1 .. N
      BY <1>1, <2>2
    <3>2. Fits(T[x], c) /\ T[x].at + T[x].m <= l.at + l.m
      BY <1>1, <3>1
    <3>3. T[x].at \in Nat /\ T[x].m \in Nat /\ l.at \in Nat /\ l.m \in Nat
      BY <1>2, <3>2 DEF Fits, LayerType
    <3>4. T[x].at + T[x].m <= new.at + new.m
      BY <1>3, <3>2, <3>3, SMTT(20)
    <3> QED BY <1>4, <3>1, <3>2, <3>4
  <2> QED BY <2>1, <2>2
<1>6. ASSUME NEW x \in 1 .. N PROVE U[x].m # 1 /\ U[x + 1] = Behind(U[x], c.serial)
  <2>1. CASE x = N
    BY <1>1, <1>3, <1>4, <2>1 DEF l, new
  <2>2. CASE x # N
    <3>1. x \in 1 .. N - 1 /\ x + 1 \in 1 .. N
      BY <1>1, <2>2
    <3> QED BY <1>1, <1>4, <3>1
  <2> QED BY <2>1, <2>2
<1>7. 1 \in 1 .. N /\ N + 1 - 1 = N /\ N + 1 \in Nat \ {0}
  BY <1>1
<1>8. Layers(U, c)
  BY <1>1, <1>4, <1>5, <1>6, <1>7 DEF Layers
<1> QED BY <1>8 DEF U, new, l, N

-----------------------------------------------------------------------------
(* Units *)

\* The cells of layer l have its values.
Filled(l, C) == \A j \in 0 .. l.m - 1 : C[l.at + j] = ValueIn(l, j)

\* Values that follow one another come to one that has all their positions.
LEMMA Combines ==
  ASSUME NEW l \in LayerType, NEW C, Filled(l, C), NEW f \in Nat, NEW k \in Nat \ {0}, f + k <= l.m
  PROVE  Combined([j \in 1 .. k |-> C[l.at + f + j - 1]])
           = [from |-> l.bound[f], upto |-> l.bound[f + k]]
<1> DEFINE v == [j \in 1 .. k |-> C[l.at + f + j - 1]]
<1>1. l.m \in Nat /\ l.at \in Nat /\ l.bound \in [Nat -> Nat \ {0}]
  BY DEF LayerType
<1>2. ASSUME NEW j \in 1 .. k
      PROVE  v[j].from = l.bound[f + j - 1] /\ v[j].upto = l.bound[f + j] /\ f + j - 1 \in Nat
  <2>1. f + j - 1 \in 0 .. l.m - 1 /\ l.at + (f + j - 1) = l.at + f + j - 1 /\ f + j - 1 + 1 = f + j
    BY <1>1
  <2>2. C[l.at + (f + j - 1)] = ValueIn(l, f + j - 1)
    BY <2>1 DEF Filled
  <2>3. v[j] = C[l.at + f + j - 1]
    OBVIOUS
  <2>4. v[j] = ValueIn(l, f + j - 1)
    BY <2>1, <2>2, <2>3
  <2> HIDE DEF v
  <2> QED BY <2>1, <2>4 DEF ValueIn
<1>3. DOMAIN v = 1 .. k /\ Len(v) = k
  OBVIOUS
<1> HIDE DEF v
<1>4. \A j \in DOMAIN v : v[j].from > 0
  <2> SUFFICES ASSUME NEW j \in 1 .. k PROVE v[j].from > 0
    BY <1>3
  <2>1. v[j].from = l.bound[f + j - 1] /\ f + j - 1 \in Nat
    BY <1>2
  <2>2. l.bound[f + j - 1] \in Nat \ {0}
    BY <1>1, <2>1
  <2> QED BY <2>1, <2>2
<1>5. \A j \in 1 .. Len(v) - 1 : v[j + 1].from = v[j].upto
  <2> SUFFICES ASSUME NEW j \in 1 .. k - 1 PROVE v[j + 1].from = v[j].upto
    BY <1>3
  <2>1. j \in 1 .. k /\ j + 1 \in 1 .. k /\ f + (j + 1) - 1 = f + j
    OBVIOUS
  <2>2. v[j].upto = l.bound[f + j]
    BY <1>2, <2>1
  <2>3. v[j + 1].from = l.bound[f + (j + 1) - 1]
    BY <1>2, <2>1
  <2> QED BY <2>1, <2>2, <2>3
<1>6. v[1].from = l.bound[f]
  <2>1. 1 \in 1 .. k /\ f + 1 - 1 = f
    OBVIOUS
  <2> QED BY <1>2, <2>1
<1>7. v[k].upto = l.bound[f + k]
  <2>1. k \in 1 .. k
    OBVIOUS
  <2> QED BY <1>2, <2>1
<1>8. Combined(v) = [from |-> v[1].from, upto |-> v[Len(v)].upto]
  BY <1>4, <1>5 DEF Combined
<1> QED BY <1>3, <1>6, <1>7, <1>8 DEF v

\* A unit with the command c in a buffer where layer l is filled, for the layer behind.
UnitDoes(i, c, l, new) ==
  /\ Op(Group(i, c)) = ValueIn(new, i)
  /\ ToSet(Group(i, c)) \subseteq l.at .. l.at + l.m - 1
  /\ c.at + c.m + i = new.at + i

\* A unit reduces one group of the layer to one value of that behind it.
LEMMA UnitIsRight ==
  ASSUME Word \in Nat, Sensible(call), NEW l, Fits(l, call), l.m # 1, Filled(l, cells),
         NEW new, new = Behind(l, call.serial), NEW i \in 0 .. new.m - 1,
         NEW c, c.m = l.m, c.at = l.at
  PROVE  UnitDoes(i, c, l, new)
<1> DEFINE s == call.serial
           f == i * s
           k == GroupSize(i, l.m, s)
<1>1. /\ l \in LayerType /\ l.m \in Nat \ {0} /\ l.at \in Nat /\ l.bound \in [Nat -> Nat \ {0}]
      /\ s \in Nat /\ s >= 1 /\ l.m < Word
  <2>1. l \in LayerType /\ l.m <= Amount(call)
    BY DEF Fits
  <2>2. l.m \in Nat \ {0} /\ l.at \in Nat /\ l.bound \in [Nat -> Nat \ {0}]
    BY <2>1 DEF LayerType
  <2>3. s \in Nat /\ s >= 2 /\ Amount(call) <= call.count /\ Amount(call) \in Nat /\ 3 * call.count < Word
        /\ call.count \in Nat
    BY Inputs DEF Sensible
  <2>4. l.m < Word
    BY <2>1, <2>2, <2>3
  <2> QED BY <2>1, <2>2, <2>3, <2>4
<1>2. /\ new.m = NOps(l.m, s) /\ new.at = l.at + l.m /\ Groups(new.m, l.m, s) /\ new.m \in Nat
      /\ new.bound = [j \in Nat |-> l.bound[IF j * s < l.m THEN j * s ELSE l.m]]
  <2>1. /\ new.at = l.at + l.m /\ new.m = NOps(l.m, s) /\ Groups(new.m, l.m, s)
    BY BehindFits
  <2>2. new.bound = [j \in Nat |-> l.bound[IF j * s < l.m THEN j * s ELSE l.m]]
    BY DEF Behind
  <2> QED BY <2>1, <2>2 DEF Groups
<1>3. Piece(i, l.m, s, f, k)
  BY <1>1, <1>2, PieceOf
<1> HIDE DEF s, k
<1>4. /\ f \in Nat /\ f < l.m /\ k \in Nat \ {0} /\ f + k <= l.m /\ f = i * s
      /\ f + k = IF (i + 1) * s < l.m THEN (i + 1) * s ELSE l.m
  BY <1>3 DEF Piece
<1>5. i \in Nat /\ i + 1 \in Nat
  BY <1>2
<1>6. new.bound[i] = l.bound[f] /\ new.bound[i + 1] = l.bound[f + k]
  <2>1. new.bound[i] = l.bound[IF i * s < l.m THEN i * s ELSE l.m]
    BY <1>2, <1>5
  <2>2. new.bound[i + 1] = l.bound[IF (i + 1) * s < l.m THEN (i + 1) * s ELSE l.m]
    BY <1>2, <1>5
  <2> HIDE DEF f
  <2>3. (IF i * s < l.m THEN i * s ELSE l.m) = f
    BY <1>4
  <2> QED BY <1>4, <2>1, <2>2, <2>3
<1>7. Group(i, c) = [j \in 1 .. k |-> l.at + f + j - 1]
  <2>1. Group(i, c) = [j \in 1 .. IF k = 0 THEN 1 ELSE k |-> l.at + f + j - 1]
    BY DEF Group, k, s
  <2>2. (IF k = 0 THEN 1 ELSE k) = k
    BY <1>4
  <2> QED BY <2>1, <2>2
<1> HIDE DEF f
<1>8. Op(Group(i, c)) = ValueIn(new, i)
  <2> DEFINE g == [j \in 1 .. k |-> l.at + f + j - 1]
  <2>1. [j \in DOMAIN g |-> cells[g[j]]] = [j \in 1 .. k |-> cells[l.at + f + j - 1]]
    OBVIOUS
  <2>2. Op(g) = Combined([j \in 1 .. k |-> cells[l.at + f + j - 1]])
    BY <2>1 DEF Op
  <2> HIDE DEF g
  <2>3. Combined([j \in 1 .. k |-> cells[l.at + f + j - 1]])
          = [from |-> l.bound[f], upto |-> l.bound[f + k]]
    BY <1>1, <1>4, Combines, ZenonT(30)
  <2> QED BY <1>6, <1>7, <2>2, <2>3 DEF ValueIn, g
<1>9. ToSet(Group(i, c)) \subseteq l.at .. l.at + l.m - 1
  <2>1. \A j \in 1 .. k : l.at + f + j - 1 \in l.at .. l.at + l.m - 1
    BY <1>1, <1>4
  <2> QED BY <1>7, <2>1 DEF ToSet
<1>10. c.at + c.m + i = new.at + i
  BY <1>2
<1> QED BY <1>8, <1>9, <1>10 DEF UnitDoes

-----------------------------------------------------------------------------
(* The stream *)

Plain   == [do : {"in", "out", "free"}]
Kernels == [do : {"kernel"}, m : Nat, at : Nat, todo : SUBSET Nat]

\* The commands of a call with layers T, in the order they are given: the transfer,
\* a kernel for each layer but the last, the transfer back, the deallocation.
Command(T, x) ==
  IF x = 0 THEN [do |-> "in"]
  ELSE IF x = Len(T) THEN [do |-> "out"]
  ELSE IF x > Len(T) THEN [do |-> "free"]
  ELSE [do |-> "kernel", m |-> T[x].m, at |-> T[x].at, todo |-> 0 .. T[x + 1].m - 1]

\* c is a command or what is left of it.
Rest(c, whole) ==
  \/ c = whole
  \/ /\ whole.do = "kernel" /\ c = [whole EXCEPT !.todo = c.todo]
     /\ c.todo \subseteq whole.todo /\ c.todo # {}

\* The queue has the commands from lo up to and without hi, of which the first may
\* have been begun.
InOrder(q, T, lo, hi) ==
  /\ q \in Seq(Plain \cup Kernels) /\ lo \in Nat /\ hi \in Nat /\ Len(q) = hi - lo
  /\ \A j \in 2 .. hi - lo : q[j] = Command(T, lo + j - 1)
  /\ lo # hi => Rest(q[1], Command(T, lo))

\* What a command is.
LEMMA Commands ==
  ASSUME NEW T, NEW c, Layers(T, c), NEW x \in Nat
  PROVE  /\ Command(T, x) \in Plain \cup Kernels
         /\ x = 0 => Command(T, x) = [do |-> "in"]
         /\ x = Len(T) => Command(T, x) = [do |-> "out"]
         /\ x > Len(T) => Command(T, x) = [do |-> "free"]
         /\ x \in 1 .. Len(T) - 1 =>
              Command(T, x) = [do |-> "kernel", m |-> T[x].m, at |-> T[x].at, todo |-> 0 .. T[x + 1].m - 1]
<1>1. T \in Seq(LayerType) /\ Len(T) \in Nat \ {0}
  BY DEF Layers
<1>2. CASE x = 0
  BY <1>1, <1>2 DEF Command, Plain
<1>3. CASE x >= Len(T)
  BY <1>1, <1>3 DEF Command, Plain
<1>4. CASE x \in 1 .. Len(T) - 1
  <2>1. T[x] \in LayerType /\ T[x + 1] \in LayerType
    BY <1>1, <1>4
  <2>2. T[x].m \in Nat /\ T[x].at \in Nat /\ 0 .. T[x + 1].m - 1 \in SUBSET Nat
    BY <2>1 DEF LayerType
  <2>3. Command(T, x) = [do |-> "kernel", m |-> T[x].m, at |-> T[x].at, todo |-> 0 .. T[x + 1].m - 1]
    BY <1>1, <1>4 DEF Command
  <2> QED BY <1>1, <1>4, <2>2, <2>3 DEF Kernels
<1> QED BY <1>1, <1>2, <1>3, <1>4

\* Giving the next command.
LEMMA Gives ==
  ASSUME NEW T, NEW c, Layers(T, c), NEW q, NEW lo, NEW hi, InOrder(q, T, lo, hi)
  PROVE  InOrder(Append(q, Command(T, hi)), T, lo, hi + 1)
<1>1. /\ q \in Seq(Plain \cup Kernels) /\ lo \in Nat /\ hi \in Nat /\ Len(q) = hi - lo
      /\ \A j \in 2 .. hi - lo : q[j] = Command(T, lo + j - 1)
      /\ lo # hi => Rest(q[1], Command(T, lo))
  BY DEF InOrder
<1> DEFINE e == Command(T, hi)
           r == Append(q, e)
<1>2. e \in Plain \cup Kernels
  BY <1>1, Commands
<1>3. Len(q) \in Nat
  BY <1>1
<1> HIDE DEF e
<1>4. /\ r \in Seq(Plain \cup Kernels) /\ Len(r) = hi + 1 - lo /\ r[hi - lo + 1] = e
      /\ \A j \in 1 .. hi - lo : r[j] = q[j]
  BY <1>1, <1>2, <1>3
<1> HIDE DEF r
<1>5. \A j \in 2 .. hi + 1 - lo : r[j] = Command(T, lo + j - 1)
  <2> SUFFICES ASSUME NEW j \in 2 .. hi + 1 - lo PROVE r[j] = Command(T, lo + j - 1)
    OBVIOUS
  <2>1. CASE j = hi - lo + 1
    <3>1. lo + j - 1 = hi
      BY <1>1, <2>1
    <3> QED BY <1>4, <2>1, <3>1 DEF e
  <2>2. CASE j # hi - lo + 1
    <3>1. j \in 2 .. hi - lo /\ j \in 1 .. hi - lo
      BY <1>1, <2>2
    <3> QED BY <1>1, <1>4, <3>1
  <2> QED BY <2>1, <2>2
<1>6. Rest(r[1], Command(T, lo))
  <2>1. CASE lo = hi
    <3>1. r[1] = e
      BY <1>1, <1>4, <2>1
    <3> QED BY <2>1, <3>1 DEF e, Rest
  <2>2. CASE lo # hi
    <3>1. 1 \in 1 .. hi - lo
      BY <1>1, <1>3, <2>2
    <3>2. r[1] = q[1]
      BY <1>4, <3>1
    <3> QED BY <1>1, <2>2, <3>2
  <2> QED BY <2>1, <2>2
<1>7. hi + 1 \in Nat
  BY <1>1
<1> QED BY <1>1, <1>4, <1>5, <1>6, <1>7 DEF InOrder, r, e

\* Being done with the first command.
LEMMA Completes ==
  ASSUME NEW T, NEW q, NEW lo, NEW hi, InOrder(q, T, lo, hi), q # <<>>
  PROVE  /\ InOrder(Tail(q), T, lo + 1, hi) /\ Rest(Head(q), Command(T, lo)) /\ lo < hi
         /\ lo + 1 # hi => Head(Tail(q)) = Command(T, lo + 1)
<1>1. /\ q \in Seq(Plain \cup Kernels) /\ lo \in Nat /\ hi \in Nat /\ Len(q) = hi - lo
      /\ \A j \in 2 .. hi - lo : q[j] = Command(T, lo + j - 1)
      /\ lo # hi => Rest(q[1], Command(T, lo))
  BY DEF InOrder
<1>2. Len(q) \in Nat /\ Len(q) # 0
  BY <1>1, EmptySeq
<1>3. lo < hi
  BY <1>1, <1>2
<1> DEFINE r == Tail(q)
<1>4. /\ r \in Seq(Plain \cup Kernels) /\ Len(r) = hi - (lo + 1) /\ Head(q) = q[1]
      /\ \A j \in 1 .. hi - (lo + 1) : r[j] = q[j + 1]
  BY <1>1, <1>2
<1> HIDE DEF r
<1>5. ASSUME NEW j \in 1 .. hi - (lo + 1) PROVE r[j] = Command(T, lo + 1 + j - 1)
  <2>1. j + 1 \in 2 .. hi - lo /\ lo + (j + 1) - 1 = lo + 1 + j - 1
    BY <1>1
  <2> QED BY <1>1, <1>4, <2>1
<1>6. \A j \in 2 .. hi - (lo + 1) : r[j] = Command(T, lo + 1 + j - 1)
  BY <1>5
<1>7. lo + 1 # hi => Rest(r[1], Command(T, lo + 1))
  <2> SUFFICES ASSUME lo + 1 # hi PROVE Rest(r[1], Command(T, lo + 1))
    OBVIOUS
  <2>1. 1 \in 1 .. hi - (lo + 1) /\ lo + 1 + 1 - 1 = lo + 1
    BY <1>1, <1>3
  <2> QED BY <1>5, <2>1 DEF Rest
<1>8. lo + 1 \in Nat
  BY <1>1
<1>9. InOrder(r, T, lo + 1, hi)
  BY <1>1, <1>4, <1>6, <1>7, <1>8 DEF InOrder
<1>10. lo + 1 # hi => Head(r) = Command(T, lo + 1)
  <2> SUFFICES ASSUME lo + 1 # hi PROVE Head(r) = Command(T, lo + 1)
    OBVIOUS
  <2>1. 1 \in 1 .. hi - (lo + 1) /\ lo + 1 + 1 - 1 = lo + 1
    BY <1>1, <1>3
  <2>2. r[1] = Command(T, lo + 1)
    BY <1>5, <2>1
  <2> QED BY <2>2
<1> QED BY <1>1, <1>3, <1>4, <1>9, <1>10 DEF r

\* Being on with it.
LEMMA Continues ==
  ASSUME NEW T, NEW q, NEW lo, NEW hi, InOrder(q, T, lo, hi), q # <<>>,
         NEW d \in Plain \cup Kernels, Rest(d, Command(T, lo))
  PROVE  InOrder(<<d>> \o Tail(q), T, lo, hi)
<1>1. /\ q \in Seq(Plain \cup Kernels) /\ lo \in Nat /\ hi \in Nat /\ Len(q) = hi - lo
      /\ \A j \in 2 .. hi - lo : q[j] = Command(T, lo + j - 1)
  BY DEF InOrder
<1>2. Len(q) \in Nat /\ Len(q) # 0
  BY <1>1, EmptySeq
<1> DEFINE r == Tail(q)
           w == <<d>> \o r
<1>3. /\ r \in Seq(Plain \cup Kernels) /\ Len(r) = hi - lo - 1
      /\ \A j \in 1 .. hi - lo - 1 : r[j] = q[j + 1]
  BY <1>1, <1>2
<1> HIDE DEF r
<1>4. <<d>> \in Seq(Plain \cup Kernels) /\ Len(<<d>>) = 1 /\ <<d>>[1] = d
  OBVIOUS
<1>5. /\ w \in Seq(Plain \cup Kernels) /\ Len(w) = hi - lo
      /\ \A j \in 1 .. hi - lo : w[j] = IF j <= 1 THEN d ELSE r[j - 1]
  <2>1. /\ w \in Seq(Plain \cup Kernels) /\ Len(w) = Len(<<d>>) + Len(r)
        /\ \A j \in 1 .. Len(<<d>>) + Len(r) :
             w[j] = IF j <= Len(<<d>>) THEN <<d>>[j] ELSE r[j - Len(<<d>>)]
    BY <1>3, <1>4, ConcatProperties
  <2>2. Len(<<d>>) + Len(r) = hi - lo
    BY <1>1, <1>3, <1>4
  <2> HIDE DEF w
  <2>3. ASSUME NEW j \in 1 .. hi - lo PROVE w[j] = IF j <= 1 THEN d ELSE r[j - 1]
    <3>1. j <= 1 => j = 1
      BY <1>1
    <3> QED BY <1>4, <2>1, <2>2, <3>1
  <2> QED BY <2>1, <2>2, <2>3
<1> HIDE DEF w
<1>6. \A j \in 2 .. hi - lo : w[j] = Command(T, lo + j - 1)
  <2> SUFFICES ASSUME NEW j \in 2 .. hi - lo PROVE w[j] = Command(T, lo + j - 1)
    OBVIOUS
  <2>1. j \in 1 .. hi - lo /\ ~(j <= 1) /\ j - 1 \in 1 .. hi - lo - 1 /\ j - 1 + 1 = j
    BY <1>1
  <2>2. w[j] = r[j - 1]
    BY <1>5, <2>1
  <2> QED BY <1>1, <1>3, <2>1, <2>2
<1>7. w[1] = d
  <2>1. 1 \in 1 .. hi - lo
    BY <1>1, <1>2
  <2> QED BY <1>5, <2>1
<1> QED BY <1>1, <1>5, <1>6, <1>7 DEF InOrder, w, r

-----------------------------------------------------------------------------
(* The invariant *)

\* What the caller is to get of op_parallel: all it gave to it.
Whole(c) == [from |-> First(c), upto |-> c.count + 1]

\* The commands before lo have been run, those before hi are given; C is the buffer
\* of size cells, r the result.
Computed(T, lo, hi, c, q, C, r, size) ==
  /\ Layers(T, c) /\ T[Len(T)].m = 1 /\ size = T[Len(T)].at + 1
  /\ InOrder(q, T, lo, hi)
  /\ lo <= Len(T) + 1 => DOMAIN C = 0 .. size - 1
  /\ lo \in 1 .. Len(T) => Filled(T[lo], C)
  /\ lo \in 1 .. Len(T) - 1 /\ lo # hi =>
       \A i \in (0 .. T[lo + 1].m - 1) \ Head(q).todo :
         C[T[lo + 1].at + i] = ValueIn(T[lo + 1], i)
  /\ lo > Len(T) => r = Whole(c)

\* Where the host is then.
Given(T, lo, hi, p, m, a) ==
  \/ p = "layers" /\ hi \in 1 .. Len(T) /\ m = T[hi].m /\ a = T[hi].at
  \/ p = "collect" /\ hi = Len(T) + 1
  \/ p = "read" /\ hi = Len(T) + 2 /\ lo > Len(T)

\* Where the call is at work.
Underway(T, lo, hi) ==
  /\ pc \in {"layers", "collect", "read"} /\ Sensible(call)
  /\ Computed(T, lo, hi, call, queue, cells, h_res, neff) /\ Given(T, lo, hi, pc, left, at)

\* Nothing in the stream but perhaps a deallocation.
Resting(q) == q = <<>> \/ q = <<[do |-> "free"]>>

\* The types of the rest, and that nothing has gone wrong.
Well ==
  /\ call.kind \in {"add", "subtract"} /\ call.path \in {"device", "host"}
  /\ neff \in 0 .. Word - 1 /\ left \in 0 .. Word - 1 /\ at \in Nat
  /\ \A c \in DOMAIN cells : cells[c] \in Value /\ cells[c] # Mixed
  /\ strayed = FALSE

\* How far a call is.
Stage ==
  \/ pc = "idle" /\ Resting(queue)
  \/ pc = "done" /\ Resting(queue) /\ result = Serial(call)
  \/ /\ pc = "sizing" /\ queue = <<>> /\ Sensible(call) /\ at = 0
     /\ \E T : Layers(T, call) /\ left = T[Len(T)].m /\ neff = T[Len(T)].at
  \/ \E T, lo, hi : Underway(T, lo, hi)

RInv == Well /\ Stage

-----------------------------------------------------------------------------
(* The stream at work *)

\* Giving the next command.
LEMMA ComputedGives ==
  ASSUME NEW T, NEW lo, NEW hi, NEW c, NEW q, NEW C, NEW r, NEW size,
         Computed(T, lo, hi, c, q, C, r, size)
  PROVE  Computed(T, lo, hi + 1, c, Append(q, Command(T, hi)), C, r, size)
<1> DEFINE w == Append(q, Command(T, hi))
           N == Len(T)
<1>1. /\ Layers(T, c) /\ T[N].m = 1 /\ size = T[N].at + 1 /\ InOrder(q, T, lo, hi)
      /\ lo <= N + 1 => DOMAIN C = 0 .. size - 1
      /\ lo \in 1 .. N => Filled(T[lo], C)
      /\ lo > N => r = Whole(c)
  BY DEF Computed
<1>2. q \in Seq(Plain \cup Kernels) /\ Len(q) \in Nat /\ lo \in Nat /\ hi \in Nat /\ Len(q) = hi - lo
  BY <1>1 DEF InOrder
<1>3. InOrder(w, T, lo, hi + 1)
  BY <1>1, Gives
<1>4. ASSUME lo \in 1 .. N - 1, NEW i \in (0 .. T[lo + 1].m - 1) \ Head(w).todo
      PROVE  C[T[lo + 1].at + i] = ValueIn(T[lo + 1], i)
  <2>1. Command(T, hi) \in Plain \cup Kernels
    BY <1>1, <1>2, Commands
  <2>2. CASE lo = hi
    <3>1. q = <<>>
      BY <1>2, <2>2, EmptySeq
    <3>2. Head(w) = Command(T, lo)
      BY <2>1, <2>2, <3>1
    <3>3. Command(T, lo) = [do |-> "kernel", m |-> T[lo].m, at |-> T[lo].at, todo |-> 0 .. T[lo + 1].m - 1]
      BY <1>1, <1>2, <1>4, Commands
    <3>4. Head(w).todo = 0 .. T[lo + 1].m - 1
      BY <3>2, <3>3
    <3> QED BY <1>4, <3>4
  <2>3. CASE lo # hi
    <3>1. Len(q) >= 1
      BY <1>2, <2>3
    <3>2. Head(w) = Head(q)
      BY <1>2, <2>1, <3>1
    <3> HIDE DEF w
    <3> QED BY <1>4, <2>3, <3>2 DEF Computed
  <2> QED BY <2>2, <2>3
<1> HIDE DEF w
<1> QED BY <1>1, <1>3, <1>4 DEF Computed, w

\* The first command is done: the next layer is filled, or the result is there.
LEMMA ComputedCompletes ==
  ASSUME NEW T, NEW lo, NEW hi, NEW c, NEW q, NEW C, NEW r, NEW size,
         Computed(T, lo, hi, c, q, C, r, size), q # <<>>,
         NEW C1, NEW r1,
         lo <= Len(T) => DOMAIN C1 = DOMAIN C,
         lo < Len(T) => Filled(T[lo + 1], C1),
         lo = Len(T) => r1 = Whole(c), lo > Len(T) => r1 = r
  PROVE  Computed(T, lo + 1, hi, c, Tail(q), C1, r1, size) /\ lo < hi
<1> DEFINE w == Tail(q)
           N == Len(T)
           k == lo + 1
<1>1. /\ Layers(T, c) /\ T[N].m = 1 /\ size = T[N].at + 1 /\ InOrder(q, T, lo, hi) /\ N \in Nat \ {0}
      /\ lo <= N + 1 => DOMAIN C = 0 .. size - 1
      /\ lo > N => r = Whole(c)
  BY DEF Computed, Layers
<1>2. lo \in Nat
  BY <1>1 DEF InOrder
<1>3. InOrder(w, T, lo + 1, hi) /\ lo < hi /\ (lo + 1 # hi => Head(w) = Command(T, lo + 1))
  BY <1>1, Completes
<1>4. ASSUME k \in 1 .. N - 1, k # hi, NEW i \in (0 .. T[k + 1].m - 1) \ Head(w).todo
      PROVE  C1[T[k + 1].at + i] = ValueIn(T[k + 1], i)
  <2>1. k \in Nat
    BY <1>2
  <2>2. Command(T, k) = [do |-> "kernel", m |-> T[k].m, at |-> T[k].at, todo |-> 0 .. T[k + 1].m - 1]
    BY <1>1, <1>4, <2>1, Commands
  <2>4. Head(w) = Command(T, k)
    BY <1>3, <1>4
  <2> HIDE DEF w, k
  <2>3. Head(w).todo = 0 .. T[k + 1].m - 1
    BY <2>2, <2>4
  <2> QED BY <1>4, <2>3
<1>5. k <= N + 1 => DOMAIN C1 = 0 .. size - 1
  BY <1>1, <1>2
<1>6. k \in 1 .. N => Filled(T[k], C1)
  BY <1>1, <1>2
<1>7. k > N => r1 = Whole(c)
  BY <1>1, <1>2
<1> HIDE DEF w
<1>8. Computed(T, k, hi, c, w, C1, r1, size)
  <2> HIDE DEF k
  <2>1. InOrder(w, T, k, hi)
    BY <1>3 DEF k
  <2> QED BY <1>1, <1>4, <1>5, <1>6, <1>7, <2>1 DEF Computed
<1> QED BY <1>3, <1>8 DEF w

-----------------------------------------------------------------------------
(* What each command does *)

\* How the layers of a call lie in its buffer.
LEMMA InBuffer ==
  ASSUME NEW T, NEW lo, NEW hi, NEW c, NEW q, NEW C, NEW r, NEW size,
         Computed(T, lo, hi, c, q, C, r, size), NEW x \in 1 .. Len(T)
  PROVE  /\ T[x] \in LayerType /\ T[x].m \in Nat \ {0} /\ T[x].at \in Nat /\ size \in Nat
         /\ T[x].bound \in [Nat -> Nat \ {0}]
         /\ T[x].at + T[x].m <= size
<1>1. /\ Fits(T[x], c) /\ T[x].at + T[x].m <= T[Len(T)].at + T[Len(T)].m
      /\ T[Len(T)].m = 1 /\ size = T[Len(T)].at + 1 /\ Fits(T[Len(T)], c)
  <2>1. Len(T) \in 1 .. Len(T)
    BY DEF Computed, Layers
  <2> QED BY <2>1 DEF Computed, Layers
<1>2. T[x] \in LayerType /\ T[Len(T)] \in LayerType
  BY <1>1 DEF Fits
<1>3. T[x].m \in Nat \ {0} /\ T[x].at \in Nat /\ T[x].bound \in [Nat -> Nat \ {0}] /\ T[Len(T)].at \in Nat
  BY <1>2 DEF LayerType
<1>4. T[Len(T)].at + T[Len(T)].m = size /\ size \in Nat
  <2> DEFINE e == T[Len(T)]
  <2>1. e.m = 1 /\ size = e.at + 1 /\ e.at \in Nat
    BY <1>1, <1>3
  <2> HIDE DEF e
  <2>2. e.at + e.m = size /\ size \in Nat
    BY <2>1
  <2> QED BY <2>2 DEF e
<1>5. T[x].at + T[x].m <= size
  BY <1>1, <1>4
<1> QED BY <1>2, <1>3, <1>4, <1>5

\* What command of which kind it is.
LEMMA FirstCommand ==
  ASSUME NEW T, NEW lo, NEW hi, NEW c, NEW q, NEW C, NEW r, NEW size,
         Computed(T, lo, hi, c, q, C, r, size), q # <<>>
  PROVE  /\ lo \in Nat /\ Len(T) \in Nat \ {0}
         /\ Head(q).do = "in" => lo = 0
         /\ Head(q).do = "out" => lo = Len(T)
         /\ Head(q).do = "free" => lo > Len(T)
         /\ Head(q).do = "kernel" =>
              /\ lo \in 1 .. Len(T) - 1 /\ Head(q).m = T[lo].m /\ Head(q).at = T[lo].at
              /\ Head(q).todo # {} /\ Head(q).todo \subseteq 0 .. T[lo + 1].m - 1
              /\ \A t \in SUBSET Head(q).todo : t # {} =>
                   Rest([Head(q) EXCEPT !.todo = t], Command(T, lo))
<1> DEFINE N == Len(T)
           h == Head(q)
           w == Command(T, lo)
<1>1. Layers(T, c) /\ InOrder(q, T, lo, hi) /\ N \in Nat \ {0} /\ lo \in Nat
  BY DEF Computed, Layers, InOrder
<1>2. Rest(h, w)
  BY <1>1, Completes
<1>3. CASE lo = 0
  <2>1. w = [do |-> "in"]
    BY <1>1, <1>3, Commands
  <2>2. h = w
    BY <1>2, <2>1 DEF Rest
  <2> HIDE DEF h, w
  <2> QED BY <1>1, <1>3, <2>1, <2>2 DEF h
<1>4. CASE lo = N
  <2>1. w = [do |-> "out"]
    BY <1>1, <1>4, Commands
  <2>2. h = w
    BY <1>2, <2>1 DEF Rest
  <2> HIDE DEF h, w
  <2> QED BY <1>1, <1>4, <2>1, <2>2 DEF h
<1>5. CASE lo > N
  <2>1. w = [do |-> "free"]
    BY <1>1, <1>5, Commands
  <2>2. h = w
    BY <1>2, <2>1 DEF Rest
  <2> HIDE DEF h, w
  <2> QED BY <1>1, <1>5, <2>1, <2>2 DEF h
<1>6. CASE lo \in 1 .. N - 1
  <2>1. w = [do |-> "kernel", m |-> T[lo].m, at |-> T[lo].at, todo |-> 0 .. T[lo + 1].m - 1]
    BY <1>1, <1>6, Commands
  <2>2. T[lo + 1] \in LayerType
    BY <1>1, <1>6 DEF Layers
  <2>3. T[lo + 1].m \in Nat \ {0}
    BY <2>2 DEF LayerType
  <2> HIDE DEF h, w
  <2>4. w.todo # {} /\ w.todo = 0 .. T[lo + 1].m - 1 /\ w.do = "kernel" /\ w.m = T[lo].m /\ w.at = T[lo].at
    <3>1. 0 \in 0 .. T[lo + 1].m - 1
      BY <2>3
    <3> QED BY <2>1, <3>1
  <2>5. h = [w EXCEPT !.todo = h.todo] /\ h.todo \subseteq w.todo /\ h.todo # {}
    <3>1. w = [w EXCEPT !.todo = w.todo]
      BY <2>1
    <3> QED BY <1>2, <2>4, <3>1 DEF Rest
  <2>6. /\ h.do = "kernel" /\ h.m = T[lo].m /\ h.at = T[lo].at
        /\ h = [do |-> "kernel", m |-> T[lo].m, at |-> T[lo].at, todo |-> h.todo]
    BY <2>1, <2>5
  <2>7. ASSUME NEW t \in SUBSET h.todo, t # {} PROVE Rest([h EXCEPT !.todo = t], w)
    <3> DEFINE d == [h EXCEPT !.todo = t]
    <3>1. d = [do |-> "kernel", m |-> T[lo].m, at |-> T[lo].at, todo |-> t]
      BY <2>6
    <3> HIDE DEF d
    <3>2. d.todo = t /\ d = [w EXCEPT !.todo = t]
      BY <2>1, <3>1
    <3>3. t \subseteq w.todo
      BY <2>5
    <3>4. Rest(d, w)
      BY <2>4, <2>7, <3>2, <3>3 DEF Rest
    <3> QED BY <3>4 DEF d
  <2>8. h.do # "in" /\ h.do # "out" /\ h.do # "free"
    BY <2>6
  <2>9. h.todo \subseteq 0 .. T[lo + 1].m - 1
    BY <2>4, <2>5
  <2> QED BY <1>1, <1>6, <2>5, <2>6, <2>7, <2>8, <2>9 DEF h, w
<1> QED BY <1>1, <1>3, <1>4, <1>5, <1>6

-----------------------------------------------------------------------------
(* The stream's actions *)

\* The step of a command: where the call is with its layers, the buffer still sound.
Advances(T, lo, hi) ==
  /\ Computed(T, lo, hi, call, queue', cells', h_res', neff)
  /\ strayed' = FALSE /\ \A c \in DOMAIN cells' : cells'[c] \in Value /\ cells'[c] # Mixed

\* The values of a layer are none that anything is mixed in.
LEMMA ValuesAreValues ==
  ASSUME NEW l \in LayerType, NEW i \in Nat
  PROVE  ValueIn(l, i) \in Value /\ ValueIn(l, i) # Mixed
<1>1. l.bound[i] \in Nat \ {0} /\ l.bound[i + 1] \in Nat
  BY DEF LayerType
<1>2. ValueIn(l, i).from = l.bound[i] /\ Mixed.from = 0 /\ ValueIn(l, i) \in Value
  BY <1>1 DEF ValueIn, Mixed, Value
<1> QED BY <1>1, <1>2

\* transfer to the buffer
LEMMA CopyInAdvances ==
  ASSUME Well, Sensible(call), NEW T, NEW lo, NEW hi,
         Computed(T, lo, hi, call, queue, cells, h_res, neff), CopyIn
  PROVE  Advances(T, lo + 1, hi)
<1> DEFINE l == T[1]
<1>1. /\ queue # <<>> /\ Head(queue).do = "in" /\ queue' = Tail(queue) /\ h_res' = h_res
      /\ cells' = [c \in DOMAIN cells |-> IF c < Amount(call) THEN Input(First(call) + c) ELSE cells[c]]
      /\ strayed' = strayed
  BY DEF CopyIn, Heads
<1>2. lo = 0 /\ Len(T) \in Nat \ {0}
  BY <1>1, FirstCommand
<1>3. 1 \in 1 .. Len(T)
  BY <1>2
<1>4. l \in LayerType /\ l.m \in Nat \ {0} /\ l.at \in Nat /\ l.at + l.m <= neff /\ neff \in Nat
  BY <1>3, InBuffer
<1>5. l = Bottom(call) /\ DOMAIN cells = 0 .. neff - 1
  BY <1>2 DEF Computed, Layers
<1>6. /\ l.m = Amount(call) /\ l.at = 0 /\ l.bound = [i \in Nat |-> First(call) + i]
      /\ First(call) \in {1, 2} /\ Amount(call) \in Nat
  <2>1. First(call) \in {1, 2} /\ Amount(call) \in Nat
    BY Inputs
  <2> QED BY <1>5, <2>1 DEF Bottom
<1> HIDE DEF l
<1>7. ASSUME NEW i \in 0 .. l.m - 1 PROVE cells'[l.at + i] = ValueIn(l, i)
  <2>1. l.at + i = i /\ i \in 0 .. neff - 1 /\ i < Amount(call) /\ i \in Nat /\ i + 1 \in Nat
    BY <1>4, <1>6
  <2>2. cells'[i] = Input(First(call) + i)
    BY <1>1, <1>5, <2>1
  <2>3. l.bound[i] = First(call) + i /\ l.bound[i + 1] = First(call) + i + 1
    BY <1>6, <2>1
  <2> QED BY <2>1, <2>2, <2>3 DEF ValueIn, Input
<1>8. Filled(T[lo + 1], cells')
  BY <1>2, <1>7 DEF Filled, l
<1>9. DOMAIN cells' = DOMAIN cells
  BY <1>1
<1>10. Computed(T, lo + 1, hi, call, Tail(queue), cells', h_res', neff)
  BY <1>1, <1>2, <1>8, <1>9, ComputedCompletes
<1>11. ASSUME NEW c \in DOMAIN cells' PROVE cells'[c] \in Value /\ cells'[c] # Mixed
  <2>1. c \in Nat
    BY <1>5, <1>9
  <2>2. Input(First(call) + c) \in Value /\ Input(First(call) + c).from # 0
    BY <1>6, <2>1 DEF Input, Value
  <2>3. Input(First(call) + c) # Mixed
    BY <2>2 DEF Mixed
  <2> QED BY <1>1, <1>9, <2>2, <2>3 DEF Well
<1> QED BY <1>1, <1>10, <1>11 DEF Advances, Well

\* transfer from the buffer
LEMMA CopyOutAdvances ==
  ASSUME Well, Sensible(call), NEW T, NEW lo, NEW hi,
         Computed(T, lo, hi, call, queue, cells, h_res, neff), CopyOut
  PROVE  Advances(T, lo + 1, hi)
<1>1. /\ queue # <<>> /\ Head(queue).do = "out" /\ queue' = Tail(queue) /\ cells' = cells
      /\ h_res' = cells[neff - 1] /\ strayed' = strayed
  BY DEF CopyOut, Heads
<1>2. lo = Len(T) /\ lo \in Nat \ {0}
  BY <1>1, FirstCommand
<1> DEFINE l == T[lo]
<1>3. /\ l.m = 1 /\ neff = l.at + 1 /\ Filled(l, cells) /\ Fits(l, call)
  BY <1>2 DEF Computed, Layers
<1>4. l.at \in Nat /\ l.bound[0] = First(call) /\ l.bound[1] = call.count + 1
  BY <1>3 DEF Fits, LayerType
<1> HIDE DEF l
<1>5. cells[l.at + 0] = ValueIn(l, 0)
  <2>1. 0 \in 0 .. l.m - 1
    BY <1>3
  <2> QED BY <1>3, <2>1 DEF Filled
<1>6. neff - 1 = l.at + 0 /\ 0 + 1 = 1
  BY <1>3, <1>4
<1>7. h_res' = Whole(call)
  BY <1>1, <1>4, <1>5, <1>6 DEF ValueIn, Whole
<1>8. Computed(T, lo + 1, hi, call, Tail(queue), cells', h_res', neff)
  <2>1. ~(lo < Len(T)) /\ ~(lo > Len(T))
    BY <1>2
  <2> QED BY <1>1, <1>2, <1>7, <2>1, ComputedCompletes
<1> QED BY <1>1, <1>8 DEF Advances, Well

\* deallocate
LEMMA FreeAdvances ==
  ASSUME Well, Sensible(call), NEW T, NEW lo, NEW hi,
         Computed(T, lo, hi, call, queue, cells, h_res, neff), Free
  PROVE  Advances(T, lo + 1, hi)
<1>1. /\ queue # <<>> /\ Head(queue).do = "free" /\ queue' = Tail(queue) /\ cells' = <<>>
      /\ h_res' = h_res /\ strayed' = strayed
  BY DEF Free, Heads
<1>2. lo > Len(T) /\ lo \in Nat /\ Len(T) \in Nat
  BY <1>1, FirstCommand
<1>3. Computed(T, lo + 1, hi, call, Tail(queue), cells', h_res', neff)
  <2>1. ~(lo <= Len(T)) /\ ~(lo < Len(T)) /\ lo # Len(T)
    BY <1>2
  <2> QED BY <1>1, <2>1, ComputedCompletes
<1>4. DOMAIN cells' = {}
  BY <1>1
<1> QED BY <1>1, <1>3, <1>4 DEF Advances, Well

-----------------------------------------------------------------------------
\* A unit of a kernel
LEMMA RunUnitAdvances ==
  ASSUME Word \in Nat, Well, Sensible(call), NEW T, NEW lo, NEW hi,
         Computed(T, lo, hi, call, queue, cells, h_res, neff), NEW i, RunUnit(i)
  PROVE  (Advances(T, lo, hi) \/ Advances(T, lo + 1, hi)) /\ lo <= Len(T)
<1> DEFINE c == Head(queue)
           l == T[lo]
           new == T[lo + 1]
           rest == c.todo \ {i}
<1>1. /\ queue # <<>> /\ c.do = "kernel" /\ i \in c.todo /\ h_res' = h_res
      /\ IF Inside(i, c) THEN cells' = [cells EXCEPT ![c.at + c.m + i] = Op(Group(i, c))] /\ strayed' = strayed
         ELSE strayed' = TRUE /\ cells' = cells
      /\ queue' = IF rest = {} THEN Tail(queue) ELSE <<[c EXCEPT !.todo = rest]>> \o Tail(queue)
  BY DEF RunUnit, Heads
<1>2. /\ lo \in 1 .. Len(T) - 1 /\ c.m = l.m /\ c.at = l.at /\ Len(T) \in Nat
      /\ c.todo \subseteq 0 .. new.m - 1
      /\ \A t \in SUBSET c.todo : t # {} => Rest([c EXCEPT !.todo = t], Command(T, lo))
  BY <1>1, FirstCommand
<1>3. lo \in 1 .. Len(T) /\ lo + 1 \in 1 .. Len(T) /\ lo <= Len(T) /\ lo # hi
  <2>1. lo < hi
    <3>1. InOrder(queue, T, lo, hi)
      BY DEF Computed
    <3> QED BY <1>1, <3>1, Completes
  <2>2. hi \in Nat
    BY DEF Computed, InOrder
  <2> QED BY <1>2, <2>1, <2>2
<1>4. /\ l \in LayerType /\ l.m \in Nat \ {0} /\ l.at \in Nat /\ l.at + l.m <= neff /\ neff \in Nat
  BY <1>3, InBuffer
<1>5. /\ new \in LayerType /\ new.m \in Nat \ {0} /\ new.at \in Nat /\ new.at + new.m <= neff
  BY <1>3, InBuffer
<1>6. /\ l.m # 1 /\ new = Behind(l, call.serial) /\ Fits(l, call) /\ Filled(l, cells)
      /\ DOMAIN cells = 0 .. neff - 1
  <2>1. lo <= Len(T) + 1
    BY <1>3
  <2> QED BY <1>2, <1>3, <2>1 DEF Computed, Layers
<1>7. new.at = l.at + l.m
  BY <1>6 DEF Behind
<1>8. i \in 0 .. new.m - 1
  BY <1>1, <1>2
<1> HIDE DEF l, new, c, rest
<1>9. UnitDoes(i, c, l, new)
  BY <1>2, <1>6, <1>8, UnitIsRight
<1> DEFINE p == new.at + i
<1>10. /\ Op(Group(i, c)) = ValueIn(new, i) /\ c.at + c.m + i = p
       /\ ToSet(Group(i, c)) \subseteq l.at .. l.at + l.m - 1
  BY <1>9 DEF UnitDoes
<1>11. p \in 0 .. neff - 1 /\ p \in Nat
  BY <1>4, <1>5, <1>8
<1> HIDE DEF p
<1>12. Inside(i, c)
  <2>1. l.at .. l.at + l.m - 1 \subseteq 0 .. neff - 1
    BY <1>4
  <2> QED BY <1>6, <1>10, <1>11, <2>1 DEF Inside
<1>13. cells' = [cells EXCEPT ![p] = ValueIn(new, i)] /\ strayed' = strayed
  BY <1>1, <1>10, <1>12
<1>14. /\ DOMAIN cells' = DOMAIN cells
       /\ \A x \in 0 .. neff - 1 : cells'[x] = IF x = p THEN ValueIn(new, i) ELSE cells[x]
  BY <1>6, <1>13
<1>15. Filled(l, cells')
  <2> SUFFICES ASSUME NEW j \in 0 .. l.m - 1 PROVE cells'[l.at + j] = ValueIn(l, j)
    BY DEF Filled
  <2>1. l.at + j \in 0 .. neff - 1 /\ l.at + j # p
    BY <1>4, <1>5, <1>7, <1>8 DEF p
  <2>2. cells[l.at + j] = ValueIn(l, j)
    BY <1>6 DEF Filled
  <2> QED BY <1>14, <2>1, <2>2
<1>16. ASSUME NEW j \in (0 .. new.m - 1) \ rest PROVE cells'[new.at + j] = ValueIn(new, j)
  <2>1. new.at + j \in 0 .. neff - 1
    BY <1>4, <1>5
  <2>2. CASE j = i
    BY <1>14, <2>1, <2>2 DEF p
  <2>3. CASE j # i
    <3>1. new.at + j # p
      BY <1>5, <1>8, <2>3 DEF p
    <3>2. j \in (0 .. new.m - 1) \ c.todo
      BY <2>3 DEF rest
    <3>3. cells[new.at + j] = ValueIn(new, j)
      BY <1>2, <1>3, <3>2 DEF Computed, new, c
    <3> QED BY <1>14, <2>1, <3>1, <3>3
  <2> QED BY <2>2, <2>3
<1>17. \A x \in DOMAIN cells' : cells'[x] \in Value /\ cells'[x] # Mixed
  <2>1. ValueIn(new, i) \in Value /\ ValueIn(new, i) # Mixed
    BY <1>5, <1>8, ValuesAreValues
  <2> QED BY <1>6, <1>14, <2>1 DEF Well
<1>18. CASE rest = {}
  <2>1. Filled(new, cells')
    BY <1>16, <1>18 DEF Filled
  <2>2. queue' = Tail(queue)
    BY <1>1, <1>18
  <2>3. Computed(T, lo + 1, hi, call, Tail(queue), cells', h_res', neff)
    <3>1. Filled(T[lo + 1], cells')
      BY <2>1 DEF new
    <3>2. lo # Len(T) /\ ~(lo > Len(T))
      BY <1>2
    <3> QED BY <1>1, <1>14, <3>1, <3>2, ComputedCompletes
  <2>4. Advances(T, lo + 1, hi)
    BY <1>13, <1>17, <2>2, <2>3 DEF Advances, Well
  <2> QED BY <1>3, <2>4
<1>19. CASE rest # {}
  <2> DEFINE d == [c EXCEPT !.todo = rest]
  <2>1. Rest(d, Command(T, lo))
    BY <1>2, <1>19 DEF rest
  <2>2. queue' = <<d>> \o Tail(queue)
    BY <1>1, <1>19
  <2>3. d.todo = rest /\ d \in Plain \cup Kernels /\ Head(<<d>> \o Tail(queue)) = d
    <3>1. queue \in Seq(Plain \cup Kernels)
      BY DEF Computed, InOrder
    <3>2. c \in Plain \cup Kernels /\ Tail(queue) \in Seq(Plain \cup Kernels)
      BY <1>1, <3>1 DEF c
    <3>3. c \in Kernels
      BY <1>1, <3>2 DEF Plain
    <3>4. d \in Kernels /\ d.todo = rest
      BY <3>3 DEF Kernels, rest
    <3> HIDE DEF d
    <3>5. Head(<<d>> \o Tail(queue)) = d
      BY <3>2, <3>4
    <3> QED BY <3>4, <3>5
  <2> HIDE DEF d
  <2>4. InOrder(queue', T, lo, hi)
    <3>1. InOrder(queue, T, lo, hi)
      BY DEF Computed
    <3>2. InOrder(<<d>> \o Tail(queue), T, lo, hi)
      BY <1>1, <2>1, <2>3, <3>1, Continues
    <3> QED BY <2>2, <3>2
  <2>5. Head(queue').todo = rest
    BY <2>2, <2>3
  <2>6. Computed(T, lo, hi, call, queue', cells', h_res', neff)
    <3>1. Layers(T, call) /\ T[Len(T)].m = 1 /\ neff = T[Len(T)].at + 1
      BY DEF Computed
    <3>2. DOMAIN cells' = 0 .. neff - 1 /\ Filled(T[lo], cells')
      BY <1>6, <1>14, <1>15 DEF l
    <3>3. \A j \in (0 .. T[lo + 1].m - 1) \ Head(queue').todo :
             cells'[T[lo + 1].at + j] = ValueIn(T[lo + 1], j)
      BY <1>16, <2>5 DEF new
    <3>4. ~(lo > Len(T))
      BY <1>2
    <3> QED BY <2>4, <3>1, <3>2, <3>3, <3>4 DEF Computed
  <2>7. Advances(T, lo, hi)
    BY <1>13, <1>17, <2>6 DEF Advances, Well
  <2> QED BY <1>3, <2>7
<1> QED BY <1>18, <1>19

-----------------------------------------------------------------------------
(* Each action keeps the invariant *)

\* add_parallel and the others
LEMMA BeginKeeps ==
  ASSUME RInv, WordAssumption, SensibleCalls,
         NEW c \in [kind : Kinds, count : Counts, serial : Serials, path : Paths], Begin(c)
  PROVE  RInv'
<1>1. Sensible(c)
  BY DEF Sensible, SensibleCalls
<1>2. /\ queue = <<>> /\ queue' = queue /\ call' = c /\ neff' = 0 /\ at' = 0 /\ cells' = cells
      /\ strayed' = strayed /\ h_res' = h_res
      /\ IF c.kind = "subtract" /\ c.count = 1
           THEN pc' = "done" /\ result' = Input(1) /\ left' = left
         ELSE pc' = "sizing" /\ left' = Amount(c)
  BY DEF Begin
<1>3. Amount(c) \in Nat /\ Amount(c) < Word /\ Word \in Nat /\ 0 \in 0 .. Word - 1
  <2>1. Amount(c) \in Nat /\ Amount(c) <= c.count
    BY <1>1, Inputs
  <2>2. c.count \in Nat /\ 3 * c.count < Word /\ Word \in Nat
    BY <1>1, WordAssumption DEF Sensible, WordAssumption
  <2> QED BY <2>1, <2>2
<1>4. Well'
  <2>1. c.kind \in {"add", "subtract"} /\ c.path \in {"device", "host"}
    BY <1>1 DEF Sensible
  <2>2. left' \in 0 .. Word - 1
    BY <1>2, <1>3 DEF RInv, Well
  <2> QED BY <1>2, <1>3, <2>1, <2>2 DEF RInv, Well
<1>5. CASE c.kind = "subtract" /\ c.count = 1
  <2>1. result' = Serial(c)
    BY <1>2, <1>5 DEF Input, Serial
  <2>2. Stage'
    BY <1>2, <1>5, <2>1 DEF Stage, Resting
  <2> QED BY <1>4, <2>2 DEF RInv
<1>6. CASE ~(c.kind = "subtract" /\ c.count = 1)
  <2>1. Amount(c) # 0
    BY <1>1, <1>6, Inputs
  <2> DEFINE T == <<Bottom(c)>>
  <2>2. Layers(T, c)
    BY <1>1, <2>1, BottomFits
  <2>3. T[Len(T)].m = Amount(c) /\ T[Len(T)].at = 0
    BY DEF Bottom
  <2> HIDE DEF T
  <2>4. \E U : Layers(U, call') /\ left' = U[Len(U)].m /\ neff' = U[Len(U)].at
    BY <1>2, <1>6, <2>2, <2>3
  <2>5. Stage'
    BY <1>1, <1>2, <1>6, <2>4 DEF Stage
  <2> QED BY <1>4, <2>5 DEF RInv
<1> QED BY <1>5, <1>6

\* Sizes of a layer.
LEMMA LayerSizes ==
  ASSUME NEW c, Sensible(c), Word \in Nat, NEW l, Fits(l, c)
  PROVE  l.m \in Nat \ {0} /\ l.at \in Nat /\ l.at + l.m < Word
<1>1. l \in LayerType /\ l.at + 3 * l.m <= 3 * Amount(c)
  BY DEF Fits
<1>2. l.m \in Nat \ {0} /\ l.at \in Nat
  BY <1>1 DEF LayerType
<1>3. Amount(c) \in Nat /\ Amount(c) <= c.count /\ c.count \in Nat /\ 3 * c.count < Word
  BY Inputs DEF Sensible
<1> QED BY <1>1, <1>2, <1>3

\* parallel_op_n_mem
LEMMA SizeKeeps ==
  ASSUME RInv, WordAssumption, Size
  PROVE  RInv'
<1>1. /\ pc = "sizing" /\ left # 1 /\ neff' = (neff + left) % Word /\ left' = NOps(left, call.serial)
      /\ call' = call /\ pc' = pc /\ at' = at /\ cells' = cells /\ queue' = queue /\ strayed' = strayed
  BY DEF Size
<1>2. queue = <<>> /\ Sensible(call) /\ at = 0 /\ Word \in Nat
  BY <1>1, WordAssumption DEF RInv, Stage, Underway, WordAssumption
<1>3. PICK T : Layers(T, call) /\ left = T[Len(T)].m /\ neff = T[Len(T)].at
  BY <1>1 DEF RInv, Stage, Underway
<1> DEFINE l == T[Len(T)]
           new == Behind(l, call.serial)
           U == Append(T, new)
<1>4. Fits(l, call) /\ Len(T) \in Nat /\ T \in Seq(LayerType)
  <2>1. Len(T) \in 1 .. Len(T)
    BY <1>3 DEF Layers
  <2> QED BY <1>3, <2>1 DEF Layers
<1>5. /\ Fits(new, call) /\ new.at = l.at + l.m /\ new.m = NOps(l.m, call.serial)
  BY <1>1, <1>2, <1>3, <1>4, BehindFits
<1>6. Layers(U, call)
  BY <1>1, <1>2, <1>3, LayersGrow
<1>7. U[Len(U)] = new
  <2>1. new \in LayerType
    BY <1>5 DEF Fits
  <2> HIDE DEF new
  <2> QED BY <1>4, <2>1
<1> HIDE DEF new, U, l
<1>8. left = l.m /\ neff = l.at
  BY <1>3 DEF l
<1>9. /\ l.m \in Nat \ {0} /\ l.at \in Nat /\ l.at + l.m < Word
      /\ new.m \in Nat \ {0} /\ new.at \in Nat /\ new.at + new.m < Word
  BY <1>2, <1>4, <1>5, LayerSizes
<1>10. neff' = new.at /\ left' = new.m
  <2>1. neff + left \in 0 .. Word - 1 /\ neff + left = new.at
    BY <1>2, <1>5, <1>8, <1>9
  <2>2. (neff + left) % Word = neff + left
    BY <1>2, <2>1
  <2> QED BY <1>1, <1>5, <1>8, <2>1, <2>2
<1>11. Well'
  BY <1>1, <1>2, <1>9, <1>10 DEF RInv, Well
<1>12. \E V : Layers(V, call') /\ left' = V[Len(V)].m /\ neff' = V[Len(V)].at
  BY <1>1, <1>6, <1>7, <1>10
<1>13. Stage'
  BY <1>1, <1>2, <1>12 DEF Stage
<1> QED BY <1>11, <1>13 DEF RInv

-----------------------------------------------------------------------------
\* A buffer in which nothing has been written
LEMMA FreshIsFresh ==
  Garbage \in Value /\ Garbage # Mixed
<1>1. Garbage.upto = 0 /\ Mixed.upto = 1
  BY DEF Garbage, Mixed
<1> QED BY <1>1 DEF Garbage, Value

\* op_parallel up to the transfer
LEMMA AllocateKeeps ==
  ASSUME RInv, WordAssumption, Allocate
  PROVE  RInv'
<1>1. /\ pc = "sizing" /\ left = 1 /\ neff' = neff + 1 /\ cells' = [c \in 0 .. neff |-> Garbage]
      /\ queue' = <<[do |-> "in"]>> /\ left' = Amount(call) /\ pc' = "layers"
      /\ call' = call /\ at' = at /\ strayed' = strayed /\ h_res' = Garbage
  BY DEF Allocate
<1>2. queue = <<>> /\ Sensible(call) /\ at = 0 /\ Word \in Nat
  BY <1>1, WordAssumption DEF RInv, Stage, Underway, WordAssumption
<1>3. PICK T : Layers(T, call) /\ left = T[Len(T)].m /\ neff = T[Len(T)].at
  BY <1>1 DEF RInv, Stage, Underway
<1>4. /\ Len(T) \in Nat \ {0} /\ T \in Seq(LayerType) /\ T[1] = Bottom(call)
      /\ Fits(T[Len(T)], call) /\ Fits(T[1], call)
  <2>1. Len(T) \in 1 .. Len(T) /\ 1 \in 1 .. Len(T)
    BY <1>3 DEF Layers
  <2> QED BY <1>3, <2>1 DEF Layers
<1>5. /\ neff \in Nat /\ neff + 1 < Word
  <2> DEFINE l == T[Len(T)]
  <2>1. l.m \in Nat \ {0} /\ l.at \in Nat /\ l.at + l.m < Word /\ left = l.m /\ neff = l.at
    BY <1>2, <1>3, <1>4, LayerSizes
  <2> HIDE DEF l
  <2> QED BY <1>1, <2>1
<1>6. InOrder(queue', T, 0, 1)
  <2>1. InOrder(<<>>, T, 0, 0)
    <3>1. 2 .. 0 - 0 = {} /\ <<>> \in Seq(Plain \cup Kernels) /\ Len(<<>>) = 0
      OBVIOUS
    <3> QED BY <3>1 DEF InOrder
  <2>2. InOrder(Append(<<>>, Command(T, 0)), T, 0, 0 + 1)
    BY <1>3, <2>1, Gives
  <2>3. Append(<<>>, Command(T, 0)) = queue'
    BY <1>1 DEF Command
  <2> QED BY <2>2, <2>3
<1>7. Computed(T, 0, 1, call', queue', cells', h_res', neff')
  <2>1. T[Len(T)].m = 1 /\ neff' = T[Len(T)].at + 1
    BY <1>1, <1>3
  <2>2. DOMAIN cells' = 0 .. neff' - 1
    <3>1. neff' - 1 = neff
      BY <1>1, <1>5
    <3> QED BY <1>1, <3>1
  <2>3. ~(0 > Len(T)) /\ ~(0 \in 1 .. Len(T)) /\ ~(0 \in 1 .. Len(T) - 1)
    BY <1>4
  <2> QED BY <1>1, <1>3, <1>6, <2>1, <2>2, <2>3 DEF Computed
<1>8. Given(T, 0, 1, pc', left', at')
  <2>1. 1 \in 1 .. Len(T) /\ T[1].m = Amount(call) /\ T[1].at = 0
    BY <1>4 DEF Bottom
  <2> QED BY <1>1, <1>2, <2>1 DEF Given
<1>9. Well'
  <2>1. Amount(call) \in 0 .. Word - 1
    <3>1. T[1].m \in Nat \ {0} /\ T[1].at \in Nat /\ T[1].at + T[1].m < Word
      BY <1>2, <1>4, LayerSizes
    <3>2. T[1].m = Amount(call)
      BY <1>4 DEF Bottom
    <3> QED BY <1>2, <3>1, <3>2
  <2>2. \A c \in DOMAIN cells' : cells'[c] = Garbage
    BY <1>1
  <2>3. neff' \in 0 .. Word - 1
    BY <1>1, <1>2, <1>5
  <2> QED BY <1>1, <2>1, <2>2, <2>3, FreshIsFresh DEF RInv, Well
<1>10. Underway(T, 0, 1)'
  BY <1>1, <1>2, <1>7, <1>8 DEF Underway
<1>11. Stage'
  BY <1>10 DEF Stage
<1> QED BY <1>9, <1>11 DEF RInv

\* The host at work has layers.
LEMMA AtWork ==
  ASSUME RInv, pc \in {"layers", "collect", "read"}
  PROVE  \E T, lo, hi : Underway(T, lo, hi)
BY DEF RInv, Stage, Underway

\* Which layers those are does not matter.
LEMMA WorkKeeps ==
  ASSUME Well', NEW T, NEW lo, NEW hi, Underway(T, lo, hi)'
  PROVE  RInv'
<1>1. Stage'
  BY DEF Stage
<1> QED BY <1>1 DEF RInv

\* op_parallel_core
LEMMA LayerKeeps ==
  ASSUME RInv, WordAssumption, Layer
  PROVE  RInv'
<1>1. /\ pc = "layers" /\ left # 1 /\ at' = at + left /\ left' = NOps(left, call.serial)
      /\ queue' = Append(queue, [do |-> "kernel", m |-> left, at |-> at,
                                 todo |-> Admitted([do |-> "kernel", m |-> left, at |-> at])])
      /\ call' = call /\ pc' = pc /\ neff' = neff /\ cells' = cells /\ h_res' = h_res /\ strayed' = strayed
  BY DEF Layer
<1>2. PICK T, lo, hi : Underway(T, lo, hi)
  BY <1>1, AtWork
<1>3. /\ Sensible(call) /\ Computed(T, lo, hi, call, queue, cells, h_res, neff)
      /\ hi \in 1 .. Len(T) /\ left = T[hi].m /\ at = T[hi].at
  BY <1>1, <1>2 DEF Underway, Given
<1>4. Layers(T, call) /\ T[Len(T)].m = 1 /\ Len(T) \in Nat /\ Word \in Nat
  BY <1>3, WordAssumption DEF Computed, Layers, WordAssumption
<1>5. hi # Len(T)
  BY <1>1, <1>3, <1>4
<1>6. hi \in 1 .. Len(T) - 1 /\ hi + 1 \in 1 .. Len(T) /\ hi \in Nat
  BY <1>3, <1>4, <1>5
<1>7. Fits(T[hi], call) /\ Fits(T[hi + 1], call) /\ T[hi + 1] = Behind(T[hi], call.serial)
  BY <1>3, <1>4, <1>6 DEF Layers
<1>8. T[hi + 1].m = NOps(left, call.serial) /\ T[hi + 1].at = at + left
  BY <1>3, <1>7 DEF Behind
<1>9. Command(T, hi) = [do |-> "kernel", m |-> left, at |-> at,
                        todo |-> Admitted([do |-> "kernel", m |-> left, at |-> at])]
  <2>1. call.path # "fallback"
    BY <1>3 DEF Sensible
  <2>2. Admitted([do |-> "kernel", m |-> left, at |-> at]) = 0 .. NOps(left, call.serial) - 1
    BY <2>1 DEF Admitted
  <2>3. Command(T, hi) = [do |-> "kernel", m |-> T[hi].m, at |-> T[hi].at, todo |-> 0 .. T[hi + 1].m - 1]
    BY <1>4, <1>6, Commands
  <2> QED BY <1>3, <1>8, <2>2, <2>3
<1>10. Computed(T, lo, hi + 1, call, queue', cells, h_res, neff)
  BY <1>1, <1>3, <1>9, ComputedGives
<1>11. Given(T, lo, hi + 1, pc', left', at')
  BY <1>1, <1>6, <1>8 DEF Given
<1>12. Underway(T, lo, hi + 1)'
  BY <1>1, <1>3, <1>10, <1>11 DEF Underway
<1>13. Well'
  <2>1. T[hi + 1].m \in Nat \ {0} /\ T[hi + 1].at \in Nat /\ T[hi + 1].at + T[hi + 1].m < Word
    BY <1>3, <1>4, <1>7, LayerSizes
  <2>2. left' = T[hi + 1].m /\ at' = T[hi + 1].at
    BY <1>1, <1>8
  <2>3. left' \in 0 .. Word - 1 /\ at' \in Nat
    BY <1>4, <2>1, <2>2
  <2> QED BY <1>1, <2>3 DEF RInv, Well
<1> QED BY <1>12, <1>13, WorkKeeps

\* The transfer back
LEMMA CollectKeeps ==
  ASSUME RInv, Collect
  PROVE  RInv'
<1>1. /\ pc = "layers" /\ left = 1 /\ queue' = Append(queue, [do |-> "out"]) /\ pc' = "collect"
      /\ call' = call /\ neff' = neff /\ left' = left /\ at' = at /\ cells' = cells /\ h_res' = h_res
      /\ strayed' = strayed
  BY DEF Collect
<1>2. PICK T, lo, hi : Underway(T, lo, hi)
  BY <1>1, AtWork
<1>3. /\ Sensible(call) /\ Computed(T, lo, hi, call, queue, cells, h_res, neff)
      /\ hi \in 1 .. Len(T) /\ left = T[hi].m
  BY <1>1, <1>2 DEF Underway, Given
<1>4. Layers(T, call) /\ Len(T) \in Nat
  BY <1>3 DEF Computed, Layers
<1>5. hi = Len(T)
  <2>1. hi \in 1 .. Len(T) - 1 => T[hi].m # 1
    BY <1>4 DEF Layers
  <2> QED BY <1>1, <1>3, <1>4, <2>1
<1>6. Command(T, hi) = [do |-> "out"]
  BY <1>4, <1>5, Commands
<1>7. Computed(T, lo, hi + 1, call, queue', cells, h_res, neff)
  BY <1>1, <1>3, <1>6, ComputedGives
<1>8. Given(T, lo, hi + 1, pc', left', at')
  BY <1>1, <1>5 DEF Given
<1>9. Underway(T, lo, hi + 1)'
  BY <1>1, <1>3, <1>7, <1>8 DEF Underway
<1>10. Well'
  BY <1>1 DEF RInv, Well
<1> QED BY <1>9, <1>10, WorkKeeps

\* The deallocation
LEMMA SynchronizeKeeps ==
  ASSUME RInv, Synchronize
  PROVE  RInv'
<1>1. /\ pc = "collect" /\ queue = <<>> /\ queue' = Append(queue, [do |-> "free"]) /\ pc' = "read"
      /\ call' = call /\ neff' = neff /\ left' = left /\ at' = at /\ cells' = cells /\ h_res' = h_res
      /\ strayed' = strayed
  BY DEF Synchronize
<1>2. PICK T, lo, hi : Underway(T, lo, hi)
  BY <1>1, AtWork
<1>3. /\ Sensible(call) /\ Computed(T, lo, hi, call, queue, cells, h_res, neff)
      /\ hi = Len(T) + 1
  BY <1>1, <1>2 DEF Underway, Given
<1>4. Layers(T, call) /\ Len(T) \in Nat /\ InOrder(queue, T, lo, hi)
  BY <1>3 DEF Computed, Layers
<1>5. lo = hi
  BY <1>1, <1>4 DEF InOrder
<1>6. Command(T, hi) = [do |-> "free"]
  BY <1>3, <1>4, Commands
<1>7. Computed(T, lo, hi + 1, call, queue', cells, h_res, neff)
  BY <1>1, <1>3, <1>6, ComputedGives
<1>8. Given(T, lo, hi + 1, pc', left', at')
  BY <1>1, <1>3, <1>4, <1>5 DEF Given
<1>9. Underway(T, lo, hi + 1)'
  BY <1>1, <1>3, <1>7, <1>8 DEF Underway
<1>10. Well'
  BY <1>1 DEF RInv, Well
<1> QED BY <1>9, <1>10, WorkKeeps

-----------------------------------------------------------------------------
\* What is returned.
LEMMA ReturnKeeps ==
  ASSUME RInv, Return
  PROVE  RInv'
<1>1. /\ pc = "read" /\ pc' = "done"
      /\ result' = IF call.kind = "subtract" THEN Combined(<<Input(1), h_res>>) ELSE h_res
      /\ call' = call /\ neff' = neff /\ left' = left /\ at' = at /\ cells' = cells /\ queue' = queue
      /\ strayed' = strayed
  BY DEF Return
<1>2. PICK T, lo, hi : Underway(T, lo, hi)
  BY <1>1, AtWork
<1>3. /\ Sensible(call) /\ Computed(T, lo, hi, call, queue, cells, h_res, neff)
      /\ hi = Len(T) + 2 /\ lo > Len(T)
  BY <1>1, <1>2 DEF Underway, Given
<1>4. /\ Layers(T, call) /\ Len(T) \in Nat /\ InOrder(queue, T, lo, hi) /\ h_res = Whole(call)
  BY <1>3 DEF Computed, Layers
<1>5. Resting(queue)
  <2>1. queue \in Seq(Plain \cup Kernels) /\ lo \in Nat /\ Len(queue) = hi - lo /\ Len(queue) \in Nat
        /\ (lo # hi => Rest(queue[1], Command(T, lo)))
    BY <1>4 DEF InOrder
  <2>2. CASE lo = hi
    BY <2>1, <2>2, EmptySeq DEF Resting
  <2>3. CASE lo # hi
    <3>1. Len(queue) = 1 /\ Rest(queue[1], Command(T, lo))
      BY <1>3, <1>4, <2>1, <2>3
    <3>2. Command(T, lo) = [do |-> "free"]
      BY <1>3, <1>4, <2>1, Commands
    <3>3. queue[1] = [do |-> "free"]
      BY <3>1, <3>2 DEF Rest
    <3>4. queue = <<queue[1]>>
      BY <2>1, <3>1
    <3>5. queue = <<[do |-> "free"]>>
      BY <3>3, <3>4
    <3> QED BY <3>5 DEF Resting
  <2> QED BY <2>2, <2>3
<1>6. result' = Serial(call)
  <2>1. /\ First(call) \in {1, 2} /\ (First(call) = 2 <=> call.kind = "subtract")
    BY <1>3, Inputs
  <2>2. CASE call.kind = "subtract"
    <3> DEFINE v == <<Input(1), h_res>>
    <3>1. v[1] = [from |-> 1, upto |-> 2] /\ v[2] = [from |-> 2, upto |-> call.count + 1] /\ Len(v) = 2
          /\ DOMAIN v = 1 .. 2
      BY <1>4, <2>1, <2>2 DEF Input, Whole
    <3> HIDE DEF v
    <3>2. /\ \A j \in DOMAIN v : v[j].from > 0
          /\ \A j \in 1 .. Len(v) - 1 : v[j + 1].from = v[j].upto
      <4>1. \A j \in 1 .. 2 : j = 1 \/ j = 2
        OBVIOUS
      <4>2. \A j \in 1 .. Len(v) - 1 : j = 1
        BY <3>1
      <4> QED BY <3>1, <4>1, <4>2
    <3>3. Combined(v) = [from |-> v[1].from, upto |-> v[Len(v)].upto]
      BY <3>2 DEF Combined
    <3>4. Combined(v) = Serial(call)
      BY <3>1, <3>3 DEF Serial
    <3> QED BY <1>1, <2>2, <3>4 DEF v
  <2>3. CASE call.kind # "subtract"
    BY <1>1, <1>4, <2>1, <2>3 DEF Whole, Serial
  <2> QED BY <2>2, <2>3
<1>7. Serial(call)' = Serial(call) /\ Resting(queue)'
  BY <1>1, <1>5 DEF Serial, Resting
<1>8. Stage'
  BY <1>1, <1>6, <1>7 DEF Stage
<1>9. Well'
  BY <1>1 DEF RInv, Well
<1> QED BY <1>8, <1>9 DEF RInv

\* The next call may come.
LEMMA FinishKeeps ==
  ASSUME RInv, Finish
  PROVE  RInv'
<1>1. /\ pc = "done" /\ pc' = "idle" /\ queue' = queue
      /\ call' = call /\ neff' = neff /\ left' = left /\ at' = at /\ cells' = cells /\ strayed' = strayed
  BY DEF Finish
<1>2. Resting(queue)
  BY <1>1 DEF RInv, Stage, Underway
<1>3. Stage'
  BY <1>1, <1>2 DEF Stage, Resting
<1>4. Well'
  BY <1>1 DEF RInv, Well
<1> QED BY <1>3, <1>4 DEF RInv

\* After a call only a deallocation is left for the stream.
LEMMA RestingKeeps ==
  ASSUME RInv, Resting(queue), Stream, pc \in {"idle", "done"}
  PROVE  RInv'
<1>1. queue # <<>>
  BY DEF Stream, CopyIn, Units, RunUnit, CopyOut, Free, Heads
<1>2. queue = <<[do |-> "free"]>>
  BY <1>1 DEF Resting
<1>3. Head(queue).do = "free" /\ Tail(queue) = <<>>
  BY <1>2
<1>4. Free
  BY <1>3 DEF Stream, CopyIn, Units, RunUnit, CopyOut, Heads
<1>5. /\ cells' = <<>> /\ queue' = <<>> /\ pc' = pc /\ call' = call /\ neff' = neff /\ left' = left
      /\ at' = at /\ strayed' = strayed /\ result' = result
  BY <1>3, <1>4 DEF Free
<1>6. Well'
  BY <1>5 DEF RInv, Well
<1>7. pc = "done" => result = Serial(call)
  BY DEF RInv, Stage, Underway
<1>8. Stage'
  BY <1>5, <1>7 DEF Stage, Resting, Serial
<1> QED BY <1>6, <1>8 DEF RInv

\* The stream goes on during a call.
LEMMA WorkingKeeps ==
  ASSUME RInv, WordAssumption, Stream, pc \in {"layers", "collect", "read"}
  PROVE  RInv'
<1>1. PICK T, lo, hi : Underway(T, lo, hi)
  BY AtWork
<1>2. /\ Sensible(call) /\ Computed(T, lo, hi, call, queue, cells, h_res, neff) /\ Word \in Nat /\ Well
      /\ Given(T, lo, hi, pc, left, at)
  BY <1>1, WordAssumption DEF Underway, WordAssumption, RInv
<1>3. /\ pc' = pc /\ call' = call /\ neff' = neff /\ left' = left /\ at' = at
  BY DEF Stream, CopyIn, Units, RunUnit, CopyOut, Free
<1>4. Advances(T, lo, hi) \/ Advances(T, lo + 1, hi)
  <2>1. CASE CopyIn
    BY <1>2, <2>1, CopyInAdvances
  <2>2. CASE Units
    <3>1. PICK i \in 0 .. left + at : RunUnit(i)
      BY <2>2 DEF Units
    <3> QED BY <1>2, <3>1, RunUnitAdvances
  <2>3. CASE CopyOut
    BY <1>2, <2>3, CopyOutAdvances
  <2>4. CASE Free
    BY <1>2, <2>4, FreeAdvances
  <2> QED BY <2>1, <2>2, <2>3, <2>4 DEF Stream
<1>5. lo \in Nat /\ Len(T) \in Nat
  BY <1>2 DEF Computed, InOrder, Layers
<1>6. PICK k \in {lo, lo + 1} : Advances(T, k, hi)
  BY <1>4
<1>7. Given(T, k, hi, pc, left, at)
  <2>1. lo > Len(T) => k > Len(T)
    BY <1>5
  <2> QED BY <1>2, <2>1 DEF Given
<1>8. Underway(T, k, hi)'
  BY <1>2, <1>3, <1>6, <1>7, <1>1 DEF Underway, Advances
<1>9. Well'
  BY <1>2, <1>3, <1>6 DEF Well, Advances
<1> QED BY <1>8, <1>9, WorkKeeps

-----------------------------------------------------------------------------
(* The theorem *)

\* Nothing has been called at first.
LEMMA InitReduces ==
  ASSUME WordAssumption, Init
  PROVE  RInv
<1>1. Word \in Nat \ {0} /\ 0 \in 0 .. Word - 1 /\ DOMAIN <<>> = {}
  BY WordAssumption DEF WordAssumption
<1>2. Well
  BY <1>1 DEF Init, Well
<1>3. Stage
  BY DEF Init, Stage, Resting
<1> QED BY <1>2, <1>3 DEF RInv

\* Every step keeps the invariant.
LEMMA NextReduces ==
  ASSUME RInv, WordAssumption, SensibleCalls, [Next]_vars
  PROVE  RInv'
<1>1. CASE UNCHANGED vars
  <2>1. Well'
    BY <1>1 DEF RInv, Well, vars
  <2>2. Stage'
    <3>1. CASE pc \in {"layers", "collect", "read"}
      <4>1. PICK T, lo, hi : Underway(T, lo, hi)
        BY <3>1, AtWork
      <4>2. Underway(T, lo, hi)'
        BY <1>1, <4>1 DEF Underway, vars
      <4> QED BY <4>2 DEF Stage
    <3>2. CASE pc \notin {"layers", "collect", "read"}
      BY <1>1, <3>2 DEF RInv, Stage, Underway, Resting, Serial, vars
    <3> QED BY <3>1, <3>2
  <2> QED BY <2>1, <2>2 DEF RInv
<1>2. CASE Call
  BY <1>2, BeginKeeps DEF Call
<1>3. CASE Host
  BY <1>3, SizeKeeps, AllocateKeeps, LayerKeeps, CollectKeeps, SynchronizeKeeps, ReturnKeeps,
     FinishKeeps DEF Host
<1>4. CASE Stream
  <2>1. CASE pc \in {"idle", "done"}
    <3>1. Resting(queue)
      BY <2>1 DEF RInv, Stage, Underway
    <3> QED BY <1>4, <2>1, <3>1, RestingKeeps
  <2>2. CASE pc = "sizing"
    <3>1. queue = <<>>
      BY <2>2 DEF RInv, Stage, Underway
    <3> QED BY <1>4, <3>1 DEF Stream, CopyIn, Units, RunUnit, CopyOut, Free, Heads
  <2>3. CASE pc \in {"layers", "collect", "read"}
    BY <1>4, <2>3, WorkingKeeps
  <2>4. pc \in {"idle", "done", "sizing", "layers", "collect", "read"}
    BY DEF RInv, Stage, Underway
  <2> QED BY <2>1, <2>2, <2>3, <2>4
<1> QED BY <1>1, <1>2, <1>3, <1>4 DEF Next

\* Which says what callers rely on.
LEMMA InvariantSuffices ==
  ASSUME RInv
  PROVE  ReductionsAreSerial
<1>1. pc \in {"idle", "done", "sizing", "layers", "collect", "read"}
  BY DEF RInv, Stage, Underway
<1>2. \A j \in DOMAIN queue : queue[j].do \in {"in", "kernel", "out", "free"}
  <2>1. CASE pc \in {"layers", "collect", "read"}
    <3>1. queue \in Seq(Plain \cup Kernels)
      BY <2>1, AtWork DEF Underway, Computed, InOrder
    <3>2. ASSUME NEW d \in Plain \cup Kernels PROVE d.do \in {"in", "kernel", "out", "free"}
      BY DEF Plain, Kernels
    <3>3. \A j \in DOMAIN queue : queue[j] \in Plain \cup Kernels
      BY <3>1
    <3> QED BY <3>2, <3>3
  <2>2. CASE pc \notin {"layers", "collect", "read"}
    <3>1. Resting(queue)
      BY <2>2 DEF RInv, Stage, Underway, Resting
    <3>2. CASE queue = <<>>
      BY <3>2
    <3>3. CASE queue = <<[do |-> "free"]>>
      BY <3>3
    <3> QED BY <3>1, <3>2, <3>3 DEF Resting
  <2> QED BY <2>1, <2>2
<1>3. TypeOK
  BY <1>1, <1>2 DEF RInv, Well, TypeOK, Value
<1>4. ReductionsAreSerial
  <2>1. pc = "done" => result = Serial(call)
    BY DEF RInv, Stage, Underway
  <2> QED BY <1>3, <2>1 DEF RInv, Well, ReductionsAreSerial, ResultIsSerial, StaysInBuffer, ReadsSettledCells
<1> QED BY <1>3, <1>4

\* Whatever the numbers of values and the sizes of groups, in whatever order the
\* host, the stream and the units of a kernel go on: a reduction returns what one
\* pass over the values gives, no unit leaves the buffer, and none reads a cell that
\* is not filled yet (op_parallel).
THEOREM ReductionCorrect ==
  ASSUME WordAssumption, SensibleCalls
  PROVE  Spec => []ReductionsAreSerial
<1>1. Init => RInv
  BY InitReduces
<1>2. RInv /\ [Next]_vars => RInv'
  BY NextReduces
<1>3. RInv => ReductionsAreSerial
  BY InvariantSuffices
<1> QED BY <1>1, <1>2, <1>3, PTL DEF Spec

=============================================================================
