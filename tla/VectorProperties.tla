-------------------------- MODULE VectorProperties --------------------------
(***************************************************************************)
(* What a program that uses Vector can rely on, and what it cannot.        *)
(***************************************************************************)
EXTENDS Vector

Addresses(A) == A \X (Nat \ {0})
NodeType == [cell : Cells \cup {None}, next : Addresses(Chains) \cup {None},
             prev : Addresses(Chains) \cup {None}]

\* The types of the variables.
TypeOK ==
  /\ store \in [Vectors -> [elem : Seq(Elements), cap : Nat, buf : Buffers \cup {None},
                            mem : MemTypes, husk : Buffers \cup {None}]]
  /\ chain \in [Vectors -> [at : Chains \cup {None}, room : Nat, node : Seq(NodeType)]]
  /\ loc \in [Cells -> Addresses(Buffers) \cup {None}]
  /\ it \in [Iters -> NodeType]
  /\ bond \in [Iters -> {"steady", "loose", "lost"}]
  /\ job \in [op : {"none", "insert", "erase", "grow", "shrink"},
              v : Vectors \cup {None}, m : MemTypes, j : Iters \cup {None},
              first : NodeType, last : NodeType, new : Seq(Elements),
              head : Elements \cup {None}, left : Nat, goal : Seq(Elements)]
  /\ fault \in {"none", "null", "assert", "shared block"}

\* Data and chain change in separate calls, in every member function anew:
\* after each of them node k + 1 is the iterator of element k, linked to its
\* neighbours, and its cell holds the address of the element.  The array of
\* the chain never has to be moved, which would leave the links in front of
\* the change behind: it has room for the capacity of the data.
ChainMirrorsData ==
  \A v \in Vectors :
    LET s == store[v]
        ch == chain[v]
        n == Len(s.elem) + 2
    IN  IF ch.at = None THEN s = Vacant
        ELSE /\ Len(ch.node) = n /\ ch.room = s.cap + 2
             /\ \A k \in 2..(n - 1) :
                  /\ ch.node[k] = NodeAt(ch.at, k, s.elem[k - 1])
                  /\ loc[ch.node[k].cell] = <<s.buf, k - 1>>
             /\ ch.node[1] = [NoNode EXCEPT !.next = <<ch.at, 2>>]
             /\ ch.node[n].cell = None /\ ch.node[n].next = None
             /\ n > 2 => ch.node[n].prev = <<ch.at, n - 1>>

\* Both of them.
WellFormed == TypeOK /\ ChainMirrorsData

\* Iterator i, when it says it is valid, leads to the element it was obtained
\* for, wherever insertions and erasures have moved the element since.
LeadsToItsElement(i) ==
  Valid(it[i], loc) =>
    \E v \in Vectors :
      /\ Within(v, loc[it[i].cell])
      /\ store[v].elem[loc[it[i].cell][2]] = it[i].cell[2]

\* A copy of an iterator that says it is valid leads to its element: it has
\* become invalid if the element was erased or its storage given up.  This
\* holds for all copies whose vector was not moved over or transferred.
ValidReachesOwnElement ==
  \A i \in Iters : bond[i] # "lost" => LeadsToItsElement(i)

\* As long as nothing was changed at its element or in front of it, a copy of
\* an iterator is what the chain has in its place, so that it can be moved:
\* iterators in front of an insertion or erasure stay usable.
SteadyIteratorsStay ==
  \A i \in Iters :
    bond[i] = "steady" /\ it[i] # NoNode =>
      \E v \in Vectors : it[i] \in Range(chain[v].node)

\* What a program holds stays usable or says that it is not.
HeldIteratorsFollow == ValidReachesOwnElement /\ SteadyIteratorsStay

\* insert() returns the iterator of the new element, which stands in front of
\* the one its argument denotes, or is the only one.
InsertReturnsInserted ==
  [][\A v \in Vectors, i, j \in Iters, m \in MemTypes :
       /\ Insert(v, i, m, j) /\ store'[v] # store[v]
       => LET k == loc'[it'[j].cell][2]
              old == store[v].elem
          IN  /\ fault' = "none" /\ Valid(it'[j], loc')
              /\ store'[v].elem[k] \notin Range(old)
              /\ IF Len(store'[v].elem) = 1 THEN TRUE
                 ELSE /\ RemoveAt(store'[v].elem, k) = old
                      /\ old[k] = it[i].cell[2]]_vars

\* erase() takes out the element of its argument and no other, and returns
\* the iterator of the element behind it, or the end.
EraseReturnsFollowing ==
  [][\A v \in Vectors, i, j \in Iters :
       /\ Erase(v, i, j) /\ store'[v] # store[v]
       => LET old == store[v].elem
              k == loc[it[i].cell][2]
          IN  /\ fault' = "none"
              /\ old[k] = it[i].cell[2]
              /\ store'[v].elem = RemoveAt(old, k)
              /\ IF k = Len(old) THEN it'[j] = EndNode(chain'[v])
                 ELSE /\ Valid(it'[j], loc')
                      /\ it'[j].cell[2] = old[k + 1]]_vars

\* Single insertions and erasures do what they are asked and return the place.
ReturnsItsPlace == InsertReturnsInserted /\ EraseReturnsFollowing

\* The loops of insert() and resize(), which call functions that may move the
\* data and every iterator in between, end with the sequence asked for, and
\* insert() with the iterator of the first element of the range.
LoopsReachGoal ==
  [][job.op \in {"insert", "grow", "shrink"} /\ job' = NoJob /\ fault' = "none" =>
       /\ store'[job.v].elem = job.goal
       /\ job.op = "insert" /\ Valid(it'[job.j], loc') =>
            it'[job.j].cell[2] = job.head]_vars

\* erase(first, last) takes out the range and nothing else.
EraseRangeErases ==
  [][job.op = "erase" /\ job' = NoJob /\ fault' = "none" =>
       store'[job.v].elem = job.goal]_vars

\* All iterators to an element that is gone have been invalidated.
ValidIteratorsLive == \A i \in Iters : LeadsToItsElement(i)

\* A copy of a vector has a control block of its own: IvyUnifiedPtr::release()
\* frees what it takes itself for the only owner of.
CopiesOwnTheirBlock ==
  \A v, w \in Vectors :
    v # w => /\ store[v].buf # None => store[v].buf # store[w].buf
             /\ store[v].husk # None => store[v].husk # store[w].husk
=============================================================================
