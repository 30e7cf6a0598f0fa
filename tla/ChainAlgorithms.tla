-------------------------- MODULE ChainAlgorithms --------------------------
(***************************************************************************)
(* Iterators as algorithms use them: distances, the searches of IvyFind.h, *)
(* minmax_element of IvyMinMax.h and reverse iterators, over the chain of  *)
(* a container.  An iterator is a copy of a node of the chain; the         *)
(* iterators in front of the first element and behind the last have no     *)
(* cell, and are equal.  The model fills a container and makes one call.   *)
(***************************************************************************)
EXTENDS IteratorChain

CONSTANTS Values,     \* values of elements, integers that less<> compares
          Fillings    \* what containers are filled with, vectors and others

AlgorithmAssumption == Values \subseteq Int

VARIABLES contiguous, \* a vector's iterators, whose distance is of addresses
          value,  \* the elements
          ch,     \* the chain over them
          loc,    \* the addresses in its cells
          call,   \* what was called, with which range, for which values
          result  \* what it returned

vars == <<contiguous, value, ch, loc, call, result>>

NoCall == [does |-> "nothing", first |-> NoNode, last |-> NoNode, for |-> {}]

Init ==
  /\ contiguous \in BOOLEAN /\ value \in Fillings[contiguous]
  /\ LET c == CHOOSE x \in Chains : TRUE
         elem == [i \in DOMAIN value |-> i]
     IN  /\ ch = NewChain(c, elem, Len(value))
         /\ loc = PointCells([x \in Cells |-> None], c, elem, CHOOSE b \in Buffers : TRUE)
  /\ call = NoCall
  /\ result = None

\* Iterators from begin() to end().
Iterators == {ch.node[k] : k \in 2 .. Len(ch.node)}
-----------------------------------------------------------------------------
(* One iterator *)

Valid(it)  == it.cell # None /\ loc[it.cell] # None
Same(a, b) == a.cell = b.cell /\ (a.cell # None => loc[a.cell] = loc[b.cell])

\* The element; None where there is no cell to read.
Deref(it) == IF Valid(it) THEN loc[it.cell][2] ELSE None

\* it + k and it - k
Ahead(it, k) == LET f[j \in 0 .. k] == IF j = 0 THEN it ELSE ch.node[f[j - 1].next[2]]
                IN  f[k]
Back(it, k)  == LET f[j \in 0 .. k] == IF j = 0 THEN it ELSE ch.node[f[j - 1].prev[2]]
                IN  f[k]

\* How many valid iterators there are from it on.
Left(it) == CHOOSE k \in 0 .. Len(value) :
              /\ ~Valid(Ahead(it, k))
              /\ \A j \in 0 .. k - 1 : Valid(Ahead(it, j))

\* How many increments a loop makes that compares with last.
Steps(first, last) == CHOOSE k \in 0 .. Len(value) :
                        /\ Same(Ahead(first, k), last)
                        /\ \A j \in 0 .. k - 1 : ~Same(Ahead(first, j), last)

\* Where the walk from one iterator comes to another, as a set.
Meets(from, to) == {k \in 0 .. Left(from) - 1 : Same(Ahead(from, k), to)}

\* x - y, of addresses where there are any in one array, otherwise counted
\* along the chain from the one to the other or to the end.
Difference(x, y) ==
  IF Same(y, x) \/ (~Valid(x) /\ ~Valid(y)) THEN 0
  ELSE IF contiguous /\ Valid(x) /\ Valid(y) THEN loc[x.cell][2] - loc[y.cell][2]
  ELSE IF Meets(y, x) # {} THEN Min(Meets(y, x))
  ELSE IF ~Valid(x) THEN Left(y)
  ELSE IF Meets(x, y) # {} THEN -Min(Meets(x, y))
  ELSE IF ~Valid(y) THEN -Left(x) ELSE 0
-----------------------------------------------------------------------------
(* Searches *)

Hits(first, n, for) == {k \in 0 .. n - 1 : value[Deref(Ahead(first, k))] \in for}

\* Mutant of FindIf: of a rest of three the last element is not looked at.
FindIfTwo(first, last, for) ==
  LET whole == 4 * (Difference(last, first) \div 4)
      rest  == Difference(last, Ahead(first, whole))
      hits  == Hits(first, whole + (IF rest = 3 THEN 2 ELSE rest), for)
  IN  IF hits = {} THEN last ELSE Ahead(first, Min(hits))

\* find_if, unrolled: blocks of four elements by the distance there was, then
\* up to three by the distance that is left.
FindIf(first, last, for) ==
  LET whole  == 4 * Max({0, Difference(last, first) \div 4})
      inside == Hits(first, whole, for)
      at     == Ahead(first, whole)
      rest   == Difference(last, at)
      behind == IF rest \in 1 .. 3 THEN Hits(at, rest, for) ELSE {}
  IN  IF inside # {} THEN Ahead(first, Min(inside))
      ELSE IF behind # {} THEN Ahead(at, Min(behind)) ELSE last

Find(first, last, v)         == FindIf(first, last, {v})
FindIfNot(first, last, for)  == FindIf(first, last, Values \ for)
-----------------------------------------------------------------------------
(* minmax_element *)

At(first, k)      == value[Deref(Ahead(first, k - 1))]
LessAt(first, j, k) == At(first, j) < At(first, k)

\* Elements k - 1 and k: the smaller is compared with the minimum and the
\* other with the maximum.
WithPair(first, m, k) ==
  LET small == IF LessAt(first, k, k - 1) THEN k ELSE k - 1
      large == IF LessAt(first, k, k - 1) THEN k - 1 ELSE k
  IN  [min |-> IF LessAt(first, small, m.min) THEN small ELSE m.min,
       max |-> IF LessAt(first, large, m.max) THEN m.max ELSE large]

\* Element k alone, the last of an odd number.
WithLast(first, m, k) ==
  [min |-> IF LessAt(first, k, m.min) THEN k ELSE m.min,
   max |-> IF LessAt(first, k, m.min) \/ LessAt(first, k, m.max) THEN m.max ELSE k]

\* The first two elements, then pairs, then what is left.
MinMaxElement(first, last) ==
  LET n == Steps(first, last)
      m[k \in 2 .. n] ==
        CASE k = 2 -> IF LessAt(first, 2, 1) THEN [min |-> 2, max |-> 1]
                                             ELSE [min |-> 1, max |-> 2]
          [] k > 2 /\ k % 2 = 0 -> WithPair(first, m[k - 2], k)
          [] k > 2 /\ k % 2 = 1 -> WithLast(first, m[k - 1], k)
  IN  IF n < 2 THEN [min |-> first, max |-> first]
      ELSE [min |-> Ahead(first, m[n].min - 1), max |-> Ahead(first, m[n].max - 1)]
-----------------------------------------------------------------------------
(* Reverse iterators, given by their bases *)

ReverseDeref(base) == Deref(Back(base, 1))

\* Bases a loop from rfirst comes to before it is at rlast.
ReverseBases(rfirst, rlast) ==
  LET n == CHOOSE k \in 0 .. Len(value) :
             /\ Same(Back(rfirst, k), rlast)
             /\ \A j \in 0 .. k - 1 : ~Same(Back(rfirst, j), rlast)
  IN  [k \in 1 .. n |-> Back(rfirst, k - 1)]

\* for (it = rfirst; it != rlast; ++it) *it
ReverseLoop(rfirst, rlast) ==
  [k \in DOMAIN ReverseBases(rfirst, rlast) |-> ReverseDeref(ReverseBases(rfirst, rlast)[k])]

\* rlast - rfirst, and rfirst[k - 1]
ReverseDistance(rfirst, rlast) == Difference(rfirst, rlast)
ReverseIndex(rfirst, k)        == ReverseDeref(Back(rfirst, k - 1))

\* The bases of the builder's rbegin() and rend().
RBegin == ch.node[Len(ch.node) - 1]
REnd   == ch.node[1]
-----------------------------------------------------------------------------
(* Input iterators: pointers into an array of the elements, by index *)

InputEqual(x, y) == x = x

\* for (it = first; it != last; ++it) *it
InputLoop(n) ==
  LET stop == Min({k \in 1 .. n + 1 : InputEqual(k, n + 1)})
  IN  [k \in 1 .. stop - 1 |-> k]
-----------------------------------------------------------------------------
Returns(does, first, last, for, res) ==
  /\ call' = [does |-> does, first |-> first, last |-> last, for |-> for]
  /\ result' = res
  /\ UNCHANGED <<contiguous, value, ch, loc>>

\* Ranges of the container: last can be reached from first.
IsRange(first, last) == \E k \in 0 .. Len(value) : Ahead(ch.node[2], k) = first
                          /\ \E j \in k .. Len(value) : Ahead(ch.node[2], j) = last

CallDistance == \E x, y \in Iterators : Returns("distance", x, y, {}, Difference(y, x))

CallFind ==
  \E x, y \in Iterators : IsRange(x, y) /\
    \/ \E v \in Values : Returns("find", x, y, {v}, Find(x, y, v))
    \/ \E s \in SUBSET Values : Returns("find_if", x, y, s, FindIf(x, y, s))
    \/ \E s \in SUBSET Values : Returns("find_if_not", x, y, Values \ s, FindIfNot(x, y, s))

CallMinMax ==
  \E x, y \in Iterators : IsRange(x, y) /\ Returns("minmax", x, y, {}, MinMaxElement(x, y))

\* make_reverse_iterator of both ends
CallReverse ==
  \E x, y \in Iterators : IsRange(x, y) /\
    Returns("reverse", x, y, {}, [loop |-> ReverseLoop(y, x), distance |-> ReverseDistance(y, x)])

CallAllReverse ==
  Returns("rbegin to rend", ch.node[2], EndNode(ch), {},
          [loop |-> ReverseLoop(RBegin, REnd), distance |-> ReverseDistance(RBegin, REnd)])

CallInputLoop == Returns("input loop", ch.node[2], EndNode(ch), {}, InputLoop(Len(value)))

Next ==
  /\ call = NoCall
  /\ CallDistance \/ CallFind \/ CallMinMax \/ CallReverse \/ CallAllReverse \/ CallInputLoop

Spec == Init /\ [][Next]_vars
-----------------------------------------------------------------------------
\* Iterators have the element before which they stand; behind the last is end.
Position(it) == CHOOSE k \in 1 .. Len(value) + 1 : ch.node[k + 1] = it

\* Chains have a node per element and the two outer ones; searches return
\* iterators of the container, and minmax_element those of elements.
TypeOK ==
  /\ Len(ch.node) = Len(value) + 2
  /\ call.does \in {"find", "find_if", "find_if_not"} => result \in Iterators
  /\ call.does = "minmax" /\ call.first # call.last => Valid(result.min) /\ Valid(result.max)
  /\ call.does = "distance" => result \in -Len(value) .. Len(value)

\* operator-, with the walks that end() and the chains of maps take: y - x is
\* the number of increments from x to y, forwards or backwards.
DistanceCounts ==
  call.does = "distance" => result = Position(call.last) - Position(call.first)

\* "Iterator to the first matching element or last if not found."
\* (IvyFind.h:20), for every range and what the unrolling leaves over.
FindsFirst ==
  call.does \in {"find", "find_if", "find_if_not"} =>
    LET hits == {k \in Position(call.first) .. Position(call.last) - 1 : value[k] \in call.for}
    IN  Position(result) = IF hits = {} THEN Position(call.last) ELSE Min(hits)

\* "Find iterators to the minimum and maximum elements in a range."
\* (IvyMinMax.h:56), among equal ones the first minimum and the last maximum.
MinFirstMaxLast ==
  call.does = "minmax" /\ call.first # call.last =>
    LET range == Position(call.first) .. Position(call.last) - 1
        min == Position(result.min)
        max == Position(result.max)
    IN  /\ \A k \in range : value[min] <= value[k] /\ (k < min => value[min] < value[k])
        /\ \A k \in range : value[k] <= value[max] /\ (k > max => value[k] < value[max])

\* A loop over the reversed ends of a range visits its elements backwards,
\* and their distance is the number of its steps.
ReverseVisitsRange ==
  call.does = "reverse" =>
    LET n == Position(call.last) - Position(call.first)
    IN  /\ result.loop = [k \in 1 .. n |-> Position(call.last) - k]
        /\ result.distance = n
        /\ \A k \in 1 .. n : ReverseIndex(call.last, k) = result.loop[k]

\* "Return mutable reverse iterator to reverse beginning."
\* (IvyVectorImpl.hh:186): from rbegin() to rend() are all elements backwards.
ReverseVisitsAll ==
  call.does = "rbegin to rend" => result.loop = Reverse([k \in DOMAIN value |-> k])

\* "Inequality comparison between input iterators." (IvyIteratorImpl.h:92):
\* a loop that compares with the end visits all elements.
InputVisitsAll == call.does = "input loop" => result = [k \in DOMAIN value |-> k]
=============================================================================
