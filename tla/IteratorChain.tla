--------------------------- MODULE IteratorChain ---------------------------
(***************************************************************************)
(* The chain of IvyContiguousIteratorBuilder: one iterator per element of  *)
(* the data, between a node in front of the first and one behind the last. *)
(* The nodes lie in one array of their own; each has a shared cell that    *)
(* holds the address of its element, and the addresses of its neighbours.  *)
(*                                                                         *)
(* An array of nodes is an identifier from Chains, slots count from 1;     *)
(* <<c, k>> is the address of slot k of array c.  <<b, i>> is the address  *)
(* of element i in the data storage b.  <<c, e>> is the cell that array c  *)
(* made for element e; None is a null pointer of any type.                 *)
(***************************************************************************)
EXTENDS Integers, SequencesExt

CONSTANTS Chains, Buffers, Elements, None

Cells == Chains \X Elements

\* A default-constructed iterator, and a chain without an array.
NoNode == [cell |-> None, next |-> None, prev |-> None]
NoChain == [at |-> None, room |-> 0, node |-> <<>>]

\* set_mem_loc(): neighbours are next to the place the node is made at.
NodeAt(c, k, e) == [cell |-> <<c, e>>, next |-> <<c, k + 1>>, prev |-> <<c, k - 1>>]

\* reset(): the chain for the elements elem, with room for cap of them.
NewChain(c, elem, cap) ==
  LET n == Len(elem) + 2
  IN  [at |-> c, room |-> cap + 2,
       node |-> [k \in 1..n |-> IF k = 1 THEN [NoNode EXCEPT !.next = <<c, 2>>]
                                ELSE IF k = n THEN [NoNode EXCEPT !.prev = <<c, n - 1>>]
                                ELSE NodeAt(c, k, elem[k - 1])]]

FrontNode(ch) == ch.node[2]
EndNode(ch) == ch.node[Len(ch.node)]

-----------------------------------------------------------------------------
\* Mutant of FixPrevNext: the links back are not fixed.
FixNextOnly(ch, pos) ==
  LET n == Len(ch.node)
  IN  IF n <= 2 \/ pos < 1 \/ pos > n - 1 THEN ch
      ELSE [ch EXCEPT !.node = [k \in 1..n |->
             IF k < pos \/ k = n THEN ch.node[k]
             ELSE [ch.node[k] EXCEPT !.next = <<ch.at, k + 1>>]]]

\* fix_prev_next(pos): every node from slot pos on is linked to its
\* neighbours, unless only the outer nodes are left.
FixPrevNext(ch, pos) ==
  LET n == Len(ch.node)
  IN  IF n <= 2 \/ pos < 1 \/ pos > n - 1 THEN ch
      ELSE [ch EXCEPT !.node = [k \in 1..n |->
             IF k < pos THEN ch.node[k]
             ELSE [cell |-> ch.node[k].cell,
                   next |-> IF k < n THEN <<ch.at, k + 1>> ELSE ch.node[k].next,
                   prev |-> IF k > 1 THEN <<ch.at, k - 1>> ELSE ch.node[k].prev]]]

\* fix_prev_next(pos, inc): the nodes whose cells move along with the data.
\* The node at slot pos + 1 is the new one after an insertion, and the first
\* that moved after an erasure.
Moved(ch, pos, inc) ==
  LET n == Len(ch.node)
  IN  {k \in 2..(n - 1) : k > (IF inc < 0 THEN pos ELSE pos + 1)}

\* Mutant of ShiftCells: an insertion moves the new node's cell, too.
ShiftCellsOffByOne(loc, ch, pos, inc) ==
  LET cells == {ch.node[k].cell : k \in Moved(ch, pos, -1)}
  IN  [c \in DOMAIN loc |->
        IF c \in cells /\ loc[c] # None THEN <<loc[c][1], loc[c][2] + inc>> ELSE loc[c]]

\* The addresses in the cells of these nodes are moved by inc elements.
ShiftCells(loc, ch, pos, inc) ==
  LET cells == {ch.node[k].cell : k \in Moved(ch, pos, inc)}
  IN  [c \in DOMAIN loc |->
        IF c \in cells /\ loc[c] # None THEN <<loc[c][1], loc[c][2] + inc>> ELSE loc[c]]

\* set_mem_loc() for all elements of a new chain.
PointCells(loc, c, elem, buf) ==
  [x \in DOMAIN loc |->
     IF x[1] # c THEN loc[x]
     ELSE IF \E i \in DOMAIN elem : elem[i] = x[2]
     THEN <<buf, CHOOSE i \in DOMAIN elem : elem[i] = x[2]>>
     ELSE None]

\* invalidate(): the cells of all nodes are set to null, for all iterators
\* that share them.
InvalidateCells(loc, ch) ==
  [x \in DOMAIN loc |->
     IF \E k \in DOMAIN ch.node : ch.node[k].cell = x THEN None ELSE loc[x]]

-----------------------------------------------------------------------------
\* chain.insert(): a node for e in slot k.  A full array is moved to spare.
InsertNode(ch, spare, k, e) ==
  LET full == Len(ch.node) = ch.room
      c == IF full THEN spare ELSE ch.at
  IN  [at |-> c, room |-> IF full THEN ch.room + 2 ELSE ch.room,
       node |-> InsertAt(ch.node, k, NodeAt(c, k, e))]

\* chain.erase(): the nodes behind slot k move up.
EraseNode(ch, k) == [ch EXCEPT !.node = RemoveAt(ch.node, k)]

\* push_back(), pop_back(), insert() and erase() of the builder, for the
\* element e or index i of the data; n counts the nodes before the change.
ChainPushBack(ch, spare, e) ==
  LET n == Len(ch.node) IN FixPrevNext(InsertNode(ch, spare, n, e), n - 1)

ChainPopBack(ch) ==
  LET n == Len(ch.node)
  IN  IF n < 3 THEN ch ELSE FixPrevNext(EraseNode(ch, n - 1), n - 2)

ChainInsert(ch, spare, i, e) == FixPrevNext(InsertNode(ch, spare, i + 1, e), i)

ChainErase(ch, i) ==
  IF i + 1 >= Len(ch.node) THEN ch ELSE FixPrevNext(EraseNode(ch, i + 1), i)

\* find_pointable(): the first node, along the links from the front, whose
\* cell holds the address p; None when the links do not lead to one.
FindPointable(ch, loc, p) ==
  LET hits == {k \in 2..Len(ch.node) : ch.node[k].cell # None /\ loc[ch.node[k].cell] = p}
      k == CHOOSE j \in hits : \A m \in hits : j <= m
  IN  IF hits # {} /\ \A m \in 2..(k - 1) : ch.node[m].next = <<ch.at, m + 1>>
      THEN ch.node[k] ELSE None
=============================================================================
