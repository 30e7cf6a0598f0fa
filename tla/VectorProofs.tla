---------------------------- MODULE VectorProofs ----------------------------
(***************************************************************************)
(* In every member function of Vector, data and chain of iterators change  *)
(* in step, and the iterators that programs hold follow: VInv is           *)
(* inductive, for every value of the constants.  What insert() and erase() *)
(* return and what the loops of the members that add or take several       *)
(* elements end with follows from it, with GoalInv for the loops.          *)
(*                                                                         *)
(* The first part is about the operators of IteratorChain: they keep a     *)
(* chain in step with the elements it was made for, and what is allocated  *)
(* next exists.                                                            *)
(***************************************************************************)
EXTENDS VectorProperties, FiniteSetTheorems, SequenceTheorems, TLAPS

-----------------------------------------------------------------------------
(* Sequences *)

\* insert() of an element: those from its place on move up by one.
LEMMA InsertAtElements ==
  ASSUME NEW S, NEW s \in Seq(S), NEW i \in 1..(Len(s) + 1), NEW e \in S
  PROVE  /\ InsertAt(s, i, e) \in Seq(S)
         /\ Len(InsertAt(s, i, e)) = Len(s) + 1
         /\ \A k \in 1..(i - 1) : InsertAt(s, i, e)[k] = s[k]
         /\ InsertAt(s, i, e)[i] = e
         /\ \A k \in (i + 1)..(Len(s) + 1) : InsertAt(s, i, e)[k] = s[k - 1]
<1> DEFINE a == SubSeq(s, 1, i - 1)
           b == SubSeq(s, i, Len(s))
<1>1. /\ a \in Seq(S) /\ Len(a) = i - 1
      /\ \A k \in 1..(i - 1) : a[k] = s[k]
  BY SubSeqProperties
<1>2. /\ b \in Seq(S) /\ Len(b) = Len(s) - i + 1
      /\ \A k \in 1..(Len(s) - i + 1) : b[k] = s[i + k - 1]
  BY SubSeqProperties
<1> HIDE DEF a, b
<1>3. /\ a \o <<e>> \in Seq(S) /\ Len(a \o <<e>>) = i
      /\ \A k \in 1..i : (a \o <<e>>)[k] = IF k < i THEN a[k] ELSE e
  BY <1>1, ConcatProperties
<1> DEFINE c == a \o <<e>>
<1> HIDE DEF c
<1>4. /\ c \o b \in Seq(S) /\ Len(c \o b) = Len(s) + 1
      /\ \A k \in 1..(Len(s) + 1) : (c \o b)[k] = IF k <= i THEN c[k] ELSE b[k - i]
  BY <1>2, <1>3, ConcatProperties DEF c
<1>5. InsertAt(s, i, e) = c \o b
  BY DEF InsertAt, a, b, c
<1>6. \A k \in 1..(i - 1) : (c \o b)[k] = s[k]
  BY <1>1, <1>3, <1>4 DEF c
<1>7. (c \o b)[i] = e
  BY <1>3, <1>4 DEF c
<1>8. ASSUME NEW k \in (i + 1)..(Len(s) + 1) PROVE (c \o b)[k] = s[k - 1]
  <2>1. (c \o b)[k] = b[k - i] /\ k - i \in 1..(Len(s) - i + 1)
    BY <1>4
  <2> QED BY <1>2, <2>1
<1> QED BY <1>4, <1>5, <1>6, <1>7, <1>8

\* erase() of an element: those behind its place move down by one.
LEMMA RemoveAtElements ==
  ASSUME NEW S, NEW s \in Seq(S), NEW i \in 1..Len(s)
  PROVE  /\ RemoveAt(s, i) \in Seq(S)
         /\ Len(RemoveAt(s, i)) = Len(s) - 1
         /\ \A k \in 1..(Len(s) - 1) :
              RemoveAt(s, i)[k] = IF k < i THEN s[k] ELSE s[k + 1]
<1> DEFINE a == SubSeq(s, 1, i - 1)
           b == SubSeq(s, i + 1, Len(s))
<1>1. /\ a \in Seq(S) /\ Len(a) = i - 1
      /\ \A k \in 1..(i - 1) : a[k] = s[k]
  BY SubSeqProperties
<1>2. /\ b \in Seq(S) /\ Len(b) = Len(s) - i
      /\ \A k \in 1..(Len(s) - i) : b[k] = s[i + k]
  BY SubSeqProperties
<1> HIDE DEF a, b
<1>3. a \o b \in Seq(S) /\ Len(a \o b) = Len(s) - 1
  <2>1. a \o b \in Seq(S) /\ Len(a \o b) = Len(a) + Len(b)
    BY <1>1, <1>2, ConcatProperties
  <2> QED BY <1>1, <1>2, <2>1
<1>4. ASSUME NEW k \in 1..(Len(s) - 1)
      PROVE  (a \o b)[k] = IF k < i THEN s[k] ELSE s[k + 1]
  <2>1. (a \o b)[k] = IF k <= Len(a) THEN a[k] ELSE b[k - Len(a)]
    BY <1>1, <1>2, ConcatProperties
  <2>2. CASE k < i
    BY <1>1, <2>1, <2>2
  <2>3. CASE ~(k < i)
    <3>1. k - (i - 1) \in 1..(Len(s) - i) /\ i + (k - (i - 1)) = k + 1
      BY <2>3
    <3>2. b[k - (i - 1)] = s[k + 1]
      BY <1>2, <3>1
    <3>3. ~(k <= Len(a)) /\ Len(a) = i - 1
      BY <1>1, <2>3
    <3>4. (a \o b)[k] = b[k - (i - 1)]
      BY <2>1, <3>3
    <3> QED BY <2>3, <3>2, <3>4
  <2> QED BY <2>2, <2>3
<1>5. RemoveAt(s, i) = a \o b
  BY DEF RemoveAt, a, b
<1> QED BY <1>3, <1>4, <1>5

\* The same for the sequences of the model.
LEMMA InsertElement ==
  ASSUME NEW s \in Seq(Elements), NEW i \in 1..(Len(s) + 1), NEW e \in Elements
  PROVE  /\ InsertAt(s, i, e) \in Seq(Elements)
         /\ Len(InsertAt(s, i, e)) = Len(s) + 1
         /\ \A k \in 1..(i - 1) : InsertAt(s, i, e)[k] = s[k]
         /\ InsertAt(s, i, e)[i] = e
         /\ \A k \in (i + 1)..(Len(s) + 1) : InsertAt(s, i, e)[k] = s[k - 1]
BY InsertAtElements

\* The same for a sequence of nodes.
LEMMA InsertNodeElement ==
  ASSUME NEW s \in Seq(NodeType), NEW i \in 1..(Len(s) + 1), NEW e \in NodeType
  PROVE  /\ InsertAt(s, i, e) \in Seq(NodeType)
         /\ Len(InsertAt(s, i, e)) = Len(s) + 1
         /\ \A k \in 1..(i - 1) : InsertAt(s, i, e)[k] = s[k]
         /\ InsertAt(s, i, e)[i] = e
         /\ \A k \in (i + 1)..(Len(s) + 1) : InsertAt(s, i, e)[k] = s[k - 1]
BY InsertAtElements

\* What RemoveAt() returns: the elements behind i move up.
LEMMA RemoveElement ==
  ASSUME NEW s \in Seq(Elements), NEW i \in 1..Len(s)
  PROVE  /\ RemoveAt(s, i) \in Seq(Elements)
         /\ Len(RemoveAt(s, i)) = Len(s) - 1
         /\ \A k \in 1..(Len(s) - 1) :
              RemoveAt(s, i)[k] = IF k < i THEN s[k] ELSE s[k + 1]
BY RemoveAtElements

\* The same for a sequence of nodes.
LEMMA RemoveNodeElement ==
  ASSUME NEW s \in Seq(NodeType), NEW i \in 1..Len(s)
  PROVE  /\ RemoveAt(s, i) \in Seq(NodeType)
         /\ Len(RemoveAt(s, i)) = Len(s) - 1
         /\ \A k \in 1..(Len(s) - 1) :
              RemoveAt(s, i)[k] = IF k < i THEN s[k] ELSE s[k + 1]
BY RemoveAtElements

\* push_back() is an insertion behind the last element.
LEMMA AppendInserts ==
  ASSUME NEW S, NEW s \in Seq(S), NEW e \in S
  PROVE  Append(s, e) = InsertAt(s, Len(s) + 1, e)
<1>1. /\ InsertAt(s, Len(s) + 1, e) \in Seq(S)
      /\ Len(InsertAt(s, Len(s) + 1, e)) = Len(s) + 1
      /\ \A k \in 1..Len(s) : InsertAt(s, Len(s) + 1, e)[k] = s[k]
      /\ InsertAt(s, Len(s) + 1, e)[Len(s) + 1] = e
  BY InsertAtElements
<1>2. /\ Append(s, e) \in Seq(S) /\ Len(Append(s, e)) = Len(s) + 1
      /\ \A k \in 1..Len(s) : Append(s, e)[k] = s[k]
      /\ Append(s, e)[Len(s) + 1] = e
  BY AppendProperties
<1> HIDE DEF InsertAt
<1> QED BY <1>1, <1>2, SeqEqual

\* The elements of a sequence of different elements, one of them new.
LEMMA InsertAtInjective ==
  ASSUME NEW S, NEW s \in Seq(S), NEW i \in 1..(Len(s) + 1), NEW e \in S,
         IsInjective(s), e \notin Range(s)
  PROVE  /\ IsInjective(InsertAt(s, i, e))
         /\ Range(InsertAt(s, i, e)) = Range(s) \cup {e}
<1> DEFINE t == InsertAt(s, i, e)
<1>1. /\ t \in Seq(S) /\ Len(t) = Len(s) + 1
      /\ \A k \in 1..(i - 1) : t[k] = s[k]
      /\ t[i] = e
      /\ \A k \in (i + 1)..(Len(s) + 1) : t[k] = s[k - 1]
  BY InsertAtElements
<1> HIDE DEF t
<1>2. /\ DOMAIN s = 1..Len(s) /\ DOMAIN t = 1..(Len(s) + 1) /\ Len(s) \in Nat
  BY <1>1
<1> DEFINE Was(k) == IF k < i THEN k ELSE k - 1
<1>0. ASSUME NEW k \in 1..(Len(s) + 1), k # i
      PROVE  Was(k) \in 1..Len(s) /\ t[k] = s[Was(k)]
  <2>1. CASE k < i
    BY <1>1, <2>1
  <2>2. CASE k > i
    BY <1>1, <2>2
  <2> QED BY <1>0, <2>1, <2>2
<1>3. ASSUME NEW k \in 1..(Len(s) + 1), NEW m \in 1..(Len(s) + 1), t[k] = t[m]
      PROVE  k = m
  <2>1. CASE k # i /\ m # i
    <3>1. Was(k) \in 1..Len(s) /\ Was(m) \in 1..Len(s) /\ s[Was(k)] = s[Was(m)]
      BY <1>0, <1>3, <2>1
    <3>2. Was(k) = Was(m)
      BY <1>2, <3>1 DEF IsInjective
    <3> QED BY <2>1, <3>2
  <2>2. CASE k # i /\ m = i
    <3>1. Was(k) \in 1..Len(s) /\ s[Was(k)] = e
      BY <1>0, <1>1, <1>3, <2>2
    <3> QED BY <1>2, <3>1 DEF Range
  <2>3. CASE k = i /\ m # i
    <3>1. Was(m) \in 1..Len(s) /\ s[Was(m)] = e
      BY <1>0, <1>1, <1>3, <2>3
    <3> QED BY <1>2, <3>1 DEF Range
  <2> QED BY <2>1, <2>2, <2>3
<1>4. ASSUME NEW k \in 1..(Len(s) + 1) PROVE t[k] \in Range(s) \cup {e}
  <2>1. CASE k # i
    <3>1. Was(k) \in 1..Len(s) /\ t[k] = s[Was(k)]
      BY <1>0, <2>1
    <3> HIDE DEF Was
    <3> QED BY <1>2, <3>1 DEF Range
  <2> QED BY <1>1, <2>1
<1>5. Range(s) \subseteq Range(t)
  <2> SUFFICES ASSUME NEW k \in 1..Len(s) PROVE s[k] \in Range(t)
    BY <1>2 DEF Range
  <2>1. CASE k < i
    <3>1. t[k] = s[k] /\ k \in DOMAIN t
      BY <1>1, <1>2, <2>1
    <3> QED BY <3>1 DEF Range
  <2>2. CASE k >= i
    <3>1. t[k + 1] = s[k] /\ k + 1 \in DOMAIN t
      BY <1>1, <1>2, <2>2
    <3> QED BY <3>1 DEF Range
  <2> QED BY <2>1, <2>2
<1>6. e \in Range(t)
  BY <1>1, <1>2 DEF Range
<1>7. IsInjective(t)
  BY <1>2, <1>3 DEF IsInjective
<1>8. Range(t) \subseteq Range(s) \cup {e}
  BY <1>2, <1>4 DEF Range
<1> QED BY <1>5, <1>6, <1>7, <1>8 DEF t

\* The elements of a sequence of different elements but one.
LEMMA RemoveAtInjective ==
  ASSUME NEW S, NEW s \in Seq(S), NEW i \in 1..Len(s), IsInjective(s)
  PROVE  /\ IsInjective(RemoveAt(s, i))
         /\ Range(RemoveAt(s, i)) = Range(s) \ {s[i]}
<1> DEFINE t == RemoveAt(s, i)
<1>1. /\ t \in Seq(S) /\ Len(t) = Len(s) - 1
      /\ \A k \in 1..(Len(s) - 1) : t[k] = IF k < i THEN s[k] ELSE s[k + 1]
  BY RemoveAtElements
<1> HIDE DEF t
<1>2. DOMAIN s = 1..Len(s) /\ DOMAIN t = 1..(Len(s) - 1) /\ Len(s) \in Nat
  BY <1>1
<1> DEFINE Was(k) == IF k < i THEN k ELSE k + 1
<1>0. ASSUME NEW k \in 1..(Len(s) - 1)
      PROVE  Was(k) \in 1..Len(s) /\ Was(k) # i /\ t[k] = s[Was(k)]
  BY <1>1
<1>3. ASSUME NEW k \in 1..(Len(s) - 1), NEW m \in 1..(Len(s) - 1), t[k] = t[m]
      PROVE  k = m
  <2>1. Was(k) = Was(m)
    BY <1>0, <1>2, <1>3 DEF IsInjective
  <2> QED BY <2>1
<1>4. Range(t) \subseteq Range(s) \ {s[i]}
  BY <1>1, <1>2, SMTT(30) DEF Range, IsInjective
<1>5. Range(s) \ {s[i]} \subseteq Range(t)
  <2> SUFFICES ASSUME NEW k \in 1..Len(s), k # i PROVE s[k] \in Range(t)
    BY <1>2 DEF Range
  <2>1. CASE k < i
    <3>1. t[k] = s[k] /\ k \in DOMAIN t
      BY <1>1, <1>2, <2>1
    <3> QED BY <3>1 DEF Range
  <2>2. CASE k > i
    <3>1. t[k - 1] = s[k] /\ k - 1 \in DOMAIN t
      BY <1>1, <1>2, <2>2
    <3> QED BY <3>1 DEF Range
  <2> QED BY <2>1, <2>2
<1>6. IsInjective(t)
  BY <1>2, <1>3 DEF IsInjective
<1> QED BY <1>4, <1>5, <1>6 DEF t

-----------------------------------------------------------------------------
(* Chains *)

\* The last node leads back to the slot q and nowhere else.
EndAt(ch, q) == [NoNode EXCEPT !.prev = <<ch.at, q>>]

\* The last of n nodes leads back to the one in front of it.  The link is left
\* as it was when only the outer nodes remain.
EndsBack(ch, n) ==
  \E q \in Nat \ {0} : ch.node[n] = EndAt(ch, q) /\ q >= n - 1 /\ (n > 2 => q = n - 1)

\* ch is a chain for the elements elem with room for cap of them.
Chained(ch, elem, cap) ==
  /\ ch \in [at : Chains, room : {cap + 2}, node : Seq(NodeType)]
  /\ Len(ch.node) = Len(elem) + 2
  /\ \A k \in 2..(Len(elem) + 1) : ch.node[k] = NodeAt(ch.at, k, elem[k - 1])
  /\ ch.node[1] = [NoNode EXCEPT !.next = <<ch.at, 2>>]
  /\ EndsBack(ch, Len(elem) + 2)

\* The nodes that are not made from an element.
LEMMA NodeTypes ==
  /\ NoNode \in NodeType
  /\ \A c \in Chains, k \in Nat \ {0} :
       /\ [NoNode EXCEPT !.next = <<c, k>>] \in NodeType
       /\ [NoNode EXCEPT !.prev = <<c, k>>] \in NodeType
       /\ \A e \in Elements : k > 1 => NodeAt(c, k, e) \in NodeType
BY DEF NodeType, NoNode, NodeAt, Addresses, Cells

\* reset() of the builder.
LEMMA NewChainIsChained ==
  ASSUME NEW c \in Chains, NEW elem \in Seq(Elements), NEW cap \in Nat
  PROVE  Chained(NewChain(c, elem, cap), elem, cap) /\ NewChain(c, elem, cap).at = c
<1> DEFINE n == Len(elem) + 2
           ch == NewChain(c, elem, cap)
           Made(k) == IF k = 1 THEN [NoNode EXCEPT !.next = <<c, 2>>]
                      ELSE IF k = n THEN [NoNode EXCEPT !.prev = <<c, n - 1>>]
                      ELSE NodeAt(c, k, elem[k - 1])
<1>1. ch = [at |-> c, room |-> cap + 2, node |-> [k \in 1..n |-> Made(k)]]
  BY DEF NewChain
<1>2. n \in Nat /\ n >= 2 /\ n - 1 \in Nat \ {0} /\ 2 \in Nat \ {0} /\ n - 1 = Len(elem) + 1
  OBVIOUS
<1>3. ASSUME NEW k \in 1..n PROVE Made(k) \in NodeType
  <2>1. CASE k = 1
    <3>1. Made(k) = [NoNode EXCEPT !.next = <<c, 2>>]
      BY <2>1
    <3> QED BY <1>2, <3>1, NodeTypes
  <2>2. CASE k # 1 /\ k = n
    <3>1. Made(k) = [NoNode EXCEPT !.prev = <<c, n - 1>>]
      BY <2>2
    <3> HIDE DEF n
    <3> QED BY <1>2, <3>1, NodeTypes
  <2>3. CASE k # 1 /\ k # n
    <3>1. elem[k - 1] \in Elements /\ k \in Nat \ {0} /\ k > 1
      BY <2>3
    <3> QED BY <2>3, <3>1, NodeTypes
  <2> QED BY <2>1, <2>2, <2>3
<1>4. \A k \in 2..(Len(elem) + 1) : Made(k) = NodeAt(c, k, elem[k - 1])
  OBVIOUS
<1>5. Made(1) = [NoNode EXCEPT !.next = <<c, 2>>] /\ Made(n) = [NoNode EXCEPT !.prev = <<c, n - 1>>]
  BY <1>2
<1> DEFINE f == [k \in 1..n |-> Made(k)]
<1> HIDE DEF Made
<1>6. f \in Seq(NodeType) /\ Len(f) = n
  BY <1>2, <1>3
<1>7. /\ \A k \in 2..(Len(elem) + 1) : f[k] = NodeAt(c, k, elem[k - 1])
      /\ f[1] = [NoNode EXCEPT !.next = <<c, 2>>] /\ f[n] = [NoNode EXCEPT !.prev = <<c, n - 1>>]
  BY <1>2, <1>4, <1>5
<1> HIDE DEF f
<1>8. /\ ch \in [at : Chains, room : {cap + 2}, node : Seq(NodeType)]
      /\ ch.at = c /\ ch.node = f
  BY <1>1, <1>6 DEF f
<1> HIDE DEF ch
<1>9. EndsBack(ch, n)
  <2> HIDE DEF n
  <2>1. ch.node[n] = EndAt(ch, n - 1)
    BY <1>7, <1>8 DEF EndAt
  <2> QED BY <1>2, <2>1 DEF EndsBack
<1>10. Chained(ch, elem, cap)
  BY <1>6, <1>7, <1>8, <1>9 DEF Chained
<1> QED BY <1>8, <1>10 DEF ch

\* The nodes are numbered, and the cell of node k + 1 is that of element k.
LEMMA ChainedNodes ==
  ASSUME NEW ch, NEW elem \in Seq(Elements), NEW cap \in Nat, Chained(ch, elem, cap)
  PROVE  /\ ch.at \in Chains /\ ch.room = cap + 2 /\ ch.node \in Seq(NodeType)
         /\ Len(ch.node) = Len(elem) + 2 /\ DOMAIN ch.node = 1..(Len(elem) + 2)
         /\ \A k \in 1..Len(elem) : ch.node[k + 1] = NodeAt(ch.at, k + 1, elem[k])
         /\ \A k \in 2..(Len(elem) + 1) : ch.node[k] = NodeAt(ch.at, k, elem[k - 1])
         /\ ch.node[1].cell = None /\ ch.node[Len(elem) + 2].cell = None
<1>1. /\ ch \in [at : Chains, room : {cap + 2}, node : Seq(NodeType)]
      /\ Len(ch.node) = Len(elem) + 2
      /\ \A k \in 2..(Len(elem) + 1) : ch.node[k] = NodeAt(ch.at, k, elem[k - 1])
      /\ ch.node[1] = [NoNode EXCEPT !.next = <<ch.at, 2>>]
  BY DEF Chained
<1>2. ASSUME NEW k \in 1..Len(elem) PROVE ch.node[k + 1] = NodeAt(ch.at, k + 1, elem[k])
  <2>1. k + 1 \in 2..(Len(elem) + 1) /\ (k + 1) - 1 = k
    OBVIOUS
  <2> QED BY <1>1, <2>1
<1>3. PICK q \in Nat : ch.node[Len(elem) + 2] = EndAt(ch, q)
  BY DEF Chained, EndsBack
<1>4. ch.node[1].cell = None /\ ch.node[Len(elem) + 2].cell = None
  BY <1>1, <1>3 DEF EndAt, NoNode
<1> QED BY <1>1, <1>2, <1>4

\* fix_prev_next(pos) keeps the cells and links every node from pos on.
LEMMA FixPrevNextLinks ==
  ASSUME NEW room, NEW ch \in [at : Chains, room : {room}, node : Seq(NodeType)],
         NEW pos \in 1..(Len(ch.node) - 1), Len(ch.node) > 2
  PROVE  LET fixed == FixPrevNext(ch, pos)
             n == Len(ch.node)
         IN  /\ fixed \in [at : {ch.at}, room : {room}, node : Seq(NodeType)]
             /\ Len(fixed.node) = n
             /\ \A k \in 1..(pos - 1) : fixed.node[k] = ch.node[k]
             /\ \A k \in pos..n :
                  fixed.node[k] = [cell |-> ch.node[k].cell,
                                   next |-> IF k < n THEN <<ch.at, k + 1>> ELSE ch.node[k].next,
                                   prev |-> IF k > 1 THEN <<ch.at, k - 1>> ELSE ch.node[k].prev]
<1> DEFINE n == Len(ch.node)
           Linked(k) == [cell |-> ch.node[k].cell,
                         next |-> IF k < n THEN <<ch.at, k + 1>> ELSE ch.node[k].next,
                         prev |-> IF k > 1 THEN <<ch.at, k - 1>> ELSE ch.node[k].prev]
           f == [k \in 1..n |-> IF k < pos THEN ch.node[k] ELSE Linked(k)]
<1>1. FixPrevNext(ch, pos) = [ch EXCEPT !.node = f]
  BY DEF FixPrevNext
<1>2. ASSUME NEW k \in 1..n PROVE ch.node[k] \in NodeType /\ Linked(k) \in NodeType
  <2>1. ch.node[k] \in NodeType
    OBVIOUS
  <2>2. k < n => <<ch.at, k + 1>> \in Addresses(Chains)
    BY DEF Addresses
  <2>3. k > 1 => <<ch.at, k - 1>> \in Addresses(Chains)
    BY DEF Addresses
  <2> QED BY <2>1, <2>2, <2>3 DEF NodeType
<1>3. /\ n \in Nat
      /\ \A k \in 1..(pos - 1) : f[k] = ch.node[k]
      /\ \A k \in pos..n : f[k] = Linked(k)
  OBVIOUS
<1> HIDE DEF Linked
<1>4. \A k \in 1..n : f[k] \in NodeType
  BY <1>2
<1>5. f \in Seq(NodeType) /\ Len(f) = n
  BY <1>3, <1>4
<1> HIDE DEF f
<1>6. FixPrevNext(ch, pos) \in [at : {ch.at}, room : {room}, node : Seq(NodeType)]
      /\ FixPrevNext(ch, pos).node = f
  BY <1>1, <1>5
<1> QED BY <1>3, <1>5, <1>6 DEF Linked

\* insert() of the builder: the chain is in step with the data again, in
\* the array it was in.
LEMMA ChainInsertIsChained ==
  ASSUME NEW ch, NEW elem \in Seq(Elements), NEW cap \in Nat, Chained(ch, elem, cap),
         Len(elem) < cap, NEW spare, NEW i \in 1..(Len(elem) + 1), NEW e \in Elements
  PROVE  /\ Chained(ChainInsert(ch, spare, i, e), InsertAt(elem, i, e), cap)
         /\ ChainInsert(ch, spare, i, e).at = ch.at
<1> DEFINE new == InsertAt(elem, i, e)
           g == InsertAt(ch.node, i + 1, NodeAt(ch.at, i + 1, e))
           mid == [at |-> ch.at, room |-> cap + 2, node |-> g]
           last == FixPrevNext(mid, i)
<1>1. /\ ch.at \in Chains /\ ch.room = cap + 2 /\ ch.node \in Seq(NodeType)
      /\ Len(ch.node) = Len(elem) + 2
      /\ \A k \in 2..(Len(elem) + 1) : ch.node[k] = NodeAt(ch.at, k, elem[k - 1])
  BY ChainedNodes
<1>2. ch.node[1] = [NoNode EXCEPT !.next = <<ch.at, 2>>]
  BY DEF Chained
<1>3. PICK q \in Nat : ch.node[Len(elem) + 2] = EndAt(ch, q)
  BY DEF Chained, EndsBack
<1>4. ChainInsert(ch, spare, i, e) = last
  BY <1>1 DEF ChainInsert, InsertNode
<1>5. NodeAt(ch.at, i + 1, e) \in NodeType
  <2>1. i + 1 \in Nat \ {0} /\ i + 1 > 1
    OBVIOUS
  <2> QED BY <1>1, <2>1, NodeTypes
<1>6. /\ g \in Seq(NodeType) /\ Len(g) = Len(elem) + 3
      /\ \A k \in 1..i : g[k] = ch.node[k]
      /\ g[i + 1] = NodeAt(ch.at, i + 1, e)
      /\ \A k \in (i + 2)..(Len(elem) + 3) : g[k] = ch.node[k - 1]
  <2> DEFINE j == i + 1
             x == NodeAt(ch.at, i + 1, e)
             s == ch.node
  <2>1. s \in Seq(NodeType) /\ j \in 1..(Len(s) + 1) /\ x \in NodeType /\ g = InsertAt(s, j, x)
    BY <1>1, <1>5
  <2>2. /\ InsertAt(s, j, x) \in Seq(NodeType)
        /\ Len(InsertAt(s, j, x)) = Len(s) + 1
        /\ \A k \in 1..(j - 1) : InsertAt(s, j, x)[k] = s[k]
        /\ InsertAt(s, j, x)[j] = x
        /\ \A k \in (j + 1)..(Len(s) + 1) : InsertAt(s, j, x)[k] = s[k - 1]
    <3> HIDE DEF j, x, s, g
    <3> QED BY <2>1, InsertNodeElement, SMTT(30)
  <2>3. j = i + 1 /\ Len(s) = Len(elem) + 2
    BY <1>1
  <2>4. g \in Seq(NodeType) /\ Len(g) = Len(elem) + 3 /\ g[i + 1] = x
    <3> HIDE DEF g, j, s, x
    <3> QED BY <2>1, <2>2, <2>3
  <2>5. \A k \in 1..i : g[k] = s[k]
    <3> HIDE DEF g, j, s, x
    <3> QED BY <2>1, <2>2, <2>3
  <2>6. \A k \in (i + 2)..(Len(elem) + 3) : g[k] = s[k - 1]
    <3> HIDE DEF g, j, s, x
    <3> QED BY <2>1, <2>2, <2>3
  <2> HIDE DEF g, j
  <2> QED BY <2>4, <2>5, <2>6
<1>7. /\ new \in Seq(Elements) /\ Len(new) = Len(elem) + 1
      /\ \A k \in 1..(i - 1) : new[k] = elem[k]
      /\ new[i] = e
      /\ \A k \in (i + 1)..(Len(elem) + 1) : new[k] = elem[k - 1]
  <2> HIDE DEF g, mid, last
  <2> QED BY InsertElement, SMTT(30)
<1> HIDE DEF g, new
<1>8. /\ last \in [at : {ch.at}, room : {cap + 2}, node : Seq(NodeType)]
      /\ Len(last.node) = Len(elem) + 3
      /\ \A k \in 1..(i - 1) : last.node[k] = g[k]
      /\ \A k \in i..(Len(elem) + 3) :
           last.node[k] = [cell |-> g[k].cell,
                           next |-> IF k < Len(elem) + 3 THEN <<ch.at, k + 1>> ELSE g[k].next,
                           prev |-> IF k > 1 THEN <<ch.at, k - 1>> ELSE g[k].prev]
  <2>1. mid \in [at : Chains, room : {cap + 2}, node : Seq(NodeType)]
    BY <1>1, <1>6
  <2>2. Len(mid.node) = Len(elem) + 3 /\ i \in 1..(Len(mid.node) - 1) /\ Len(mid.node) > 2
    BY <1>6
  <2>3. mid.at = ch.at /\ mid.node = g
    OBVIOUS
  <2> HIDE DEF mid
  <2> QED BY <2>1, <2>2, <2>3, FixPrevNextLinks, SMTT(30)
<1> HIDE DEF mid, last
<1>9. ASSUME NEW k \in 2..(Len(elem) + 2) PROVE last.node[k] = NodeAt(ch.at, k, new[k - 1])
  <2>1. k < i => last.node[k] = ch.node[k] /\ new[k - 1] = elem[k - 1] /\ k \in 2..(Len(elem) + 1)
    BY <1>6, <1>7, <1>8
  <2>2. ASSUME ~(k < i)
        PROVE  last.node[k] = [cell |-> g[k].cell, next |-> <<ch.at, k + 1>>, prev |-> <<ch.at, k - 1>>]
    <3>1. k \in i..(Len(elem) + 3) /\ k < Len(elem) + 3 /\ k > 1
      BY <2>2
    <3> QED BY <1>8, <3>1
  <2>3. ~(k < i) => g[k].cell = <<ch.at, new[k - 1]>>
    <3>1. CASE k = i
      <4>1. k \in 1..i /\ k - 1 \in 1..(i - 1) /\ k \in 2..(Len(elem) + 1)
        BY <3>1
      <4>2. g[k] = ch.node[k] /\ new[k - 1] = elem[k - 1]
        BY <1>6, <1>7, <4>1
      <4>3. ch.node[k] = NodeAt(ch.at, k, elem[k - 1])
        BY <1>1, <4>1
      <4> QED BY <4>2, <4>3 DEF NodeAt
    <3>2. CASE k = i + 1
      BY <1>6, <1>7, <3>2 DEF NodeAt
    <3>3. CASE k > i + 1
      <4>1. g[k] = ch.node[k - 1] /\ k - 1 \in 2..(Len(elem) + 1)
        BY <1>6, <3>3
      <4>2. ch.node[k - 1] = NodeAt(ch.at, k - 1, elem[(k - 1) - 1])
        BY <1>1, <4>1
      <4>3. new[k - 1] = elem[(k - 1) - 1]
        BY <1>7, <3>3
      <4> QED BY <4>1, <4>2, <4>3 DEF NodeAt
    <3> QED BY <3>1, <3>2, <3>3
  <2>4. CASE k < i
    BY <1>1, <2>1, <2>4
  <2>5. CASE ~(k < i)
    BY <2>2, <2>3, <2>5 DEF NodeAt
  <2> QED BY <2>4, <2>5
<1>10. last.node[1] = [NoNode EXCEPT !.next = <<ch.at, 2>>]
  <2>1. g[1] = [NoNode EXCEPT !.next = <<ch.at, 2>>]
    BY <1>2, <1>6
  <2>2. CASE i = 1
    <3>1. last.node[1] = [cell |-> g[1].cell, next |-> <<ch.at, 2>>, prev |-> g[1].prev]
      BY <1>8, <2>2
    <3> QED BY <2>1, <3>1 DEF NoNode
  <2>3. CASE i # 1
    BY <1>8, <2>1, <2>3, SMTT(30)
  <2> QED BY <2>2, <2>3
<1>11. EndsBack(last, Len(elem) + 3)
  <2>1. g[Len(elem) + 3] = EndAt(ch, q)
    BY <1>3, <1>6
  <2>2. last.node[Len(elem) + 3] = [cell |-> g[Len(elem) + 3].cell, next |-> g[Len(elem) + 3].next, prev |-> <<ch.at, Len(elem) + 2>>]
    BY <1>8, SMTT(30)
  <2>3. last.node[Len(elem) + 3] = EndAt(last, Len(elem) + 2)
    <3>1. last.at = ch.at
      BY <1>8
    <3>2. g[Len(elem) + 3].cell = None /\ g[Len(elem) + 3].next = None
      BY <2>1 DEF EndAt, NoNode
    <3> QED BY <2>2, <3>1, <3>2 DEF EndAt, NoNode
  <2>4. Len(elem) + 2 \in Nat \ {0} /\ Len(elem) + 2 >= (Len(elem) + 3) - 1 /\ Len(elem) + 2 = (Len(elem) + 3) - 1
    OBVIOUS
  <2> QED BY <2>3, <2>4 DEF EndsBack
<1>12. last.at = ch.at /\ last \in [at : Chains, room : {cap + 2}, node : Seq(NodeType)]
  BY <1>1, <1>8
<1>13. Len(new) + 2 = Len(elem) + 3 /\ Len(new) + 1 = Len(elem) + 2
  BY <1>7
<1>14. Chained(last, new, cap)
  BY <1>8, <1>9, <1>10, <1>11, <1>12, <1>13 DEF Chained
<1> QED BY <1>4, <1>12, <1>14 DEF new

\* push_back() of the builder is an insertion in front of the end.
LEMMA PushBackInserts ==
  ASSUME NEW ch, NEW elem \in Seq(Elements), NEW cap \in Nat, Chained(ch, elem, cap),
         NEW spare, NEW e
  PROVE  ChainPushBack(ch, spare, e) = ChainInsert(ch, spare, Len(elem) + 1, e)
<1>1. Len(ch.node) = Len(elem) + 2
  BY DEF Chained
<1>2. Len(ch.node) = (Len(elem) + 1) + 1 /\ Len(ch.node) - 1 = Len(elem) + 1
  BY <1>1
<1> QED BY <1>2 DEF ChainPushBack, ChainInsert

\* erase() of the builder.
LEMMA ChainEraseIsChained ==
  ASSUME NEW ch, NEW elem \in Seq(Elements), NEW cap \in Nat, Chained(ch, elem, cap),
         NEW i \in 1..Len(elem)
  PROVE  /\ Chained(ChainErase(ch, i), RemoveAt(elem, i), cap)
         /\ ChainErase(ch, i).at = ch.at
<1> DEFINE new == RemoveAt(elem, i)
           g == RemoveAt(ch.node, i + 1)
           mid == [ch EXCEPT !.node = g]
           last == FixPrevNext(mid, i)
<1>1. /\ ch.at \in Chains /\ ch \in [at : Chains, room : {cap + 2}, node : Seq(NodeType)]
      /\ ch.node \in Seq(NodeType) /\ Len(ch.node) = Len(elem) + 2
      /\ \A k \in 2..(Len(elem) + 1) : ch.node[k] = NodeAt(ch.at, k, elem[k - 1])
      /\ ch.node[1] = [NoNode EXCEPT !.next = <<ch.at, 2>>]
  BY ChainedNodes DEF Chained
<1>2. PICK q \in Nat \ {0} :
        ch.node[Len(elem) + 2] = EndAt(ch, q) /\ q >= Len(elem) + 1
  BY DEF Chained, EndsBack
<1>3. ChainErase(ch, i) = last
  BY <1>1 DEF ChainErase, EraseNode
<1>4. /\ g \in Seq(NodeType) /\ Len(g) = Len(elem) + 1
      /\ \A k \in 1..(Len(elem) + 1) :
           g[k] = IF k < i + 1 THEN ch.node[k] ELSE ch.node[k + 1]
  <2> DEFINE j == i + 1
  <2>1. j \in 1..Len(ch.node) /\ g = RemoveAt(ch.node, j)
    BY <1>1
  <2>2. /\ RemoveAt(ch.node, j) \in Seq(NodeType)
        /\ Len(RemoveAt(ch.node, j)) = Len(ch.node) - 1
        /\ \A k \in 1..(Len(ch.node) - 1) :
             RemoveAt(ch.node, j)[k] = IF k < j THEN ch.node[k] ELSE ch.node[k + 1]
    <3> HIDE DEF j
    <3> QED BY <1>1, <2>1, RemoveNodeElement
  <2> HIDE DEF g
  <2> QED BY <1>1, <2>1, <2>2
<1>5. /\ new \in Seq(Elements) /\ Len(new) = Len(elem) - 1
      /\ \A k \in 1..(Len(elem) - 1) : new[k] = IF k < i THEN elem[k] ELSE elem[k + 1]
  BY RemoveElement
<1> HIDE DEF g, new
<1>6. /\ mid \in [at : Chains, room : {cap + 2}, node : Seq(NodeType)]
      /\ mid.at = ch.at /\ mid.node = g
  BY <1>1, <1>4
<1> HIDE DEF mid
<1>7. g[1] = [NoNode EXCEPT !.next = <<ch.at, 2>>]
  BY <1>1, <1>4
<1>8. g[Len(elem) + 1] = EndAt(ch, q)
  <2>1. Len(elem) + 1 \in 1..(Len(elem) + 1) /\ ~(Len(elem) + 1 < i + 1)
        /\ (Len(elem) + 1) + 1 = Len(elem) + 2
    OBVIOUS
  <2> QED BY <1>2, <1>4, <2>1
<1>9. ASSUME NEW k \in 2..Len(elem) PROVE g[k].cell = <<ch.at, new[k - 1]>>
  <2>1. CASE k < i + 1
    <3>1. g[k] = ch.node[k] /\ ch.node[k] = NodeAt(ch.at, k, elem[k - 1])
      BY <1>1, <1>4, <2>1
    <3>2. new[k - 1] = elem[k - 1]
      BY <1>5, <2>1
    <3> QED BY <3>1, <3>2 DEF NodeAt
  <2>2. CASE ~(k < i + 1)
    <3>1. k + 1 \in 2..(Len(elem) + 1) /\ g[k] = ch.node[k + 1] /\ (k + 1) - 1 = k
      BY <1>4, <2>2
    <3>2. ch.node[k + 1] = NodeAt(ch.at, k + 1, elem[k])
      BY <1>1, <3>1
    <3>3. k - 1 \in 1..(Len(elem) - 1) /\ ~(k - 1 < i) /\ (k - 1) + 1 = k
      BY <2>2
    <3>4. new[k - 1] = elem[k]
      BY <1>5, <3>3
    <3> QED BY <3>1, <3>2, <3>4 DEF NodeAt
  <2> QED BY <2>1, <2>2
<1>10. Len(new) + 2 = Len(elem) + 1 /\ Len(new) + 1 = Len(elem)
  BY <1>5
<1>11. CASE Len(elem) = 1
  <2>1. last = mid
    <3>1. Len(mid.node) = 2
      BY <1>4, <1>6, <1>11
    <3> QED BY <3>1 DEF FixPrevNext
  <2>2. \A k \in 2..Len(elem) : FALSE
    BY <1>11
  <2>3. EndsBack(mid, 2)
    <3>1. mid.node[2] = EndAt(mid, q) /\ q >= 2 - 1 /\ (2 > 2 => q = 2 - 1)
      BY <1>2, <1>6, <1>8, <1>11 DEF EndAt
    <3> QED BY <3>1 DEF EndsBack
  <2>4. Len(new) + 2 = 2 /\ Len(new) + 1 = 1 /\ Len(g) = 2
    BY <1>4, <1>10, <1>11
  <2>5. Chained(mid, new, cap)
    BY <1>6, <1>7, <2>3, <2>4 DEF Chained
  <2> QED BY <1>3, <1>6, <2>1, <2>5 DEF new
<1>12. CASE Len(elem) > 1
  <2>1. /\ last \in [at : {ch.at}, room : {cap + 2}, node : Seq(NodeType)]
        /\ Len(last.node) = Len(elem) + 1
        /\ \A k \in 1..(i - 1) : last.node[k] = g[k]
        /\ \A k \in i..(Len(elem) + 1) :
             last.node[k] = [cell |-> g[k].cell,
                             next |-> IF k < Len(elem) + 1 THEN <<ch.at, k + 1>> ELSE g[k].next,
                             prev |-> IF k > 1 THEN <<ch.at, k - 1>> ELSE g[k].prev]
    <3>1. Len(mid.node) = Len(elem) + 1
      BY <1>4, <1>6
    <3>2. Len(mid.node) > 2 /\ Len(mid.node) - 1 = Len(elem)
      BY <1>12, <3>1
    <3>3. i \in 1..(Len(mid.node) - 1)
      BY <3>2
    <3>4. last = FixPrevNext(mid, i)
      OBVIOUS
    <3> HIDE DEF last
    <3>5. /\ last \in [at : {mid.at}, room : {cap + 2}, node : Seq(NodeType)]
          /\ Len(last.node) = Len(mid.node)
          /\ \A k \in 1..(i - 1) : last.node[k] = mid.node[k]
          /\ \A k \in i..Len(mid.node) :
               last.node[k] = [cell |-> mid.node[k].cell,
                               next |-> IF k < Len(mid.node) THEN <<mid.at, k + 1>>
                                        ELSE mid.node[k].next,
                               prev |-> IF k > 1 THEN <<mid.at, k - 1>> ELSE mid.node[k].prev]
      BY <1>6, <3>2, <3>3, <3>4, FixPrevNextLinks
    <3> QED BY <1>6, <3>1, <3>5
  <2> HIDE DEF last
  <2>2. ASSUME NEW k \in 2..Len(elem) PROVE last.node[k] = NodeAt(ch.at, k, new[k - 1])
    <3>1. CASE k < i
      <4>1. k \in 1..(i - 1) /\ k \in 1..(Len(elem) + 1) /\ k < i + 1 /\ k \in 2..(Len(elem) + 1)
        BY <3>1
      <4>2. last.node[k] = g[k] /\ g[k] = ch.node[k] /\ ch.node[k] = NodeAt(ch.at, k, elem[k - 1])
        BY <1>1, <1>4, <2>1, <4>1
      <4>3. k - 1 \in 1..(Len(elem) - 1) /\ k - 1 < i
        BY <3>1
      <4>4. new[k - 1] = elem[k - 1]
        BY <1>5, <4>3
      <4> QED BY <4>2, <4>4
    <3>2. CASE ~(k < i)
      <4>1. k \in i..(Len(elem) + 1) /\ k < Len(elem) + 1 /\ k > 1
        BY <3>2
      <4>2. last.node[k] = [cell |-> g[k].cell, next |-> <<ch.at, k + 1>>, prev |-> <<ch.at, k - 1>>]
        BY <2>1, <4>1
      <4> QED BY <1>9, <4>2 DEF NodeAt
    <3> QED BY <3>1, <3>2
  <2>3. last.node[1] = [NoNode EXCEPT !.next = <<ch.at, 2>>]
    <3>1. CASE i = 1
      <4>1. 1 \in i..(Len(elem) + 1) /\ 1 < Len(elem) + 1 /\ ~(1 > 1) /\ 1 + 1 = 2
        BY <3>1
      <4>2. last.node[1] = [cell |-> g[1].cell, next |-> <<ch.at, 2>>, prev |-> g[1].prev]
        BY <2>1, <4>1
      <4> QED BY <1>7, <4>2 DEF NoNode
    <3>2. CASE i # 1
      BY <1>7, <2>1, <3>2
    <3> QED BY <3>1, <3>2
  <2>4. EndsBack(last, Len(elem) + 1)
    <3>1. Len(elem) + 1 \in i..(Len(elem) + 1) /\ ~(Len(elem) + 1 < Len(elem) + 1)
          /\ Len(elem) + 1 > 1 /\ (Len(elem) + 1) - 1 = Len(elem)
      OBVIOUS
    <3>2. last.node[Len(elem) + 1] = [cell |-> g[Len(elem) + 1].cell,
                                      next |-> g[Len(elem) + 1].next, prev |-> <<ch.at, Len(elem)>>]
      BY <2>1, <3>1
    <3>3. g[Len(elem) + 1].cell = None /\ g[Len(elem) + 1].next = None /\ last.at = ch.at
      BY <1>8, <2>1 DEF EndAt, NoNode
    <3>4. last.node[Len(elem) + 1] = EndAt(last, Len(elem))
      BY <3>2, <3>3, SMTT(30) DEF EndAt, NoNode
    <3>5. Len(elem) \in Nat \ {0} /\ Len(elem) >= (Len(elem) + 1) - 1
      OBVIOUS
    <3> QED BY <3>1, <3>4, <3>5 DEF EndsBack
  <2>5. last.at = ch.at /\ last \in [at : Chains, room : {cap + 2}, node : Seq(NodeType)]
    BY <1>1, <2>1
  <2>6. Chained(last, new, cap)
    BY <1>10, <2>1, <2>2, <2>3, <2>4, <2>5 DEF Chained
  <2> QED BY <1>3, <2>5, <2>6 DEF new
<1>13. Len(elem) = 1 \/ Len(elem) > 1
  <2> DEFINE m == Len(elem)
  <2>1. m \in Nat /\ m >= 1
    OBVIOUS
  <2> HIDE DEF m
  <2>2. m = 1 \/ m > 1
    BY <2>1
  <2> QED BY <2>2 DEF m
<1> QED BY <1>11, <1>12, <1>13

\* pop_back() of the builder erases the last element.
LEMMA PopBackErases ==
  ASSUME NEW ch, NEW elem \in Seq(Elements), NEW cap \in Nat, Chained(ch, elem, cap),
         elem # <<>>
  PROVE  ChainPopBack(ch) = ChainErase(ch, Len(elem))
<1>1. Len(ch.node) = Len(elem) + 2 /\ Len(elem) >= 1
  BY DEF Chained
<1>2. /\ ~(Len(ch.node) < 3) /\ ~(Len(elem) + 1 >= Len(ch.node))
      /\ Len(ch.node) - 1 = Len(elem) + 1 /\ Len(ch.node) - 2 = Len(elem)
  BY <1>1
<1> QED BY <1>2 DEF ChainPopBack, ChainErase

-----------------------------------------------------------------------------
(* What is allocated next exists *)

\* None is not the name of anything.
LEMMA NoneIsNoName ==
  /\ None \notin Elements /\ None \notin Chains /\ None \notin Buffers
  /\ None \notin Vectors /\ None \notin Iters /\ None \notin Cells
  /\ None \notin Addresses(Chains) /\ None \notin Addresses(Buffers)
BY VectorAssumption DEF Addresses

\* What there are finitely many of.
LEMMA Finite ==
  /\ IsFiniteSet(Vectors) /\ IsFiniteSet(Iters) /\ IsFiniteSet(Chains)
  /\ IsFiniteSet(Buffers) /\ IsFiniteSet(Elements)
  /\ Cardinality(Vectors) \in Nat /\ Cardinality(Iters) \in Nat
  /\ Cardinality(Chains) \in Nat /\ Cardinality(Buffers) \in Nat
BY VectorAssumption, FS_CardinalityType

\* A larger set has an element that a smaller one lacks.
LEMMA Outnumbered ==
  ASSUME NEW S, NEW T, IsFiniteSet(S), IsFiniteSet(T), Cardinality(T) < Cardinality(S)
  PROVE  \E x \in S : x \notin T
<1>1. Cardinality(S) \in Nat /\ Cardinality(T) \in Nat
  BY FS_CardinalityType
<1>2. S \subseteq T => Cardinality(S) <= Cardinality(T)
  BY FS_Subset
<1> QED BY <1>1, <1>2

\* A function has at most as many values as arguments.
LEMMA FewValues ==
  ASSUME NEW S, IsFiniteSet(S), NEW f, f \in [S -> Range(f)]
  PROVE  IsFiniteSet(Range(f)) /\ Cardinality(Range(f)) <= Cardinality(S)
<1>1. f \in Surjection(S, Range(f))
  BY DEF Surjection, Range
<1> QED BY <1>1, FS_Surjection

\* The union of two finite sets, counted.
LEMMA FewTogether ==
  ASSUME NEW S, NEW T, IsFiniteSet(S), IsFiniteSet(T)
  PROVE  /\ IsFiniteSet(S \cup T) /\ Cardinality(S \cup T) \in Nat
         /\ Cardinality(S) \in Nat /\ Cardinality(T) \in Nat
         /\ Cardinality(S \cup T) <= Cardinality(S) + Cardinality(T)
<1>1. IsFiniteSet(S \cap T)
  BY FS_Intersection
<1>2. /\ Cardinality(S \cap T) \in Nat /\ Cardinality(S) \in Nat /\ Cardinality(T) \in Nat
      /\ IsFiniteSet(S \cup T)
  BY <1>1, FS_CardinalityType, FS_Union
<1>3. Cardinality(S \cup T) = Cardinality(S) + Cardinality(T) - Cardinality(S \cap T)
  BY FS_Union
<1>4. Cardinality(S \cup T) \in Nat
  BY <1>2, FS_CardinalityType
<1> QED BY <1>2, <1>3, <1>4

\* The node n was made by the array c, and knows no other.
OfChain(n, c) == n \in NodeType /\ Known(n) \subseteq {c}

OneChain(n) == \E c \in Chains : OfChain(n, c)

\* There is an array of nodes that neither a vector nor an iterator knows.
LEMMA SpareChainExists ==
  ASSUME \A i \in Iters : OneChain(it[i]), OneChain(job.first), OneChain(job.last)
  PROVE  /\ SpareChain \in Chains
         /\ \A v \in Vectors : chain[v].at # SpareChain
         /\ \A i \in Iters : SpareChain \notin Known(it[i])
         /\ SpareChain \notin Known(job.first) \cup Known(job.last)
<1> DEFINE f == [v \in Vectors |-> chain[v].at]
           g == [i \in Iters |-> CHOOSE c \in Chains : OfChain(it[i], c)]
<1>1. PICK a \in Chains : Known(job.first) \subseteq {a}
  BY DEF OneChain, OfChain
<1>2. PICK b \in Chains : Known(job.last) \subseteq {b}
  BY DEF OneChain, OfChain
<1>3. IsFiniteSet(Range(f)) /\ Cardinality(Range(f)) <= Cardinality(Vectors)
  <2>1. f \in [Vectors -> Range(f)]
    BY DEF Range
  <2> HIDE DEF f
  <2> QED BY <2>1, Finite, FewValues
<1>4. IsFiniteSet(Range(g)) /\ Cardinality(Range(g)) <= Cardinality(Iters)
  <2>1. g \in [Iters -> Range(g)]
    BY DEF Range
  <2> HIDE DEF g
  <2> QED BY <2>1, Finite, FewValues
<1>5. \A i \in Iters : Known(it[i]) \subseteq {g[i]} /\ g[i] \in Range(g)
  BY DEF OneChain, OfChain, Range
<1>6. \A v \in Vectors : chain[v].at \in Range(f)
  BY DEF Range
<1> HIDE DEF f, g
<1> DEFINE S == Range(f) \cup Range(g)
           T == S \cup {a}
           U == T \cup {b}
<1>7. /\ IsFiniteSet({a}) /\ Cardinality({a}) = 1
      /\ IsFiniteSet({b}) /\ Cardinality({b}) = 1
  BY FS_Singleton
<1>8. /\ IsFiniteSet(S) /\ Cardinality(S) \in Nat
      /\ Cardinality(S) <= Cardinality(Vectors) + Cardinality(Iters)
  <2>1. /\ IsFiniteSet(S) /\ Cardinality(S) \in Nat
        /\ Cardinality(Range(f)) \in Nat /\ Cardinality(Range(g)) \in Nat
        /\ Cardinality(S) <= Cardinality(Range(f)) + Cardinality(Range(g))
    BY <1>3, <1>4, FewTogether
  <2> HIDE DEF S
  <2> QED BY <1>3, <1>4, <2>1, Finite
<1> HIDE DEF S
<1>9. IsFiniteSet(T) /\ Cardinality(T) \in Nat /\ Cardinality(T) <= Cardinality(S) + 1
  BY <1>7, <1>8, FewTogether
<1> HIDE DEF T
<1>10. IsFiniteSet(U) /\ Cardinality(U) \in Nat /\ Cardinality(U) <= Cardinality(T) + 1
  BY <1>7, <1>9, FewTogether
<1>11. Cardinality(U) < Cardinality(Chains)
  <2> HIDE DEF U
  <2> QED BY <1>8, <1>9, <1>10, Finite, VectorAssumption
<1>12. PICK c \in Chains : c \notin U
  <2> HIDE DEF U
  <2> QED BY <1>10, <1>11, Finite, Outnumbered
<1>13. /\ \A v \in Vectors : chain[v].at # c
       /\ \A i \in Iters : c \notin Known(it[i])
       /\ c \notin Known(job.first) \cup Known(job.last)
  BY <1>1, <1>2, <1>5, <1>6, <1>12 DEF S, T, U
<1> QED BY <1>13 DEF SpareChain

\* There is storage that no vector has and no valid iterator leads to.
LEMMA SpareBufferExists ==
  ASSUME \A v \in Vectors : store[v].buf = None \/ store[v].husk = None,
         it \in [Iters -> NodeType], loc \in [Cells -> Addresses(Buffers) \cup {None}]
  PROVE  /\ SpareBuffer \in Buffers
         /\ \A v \in Vectors : SpareBuffer \notin {store[v].buf, store[v].husk}
<1> DEFINE f == [v \in Vectors |-> IF store[v].buf = None THEN store[v].husk ELSE store[v].buf]
           g == [i \in Iters |-> loc[it[i].cell][1]]
           U == Range(f) \cup Range(g)
<1>1. IsFiniteSet(Range(f)) /\ Cardinality(Range(f)) <= Cardinality(Vectors)
  <2>1. f \in [Vectors -> Range(f)]
    BY DEF Range
  <2> HIDE DEF f
  <2> QED BY <2>1, Finite, FewValues
<1>2. IsFiniteSet(Range(g)) /\ Cardinality(Range(g)) <= Cardinality(Iters)
  <2>1. g \in [Iters -> Range(g)]
    BY DEF Range
  <2> HIDE DEF g
  <2> QED BY <2>1, Finite, FewValues
<1>3. \A b \in Buffers \ Range(f) : \A v \in Vectors : b \notin {store[v].buf, store[v].husk}
  BY NoneIsNoName DEF Range
<1>4. \A p \in HeldLocs : p[1] \in Range(g)
  BY DEF HeldLocs, Range
<1> HIDE DEF f, g
<1>5. /\ IsFiniteSet(U) /\ Cardinality(U) \in Nat
      /\ Cardinality(U) < Cardinality(Buffers)
  <2>1. /\ IsFiniteSet(U) /\ Cardinality(U) \in Nat
        /\ Cardinality(Range(f)) \in Nat /\ Cardinality(Range(g)) \in Nat
        /\ Cardinality(U) <= Cardinality(Range(f)) + Cardinality(Range(g))
    BY <1>1, <1>2, FewTogether
  <2> HIDE DEF U
  <2> QED BY <1>1, <1>2, <2>1, Finite, VectorAssumption
<1>6. PICK b \in Buffers : b \notin U
  <2> HIDE DEF U
  <2> QED BY <1>5, Finite, Outnumbered
<1>7. /\ \A v \in Vectors : b \notin {store[v].buf, store[v].husk}
      /\ \A p \in HeldLocs : p[1] # b
  BY <1>3, <1>4, <1>6
<1> QED BY <1>7 DEF SpareBuffer

\* Where there are n spare elements, Fresh(n) is a sequence of them.
LEMMA FreshExists ==
  ASSUME NEW n \in Nat, CanMake(n)
  PROVE  /\ Fresh(n) \in Seq(Elements) /\ Len(Fresh(n)) = n
         /\ Fresh(n) \in [1..n -> SpareElements] /\ IsInjective(Fresh(n))
<1>1. IsFiniteSet(SpareElements) /\ SpareElements \subseteq Elements
  <2>1. SpareElements \in SUBSET Elements
    BY DEF SpareElements
  <2> QED BY <2>1, Finite, FS_Subset
<1> DEFINE N == Cardinality(SpareElements)
<1>2. N \in Nat /\ n <= N /\ ExistsBijection(1..N, SpareElements)
  BY <1>1, FS_CardinalityType DEF CanMake
<1> HIDE DEF N
<1>3. PICK f \in [1..N -> SpareElements] : IsInjective(f)
  BY <1>2 DEF ExistsBijection, Bijection, Injection
<1> DEFINE s == [k \in 1..n |-> f[k]]
<1>4. s \in [1..n -> SpareElements] /\ IsInjective(s)
  BY <1>2, <1>3 DEF IsInjective
<1> HIDE DEF s
<1>5. Fresh(n) \in [1..n -> SpareElements] /\ IsInjective(Fresh(n))
  BY <1>4 DEF Fresh
<1>6. Fresh(n) \in [1..n -> Elements]
  BY <1>1, <1>5
<1> QED BY <1>5, <1>6

-----------------------------------------------------------------------------
(* Data, chain and cells change in place *)

\* What the cells hold.
LocType == [Cells -> Addresses(Buffers) \cup {None}]

\* The first element whose cell is moved along with the data.
FirstMoved(i, inc) == IF inc < 0 THEN i ELSE i + 1

\* The cells of the elements elem of the array at that are there or behind it,
\* and no others, are moved from what locs says to what after says.
CellsShifted(locs, after, at, elem, first, inc) ==
  /\ after \in LocType
  /\ \A x \in Cells : x[1] # at => after[x] = locs[x]
  /\ \A x \in Cells : after[x] # None => locs[x] # None
  /\ \A m \in 1..Len(elem) :
       /\ m < first => after[<<at, elem[m]>>] = locs[<<at, elem[m]>>]
       /\ m >= first => after[<<at, elem[m]>>] =
            <<locs[<<at, elem[m]>>][1], locs[<<at, elem[m]>>][2] + inc>>

\* fix_prev_next(pos, inc) after an insertion or erasure: the cells of the moved
\* elements follow them, all others stay.
LEMMA ShiftCellsShifts ==
  ASSUME NEW locs \in LocType, NEW ch, NEW elem \in Seq(Elements), NEW cap \in Nat,
         Chained(ch, elem, cap), IsInjective(elem), NEW i \in Nat \ {0}, NEW inc \in {1, -1},
         \A m \in 1..Len(elem) : m >= FirstMoved(i, inc) =>
           locs[<<ch.at, elem[m]>>] # None /\ locs[<<ch.at, elem[m]>>][2] + inc \in Nat \ {0}
  PROVE  CellsShifted(locs, ShiftCells(locs, ch, i, inc), ch.at, elem, FirstMoved(i, inc), inc)
<1> DEFINE cells == {ch.node[k].cell : k \in Moved(ch, i, inc)}
           Point(x) == IF x \in cells /\ locs[x] # None THEN <<locs[x][1], locs[x][2] + inc>>
                       ELSE locs[x]
<1> DEFINE first == FirstMoved(i, inc)
<1>0. first \in Nat /\ first = IF inc < 0 THEN i ELSE i + 1
  BY DEF FirstMoved
<1> HIDE DEF first
<1>01. \A m \in 1..Len(elem) : m >= first =>
         locs[<<ch.at, elem[m]>>] # None /\ locs[<<ch.at, elem[m]>>][2] + inc \in Nat \ {0}
  BY DEF first
<1>1. ShiftCells(locs, ch, i, inc) = [x \in Cells |-> Point(x)]
  BY DEF ShiftCells, LocType
<1>2. /\ ch.at \in Chains /\ Len(ch.node) = Len(elem) + 2
      /\ \A k \in 1..Len(elem) : ch.node[k + 1] = NodeAt(ch.at, k + 1, elem[k])
  BY ChainedNodes
<1>3. Moved(ch, i, inc) = {k \in 2..(Len(elem) + 1) : k > first}
  <2>1. Len(ch.node) - 1 = Len(elem) + 1
    BY <1>2
  <2>2. CASE inc = 1
    BY <1>0, <2>1, <2>2 DEF Moved
  <2>3. CASE inc = -1
    BY <1>0, <2>1, <2>3 DEF Moved
  <2> QED BY <2>2, <2>3
<1>4. ASSUME NEW x PROVE x \in cells <=> \E m \in 1..Len(elem) : m >= first /\ x = <<ch.at, elem[m]>>
  <2>1. ASSUME NEW k \in Moved(ch, i, inc), x = ch.node[k].cell
        PROVE  \E m \in 1..Len(elem) : m >= first /\ x = <<ch.at, elem[m]>>
    <3>1. k - 1 \in 1..Len(elem) /\ k - 1 >= first /\ (k - 1) + 1 = k
      BY <1>0, <1>3
    <3>2. ch.node[k] = NodeAt(ch.at, k, elem[k - 1])
      BY <1>2, <3>1
    <3>3. ch.node[k].cell = <<ch.at, elem[k - 1]>>
      BY <3>2 DEF NodeAt
    <3> QED BY <2>1, <3>1, <3>3
  <2>2. ASSUME NEW m \in 1..Len(elem), m >= first, x = <<ch.at, elem[m]>> PROVE x \in cells
    <3>1. m + 1 \in Moved(ch, i, inc)
      BY <1>0, <1>3, <2>2
    <3>2. ch.node[m + 1] = NodeAt(ch.at, m + 1, elem[m])
      BY <1>2
    <3>3. ch.node[m + 1].cell = x
      BY <2>2, <3>2 DEF NodeAt
    <3> QED BY <3>1, <3>3
  <2> QED BY <2>1, <2>2
<1> HIDE DEF cells
<1>5. \A m \in 1..Len(elem) : elem[m] \in Elements /\ <<ch.at, elem[m]>> \in Cells
  BY <1>2 DEF Cells
<1>6. ASSUME NEW x \in Cells PROVE Point(x) \in Addresses(Buffers) \cup {None}
  <2>1. locs[x] \in Addresses(Buffers) \cup {None}
    BY DEF LocType
  <2>2. CASE x \in cells /\ locs[x] # None
    <3>1. locs[x][2] + inc \in Nat \ {0}
      BY <1>01, <1>4, <2>2
    <3>2. locs[x][1] \in Buffers
      BY <2>1, <2>2 DEF Addresses
    <3>3. <<locs[x][1], locs[x][2] + inc>> \in Addresses(Buffers)
      BY <3>1, <3>2 DEF Addresses
    <3> QED BY <2>2, <3>3
  <2> QED BY <2>1, <2>2
<1>7. ASSUME NEW m \in 1..Len(elem)
      PROVE  /\ m < first => Point(<<ch.at, elem[m]>>) = locs[<<ch.at, elem[m]>>]
             /\ m >= first => Point(<<ch.at, elem[m]>>) =
                  <<locs[<<ch.at, elem[m]>>][1], locs[<<ch.at, elem[m]>>][2] + inc>>
  <2>1. CASE m < first
    <3>1. <<ch.at, elem[m]>> \notin cells
      <4> SUFFICES ASSUME NEW j \in 1..Len(elem), j >= first, <<ch.at, elem[m]>> = <<ch.at, elem[j]>>
                   PROVE  FALSE
        BY <1>4
      <4>1. elem[m] = elem[j] /\ m # j
        BY <1>0, <2>1
      <4> QED BY <4>1 DEF IsInjective
    <3> QED BY <1>0, <2>1, <3>1
  <2>2. CASE m >= first
    <3>1. <<ch.at, elem[m]>> \in cells /\ locs[<<ch.at, elem[m]>>] # None
      BY <1>01, <1>4, <2>2
    <3>2. ~(m < first)
      BY <1>0, <2>2
    <3> QED BY <3>1, <3>2
  <2> QED BY <1>0, <2>1, <2>2
<1>8. ASSUME NEW x \in Cells, x[1] # ch.at PROVE Point(x) = locs[x]
  BY <1>4, <1>8
<1>9. ASSUME NEW x \in Cells, Point(x) # None PROVE locs[x] # None
  BY <1>9
<1> HIDE DEF Point
<1>10. ShiftCells(locs, ch, i, inc) \in LocType
  BY <1>1, <1>6 DEF LocType
<1>11. \A x \in Cells : x[1] # ch.at => ShiftCells(locs, ch, i, inc)[x] = locs[x]
  BY <1>1, <1>8
<1>12. \A x \in Cells : ShiftCells(locs, ch, i, inc)[x] # None => locs[x] # None
  BY <1>1, <1>9
<1>13. ASSUME NEW m \in 1..Len(elem)
       PROVE  /\ m < first => ShiftCells(locs, ch, i, inc)[<<ch.at, elem[m]>>] = locs[<<ch.at, elem[m]>>]
              /\ m >= first => ShiftCells(locs, ch, i, inc)[<<ch.at, elem[m]>>] =
                   <<locs[<<ch.at, elem[m]>>][1], locs[<<ch.at, elem[m]>>][2] + inc>>
  <2>1. ShiftCells(locs, ch, i, inc)[<<ch.at, elem[m]>>] = Point(<<ch.at, elem[m]>>)
    BY <1>1, <1>5
  <2> QED BY <1>7, <2>1
<1> QED BY <1>10, <1>11, <1>12, <1>13 DEF first, CellsShifted

\* The cells of the array at lead to the elements elem in the storage buf, and
\* those that were null and the cells of other arrays are what locs says.
CellsLead(locs, after, at, elem, buf) ==
  /\ after \in LocType
  /\ \A x \in Cells : x[1] # at => after[x] = locs[x]
  /\ \A x \in Cells : after[x] # None => locs[x] # None
  /\ \A m \in 1..Len(elem) : after[<<at, elem[m]>>] = <<buf, m>>

\* They lead there, but from place k on inc elements too far to the front.
CellsLeadAround(locs, at, elem, buf, k, inc) ==
  /\ locs \in LocType
  /\ \A m \in 1..Len(elem) : /\ m < k => locs[<<at, elem[m]>>] = <<buf, m>>
                             /\ m >= k => locs[<<at, elem[m]>>] = <<buf, m - inc>>

\* fix_prev_next(pos, inc) mends this.
LEMMA CellsMove ==
  ASSUME NEW mid, NEW new, NEW t \in Seq(Elements), NEW cap \in Nat,
         Chained(new, t, cap), IsInjective(t), NEW buf \in Buffers, NEW k \in Nat \ {0},
         NEW inc \in {1, -1}, CellsLeadAround(mid, new.at, t, buf, FirstMoved(k, inc), inc)
  PROVE  CellsLead(mid, ShiftCells(mid, new, k, inc), new.at, t, buf)
<1> DEFINE after == ShiftCells(mid, new, k, inc)
<1>0. mid \in LocType
  BY DEF CellsLeadAround
<1>1. FirstMoved(k, inc) \in Nat /\ FirstMoved(k, inc) - inc \in Nat \ {0} /\ inc \in Int
  BY DEF FirstMoved
<1>2. ASSUME NEW m \in 1..Len(t), m >= FirstMoved(k, inc)
      PROVE  mid[<<new.at, t[m]>>] # None /\ mid[<<new.at, t[m]>>][2] + inc \in Nat \ {0}
  <2>1. mid[<<new.at, t[m]>>] = <<buf, m - inc>>
    BY <1>2 DEF CellsLeadAround
  <2>2. m - inc \in Nat \ {0} /\ (m - inc) + inc = m /\ m \in Nat \ {0}
    BY <1>1, <1>2
  <2>3. <<buf, m - inc>> # None
    BY <2>2, NoneIsNoName DEF Addresses
  <2> QED BY <2>1, <2>2, <2>3
<1>3. CellsShifted(mid, after, new.at, t, FirstMoved(k, inc), inc)
  BY <1>0, <1>1, <1>2, ShiftCellsShifts
<1> HIDE DEF after
<1>4. ASSUME NEW m \in 1..Len(t) PROVE after[<<new.at, t[m]>>] = <<buf, m>>
  <2>1. CASE m < FirstMoved(k, inc)
    BY <1>3, <2>1 DEF CellsShifted, CellsLeadAround
  <2>2. CASE ~(m < FirstMoved(k, inc))
    <3>0. m >= FirstMoved(k, inc)
      BY <1>1, <2>2
    <3>1. mid[<<new.at, t[m]>>] = <<buf, m - inc>>
      BY <3>0 DEF CellsLeadAround
    <3>2. after[<<new.at, t[m]>>] = <<mid[<<new.at, t[m]>>][1], mid[<<new.at, t[m]>>][2] + inc>>
      BY <1>3, <3>0 DEF CellsShifted
    <3>3. (m - inc) + inc = m
      BY <1>1
    <3> QED BY <3>1, <3>2, <3>3
  <2> QED BY <2>1, <2>2
<1> QED BY <1>3, <1>4 DEF CellsLead, CellsShifted, after

\* Elements, chain and cells change together, from the place k on, in the
\* array and the storage they are in; no cell is left valid but those of the
\* elements t.
InPlace(ch, elem, cap, buf, locs, new, t, after, k) ==
  /\ t \in Seq(Elements) /\ IsInjective(t) /\ Len(t) <= cap
  /\ k \in 1..(Len(t) + 1) /\ k \in 1..(Len(elem) + 1)
  /\ \A m \in 1..(k - 1) : t[m] = elem[m]
  /\ Chained(new, t, cap) /\ new.at = ch.at
  /\ after \in LocType
  /\ \A m \in 1..Len(t) : after[<<ch.at, t[m]>>] = <<buf, m>>
  /\ \A x \in Cells : x[1] # ch.at => after[x] = locs[x]
  /\ \A x \in Cells : /\ x[1] = ch.at /\ after[x] # None
                      /\ locs[x] # None => x[2] \in Range(elem)
                      => x[2] \in Range(t)

\* What InsertAt() returns.
Inserted(t, elem, k, e) ==
  /\ t \in Seq(Elements) /\ Len(t) = Len(elem) + 1 /\ t[k] = e
  /\ \A m \in 1..(k - 1) : t[m] = elem[m]
  /\ \A m \in (k + 1)..(Len(elem) + 1) : t[m] = elem[m - 1]
  /\ IsInjective(t) /\ Range(t) = Range(elem) \cup {e}

\* What InsertAt() returns is such a sequence.
LEMMA InsertionInserts ==
  ASSUME NEW elem \in Seq(Elements), NEW k \in 1..(Len(elem) + 1), NEW e \in Elements,
         IsInjective(elem), e \notin Range(elem)
  PROVE  Inserted(InsertAt(elem, k, e), elem, k, e)
<1>1. IsInjective(InsertAt(elem, k, e)) /\ Range(InsertAt(elem, k, e)) = Range(elem) \cup {e}
  BY InsertAtInjective
<1>2. /\ InsertAt(elem, k, e) \in Seq(Elements) /\ Len(InsertAt(elem, k, e)) = Len(elem) + 1
      /\ \A m \in 1..(k - 1) : InsertAt(elem, k, e)[m] = elem[m]
      /\ InsertAt(elem, k, e)[k] = e
      /\ \A m \in (k + 1)..(Len(elem) + 1) : InsertAt(elem, k, e)[m] = elem[m - 1]
  BY InsertElement
<1> QED BY <1>1, <1>2 DEF Inserted

\* The cells after the place of an insertion, before they are moved.
LEMMA CellsBeforeMoveUp ==
  ASSUME NEW elem \in Seq(Elements), NEW buf \in Buffers, NEW c \in Chains, NEW locs \in LocType,
         \A m \in 1..Len(elem) : locs[<<c, elem[m]>>] = <<buf, m>>,
         NEW e \in Elements, NEW k \in 1..(Len(elem) + 1), e \notin Range(elem),
         NEW t, Inserted(t, elem, k, e), NEW mid, mid = [locs EXCEPT ![<<c, e>>] = <<buf, k>>]
  PROVE  CellsLeadAround(mid, c, t, buf, k + 1, 1)
<1>1. mid \in LocType /\ mid[<<c, e>>] = <<buf, k>>
      /\ \A x \in Cells : x # <<c, e>> => mid[x] = locs[x]
  <2>1. <<c, e>> \in Cells /\ <<buf, k>> \in Addresses(Buffers)
    BY DEF Cells, Addresses
  <2> QED BY <2>1 DEF LocType
<1>2. ASSUME NEW j \in 1..Len(elem) PROVE mid[<<c, elem[j]>>] = <<buf, j>>
  <2>1. elem[j] \in Elements /\ elem[j] # e
    BY DEF Range
  <2>2. <<c, elem[j]>> \in Cells /\ <<c, elem[j]>> # <<c, e>>
    BY <2>1 DEF Cells
  <2> QED BY <1>1, <2>2
<1>3. ASSUME NEW m \in 1..Len(t)
      PROVE  /\ m < k + 1 => mid[<<c, t[m]>>] = <<buf, m>>
             /\ m >= k + 1 => mid[<<c, t[m]>>] = <<buf, m - 1>>
  <2>0. k \in Nat /\ m \in Nat
    OBVIOUS
  <2>1. CASE m = k
    <3>1. mid[<<c, t[m]>>] = <<buf, m>>
      BY <1>1, <2>1 DEF Inserted
    <3> QED BY <2>0, <2>1, <3>1
  <2>2. CASE m < k
    <3>1. m \in 1..(k - 1) /\ m \in 1..Len(elem)
      BY <2>2
    <3>2. t[m] = elem[m]
      BY <3>1 DEF Inserted
    <3>3. mid[<<c, t[m]>>] = <<buf, m>>
      BY <1>2, <3>1, <3>2
    <3>4. ~(m >= k + 1)
      BY <2>0, <2>2
    <3> QED BY <3>3, <3>4
  <2>3. CASE m > k
    <3>0. Len(t) = Len(elem) + 1
      BY DEF Inserted
    <3>1. m \in (k + 1)..(Len(elem) + 1) /\ m - 1 \in 1..Len(elem)
      BY <2>3, <3>0
    <3>2. t[m] = elem[m - 1]
      BY <3>1 DEF Inserted
    <3>3. mid[<<c, t[m]>>] = <<buf, m - 1>>
      BY <1>2, <3>1, <3>2
    <3>4. ~(m < k + 1)
      BY <2>0, <2>3
    <3> QED BY <3>3, <3>4
  <2>4. m = k \/ m < k \/ m > k
    BY <2>0
  <2> QED BY <2>1, <2>2, <2>3, <2>4
<1> QED BY <1>1, <1>3 DEF CellsLeadAround

\* An element is put into the data, and an iterator into the chain.
LEMMA InsertInPlace ==
  ASSUME NEW elem \in Seq(Elements), NEW cap \in Nat, NEW buf \in Buffers, NEW ch,
         NEW locs \in LocType, NEW spare,
         Len(elem) < cap, IsInjective(elem), Chained(ch, elem, cap),
         \A m \in 1..Len(elem) : locs[<<ch.at, elem[m]>>] = <<buf, m>>,
         NEW e \in Elements, NEW k \in 1..(Len(elem) + 1), e \notin Range(elem),
         NEW t, t = InsertAt(elem, k, e), NEW new, new = ChainInsert(ch, spare, k, e),
         NEW after, after = ShiftCells([locs EXCEPT ![<<new.at, e>>] = <<buf, k>>], new, k, 1)
  PROVE  InPlace(ch, elem, cap, buf, locs, new, t, after, k)
<1> DEFINE c == ch.at
           mid == [locs EXCEPT ![<<c, e>>] = <<buf, k>>]
<1>1. c \in Chains
  BY ChainedNodes
<1>2. Inserted(t, elem, k, e)
  BY InsertionInserts
<1>3. Chained(new, t, cap) /\ new.at = c
  BY ChainInsertIsChained
<1>4. after = ShiftCells(mid, new, k, 1)
  BY <1>3
<1> HIDE DEF mid, c
<1>5. \A m \in 1..Len(elem) : locs[<<c, elem[m]>>] = <<buf, m>>
  BY DEF c
<1>6. \A x \in Cells : x # <<c, e>> => mid[x] = locs[x]
  BY DEF mid, LocType
<1>7. CellsLeadAround(mid, c, t, buf, k + 1, 1)
  BY <1>1, <1>2, <1>5, CellsBeforeMoveUp DEF mid
<1>8. CellsLead(mid, after, c, t, buf)
  <2> DEFINE inc == 1
  <2>1. t \in Seq(Elements) /\ IsInjective(t) /\ k \in Nat \ {0}
    BY <1>2 DEF Inserted
  <2>2. FirstMoved(k, inc) = k + 1 /\ inc \in {1, -1}
    BY DEF FirstMoved
  <2>3. CellsLeadAround(mid, new.at, t, buf, FirstMoved(k, inc), inc) /\ after = ShiftCells(mid, new, k, inc)
    BY <1>3, <1>4, <1>7, <2>2
  <2> HIDE DEF inc
  <2>4. CellsLead(mid, ShiftCells(mid, new, k, inc), new.at, t, buf)
    BY <1>3, <2>1, <2>2, <2>3, CellsMove
  <2> QED BY <1>3, <2>3, <2>4
<1>9. ASSUME NEW x \in Cells, x[1] # c PROVE after[x] = locs[x]
  <2>1. x # <<c, e>>
    BY <1>9
  <2> QED BY <1>6, <1>8, <1>9, <2>1 DEF CellsLead
<1>10. ASSUME NEW x \in Cells, x[1] = c, after[x] # None,
              locs[x] # None => x[2] \in Range(elem)
       PROVE  x[2] \in Range(t)
  <2>1. Range(t) = Range(elem) \cup {e}
    BY <1>2 DEF Inserted
  <2>2. CASE x = <<c, e>>
    BY <2>1, <2>2
  <2>3. CASE x # <<c, e>>
    BY <1>6, <1>8, <1>10, <2>1, <2>3 DEF CellsLead
  <2> QED BY <2>2, <2>3
<1>11. k \in 1..(Len(t) + 1) /\ Len(t) <= cap
  BY <1>2 DEF Inserted
<1>12. after \in LocType /\ \A m \in 1..Len(t) : after[<<c, t[m]>>] = <<buf, m>>
  BY <1>8 DEF CellsLead
<1>13. t \in Seq(Elements) /\ IsInjective(t) /\ \A m \in 1..(k - 1) : t[m] = elem[m]
  BY <1>2 DEF Inserted
<1> QED BY <1>3, <1>9, <1>10, <1>11, <1>12, <1>13 DEF InPlace, c

\* What RemoveAt() returns.
Removed(t, elem, k) ==
  /\ t \in Seq(Elements) /\ Len(t) = Len(elem) - 1
  /\ \A m \in 1..(k - 1) : t[m] = elem[m]
  /\ \A m \in k..(Len(elem) - 1) : t[m] = elem[m + 1]
  /\ IsInjective(t) /\ Range(t) = Range(elem) \ {elem[k]}

\* What RemoveAt() returns is such a sequence.
LEMMA RemovalRemoves ==
  ASSUME NEW elem \in Seq(Elements), NEW k \in 1..Len(elem), IsInjective(elem)
  PROVE  Removed(RemoveAt(elem, k), elem, k)
<1> DEFINE t == RemoveAt(elem, k)
<1>1. IsInjective(t) /\ Range(t) = Range(elem) \ {elem[k]}
  BY RemoveAtInjective
<1>2. /\ t \in Seq(Elements) /\ Len(t) = Len(elem) - 1
      /\ \A m \in 1..(Len(elem) - 1) : t[m] = IF m < k THEN elem[m] ELSE elem[m + 1]
  BY RemoveElement
<1> HIDE DEF t
<1>3. ASSUME NEW m \in 1..(k - 1) PROVE t[m] = elem[m]
  <2>1. m \in 1..(Len(elem) - 1) /\ m < k
    OBVIOUS
  <2> QED BY <1>2, <2>1
<1>4. ASSUME NEW m \in k..(Len(elem) - 1) PROVE t[m] = elem[m + 1]
  <2>1. m \in 1..(Len(elem) - 1) /\ ~(m < k)
    OBVIOUS
  <2> QED BY <1>2, <2>1
<1> QED BY <1>1, <1>2, <1>3, <1>4 DEF Removed, t

\* The cells after the place of an erasure, before they are moved.
LEMMA CellsBeforeMoveDown ==
  ASSUME NEW elem \in Seq(Elements), NEW buf \in Buffers, NEW c \in Chains, NEW locs \in LocType,
         \A m \in 1..Len(elem) : locs[<<c, elem[m]>>] = <<buf, m>>, IsInjective(elem),
         NEW k \in 1..Len(elem), NEW t, Removed(t, elem, k),
         NEW mid, mid = [locs EXCEPT ![<<c, elem[k]>>] = None]
  PROVE  CellsLeadAround(mid, c, t, buf, k, -1)
<1>1. mid \in LocType /\ \A x \in Cells : x # <<c, elem[k]>> => mid[x] = locs[x]
  BY DEF LocType
<1>2. ASSUME NEW j \in 1..Len(elem), j # k PROVE mid[<<c, elem[j]>>] = <<buf, j>>
  <2>1. elem[j] \in Elements /\ elem[j] # elem[k]
    BY <1>2 DEF IsInjective
  <2>2. <<c, elem[j]>> \in Cells /\ <<c, elem[j]>> # <<c, elem[k]>>
    BY <2>1 DEF Cells
  <2> QED BY <1>1, <2>2
<1>3. ASSUME NEW m \in 1..Len(t)
      PROVE  /\ m < k => mid[<<c, t[m]>>] = <<buf, m>>
             /\ m >= k => mid[<<c, t[m]>>] = <<buf, m - (-1)>>
  <2>0. k \in Nat /\ m \in Nat /\ m - (-1) = m + 1 /\ Len(t) = Len(elem) - 1
    BY DEF Removed
  <2>1. CASE m < k
    <3>1. m \in 1..(k - 1) /\ m \in 1..Len(elem) /\ m # k
      BY <2>1
    <3>2. t[m] = elem[m]
      BY <3>1 DEF Removed
    <3>3. mid[<<c, t[m]>>] = <<buf, m>>
      BY <1>2, <3>1, <3>2
    <3>4. ~(m >= k)
      BY <2>0, <2>1
    <3> QED BY <3>3, <3>4
  <2>2. CASE ~(m < k)
    <3>1. m \in k..(Len(elem) - 1) /\ m + 1 \in 1..Len(elem) /\ m + 1 # k
      BY <2>0, <2>2
    <3>2. t[m] = elem[m + 1]
      BY <3>1 DEF Removed
    <3>3. mid[<<c, t[m]>>] = <<buf, m + 1>>
      BY <1>2, <3>1, <3>2
    <3> QED BY <2>0, <2>2, <3>3
  <2> QED BY <2>1, <2>2
<1> QED BY <1>1, <1>3 DEF CellsLeadAround

\* An element is taken out of the data, and its iterator out of the chain.
LEMMA EraseInPlace ==
  ASSUME NEW elem \in Seq(Elements), NEW cap \in Nat, NEW buf \in Buffers, NEW ch,
         NEW locs \in LocType,
         Len(elem) <= cap, IsInjective(elem), Chained(ch, elem, cap),
         \A m \in 1..Len(elem) : locs[<<ch.at, elem[m]>>] = <<buf, m>>,
         NEW k \in 1..Len(elem),
         NEW t, t = RemoveAt(elem, k), NEW new, new = ChainErase(ch, k),
         NEW after, after = ShiftCells([locs EXCEPT ![ch.node[k + 1].cell] = None], new, k, -1)
  PROVE  InPlace(ch, elem, cap, buf, locs, new, t, after, k)
<1> DEFINE c == ch.at
           mid == [locs EXCEPT ![<<c, elem[k]>>] = None]
<1>0. ch.node[k + 1] = NodeAt(c, k + 1, elem[k]) /\ c \in Chains
  BY ChainedNodes
<1>1. ch.node[k + 1].cell = <<c, elem[k]>> /\ c \in Chains
  BY <1>0 DEF NodeAt
<1>2. Removed(t, elem, k)
  BY RemovalRemoves
<1>3. Chained(new, t, cap) /\ new.at = c
  BY ChainEraseIsChained
<1>4. after = ShiftCells(mid, new, k, -1)
  BY <1>1
<1> HIDE DEF mid, c
<1>5. \A m \in 1..Len(elem) : locs[<<c, elem[m]>>] = <<buf, m>>
  BY DEF c
<1>6. (\A x \in Cells : x # <<c, elem[k]>> => mid[x] = locs[x]) /\ mid[<<c, elem[k]>>] = None
  <2>1. <<c, elem[k]>> \in Cells
    BY <1>1 DEF Cells
  <2> QED BY <2>1 DEF mid, LocType
<1>7. CellsLeadAround(mid, c, t, buf, k, -1)
  BY <1>1, <1>2, <1>5, CellsBeforeMoveDown DEF mid
<1>8. CellsLead(mid, after, c, t, buf)
  <2> DEFINE inc == -1
  <2>1. t \in Seq(Elements) /\ IsInjective(t) /\ k \in Nat \ {0}
    BY <1>2 DEF Removed
  <2>2. FirstMoved(k, inc) = k /\ inc \in {1, -1}
    BY DEF FirstMoved
  <2>3. CellsLeadAround(mid, new.at, t, buf, FirstMoved(k, inc), inc) /\ after = ShiftCells(mid, new, k, inc)
    BY <1>3, <1>4, <1>7, <2>2
  <2> HIDE DEF inc
  <2>4. CellsLead(mid, ShiftCells(mid, new, k, inc), new.at, t, buf)
    BY <1>3, <2>1, <2>2, <2>3, CellsMove
  <2> QED BY <1>3, <2>3, <2>4
<1>9. ASSUME NEW x \in Cells, x[1] # c PROVE after[x] = locs[x]
  <2>1. x # <<c, elem[k]>>
    BY <1>9
  <2> QED BY <1>6, <1>8, <1>9, <2>1 DEF CellsLead
<1>10. ASSUME NEW x \in Cells, x[1] = c, after[x] # None,
              locs[x] # None => x[2] \in Range(elem)
       PROVE  x[2] \in Range(t)
  <2>1. Range(t) = Range(elem) \ {elem[k]}
    BY <1>2 DEF Removed
  <2>2. mid[x] # None
    BY <1>8, <1>10 DEF CellsLead
  <2>3. x # <<c, elem[k]>>
    BY <1>6, <2>2
  <2>4. x[2] # elem[k]
    BY <1>10, <2>3 DEF Cells
  <2> QED BY <1>6, <1>10, <2>1, <2>2, <2>3, <2>4
<1>11. k \in 1..(Len(t) + 1) /\ k \in 1..(Len(elem) + 1) /\ Len(t) <= cap
  BY <1>2 DEF Removed
<1>12. after \in LocType /\ \A m \in 1..Len(t) : after[<<c, t[m]>>] = <<buf, m>>
  BY <1>8 DEF CellsLead
<1>13. t \in Seq(Elements) /\ IsInjective(t) /\ \A m \in 1..(k - 1) : t[m] = elem[m]
  BY <1>2 DEF Removed
<1> QED BY <1>3, <1>9, <1>10, <1>11, <1>12, <1>13 DEF InPlace, c

\* push_back() and pop_back() do not move a cell.
LEMMA NothingMoves ==
  ASSUME NEW locs \in LocType, NEW ch, NEW i, NEW inc, Moved(ch, i, inc) = {}
  PROVE  ShiftCells(locs, ch, i, inc) = locs
BY DEF ShiftCells, LocType

-----------------------------------------------------------------------------
(* The invariant *)

\* The types of a store and of a chain.
StoreType == [elem : Seq(Elements), cap : Nat, buf : Buffers \cup {None},
              mem : MemTypes, husk : Buffers \cup {None}]
ChainType == [at : Chains \cup {None}, room : Nat, node : Seq(NodeType)]

\* Different elements, within the capacity, and storage where there is any.
StoreSound(s) ==
  /\ s \in StoreType /\ Len(s.elem) <= s.cap /\ IsInjective(s.elem)
  /\ s.buf = None => s.cap = 0
  /\ s.buf # None => s.cap > 0 /\ s.husk = None

\* The cells of the elements hold their addresses.
Located(ch, s, locs) ==
  \A k \in 1..Len(s.elem) : locs[<<ch.at, s.elem[k]>>] = <<s.buf, k>>

\* ch is the chain of s.
Matched(ch, s, locs) ==
  \/ ch = NoChain /\ s = Vacant
  \/ Chained(ch, s.elem, s.cap) /\ Located(ch, s, locs)

\* No two vectors have a chain or storage in common.
Apart(stores, chains) ==
  \A v, w \in Vectors : v # w =>
    /\ chains[v].at # None => chains[v].at # chains[w].at
    /\ stores[v].buf # None => stores[v].buf # stores[w].buf

\* Data, chains and cells.
DataOK(stores, chains, locs) ==
  /\ stores \in [Vectors -> StoreType] /\ chains \in [Vectors -> ChainType] /\ locs \in LocType
  /\ \A v \in Vectors : StoreSound(stores[v]) /\ Matched(chains[v], stores[v], locs)
  /\ Apart(stores, chains)

\* They are in step in the current state.
DataInv == DataOK(store, chain, loc)

\* The iterator n leads to a cell that a vector keeps up to date, unless it is
\* lost, and is a node of a chain as long as it is steady.
Follows(n, b, stores, chains, locs) ==
  /\ b # "lost" /\ Valid(n, locs) =>
       \E v \in Vectors : n.cell[1] = chains[v].at /\ n.cell[2] \in Range(stores[v].elem)
  /\ b = "steady" /\ n # NoNode =>
       \E v \in Vectors : \E k \in 2..Len(chains[v].node) : n = chains[v].node[k]

\* The values of bond.
Bonds == {"steady", "loose", "lost"}

\* What the program holds.
HeldInv ==
  /\ it \in [Iters -> NodeType] /\ bond \in [Iters -> Bonds]
  /\ \A i \in Iters : OneChain(it[i]) /\ Follows(it[i], bond[i], store, chain, loc)

\* The values of fault.
Faults == {"none", "null", "assert", "shared block"}

\* The type of job.
JobType == [op : {"none", "insert", "erase", "grow", "shrink"},
            v : Vectors \cup {None}, m : MemTypes, j : Iters \cup {None},
            first : NodeType, last : NodeType, new : Seq(Elements),
            head : Elements \cup {None}, left : Nat, goal : Seq(Elements)]

\* The elements of job.new are different and not yet in a vector.
JobIsNew ==
  /\ IsInjective(job.new)
  /\ \A v \in Vectors : Range(job.new) \cap Range(store[v].elem) = {}

\* insert() of several has data to insert into, and the iterator it returns is
\* far enough behind the front to be moved back to the element it put first.
Position ==
  /\ store[job.v].buf # None /\ store[job.v].mem = job.m
  /\ \E k \in 2..(Len(store[job.v].elem) + 1) :
       k >= job.left + 2 - Len(job.new) /\ it[job.j] = chain[job.v].node[k]

\* The loop of a member function knows what is left to be done.
JobInv ==
  /\ job \in JobType /\ OneChain(job.first) /\ OneChain(job.last)
  /\ job.op = "none" => job = NoJob
  /\ job.op # "none" => job.v \in Vectors
  /\ job.op \in {"insert", "erase"} => job.j \in Iters
  /\ JobIsNew
  /\ job.op = "grow" => job.new # <<>>
  /\ job.op = "insert" /\ job.new = <<>> => job.left > 0
  /\ job.op = "insert" => Len(job.new) <= job.left + 1
  /\ job.op = "insert" /\ Len(job.new) < job.left + 1 => Position
  /\ job.op = "shrink" => job.left <= Len(store[job.v].elem)

\* The inductive invariant.
VInv == DataInv /\ HeldInv /\ JobInv /\ fault \in Faults

-----------------------------------------------------------------------------
(* What the invariant says of one vector *)

\* A vector that was moved from has no chain and no data.
LEMMA MatchedCases ==
  ASSUME NEW ch, NEW s, NEW locs, Matched(ch, s, locs), s \in StoreType
  PROVE  /\ ch.at = None => ch = NoChain /\ s = Vacant
         /\ ch.at # None => /\ ch.at \in Chains /\ Chained(ch, s.elem, s.cap)
                            /\ Located(ch, s, locs)
         /\ s.buf # None => ch.at # None
         /\ s.elem # <<>> => ch.at # None
<1>1. s.elem \in Seq(Elements) /\ s.cap \in Nat
  BY DEF StoreType
<1>2. CASE ch = NoChain /\ s = Vacant
  BY <1>2 DEF NoChain, Vacant
<1>3. CASE Chained(ch, s.elem, s.cap) /\ Located(ch, s, locs)
  <2>1. ch.at \in Chains
    BY <1>1, <1>3, ChainedNodes
  <2> QED BY <1>3, <2>1, NoneIsNoName
<1> QED BY <1>2, <1>3 DEF Matched

\* What the data of vectors and their chains have in common.
LEMMA VectorFactsOf ==
  ASSUME NEW stores, NEW chains, NEW locs, DataOK(stores, chains, locs), NEW v \in Vectors
  PROVE  /\ stores[v] \in StoreType /\ stores[v].elem \in Seq(Elements) /\ stores[v].cap \in Nat
         /\ stores[v].buf \in Buffers \cup {None} /\ stores[v].mem \in MemTypes
         /\ Len(stores[v].elem) <= stores[v].cap /\ IsInjective(stores[v].elem)
         /\ stores[v].buf = None => stores[v].cap = 0 /\ stores[v].elem = <<>>
         /\ stores[v].buf # None => stores[v].husk = None /\ chains[v].at # None
         /\ chains[v].at = None => chains[v] = NoChain /\ stores[v] = Vacant
         /\ chains[v].at # None =>
              /\ chains[v].at \in Chains
              /\ Chained(chains[v], stores[v].elem, stores[v].cap)
              /\ Located(chains[v], stores[v], locs)
<1>1. /\ stores[v] \in StoreType /\ StoreSound(stores[v]) /\ Matched(chains[v], stores[v], locs)
  BY DEF DataOK
<1>2. stores[v].buf = None => stores[v].elem = <<>>
  <2>1. stores[v].buf = None => Len(stores[v].elem) = 0
    BY <1>1 DEF StoreSound, StoreType
  <2> QED BY <1>1, <2>1, EmptySeq DEF StoreType
<1> QED BY <1>1, <1>2, MatchedCases DEF StoreSound, StoreType

\* The same in the current state.
LEMMA VectorFacts ==
  ASSUME DataInv, NEW v \in Vectors
  PROVE  /\ store[v] \in StoreType /\ store[v].elem \in Seq(Elements) /\ store[v].cap \in Nat
         /\ store[v].buf \in Buffers \cup {None} /\ store[v].mem \in MemTypes
         /\ Len(store[v].elem) <= store[v].cap /\ IsInjective(store[v].elem)
         /\ store[v].buf = None => store[v].cap = 0 /\ store[v].elem = <<>>
         /\ store[v].buf # None => store[v].husk = None /\ chain[v].at # None
         /\ chain[v].at = None => chain[v] = NoChain /\ store[v] = Vacant
         /\ chain[v].at # None =>
              /\ chain[v].at \in Chains
              /\ Chained(chain[v], store[v].elem, store[v].cap)
              /\ Located(chain[v], store[v], loc)
BY VectorFactsOf DEF DataInv

\* VInv implies what the runs check.
LEMMA VInvIsWellFormed == VInv => WellFormed
<1> SUFFICES ASSUME VInv PROVE WellFormed
  OBVIOUS
<1>1. TypeOK
  BY DEF VInv, DataInv, DataOK, HeldInv, JobInv, TypeOK, StoreType, ChainType, LocType, JobType, Faults, Bonds
<1>2. ASSUME NEW v \in Vectors, chain[v].at # None
      PROVE  LET s == store[v]
                 ch == chain[v]
                 n == Len(s.elem) + 2
             IN  /\ Len(ch.node) = n /\ ch.room = s.cap + 2
                 /\ \A k \in 2..(n - 1) :
                      /\ ch.node[k] = NodeAt(ch.at, k, s.elem[k - 1])
                      /\ loc[ch.node[k].cell] = <<s.buf, k - 1>>
                 /\ ch.node[1] = [NoNode EXCEPT !.next = <<ch.at, 2>>]
                 /\ ch.node[n].cell = None /\ ch.node[n].next = None
                 /\ n > 2 => ch.node[n].prev = <<ch.at, n - 1>>
  <2> DEFINE s == store[v]
             ch == chain[v]
             n == Len(s.elem) + 2
  <2>1. s.elem \in Seq(Elements) /\ s.cap \in Nat /\ Chained(ch, s.elem, s.cap) /\ Located(ch, s, loc)
    BY <1>2, VectorFacts DEF VInv
  <2> HIDE DEF s, ch
  <2>2. /\ Len(ch.node) = Len(s.elem) + 2 /\ ch.room = s.cap + 2
        /\ ch.node[1] = [NoNode EXCEPT !.next = <<ch.at, 2>>]
        /\ \A k \in 2..(Len(s.elem) + 1) : ch.node[k] = NodeAt(ch.at, k, s.elem[k - 1])
    BY <2>1 DEF Chained
  <2>3. ASSUME NEW k \in 2..(Len(s.elem) + 1) PROVE loc[ch.node[k].cell] = <<s.buf, k - 1>>
    <3>0. ch.node[k] = NodeAt(ch.at, k, s.elem[k - 1])
      BY <2>2
    <3>1. ch.node[k].cell = <<ch.at, s.elem[k - 1]>>
      BY <3>0 DEF NodeAt
    <3>2. k - 1 \in 1..Len(s.elem)
      BY <2>1
    <3> QED BY <2>1, <3>1, <3>2 DEF Located
  <2>4. PICK q \in Nat \ {0} : /\ ch.node[n] = EndAt(ch, q) /\ q >= n - 1
                               /\ n > 2 => q = n - 1
    BY <2>1 DEF Chained, EndsBack
  <2>5. ch.node[n].cell = None /\ ch.node[n].next = None /\ (n > 2 => ch.node[n].prev = <<ch.at, n - 1>>)
    BY <2>4 DEF EndAt, NoNode
  <2>6. n - 1 = Len(s.elem) + 1
    BY <2>1
  <2> QED BY <2>2, <2>3, <2>5, <2>6 DEF s, ch
<1>3. ChainMirrorsData
  BY <1>2, VectorFacts DEF VInv, ChainMirrorsData
<1> QED BY <1>1, <1>3 DEF WellFormed

\* What is held leads to elements that exist, and to nodes of chains.
LEMMA VInvFollows == VInv => HeldIteratorsFollow
<1> SUFFICES ASSUME VInv PROVE HeldIteratorsFollow
  OBVIOUS
<1>1. ASSUME NEW i \in Iters, bond[i] # "lost", Valid(it[i], loc) PROVE LeadsToItsElement(i)
  <2>1. it[i].cell \in Cells
    BY <1>1 DEF VInv, HeldInv, NodeType, Valid
  <2>2. PICK v \in Vectors : /\ it[i].cell[1] = chain[v].at
                            /\ it[i].cell[2] \in Range(store[v].elem)
    BY <1>1 DEF VInv, HeldInv, Follows
  <2>3. store[v].elem \in Seq(Elements) /\ store[v].elem # <<>>
    BY <2>2, VectorFacts DEF VInv, Range
  <2>4. PICK k \in 1..Len(store[v].elem) : it[i].cell[2] = store[v].elem[k]
    <3>1. DOMAIN store[v].elem = 1..Len(store[v].elem)
      BY <2>3
    <3> QED BY <2>2, <3>1 DEF Range
  <2>5. it[i].cell = <<chain[v].at, store[v].elem[k]>>
    BY <2>1, <2>2, <2>4 DEF Cells
  <2>6. chain[v].at # None /\ Located(chain[v], store[v], loc) /\ store[v].buf # None
    BY <2>3, VectorFacts DEF VInv
  <2>7. loc[it[i].cell] = <<store[v].buf, k>>
    BY <2>5, <2>6 DEF Located
  <2>8. Within(v, loc[it[i].cell]) /\ store[v].elem[loc[it[i].cell][2]] = it[i].cell[2]
    BY <1>1, <2>3, <2>4, <2>7 DEF Within, Valid
  <2> QED BY <2>8 DEF LeadsToItsElement
<1>2. ValidReachesOwnElement
  BY <1>1 DEF ValidReachesOwnElement, LeadsToItsElement
<1>3. ASSUME NEW i \in Iters, bond[i] = "steady", it[i] # NoNode
      PROVE  \E v \in Vectors : it[i] \in Range(chain[v].node)
  <2>1. PICK v \in Vectors : \E k \in 2..Len(chain[v].node) : it[i] = chain[v].node[k]
    BY <1>3 DEF VInv, HeldInv, Follows
  <2>2. chain[v].node \in Seq(NodeType)
    BY DEF VInv, DataInv, DataOK, ChainType
  <2>3. it[i] \in Range(chain[v].node)
    BY <2>1, <2>2 DEF Range
  <2> QED BY <2>3
<1> QED BY <1>2, <1>3 DEF HeldIteratorsFollow, SteadyIteratorsStay

-----------------------------------------------------------------------------
(* Steps that change one vector *)

\* What depends on the cells of a chain only, stays if they do.
LEMMA MatchedStays ==
  ASSUME NEW ch, NEW s, NEW old, NEW new, s \in StoreType, Matched(ch, s, old),
         \A x \in Cells : x[1] = ch.at => new[x] = old[x]
  PROVE  Matched(ch, s, new)
<1>1. CASE ch = NoChain /\ s = Vacant
  BY <1>1 DEF Matched
<1>2. CASE Chained(ch, s.elem, s.cap) /\ Located(ch, s, old)
  <2>1. s.elem \in Seq(Elements) /\ s.cap \in Nat
    BY DEF StoreType
  <2>2. ch.at \in Chains
    BY <1>2, <2>1, ChainedNodes
  <2>3. ASSUME NEW k \in 1..Len(s.elem) PROVE new[<<ch.at, s.elem[k]>>] = <<s.buf, k>>
    <3>1. s.elem[k] \in Elements
      BY <2>1
    <3>2. <<ch.at, s.elem[k]>> \in Cells /\ <<ch.at, s.elem[k]>>[1] = ch.at
      BY <2>2, <3>1 DEF Cells
    <3> QED BY <1>2, <3>2 DEF Located
  <2> QED BY <1>2, <2>3 DEF Matched, Located
<1> QED BY <1>1, <1>2 DEF Matched

\* A vector gets other data and a chain for them; the cells of the other
\* chains stay.
LEMMA OneVectorChanges ==
  ASSUME DataInv, NEW v \in Vectors, NEW s, NEW ch,
         store' = [store EXCEPT ![v] = s], chain' = [chain EXCEPT ![v] = ch],
         loc' \in LocType, StoreSound(s), Chained(ch, s.elem, s.cap), Located(ch, s, loc'),
         \A w \in Vectors : w # v => chain[w].at # ch.at,
         \A w \in Vectors : w # v => (s.buf # None => store[w].buf # s.buf),
         \A w \in Vectors : w # v => \A x \in Cells : x[1] = chain[w].at => loc'[x] = loc[x]
  PROVE  DataInv'
<1>1. s \in StoreType /\ s.elem \in Seq(Elements) /\ s.cap \in Nat
  BY DEF StoreSound, StoreType
<1>2. ch \in ChainType /\ ch.at \in Chains
  BY <1>1 DEF Chained, ChainType
<1>3. /\ store' \in [Vectors -> StoreType] /\ chain' \in [Vectors -> ChainType]
      /\ store'[v] = s /\ chain'[v] = ch
      /\ \A w \in Vectors \ {v} : store'[w] = store[w] /\ chain'[w] = chain[w]
  BY <1>1, <1>2 DEF DataInv, DataOK
<1>4. ASSUME NEW w \in Vectors
      PROVE  StoreSound(store'[w]) /\ Matched(chain'[w], store'[w], loc')
  <2>1. CASE w = v
    BY <1>3, <2>1 DEF Matched
  <2>2. CASE w # v
    <3>1. StoreSound(store[w]) /\ Matched(chain[w], store[w], loc) /\ store[w] \in StoreType
      BY DEF DataInv, DataOK
    <3>2. \A x \in Cells : x[1] = chain[w].at => loc'[x] = loc[x]
      BY <2>2
    <3>3. Matched(chain[w], store[w], loc')
      BY <3>1, <3>2, MatchedStays
    <3> QED BY <1>3, <2>2, <3>1, <3>3
  <2> QED BY <2>1, <2>2
<1>5. ch.at # None
  BY <1>2, NoneIsNoName
<1>6. Apart(store', chain')
  <2> SUFFICES ASSUME NEW a \in Vectors, NEW b \in Vectors, a # b
               PROVE  /\ chain'[a].at # None => chain'[a].at # chain'[b].at
                      /\ store'[a].buf # None => store'[a].buf # store'[b].buf
    BY DEF Apart
  <2>1. /\ chain[a].at # None => chain[a].at # chain[b].at
        /\ store[a].buf # None => store[a].buf # store[b].buf
    BY DEF DataInv, DataOK, Apart
  <2>2. CASE a = v
    BY <1>3, <1>5, <2>2
  <2>3. CASE b = v
    BY <1>3, <1>5, <2>3
  <2>4. CASE a # v /\ b # v
    BY <1>3, <2>1, <2>4
  <2> QED BY <2>2, <2>3, <2>4
<1> QED BY <1>3, <1>4, <1>6 DEF DataInv, DataOK

\* What is made next was not in use.
LEMMA Spares ==
  ASSUME VInv
  PROVE  /\ SpareChain \in Chains /\ \A v \in Vectors : chain[v].at # SpareChain
         /\ \A i \in Iters : SpareChain \notin Known(it[i])
         /\ SpareChain \notin Known(job.first) \cup Known(job.last)
         /\ SpareBuffer \in Buffers
         /\ \A v \in Vectors : SpareBuffer \notin {store[v].buf, store[v].husk}
<1>1. \A v \in Vectors : store[v].buf = None \/ store[v].husk = None
  BY DEF VInv, DataInv, DataOK, StoreSound
<1>2. it \in [Iters -> NodeType] /\ loc \in [Cells -> Addresses(Buffers) \cup {None}]
  BY DEF VInv, DataInv, DataOK, HeldInv, LocType
<1>3. (\A i \in Iters : OneChain(it[i])) /\ OneChain(job.first) /\ OneChain(job.last)
  BY DEF VInv, HeldInv, JobInv
<1> QED BY <1>1, <1>2, <1>3, SpareChainExists, SpareBufferExists

\* The cells of a new chain lead to the elements in turn.
LEMMA PointCellsPoints ==
  ASSUME NEW locs \in LocType, NEW c \in Chains, NEW elem \in Seq(Elements),
         NEW buf \in Buffers \cup {None}, IsInjective(elem), buf = None => elem = <<>>
  PROVE  /\ PointCells(locs, c, elem, buf) \in LocType
         /\ \A x \in Cells : x[1] # c => PointCells(locs, c, elem, buf)[x] = locs[x]
         /\ \A k \in 1..Len(elem) : PointCells(locs, c, elem, buf)[<<c, elem[k]>>] = <<buf, k>>
<1> DEFINE Index(x) == CHOOSE i \in DOMAIN elem : elem[i] = x[2]
           Point(x) == IF x[1] # c THEN locs[x]
                       ELSE IF \E i \in DOMAIN elem : elem[i] = x[2]
                       THEN <<buf, Index(x)>> ELSE None
<1>1. PointCells(locs, c, elem, buf) = [x \in Cells |-> Point(x)]
  BY DEF PointCells, LocType
<1>2. DOMAIN elem = 1..Len(elem)
  OBVIOUS
<1>3. ASSUME NEW x \in Cells PROVE Point(x) \in Addresses(Buffers) \cup {None}
  <2>1. CASE x[1] # c
    BY <2>1 DEF LocType
  <2>2. CASE x[1] = c /\ \E i \in DOMAIN elem : elem[i] = x[2]
    <3>1. Index(x) \in 1..Len(elem)
      BY <1>2, <2>2
    <3>2. elem # <<>>
      BY <1>2, <2>2
    <3> HIDE DEF Index
    <3>3. Point(x) = <<buf, Index(x)>> /\ buf \in Buffers /\ Index(x) \in Nat \ {0}
      BY <2>2, <3>1, <3>2
    <3> QED BY <3>3 DEF Addresses
  <2> QED BY <2>1, <2>2
<1>4. ASSUME NEW k \in 1..Len(elem) PROVE Point(<<c, elem[k]>>) = <<buf, k>>
  <2>1. k \in DOMAIN elem /\ elem[Index(<<c, elem[k]>>)] = elem[k]
        /\ Index(<<c, elem[k]>>) \in DOMAIN elem
    BY <1>2
  <2>2. Index(<<c, elem[k]>>) = k
    BY <2>1 DEF IsInjective
  <2> HIDE DEF Index
  <2> QED BY <2>1, <2>2
<1>5. \A k \in 1..Len(elem) : <<c, elem[k]>> \in Cells
  BY DEF Cells
<1> HIDE DEF Point
<1>6. PointCells(locs, c, elem, buf) \in LocType
  BY <1>1, <1>3 DEF LocType
<1>7. \A x \in Cells : x[1] # c => PointCells(locs, c, elem, buf)[x] = locs[x]
  BY <1>1 DEF Point
<1> QED BY <1>1, <1>4, <1>5, <1>6, <1>7

\* invalidate() reaches the cells of the chain and no others.
LEMMA InvalidateCellsReaches ==
  ASSUME NEW locs \in LocType, NEW ch, NEW s, Matched(ch, s, locs), s \in StoreType
  PROVE  /\ InvalidateCells(locs, ch) \in LocType
         /\ \A x \in Cells : x[1] # ch.at => InvalidateCells(locs, ch)[x] = locs[x]
         /\ \A k \in 1..Len(s.elem) : InvalidateCells(locs, ch)[<<ch.at, s.elem[k]>>] = None
         /\ \A x \in Cells : InvalidateCells(locs, ch)[x] \in {locs[x], None}
<1> DEFINE Hit(x) == \E k \in DOMAIN ch.node : ch.node[k].cell = x
<1>1. InvalidateCells(locs, ch) = [x \in Cells |-> IF Hit(x) THEN None ELSE locs[x]]
  BY DEF InvalidateCells, LocType
<1>2. s.elem \in Seq(Elements) /\ s.cap \in Nat
  BY DEF StoreType
<1>3. ASSUME NEW x \in Cells, x[1] # ch.at PROVE ~Hit(x)
  <2>1. CASE ch = NoChain /\ s = Vacant
    BY <2>1 DEF NoChain
  <2>2. CASE Chained(ch, s.elem, s.cap)
    <3> SUFFICES ASSUME NEW k \in DOMAIN ch.node, ch.node[k].cell = x PROVE FALSE
      OBVIOUS
    <3>1. /\ k \in 1..(Len(s.elem) + 2)
          /\ ch.node[1].cell = None /\ ch.node[Len(s.elem) + 2].cell = None
          /\ \A m \in 2..(Len(s.elem) + 1) : ch.node[m] = NodeAt(ch.at, m, s.elem[m - 1])
      BY <1>2, <2>2, ChainedNodes
    <3>2. k # 1 /\ k # Len(s.elem) + 2
      BY <3>1, NoneIsNoName
    <3>3. k \in 2..(Len(s.elem) + 1)
      BY <1>2, <3>1, <3>2
    <3>4. ch.node[k] = NodeAt(ch.at, k, s.elem[k - 1])
      BY <3>1, <3>3
    <3> QED BY <1>3, <3>4 DEF NodeAt
  <2> QED BY <2>1, <2>2 DEF Matched
<1>4. ASSUME NEW k \in 1..Len(s.elem) PROVE Hit(<<ch.at, s.elem[k]>>) /\ <<ch.at, s.elem[k]>> \in Cells
  <2>1. CASE ch = NoChain /\ s = Vacant
    BY <2>1 DEF Vacant
  <2>2. CASE Chained(ch, s.elem, s.cap)
    <3>0. /\ ch.at \in Chains /\ DOMAIN ch.node = 1..(Len(s.elem) + 2)
          /\ \A m \in 1..Len(s.elem) : ch.node[m + 1] = NodeAt(ch.at, m + 1, s.elem[m])
      BY <1>2, <2>2, ChainedNodes
    <3>1. /\ ch.at \in Chains /\ k + 1 \in DOMAIN ch.node
          /\ ch.node[k + 1] = NodeAt(ch.at, k + 1, s.elem[k])
      BY <1>2, <3>0
    <3>2. ch.node[k + 1].cell = <<ch.at, s.elem[k]>>
      BY <3>1 DEF NodeAt
    <3>3. s.elem[k] \in Elements
      BY <1>2
    <3> QED BY <3>1, <3>2, <3>3 DEF Cells
  <2> QED BY <2>1, <2>2 DEF Matched
<1> HIDE DEF Hit
<1> QED BY <1>1, <1>3, <1>4 DEF LocType

\* Every node of a chain knows that chain only, and all but the first lead
\* back to a slot that is not in front of the one before them.
LEMMA ChainedPrev ==
  ASSUME NEW ch, NEW elem \in Seq(Elements), NEW cap \in Nat, Chained(ch, elem, cap),
         NEW k \in 1..(Len(elem) + 2)
  PROVE  /\ OfChain(ch.node[k], ch.at) /\ OneChain(ch.node[k])
         /\ k >= 2 => OnChain(ch.node[k], ch) /\ ch.node[k].prev[2] + 1 >= k
<1>0. /\ ch.at \in Chains /\ ch.at # None /\ ch.node \in Seq(NodeType)
      /\ Len(ch.node) = Len(elem) + 2
  BY ChainedNodes, NoneIsNoName
<1>1. ch.at \in Chains /\ ch.at # None /\ ch.node[k] \in NodeType
  BY <1>0
<1>2. CASE k = 1
  <2>1. ch.node[k] = [cell |-> None, next |-> <<ch.at, 2>>, prev |-> None]
    BY <1>2 DEF Chained, NoNode
  <2>2. Known(ch.node[k]) \subseteq {ch.at}
    BY <2>1 DEF Known
  <2> QED BY <1>1, <1>2, <2>2 DEF OfChain, OneChain
<1>3. CASE k \in 2..(Len(elem) + 1)
  <2>1. ch.node[k] = NodeAt(ch.at, k, elem[k - 1])
    BY <1>3, ChainedNodes
  <2>2. Known(ch.node[k]) \subseteq {ch.at}
    BY <2>1 DEF Known, NodeAt
  <2>3. ch.node[k].prev = <<ch.at, k - 1>> /\ <<ch.at, k - 1>> # None
    BY <1>1, <1>3, <2>1, NoneIsNoName DEF NodeAt, Addresses
  <2>4. OnChain(ch.node[k], ch) /\ ch.node[k].prev[2] + 1 >= k
    BY <1>1, <2>3 DEF OnChain
  <2> QED BY <1>1, <2>2, <2>4 DEF OfChain, OneChain
<1>4. CASE k = Len(elem) + 2
  <2>1. PICK q \in Nat \ {0} : ch.node[k] = EndAt(ch, q) /\ q >= k - 1
    BY <1>4 DEF Chained, EndsBack
  <2>2. ch.node[k] = [cell |-> None, next |-> None, prev |-> <<ch.at, q>>]
    BY <2>1 DEF EndAt, NoNode
  <2>3. Known(ch.node[k]) \subseteq {ch.at}
    BY <2>2 DEF Known
  <2>4. ch.node[k].prev = <<ch.at, q>> /\ <<ch.at, q>> # None
    BY <1>1, <2>2, NoneIsNoName DEF Addresses
  <2>5. OnChain(ch.node[k], ch) /\ ch.node[k].prev[2] + 1 >= k
    BY <1>1, <2>1, <2>4 DEF OnChain
  <2> QED BY <1>1, <2>3, <2>5 DEF OfChain, OneChain
<1> QED BY <1>2, <1>3, <1>4

\* What a change at slot k and behind leaves of the bonds.
LEMMA LoosenFacts ==
  ASSUME bond \in [Iters -> Bonds], NEW ch, NEW k
  PROVE  /\ Loosen(ch, k) \in [Iters -> Bonds]
         /\ \A i \in Iters : Loosen(ch, k)[i] # "lost" => bond[i] # "lost"
         /\ \A i \in Iters : Loosen(ch, k)[i] = "steady" =>
              bond[i] = "steady" /\ ~(OnChain(it[i], ch) /\ it[i].prev[2] + 1 >= k)
<1> DEFINE behind(i) == OnChain(it[i], ch) /\ it[i].prev[2] + 1 >= k
<1>1. Loosen(ch, k) = [i \in Iters |-> IF bond[i] = "steady" /\ behind(i) THEN "loose" ELSE bond[i]]
  BY DEF Loosen
<1> HIDE DEF behind
<1>2. /\ Loosen(ch, k) \in [Iters -> Bonds]
      /\ \A i \in Iters : Loosen(ch, k)[i] # "lost" => bond[i] # "lost"
      /\ \A i \in Iters : Loosen(ch, k)[i] = "steady" => bond[i] = "steady" /\ ~behind(i)
  BY <1>1 DEF Bonds
<1> QED BY <1>2 DEF behind

\* What is held follows a change of one vector, from slot k on, that leaves no
\* cell of the vector valid but those of its elements.
LEMMA OneVectorFollows ==
  ASSUME VInv, NEW v \in Vectors, NEW i \in Iters, NEW k \in Nat, NEW b,
         b # "lost" => bond[i] # "lost",
         b = "steady" => bond[i] = "steady" /\ ~(OnChain(it[i], chain[v]) /\ it[i].prev[2] + 1 >= k),
         \A w \in Vectors : w # v => store'[w] = store[w] /\ chain'[w] = chain[w],
         b # "lost" /\ Valid(it[i], loc') =>
           \/ it[i].cell[1] = chain'[v].at /\ it[i].cell[2] \in Range(store'[v].elem)
           \/ Valid(it[i], loc) /\ it[i].cell[1] # chain[v].at,
         \A m \in 2..Len(chain[v].node) : m < k =>
           m \in 2..Len(chain'[v].node) /\ chain'[v].node[m] = chain[v].node[m]
  PROVE  Follows(it[i], b, store', chain', loc')
<1>0. Follows(it[i], bond[i], store, chain, loc)
  BY DEF VInv, HeldInv
<1>1. ASSUME b # "lost", Valid(it[i], loc')
      PROVE  \E w \in Vectors : it[i].cell[1] = chain'[w].at /\ it[i].cell[2] \in Range(store'[w].elem)
  <2>1. CASE it[i].cell[1] = chain'[v].at /\ it[i].cell[2] \in Range(store'[v].elem)
    BY <2>1
  <2>2. CASE Valid(it[i], loc) /\ it[i].cell[1] # chain[v].at
    <3>1. PICK w \in Vectors : it[i].cell[1] = chain[w].at /\ it[i].cell[2] \in Range(store[w].elem)
      BY <1>0, <1>1, <2>2 DEF Follows
    <3>2. w # v
      BY <2>2, <3>1
    <3> QED BY <3>1, <3>2
  <2> QED BY <1>1, <2>1, <2>2
<1>2. ASSUME b = "steady", it[i] # NoNode
      PROVE  \E w \in Vectors : \E m \in 2..Len(chain'[w].node) : it[i] = chain'[w].node[m]
  <2>1. PICK w \in Vectors : \E m \in 2..Len(chain[w].node) : it[i] = chain[w].node[m]
    BY <1>0, <1>2 DEF Follows
  <2>2. PICK m \in 2..Len(chain[w].node) : it[i] = chain[w].node[m]
    BY <2>1
  <2>3. CASE w = v
    <3>1. /\ store[v].elem \in Seq(Elements) /\ store[v].cap \in Nat
          /\ chain[v].node \in Seq(NodeType)
      BY VectorFacts DEF VInv, DataInv, DataOK, ChainType
    <3>2. chain[v].at # None
      <4>1. chain[v] # NoChain
        BY <2>2, <2>3 DEF NoChain
      <4> QED BY <4>1, VectorFacts DEF VInv
    <3>3. Chained(chain[v], store[v].elem, store[v].cap) /\ m \in 1..(Len(store[v].elem) + 2)
      <4>1. Chained(chain[v], store[v].elem, store[v].cap)
        BY <3>2, VectorFacts DEF VInv
      <4>2. Len(chain[v].node) = Len(store[v].elem) + 2
        BY <4>1 DEF Chained
      <4> QED BY <2>2, <2>3, <3>1, <4>1, <4>2
    <3>4. OnChain(it[i], chain[v]) /\ it[i].prev[2] + 1 >= m
      <4>1. m >= 2
        BY <3>1
      <4>2. OnChain(chain[v].node[m], chain[v]) /\ chain[v].node[m].prev[2] + 1 >= m
        BY <3>1, <3>3, <4>1, ChainedPrev
      <4> QED BY <2>2, <2>3, <4>2
    <3>5. it[i].prev[2] \in Nat
      BY <3>4 DEF VInv, HeldInv, OnChain, NodeType, Addresses
    <3>6. m < k
      BY <1>2, <3>4, <3>5
    <3> QED BY <2>2, <2>3, <3>6
  <2>4. CASE w # v
    BY <2>2, <2>4
  <2> QED BY <2>3, <2>4
<1> QED BY <1>1, <1>2 DEF Follows

\* One vector changes, from slot k of its chain on, and what is held follows.
OneChanges(v, k) ==
  /\ DataInv' /\ chain'[v].at # None
  /\ \A w \in Vectors : w # v => store'[w] = store[w] /\ chain'[w] = chain[w]
  /\ \A i \in Iters : Follows(it[i], Loosen(chain[v], k)[i], store', chain', loc')

\* _data becomes s, and the chain is made anew.
LEMMA RebuildKeeps ==
  ASSUME VInv, NEW v \in Vectors, NEW s, StoreSound(s),
         \A w \in Vectors : w # v => (s.buf # None => store[w].buf # s.buf),
         Rebuild(v, s)
  PROVE  OneChanges(v, 1) /\ store'[v] = s
<1> DEFINE c == SpareChain
           ch == NewChain(c, s.elem, s.cap)
           mid == InvalidateCells(loc, chain[v])
<1>1. /\ store' = [store EXCEPT ![v] = s] /\ chain' = [chain EXCEPT ![v] = ch]
      /\ loc' = PointCells(mid, c, s.elem, s.buf)
  BY DEF Rebuild
<1>2. /\ c \in Chains /\ c # None /\ \A w \in Vectors : chain[w].at # c
      /\ \A i \in Iters : c \notin Known(it[i])
  BY Spares, NoneIsNoName
<1>3. /\ s \in StoreType /\ s.elem \in Seq(Elements) /\ s.cap \in Nat /\ IsInjective(s.elem)
      /\ s.buf \in Buffers \cup {None} /\ (s.buf = None => s.elem = <<>>)
  <2>1. /\ s \in StoreType /\ s.elem \in Seq(Elements) /\ s.cap \in Nat /\ IsInjective(s.elem)
        /\ s.buf \in Buffers \cup {None}
    BY DEF StoreSound, StoreType
  <2>2. s.buf = None => Len(s.elem) = 0
    BY <2>1 DEF StoreSound
  <2> QED BY <2>1, <2>2, EmptySeq
<1>4. Chained(ch, s.elem, s.cap) /\ ch.at = c
  BY <1>2, <1>3, NewChainIsChained
<1>5. /\ loc \in LocType /\ store[v] \in StoreType /\ Matched(chain[v], store[v], loc)
      /\ store \in [Vectors -> StoreType] /\ chain \in [Vectors -> ChainType]
  BY DEF VInv, DataInv, DataOK
<1> HIDE DEF c, ch
<1>6. /\ mid \in LocType
      /\ \A x \in Cells : x[1] # chain[v].at => mid[x] = loc[x]
      /\ \A k \in 1..Len(store[v].elem) : mid[<<chain[v].at, store[v].elem[k]>>] = None
      /\ \A x \in Cells : mid[x] \in {loc[x], None}
  BY <1>5, InvalidateCellsReaches
<1> HIDE DEF mid
<1>7. /\ loc' \in LocType
      /\ \A x \in Cells : x[1] # c => loc'[x] = mid[x]
      /\ \A k \in 1..Len(s.elem) : loc'[<<c, s.elem[k]>>] = <<s.buf, k>>
  BY <1>1, <1>2, <1>3, <1>6, PointCellsPoints
<1>8. Located(ch, s, loc')
  BY <1>4, <1>7 DEF Located
<1>9. \A w \in Vectors : w # v => chain[w].at # ch.at
  BY <1>2, <1>4
<1>10. \A w \in Vectors : w # v => \A x \in Cells : x[1] = chain[w].at => loc'[x] = loc[x]
  <2> SUFFICES ASSUME NEW w \in Vectors, w # v, NEW x \in Cells, x[1] = chain[w].at
               PROVE  loc'[x] = loc[x]
    OBVIOUS
  <2>1. x[1] \in Chains
    BY DEF Cells
  <2>2. chain[w].at # chain[v].at
    BY <2>1, NoneIsNoName DEF VInv, DataInv, DataOK, Apart
  <2> QED BY <1>2, <1>6, <1>7, <2>2
<1>11. DataInv'
  BY <1>1, <1>4, <1>7, <1>8, <1>9, <1>10, OneVectorChanges DEF VInv
<1>12. /\ store'[v] = s /\ chain'[v] = ch
       /\ \A w \in Vectors : w # v => store'[w] = store[w] /\ chain'[w] = chain[w]
  BY <1>1, <1>5
<1>13. ASSUME NEW i \in Iters
       PROVE  Follows(it[i], Loosen(chain[v], 1)[i], store', chain', loc')
  <2>1. it[i] \in NodeType /\ bond \in [Iters -> Bonds]
    BY DEF VInv, HeldInv
  <2>2. /\ Loosen(chain[v], 1)[i] # "lost" => bond[i] # "lost"
        /\ Loosen(chain[v], 1)[i] = "steady" =>
             bond[i] = "steady" /\ ~(OnChain(it[i], chain[v]) /\ it[i].prev[2] + 1 >= 1)
    BY <2>1, LoosenFacts
  <2>3. Follows(it[i], bond[i], store, chain, loc)
    BY DEF VInv, HeldInv
  <2>4. ASSUME Loosen(chain[v], 1)[i] # "lost", Valid(it[i], loc')
        PROVE  Valid(it[i], loc) /\ it[i].cell[1] # chain[v].at
    <3>1. it[i].cell \in Cells /\ it[i].cell[1] # c
      BY <1>2, <2>1, <2>4 DEF Valid, NodeType, Known
    <3>2. mid[it[i].cell] # None /\ Valid(it[i], loc)
      BY <1>6, <1>7, <2>4, <3>1 DEF Valid
    <3>3. ASSUME it[i].cell[1] = chain[v].at PROVE FALSE
      <4>1. PICK w \in Vectors : it[i].cell[1] = chain[w].at /\ it[i].cell[2] \in Range(store[w].elem)
        BY <2>2, <2>3, <2>4, <3>2 DEF Follows
      <4>2. chain[w].at \in Chains
        BY <3>1, <4>1 DEF Cells
      <4>3. w = v
        BY <3>3, <4>1, <4>2, NoneIsNoName DEF VInv, DataInv, DataOK, Apart
      <4>4. PICK k \in 1..Len(store[v].elem) : it[i].cell[2] = store[v].elem[k]
        <5>1. store[v].elem \in Seq(Elements)
          BY <1>5 DEF StoreType
        <5>2. it[i].cell[2] \in Range(store[v].elem) /\ DOMAIN store[v].elem = 1..Len(store[v].elem)
          BY <4>1, <4>3, <5>1
        <5> QED BY <5>2 DEF Range
      <4>5. it[i].cell = <<chain[v].at, store[v].elem[k]>>
        BY <3>1, <3>3, <4>4 DEF Cells
      <4> QED BY <1>6, <3>2, <4>5
    <3> QED BY <3>2, <3>3
  <2>5. \A m \in 2..Len(chain[v].node) : m < 1 =>
          m \in 2..Len(chain'[v].node) /\ chain'[v].node[m] = chain[v].node[m]
    <3> SUFFICES ASSUME NEW m \in 2..Len(chain[v].node) PROVE ~(m < 1)
      OBVIOUS
    <3>1. chain[v].node \in Seq(NodeType)
      BY <1>5 DEF ChainType
    <3> QED BY <3>1
  <2> DEFINE b == Loosen(chain[v], 1)[i]
  <2>6. /\ b # "lost" => bond[i] # "lost"
        /\ b = "steady" => bond[i] = "steady" /\ ~(OnChain(it[i], chain[v]) /\ it[i].prev[2] + 1 >= 1)
        /\ b # "lost" /\ Valid(it[i], loc') => Valid(it[i], loc) /\ it[i].cell[1] # chain[v].at
    BY <2>2, <2>4
  <2> HIDE DEF b
  <2>7. Follows(it[i], b, store', chain', loc')
    BY <1>12, <2>5, <2>6, OneVectorFollows
  <2> QED BY <2>7 DEF b
<1>14. chain'[v].at # None
  BY <1>2, <1>4, <1>12
<1> QED BY <1>11, <1>12, <1>13, <1>14 DEF OneChanges

\* A change in place keeps data, chains and what is held in step.
LEMMA InPlaceKeeps ==
  ASSUME VInv, NEW v \in Vectors, store[v].buf # None,
         NEW new, NEW t, NEW after, NEW k,
         InPlace(chain[v], store[v].elem, store[v].cap, store[v].buf, loc, new, t, after, k),
         store' = [store EXCEPT ![v] = [store[v] EXCEPT !.elem = t]],
         chain' = [chain EXCEPT ![v] = new], loc' = after
  PROVE  OneChanges(v, k + 1) /\ store'[v] = [store[v] EXCEPT !.elem = t]
<1> DEFINE s == store[v]
           ch == chain[v]
           r == [s EXCEPT !.elem = t]
<1>1. /\ s \in StoreType /\ s.elem \in Seq(Elements) /\ s.cap \in Nat /\ s.husk = None
      /\ s.buf \in Buffers \cup {None} /\ s.buf # None /\ StoreSound(s)
      /\ ch.at \in Chains /\ ch.at # None /\ Chained(ch, s.elem, s.cap)
  BY VectorFacts, NoneIsNoName DEF VInv, DataInv, DataOK
<1>2. /\ loc \in LocType /\ store \in [Vectors -> StoreType] /\ chain \in [Vectors -> ChainType]
      /\ it \in [Iters -> NodeType] /\ bond \in [Iters -> Bonds]
  BY DEF VInv, DataInv, DataOK, HeldInv
<1> HIDE DEF s, ch
<1>3. InPlace(ch, s.elem, s.cap, s.buf, loc, new, t, after, k)
  BY DEF s, ch
<1>4. /\ t \in Seq(Elements) /\ IsInjective(t) /\ Len(t) <= s.cap
      /\ k \in 1..(Len(t) + 1) /\ k \in 1..(Len(s.elem) + 1)
      /\ \A m \in 1..(k - 1) : t[m] = s.elem[m]
      /\ Chained(new, t, s.cap) /\ new.at = ch.at
  BY <1>3 DEF InPlace
<1>5. /\ after \in LocType
      /\ \A m \in 1..Len(t) : after[<<ch.at, t[m]>>] = <<s.buf, m>>
      /\ \A x \in Cells : x[1] # ch.at => after[x] = loc[x]
  BY <1>3 DEF InPlace
<1>6. \A x \in Cells : /\ x[1] = ch.at /\ after[x] # None
                       /\ loc[x] # None => x[2] \in Range(s.elem)
                       => x[2] \in Range(t)
  BY <1>3 DEF InPlace
<1>7. /\ r \in StoreType /\ r.elem = t /\ r.cap = s.cap /\ r.buf = s.buf /\ r.husk = s.husk
  BY <1>1, <1>4 DEF StoreType
<1>8. StoreSound(r)
  BY <1>1, <1>4, <1>7 DEF StoreSound
<1>9. store' = [store EXCEPT ![v] = r] /\ chain' = [chain EXCEPT ![v] = new] /\ loc' = after
  BY DEF s
<1> HIDE DEF r
<1>10. /\ store'[v] = r /\ chain'[v] = new
       /\ \A w \in Vectors : w # v => store'[w] = store[w] /\ chain'[w] = chain[w]
  BY <1>2, <1>9
<1>11. ASSUME NEW w \in Vectors, w # v PROVE chain[w].at # ch.at /\ store[w].buf # s.buf
  BY <1>1, <1>11 DEF VInv, DataInv, DataOK, Apart, s, ch
<1>12. ASSUME NEW w \in Vectors, w # v, NEW x \in Cells, x[1] = chain[w].at PROVE after[x] = loc[x]
  BY <1>5, <1>11, <1>12
<1>13. Chained(new, r.elem, r.cap) /\ Located(new, r, after)
  BY <1>4, <1>5, <1>7 DEF Located
<1>14. DataInv'
  <2>1. \A w \in Vectors : w # v => chain[w].at # new.at
    BY <1>4, <1>11
  <2>2. \A w \in Vectors : w # v => (r.buf # None => store[w].buf # r.buf)
    BY <1>7, <1>11
  <2>3. \A w \in Vectors : w # v => \A x \in Cells : x[1] = chain[w].at => loc'[x] = loc[x]
    BY <1>9, <1>12
  <2>4. loc' \in LocType /\ Located(new, r, loc') /\ DataInv
    BY <1>5, <1>9, <1>13 DEF VInv
  <2> QED BY <1>8, <1>9, <1>13, <2>1, <2>2, <2>3, <2>4, OneVectorChanges, ZenonT(30)
<1>15. ASSUME NEW i \in Iters
       PROVE  Follows(it[i], Loosen(chain[v], k + 1)[i], store', chain', loc')
  <2> DEFINE b == Loosen(chain[v], k + 1)[i]
  <2>0. it[i] \in NodeType /\ Follows(it[i], bond[i], store, chain, loc) /\ k + 1 \in Nat
    BY <1>2, <1>4 DEF VInv, HeldInv
  <2>1. /\ b # "lost" => bond[i] # "lost"
        /\ b = "steady" =>
             bond[i] = "steady" /\ ~(OnChain(it[i], chain[v]) /\ it[i].prev[2] + 1 >= k + 1)
    BY <1>2, LoosenFacts
  <2> HIDE DEF b
  <2>2. ASSUME b # "lost", Valid(it[i], loc')
        PROVE  \/ it[i].cell[1] = chain'[v].at /\ it[i].cell[2] \in Range(store'[v].elem)
               \/ Valid(it[i], loc) /\ it[i].cell[1] # chain[v].at
    <3>1. it[i].cell \in Cells /\ it[i].cell # None /\ after[it[i].cell] # None
      BY <1>9, <2>0, <2>2 DEF Valid, NodeType
    <3>2. CASE it[i].cell[1] # ch.at
      BY <1>5, <3>1, <3>2 DEF Valid, ch
    <3>3. CASE it[i].cell[1] = ch.at
      <4>1. ASSUME loc[it[i].cell] # None PROVE it[i].cell[2] \in Range(s.elem)
        <5>1. PICK w \in Vectors : it[i].cell[1] = chain[w].at /\ it[i].cell[2] \in Range(store[w].elem)
          BY <2>0, <2>1, <2>2, <3>1, <4>1 DEF Follows, Valid
        <5>2. w = v
          BY <1>11, <3>3, <5>1
        <5> QED BY <5>1, <5>2 DEF s
      <4>2. it[i].cell[2] \in Range(t)
        BY <1>6, <3>1, <3>3, <4>1
      <4> QED BY <1>4, <1>7, <1>10, <3>3, <4>2
    <3> QED BY <3>2, <3>3
  <2>3. ASSUME NEW m \in 2..Len(chain[v].node), m < k + 1
        PROVE  m \in 2..Len(chain'[v].node) /\ chain'[v].node[m] = chain[v].node[m]
    <3>1. Len(ch.node) = Len(s.elem) + 2
      BY <1>1 DEF Chained
    <3>2. Len(new.node) = Len(t) + 2
      BY <1>4 DEF Chained
    <3>3. /\ m \in 2..(Len(s.elem) + 1) /\ m \in 2..(Len(t) + 1) /\ m \in 2..(Len(t) + 2)
          /\ m - 1 \in 1..(k - 1)
      BY <1>4, <2>3
    <3>4. ch.node[m] = NodeAt(ch.at, m, s.elem[m - 1])
      BY <1>1, <3>3 DEF Chained
    <3>5. new.node[m] = NodeAt(new.at, m, t[m - 1])
      BY <1>4, <3>3 DEF Chained
    <3>6. new.node[m] = ch.node[m]
      BY <1>4, <3>3, <3>4, <3>5
    <3> QED BY <1>10, <3>2, <3>3, <3>6 DEF ch
  <2>4. Follows(it[i], b, store', chain', loc')
    BY <1>10, <2>0, <2>1, <2>2, <2>3, OneVectorFollows
  <2> QED BY <2>4 DEF b
<1> QED BY <1>1, <1>4, <1>10, <1>14, <1>15 DEF OneChanges, r, s, ch

\* The nodes of the chains behind their front.
NodeOf(n, chains) == \E v \in Vectors : \E k \in 2..Len(chains[v].node) : n = chains[v].node[k]

\* They may be held as steady iterators.
LEMMA NodesFollow ==
  ASSUME NEW stores, NEW chains, NEW locs, DataOK(stores, chains, locs), NEW n, NodeOf(n, chains)
  PROVE  n \in NodeType /\ OneChain(n) /\ Follows(n, "steady", stores, chains, locs)
<1>1. PICK v \in Vectors : \E k \in 2..Len(chains[v].node) : n = chains[v].node[k]
  BY DEF NodeOf
<1>2. PICK k \in 2..Len(chains[v].node) : n = chains[v].node[k]
  BY <1>1
<1> DEFINE elem == stores[v].elem
           cap == stores[v].cap
           ch == chains[v]
<1>3. elem \in Seq(Elements) /\ cap \in Nat /\ ch.node # <<>>
  BY <1>2, VectorFactsOf
<1>4. Chained(ch, elem, cap)
  BY <1>3, VectorFactsOf DEF NoChain
<1> HIDE DEF elem, cap, ch
<1>5. /\ ch.at \in Chains /\ Len(ch.node) = Len(elem) + 2 /\ ch.node \in Seq(NodeType)
  BY <1>3, <1>4, ChainedNodes
<1>6. k \in 2..(Len(elem) + 2) /\ n = ch.node[k] /\ k \in 1..(Len(elem) + 2)
  BY <1>2, <1>3, <1>5 DEF ch
<1>7. n \in NodeType /\ OneChain(n)
  <2>1. ch.node[k] \in NodeType
    BY <1>5, <1>6
  <2>2. OneChain(ch.node[k])
    BY <1>3, <1>4, <1>6, ChainedPrev
  <2> QED BY <1>6, <2>1, <2>2
<1>8. ASSUME n.cell # None
      PROVE  n.cell[1] = chains[v].at /\ n.cell[2] \in Range(stores[v].elem)
  <2>1. k # Len(elem) + 2
    BY <1>3, <1>4, <1>6, <1>8, ChainedNodes
  <2>2. k \in 2..(Len(elem) + 1) /\ k - 1 \in 1..Len(elem)
    BY <1>3, <1>6, <2>1
  <2>3. n = NodeAt(ch.at, k, elem[k - 1])
    BY <1>4, <1>6, <2>2 DEF Chained
  <2>4. n.cell[1] = ch.at /\ n.cell[2] = elem[k - 1]
    BY <2>3 DEF NodeAt
  <2>5. elem[k - 1] \in Range(elem)
    BY <1>3, <2>2 DEF Range
  <2> QED BY <2>4, <2>5 DEF ch, elem
<1> QED BY <1>7, <1>8, <1>1 DEF Follows, Valid

\* An iterator without an array follows everything.
LEMMA NoNodeFollows ==
  ASSUME NEW b, NEW stores, NEW chains, NEW locs
  PROVE  NoNode \in NodeType /\ OneChain(NoNode) /\ Follows(NoNode, b, stores, chains, locs)
<1>1. Chains # {}
  <2>1. IsFiniteSet(Chains) /\ Cardinality(Chains) # 0
    BY Finite, VectorAssumption
  <2> QED BY <2>1, FS_EmptySet
<1>2. Known(NoNode) = {} /\ NoNode.cell = None
  BY DEF Known, NoNode
<1> QED BY <1>1, <1>2, NodeTypes DEF OneChain, OfChain, Follows, Valid

\* The iterator that a member function returns is held from then on.
LEMMA ReturnKeeps ==
  ASSUME DataInv', it \in [Iters -> NodeType], NEW bonds, bonds \in [Iters -> Bonds],
         fault \in Faults,
         \A i \in Iters : OneChain(it[i]) /\ Follows(it[i], bonds[i], store', chain', loc'),
         NEW j \in Iters, NEW n, n = None \/ n = NoNode \/ NodeOf(n, chain'),
         Return(j, n, bonds)
  PROVE  /\ HeldInv' /\ fault' \in Faults
         /\ fault' = "null" \/ (fault' = fault /\ it'[j] = n)
<1>0. DataOK(store', chain', loc')
  BY DEF DataInv
<1>1. CASE n = None
  <2>1. fault' = "null" /\ bond' = bonds /\ it' = it
    BY <1>1 DEF Return
  <2>2. \A i \in Iters : OneChain(it'[i]) /\ Follows(it'[i], bond'[i], store', chain', loc')
    BY <2>1
  <2>3. it' \in [Iters -> NodeType] /\ bond' \in [Iters -> Bonds]
    BY <2>1
  <2>4. HeldInv'
    BY <2>2, <2>3 DEF HeldInv
  <2> QED BY <2>1, <2>4 DEF Faults
<1>2. CASE n # None
  <2>1. it' = [it EXCEPT ![j] = n] /\ bond' = [bonds EXCEPT ![j] = "steady"] /\ fault' = fault
    BY <1>2 DEF Return
  <2>2. n \in NodeType /\ OneChain(n) /\ Follows(n, "steady", store', chain', loc')
    BY <1>0, <1>2, NodesFollow, NoNodeFollows
  <2>3. it' \in [Iters -> NodeType] /\ bond' \in [Iters -> Bonds] /\ it'[j] = n
    BY <2>1, <2>2 DEF Bonds
  <2>4. ASSUME NEW i \in Iters
        PROVE  OneChain(it'[i]) /\ Follows(it'[i], bond'[i], store', chain', loc')
    <3>1. CASE i = j
      <4>1. it'[i] = n /\ bond'[i] = "steady"
        BY <2>1, <3>1
      <4> QED BY <2>2, <4>1
    <3>2. CASE i # j
      <4>1. it'[i] = it[i] /\ bond'[i] = bonds[i]
        BY <2>1, <3>2
      <4> QED BY <4>1
    <3> QED BY <3>1, <3>2
  <2> QED BY <2>1, <2>3, <2>4 DEF HeldInv
<1> QED BY <1>1, <1>2

\* What is held stays as it is when nothing is returned.
LEMMA HeldStays ==
  ASSUME it \in [Iters -> NodeType], it' = it, bond' \in [Iters -> Bonds],
         \A i \in Iters : OneChain(it[i]) /\ Follows(it[i], bond'[i], store', chain', loc')
  PROVE  HeldInv'
BY DEF HeldInv

-----------------------------------------------------------------------------
(* What the parts of member functions come to *)

\* v has changed, the other vectors have not, and what the program holds
\* follows as far as these bonds say.
Settles(v, bonds) ==
  /\ DataInv' /\ chain'[v].at # None
  /\ \A w \in Vectors : w # v => store'[w] = store[w] /\ chain'[w] = chain[w]
  /\ bonds \in [Iters -> Bonds]
  /\ \A i \in Iters : Follows(it[i], bonds[i], store', chain', loc')

\* Loosening is enough.
LEMMA LoosenSettles ==
  ASSUME VInv, NEW v \in Vectors, NEW k, OneChanges(v, k)
  PROVE  Settles(v, Loosen(chain[v], k))
<1>1. Loosen(chain[v], k) \in [Iters -> Bonds]
  BY LoosenFacts DEF VInv, HeldInv
<1> QED BY <1>1 DEF Settles, OneChanges

\* A store in new storage is sound, and the storage is its own.
LEMMA StoredIsSound ==
  ASSUME VInv, NEW elem \in Seq(Elements), IsInjective(elem), NEW cap \in Nat \ {0},
         Len(elem) <= cap, NEW m \in MemTypes
  PROVE  /\ StoreSound(Stored(elem, cap, m))
         /\ \A w \in Vectors : store[w].buf # Stored(elem, cap, m).buf
<1>1. /\ SpareBuffer \in Buffers /\ SpareBuffer # None
      /\ \A w \in Vectors : store[w].buf # SpareBuffer
  BY Spares, NoneIsNoName
<1> DEFINE s == Stored(elem, cap, m)
<1>2. /\ s.elem = elem /\ s.cap = cap /\ s.buf = SpareBuffer /\ s.mem = m /\ s.husk = None
      /\ s \in StoreType
  BY <1>1 DEF Stored, StoreType
<1> HIDE DEF s
<1>3. StoreSound(s)
  BY <1>1, <1>2 DEF StoreSound
<1> QED BY <1>1, <1>2, <1>3 DEF s

\* So is what build_unified() makes.
LEMMA BuiltIsSound ==
  ASSUME VInv, NEW elem \in Seq(Elements), IsInjective(elem), NEW cap \in Nat,
         Len(elem) <= cap, NEW m \in MemTypes
  PROVE  /\ StoreSound(Built(elem, cap, m))
         /\ \A w \in Vectors : Built(elem, cap, m).buf # None => store[w].buf # Built(elem, cap, m).buf
         /\ Built(elem, cap, m).elem = elem
<1>1. CASE cap = 0
  <2>1. Built(elem, cap, m) = Vacant
    BY <1>1 DEF Built
  <2>2. StoreSound(Vacant) /\ Vacant.buf = None /\ Vacant.elem = <<>>
    BY VectorAssumption DEF StoreSound, Vacant, StoreType, IsInjective
  <2>3. elem = <<>>
    <3>1. Len(elem) = 0
      BY <1>1
    <3> QED BY <3>1, EmptySeq
  <2> QED BY <2>1, <2>2, <2>3
<1>2. CASE cap # 0
  <2>1. Built(elem, cap, m) = Stored(elem, cap, m)
    BY <1>2 DEF Built
  <2>2. Stored(elem, cap, m).elem = elem
    BY DEF Stored
  <2> QED BY <1>2, <2>1, <2>2, StoredIsSound
<1> QED BY <1>1, <1>2

\* What a rebuilt vector holds.
LEMMA RebuildSettles ==
  ASSUME VInv, NEW v \in Vectors, NEW s, StoreSound(s),
         \A w \in Vectors : w # v => (s.buf # None => store[w].buf # s.buf),
         Rebuild(v, s)
  PROVE  /\ Settles(v, Loosen(chain[v], 1)) /\ store'[v] = s
BY RebuildKeeps, LoosenSettles

\* The elements after emplace_back() or insert() of e at k, which makes the
\* data when there are none of that memory type.
PutIn(v, m, k, e) ==
  /\ store'[v].buf # None /\ store'[v].mem = m
  /\ store'[v].elem = IF store[v].buf = None \/ store[v].mem # m THEN <<e>>
                      ELSE InsertAt(store[v].elem, k, e)

\* A sequence of one.
LEMMA OneElement ==
  ASSUME NEW e \in Elements
  PROVE  <<e>> \in Seq(Elements) /\ IsInjective(<<e>>) /\ Len(<<e>>) = 1 /\ Range(<<e>>) = {e}
<1>1. <<e>> \in Seq(Elements) /\ Len(<<e>>) = 1 /\ DOMAIN <<e>> = {1} /\ <<e>>[1] = e
  OBVIOUS
<1> QED BY <1>1 DEF IsInjective, Range

\* Making the data for one element.
LEMMA MadeForOne ==
  ASSUME VInv, NEW v \in Vectors, NEW m \in MemTypes, NEW e \in Elements, NEW k,
         store[v].buf = None \/ store[v].mem # m, Rebuild(v, Stored(<<e>>, 2, m))
  PROVE  Settles(v, Loosen(chain[v], 1)) /\ PutIn(v, m, k, e)
<1>1. /\ StoreSound(Stored(<<e>>, 2, m))
      /\ \A w \in Vectors : store[w].buf # Stored(<<e>>, 2, m).buf
  <2>1. /\ <<e>> \in Seq(Elements) /\ IsInjective(<<e>>) /\ Len(<<e>>) <= 2
        /\ 2 \in Nat \ {0}
    BY OneElement
  <2> QED BY <2>1, StoredIsSound
<1>2. Settles(v, Loosen(chain[v], 1)) /\ store'[v] = Stored(<<e>>, 2, m)
  BY <1>1, RebuildSettles
<1>3. SpareBuffer # None
  BY Spares, NoneIsNoName
<1> QED BY <1>2, <1>3 DEF PutIn, Stored

\* A vector with no storage left moves to larger storage.
LEMMA RegrownForOne ==
  ASSUME VInv, NEW v \in Vectors, NEW m \in MemTypes, NEW e \in Elements,
         e \notin Range(store[v].elem), NEW k \in 1..(Len(store[v].elem) + 1),
         store[v].buf # None, store[v].mem = m, Rebuild(v, Regrown(store[v], k, e))
  PROVE  Settles(v, Loosen(chain[v], 1)) /\ PutIn(v, m, k, e)
<1> DEFINE s == store[v]
           t == InsertAt(s.elem, k, e)
<1>1. /\ s.elem \in Seq(Elements) /\ s.cap \in Nat /\ Len(s.elem) <= s.cap /\ IsInjective(s.elem)
      /\ s.mem = m
  BY VectorFacts DEF VInv
<1>2. t \in Seq(Elements) /\ IsInjective(t) /\ Len(t) = Len(s.elem) + 1
  BY <1>1, InsertionInserts DEF Inserted
<1>3. Regrown(s, k, e) = Stored(t, s.cap + 2, m)
  BY <1>1 DEF Regrown
<1> HIDE DEF t
<1>4. s.cap + 2 \in Nat \ {0} /\ Len(t) <= s.cap + 2
  BY <1>1, <1>2
<1>5. /\ StoreSound(Stored(t, s.cap + 2, m))
      /\ \A w \in Vectors : store[w].buf # Stored(t, s.cap + 2, m).buf
  BY <1>2, <1>4, StoredIsSound
<1>6. Settles(v, Loosen(chain[v], 1)) /\ store'[v] = Stored(t, s.cap + 2, m)
  BY <1>3, <1>5, RebuildSettles
<1>7. SpareBuffer # None
  BY Spares, NoneIsNoName
<1> QED BY <1>6, <1>7 DEF PutIn, Stored, t

\* A vector with storage left stays where it is.
LEMMA InsertedInPlace ==
  ASSUME VInv, NEW v \in Vectors, NEW m \in MemTypes, NEW e \in Elements,
         e \notin Range(store[v].elem), NEW k \in 1..(Len(store[v].elem) + 1),
         store[v].buf # None, store[v].mem = m, ~Full(store[v]),
         store' = [store EXCEPT ![v] = [store[v] EXCEPT !.elem = InsertAt(store[v].elem, k, e)]],
         chain' = [chain EXCEPT ![v] = ChainInsert(chain[v], SpareChain, k, e)],
         loc' = ShiftCells([loc EXCEPT ![<<chain'[v].at, e>>] = <<store[v].buf, k>>], chain'[v], k, 1)
  PROVE  Settles(v, Loosen(chain[v], k + 1)) /\ PutIn(v, m, k, e)
<1> DEFINE elem == store[v].elem
           cap == store[v].cap
           buf == store[v].buf
           ch == chain[v]
           t == InsertAt(elem, k, e)
           new == ChainInsert(ch, SpareChain, k, e)
           after == ShiftCells([loc EXCEPT ![<<new.at, e>>] = <<buf, k>>], new, k, 1)
<1>1. /\ elem \in Seq(Elements) /\ cap \in Nat /\ buf \in Buffers /\ loc \in LocType
      /\ Len(elem) < cap /\ IsInjective(elem) /\ Chained(ch, elem, cap)
      /\ \A j \in 1..Len(elem) : loc[<<ch.at, elem[j]>>] = <<buf, j>>
      /\ store \in [Vectors -> StoreType] /\ chain \in [Vectors -> ChainType]
  BY VectorFacts DEF VInv, DataInv, DataOK, Located, Full
<1>2. chain'[v] = new
  BY <1>1
<1>3. k \in 1..(Len(elem) + 1) /\ e \notin Range(elem)
  OBVIOUS
<1>4. InPlace(ch, elem, cap, buf, loc, new, t, after, k)
  <2> HIDE DEF elem, cap, buf, ch, t, new, after
  <2> QED BY <1>1, <1>3, InsertInPlace DEF t, new, after
<1>5. OneChanges(v, k + 1) /\ store'[v] = [store[v] EXCEPT !.elem = t]
  <2>1. store' = [store EXCEPT ![v] = [store[v] EXCEPT !.elem = t]] /\ chain' = [chain EXCEPT ![v] = new]
    OBVIOUS
  <2>2. loc' = after
    <3> HIDE DEF new
    <3> QED BY <1>2
  <2> HIDE DEF t, new, after, elem, cap, buf, ch
  <2>3. InPlace(chain[v], store[v].elem, store[v].cap, store[v].buf, loc, new, t, after, k)
    BY <1>4 DEF elem, cap, buf, ch
  <2>4. OneChanges(v, k + 1)
    BY <2>1, <2>2, <2>3, InPlaceKeeps
  <2>5. store'[v] = [store[v] EXCEPT !.elem = t]
    BY <1>1, <2>1
  <2> QED BY <2>4, <2>5
<1>6. PutIn(v, m, k, e)
  <2>1. store[v] \in StoreType
    BY <1>1
  <2>2. store'[v].buf = store[v].buf /\ store'[v].mem = store[v].mem /\ store'[v].elem = t
    BY <1>5, <2>1 DEF StoreType
  <2> QED BY <2>2 DEF PutIn
<1> QED BY <1>5, <1>6, LoosenSettles

\* A node is not a null pointer.
LEMMA NodeIsNotNone ==
  ASSUME NEW n \in NodeType
  PROVE  n # None
<1>1. NodeType \subseteq [cell : Cells \cup {None}, next : (Chains \X Int) \cup {None},
                          prev : (Chains \X Int) \cup {None}]
  BY DEF NodeType, Addresses
<1> QED BY <1>1, VectorAssumption

\* The nodes behind the front of the chain of a vector.
LEMMA NodesOfVector ==
  ASSUME NEW stores, NEW chains, NEW locs, DataOK(stores, chains, locs),
         NEW v \in Vectors, chains[v].at # None
  PROVE  /\ \A k \in 1..(Len(stores[v].elem) + 1) : NodeOf(chains[v].node[k + 1], chains)
         /\ Len(chains[v].node) = Len(stores[v].elem) + 2
         /\ NodeOf(FrontNode(chains[v]), chains) /\ NodeOf(EndNode(chains[v]), chains)
<1>1. /\ Chained(chains[v], stores[v].elem, stores[v].cap)
      /\ stores[v].elem \in Seq(Elements) /\ stores[v].cap \in Nat
  BY VectorFactsOf
<1>2. Len(chains[v].node) = Len(stores[v].elem) + 2
  BY <1>1, ChainedNodes
<1>3. ASSUME NEW k \in 1..(Len(stores[v].elem) + 1) PROVE NodeOf(chains[v].node[k + 1], chains)
  <2>1. k + 1 \in 2..Len(chains[v].node)
    BY <1>1, <1>2
  <2> QED BY <2>1 DEF NodeOf
<1>4. 2 \in 2..Len(chains[v].node) /\ Len(chains[v].node) \in 2..Len(chains[v].node)
  BY <1>1, <1>2
<1> QED BY <1>2, <1>3, <1>4 DEF NodeOf, FrontNode, EndNode

\* A vector changes, and an iterator of a chain as it is then is returned.
LEMMA SettlesAndReturns ==
  ASSUME VInv, NEW v \in Vectors, NEW bonds, Settles(v, bonds), NEW j \in Iters,
         NEW n, NodeOf(n, chain'), Return(j, n, bonds)
  PROVE  DataInv' /\ HeldInv' /\ fault' = fault /\ it'[j] = n
<1>1. /\ DataInv' /\ it \in [Iters -> NodeType] /\ bonds \in [Iters -> Bonds] /\ fault \in Faults
      /\ \A i \in Iters : OneChain(it[i]) /\ Follows(it[i], bonds[i], store', chain', loc')
  BY DEF VInv, HeldInv, Settles
<1>2. HeldInv'
  BY <1>1, ReturnKeeps
<1>3. n # None
  <2>1. DataOK(store', chain', loc')
    BY <1>1 DEF DataInv
  <2>2. n \in NodeType
    BY <2>1, NodesFollow
  <2> QED BY <2>2, NodeIsNotNone
<1>4. fault' = fault /\ it'[j] = n
  BY <1>1, <1>3 DEF Return
<1> QED BY <1>1, <1>2, <1>4

\* Nothing changes but what is held.
LEMMA NothingSettles ==
  ASSUME VInv, NEW v \in Vectors, chain[v].at # None, UNCHANGED <<store, chain, loc>>
  PROVE  Settles(v, bond)
<1>1. DataInv'
  BY DEF VInv, DataInv
<1>2. \A i \in Iters : Follows(it[i], bond[i], store', chain', loc')
  BY DEF VInv, HeldInv
<1> QED BY <1>1, <1>2 DEF Settles, VInv, HeldInv

\* The iterator of the element e, which is at k, is returned into j.
PutAt(v, m, k, e, j) ==
  /\ PutIn(v, m, k, e) /\ k \in 1..Len(store'[v].elem) /\ store'[v].elem[k] = e
  /\ fault' = fault /\ it'[j] = chain'[v].node[k + 1]

\* There is data of the memory type m.
Fits(v, m) == store[v].buf # None /\ store[v].mem = m

\* What insert() of one element comes to.
Inserts(v, p, m, e, j) ==
  \/ ~Fits(v, m) /\ PutAt(v, m, 1, e, j)
  \/ Fits(v, m) /\ Within(v, loc[p.cell]) /\ p.cell # None /\ PutAt(v, m, loc[p.cell][2], e, j)
  \/ /\ Fits(v, m) /\ UNCHANGED <<store, chain, loc, fault>>
     /\ it'[j] = EndNode(chain[v]) /\ p.cell # None /\ ~Within(v, loc[p.cell])
  \/ Fits(v, m) /\ p.cell = None /\ fault' = "null" /\ UNCHANGED <<store, chain, loc, it>>

\* The other vectors.
OthersStay(v) ==
  \A w \in Vectors : w # v => store'[w] = store[w] /\ chain'[w] = chain[w]

\* find_pointable() for the data of a vector.
LEMMA PointableIsFound ==
  ASSUME NEW ch, NEW s, Chained(ch, s.elem, s.cap), s.elem \in Seq(Elements), s.cap \in Nat,
         NEW locs, Located(ch, s, locs), NEW k \in 1..Len(s.elem)
  PROVE  FindPointable(ch, locs, <<s.buf, k>>) = ch.node[k + 1]
<1> DEFINE elem == s.elem
           cap == s.cap
           buf == s.buf
<1>1. \A m \in 1..Len(elem) : locs[<<ch.at, elem[m]>>] = <<buf, m>>
  BY DEF Located
<1>2. elem \in Seq(Elements) /\ cap \in Nat /\ Chained(ch, elem, cap) /\ k \in 1..Len(elem)
  OBVIOUS
<1> HIDE DEF elem, cap, buf
<1> DEFINE hits == {j \in 2..Len(ch.node) : ch.node[j].cell # None /\ locs[ch.node[j].cell] = <<buf, k>>}
           first == CHOOSE j \in hits : \A m \in hits : j <= m
<1>3. /\ ch.at \in Chains /\ Len(ch.node) = Len(elem) + 2
      /\ ch.node[Len(elem) + 2].cell = None
  BY <1>2, ChainedNodes
<1>4. ASSUME NEW m \in 1..Len(elem)
      PROVE  /\ ch.node[m + 1].cell = <<ch.at, elem[m]>> /\ ch.node[m + 1].cell # None
             /\ ch.node[m + 1].next = <<ch.at, m + 2>>
             /\ locs[ch.node[m + 1].cell] = <<buf, m>>
  <2>1. ch.node[m + 1] = NodeAt(ch.at, m + 1, elem[m])
    BY <1>2, ChainedNodes
  <2>2. /\ ch.node[m + 1].cell = <<ch.at, elem[m]>>
        /\ ch.node[m + 1].next = <<ch.at, (m + 1) + 1>> /\ (m + 1) + 1 = m + 2
    BY <2>1 DEF NodeAt
  <2>3. <<ch.at, elem[m]>> \in Cells
    BY <1>2, <1>3 DEF Cells
  <2> QED BY <1>1, <2>2, <2>3, NoneIsNoName
<1>5. hits = {k + 1}
  <2>1. k + 1 \in hits
    <3>1. k + 1 \in 2..Len(ch.node)
      BY <1>2, <1>3
    <3>2. ch.node[k + 1].cell # None /\ locs[ch.node[k + 1].cell] = <<buf, k>>
      BY <1>2, <1>4
    <3> QED BY <3>1, <3>2
  <2>2. ASSUME NEW j \in hits PROVE j = k + 1
    <3>1. j \in 2..(Len(elem) + 1)
      BY <1>2, <1>3
    <3>2. j - 1 \in 1..Len(elem) /\ (j - 1) + 1 = j
      BY <3>1
    <3>3. locs[ch.node[j].cell] = <<buf, j - 1>>
      BY <1>4, <3>2
    <3> QED BY <3>2, <3>3
  <2> QED BY <2>1, <2>2
<1> HIDE DEF hits
<1>6. first = k + 1
  BY <1>5
<1> HIDE DEF first
<1>7. ASSUME NEW m \in 2..(first - 1) PROVE ch.node[m].next = <<ch.at, m + 1>>
  <2>1. m - 1 \in 1..Len(elem) /\ (m - 1) + 1 = m /\ (m - 1) + 2 = m + 1
    <3>1. m \in 2..k /\ k <= Len(elem)
      BY <1>2, <1>6
    <3> QED BY <1>2, <3>1
  <2> QED BY <1>4, <2>1
<1>8. FindPointable(ch, locs, <<buf, k>>) = ch.node[first]
  BY <1>5, <1>7 DEF FindPointable, hits, first
<1> QED BY <1>6, <1>8 DEF buf

\* The node of the element put in is found.
LEMMA PlacedIsFound ==
  ASSUME VInv, NEW v \in Vectors, NEW m \in MemTypes, NEW e \in Elements,
         e \notin Range(store[v].elem), NEW k \in 1..(Len(store[v].elem) + 1),
         Fits(v, m), PutIn(v, m, k, e), DataInv'
  PROVE  /\ FindPointable(chain'[v], loc', <<store'[v].buf, k>>) = chain'[v].node[k + 1]
         /\ NodeOf(chain'[v].node[k + 1], chain')
         /\ k \in 1..Len(store'[v].elem) /\ store'[v].elem[k] = e
<1> DEFINE t == store'[v].elem
           cap == store'[v].cap
           buf == store'[v].buf
           ch == chain'[v]
<1>0. store[v].elem \in Seq(Elements)
  BY VectorFacts DEF VInv
<1>1. t = InsertAt(store[v].elem, k, e)
  BY DEF Fits, PutIn
<1>2. k \in 1..Len(t) /\ t[k] = e
  BY <1>0, <1>1, InsertElement
<1>3. DataOK(store', chain', loc')
  BY DEF DataInv
<1>4. /\ t \in Seq(Elements) /\ cap \in Nat /\ ch.at # None /\ Chained(ch, t, cap)
      /\ Located(chain'[v], store'[v], loc')
  <2>1. buf # None
    BY DEF PutIn
  <2> QED BY <1>3, <2>1, VectorFactsOf
<1>5. \A j \in 1..Len(t) : loc'[<<ch.at, t[j]>>] = <<buf, j>>
  BY <1>4 DEF Located
<1>6. NodeOf(chain'[v].node[k + 1], chain')
  <2>1. k \in 1..(Len(store'[v].elem) + 1)
    BY <1>2, <1>4
  <2> QED BY <1>3, <1>4, <2>1, NodesOfVector
<1>7. FindPointable(ch, loc', <<buf, k>>) = ch.node[k + 1]
  <2> HIDE DEF t, cap, buf, ch
  <2>1. Chained(chain'[v], store'[v].elem, store'[v].cap) /\ store'[v].cap \in Nat
    BY <1>4 DEF t, cap, ch
  <2>2. store'[v].elem \in Seq(Elements) /\ k \in 1..Len(store'[v].elem)
    BY <1>2, <1>4 DEF t
  <2>3. FindPointable(chain'[v], loc', <<store'[v].buf, k>>) = chain'[v].node[k + 1]
    BY <1>4, <2>1, <2>2, PointableIsFound
  <2> QED BY <2>3 DEF buf, ch
<1> QED BY <1>2, <1>6, <1>7

\* emplace_back() puts the element behind the last.
LEMMA Append1Settles ==
  ASSUME VInv, NEW v \in Vectors, NEW m \in MemTypes, NEW e \in Elements,
         e \notin Range(store[v].elem), Append1(v, m, e)
  PROVE  Settles(v, bond') /\ PutIn(v, m, Len(store[v].elem) + 1, e)
<1> DEFINE s == store[v]
           i == Len(s.elem) + 1
           ch == chain[v]
<1>1. /\ s.elem \in Seq(Elements) /\ s.cap \in Nat /\ s \in StoreType
      /\ i \in 1..(Len(store[v].elem) + 1)
  BY VectorFacts DEF VInv
<1>2. CASE /\ s.buf = None \/ s.mem # m
           /\ Rebuild(v, Stored(<<e>>, 2, m)) /\ bond' = Loosen(chain[v], 1)
  BY <1>2, MadeForOne
<1>3. CASE /\ s.buf # None /\ s.mem = m /\ Full(s)
           /\ Rebuild(v, Regrown(s, i, e)) /\ bond' = Loosen(chain[v], 1)
  BY <1>1, <1>3, RegrownForOne
<1>4. CASE /\ s.buf # None /\ s.mem = m /\ ~Full(s)
           /\ store' = [store EXCEPT ![v].elem = Append(@, e)]
           /\ chain' = [chain EXCEPT ![v] = ChainPushBack(@, SpareChain, e)]
           /\ loc' = [loc EXCEPT ![<<chain'[v].at, e>>] = <<s.buf, i>>]
           /\ bond' = Loosen(chain[v], i + 1)
  <2> DEFINE new == ChainInsert(ch, SpareChain, i, e)
  <2>1. Chained(ch, s.elem, s.cap) /\ loc \in LocType
    BY <1>4, VectorFacts DEF VInv, DataInv, DataOK
  <2>2. Append(s.elem, e) = InsertAt(s.elem, i, e)
    BY <1>1, AppendInserts
  <2>3. ChainPushBack(ch, SpareChain, e) = new
    BY <1>1, <2>1, PushBackInserts
  <2>4. /\ store' = [store EXCEPT ![v] = [store[v] EXCEPT !.elem = InsertAt(store[v].elem, i, e)]]
        /\ chain' = [chain EXCEPT ![v] = new]
    BY <1>4, <2>2, <2>3
  <2>5. chain'[v] = new /\ Len(new.node) = i + 2
    <3>1. chain \in [Vectors -> ChainType]
      BY DEF VInv, DataInv, DataOK
    <3>2. Len(s.elem) < s.cap
      BY <1>1, <1>4, VectorFacts DEF VInv, Full
    <3>3. Chained(new, InsertAt(s.elem, i, e), s.cap)
      BY <1>1, <2>1, <3>2, ChainInsertIsChained
    <3>4. Len(InsertAt(s.elem, i, e)) = i
      BY <1>1, InsertElement
    <3>5. Len(new.node) = Len(InsertAt(s.elem, i, e)) + 2
      BY <3>3 DEF Chained
    <3> QED BY <2>4, <3>1, <3>4, <3>5
  <2> DEFINE mid == [loc EXCEPT ![<<chain'[v].at, e>>] = <<s.buf, i>>]
  <2>6. Moved(chain'[v], i, 1) = {}
    BY <1>1, <2>5 DEF Moved
  <2>7. mid \in LocType
    <3>1. s.buf \in Buffers /\ i \in Nat \ {0}
      BY <1>1, <1>4 DEF StoreType
    <3> QED BY <2>1, <3>1 DEF LocType, Addresses
  <2>8. loc' = ShiftCells([loc EXCEPT ![<<chain'[v].at, e>>] = <<store[v].buf, i>>], chain'[v], i, 1)
    <3>1. loc' = mid
      BY <1>4
    <3> HIDE DEF mid
    <3>2. loc' = ShiftCells(mid, chain'[v], i, 1)
      BY <2>6, <2>7, <3>1, NothingMoves
    <3> QED BY <3>2 DEF mid
  <2>9. store[v].buf # None /\ store[v].mem = m /\ ~Full(store[v])
    BY <1>4
  <2> HIDE DEF i
  <2>10. Settles(v, Loosen(chain[v], i + 1)) /\ PutIn(v, m, i, e)
    BY <1>1, <2>4, <2>8, <2>9, InsertedInPlace
  <2> QED BY <1>4, <2>10 DEF i
<1> QED BY <1>2, <1>3, <1>4 DEF Append1

\* insert() of one element.
LEMMA Insert1Settles ==
  ASSUME VInv, NEW v \in Vectors, NEW p, NEW m \in MemTypes, NEW e \in Elements,
         e \notin Range(store[v].elem), NEW j \in Iters, Insert1(v, p, m, e, j)
  PROVE  DataInv' /\ HeldInv' /\ fault' \in Faults /\ OthersStay(v) /\ Inserts(v, p, m, e, j)
<1> DEFINE s == store[v]
           k == loc[p.cell][2]
           Placed(bonds) ==
             Return(j, FindPointable(chain'[v], loc', <<store'[v].buf, k>>), bonds)
<1>0. fault \in Faults /\ s.elem \in Seq(Elements) /\ (s.buf # None => chain[v].at # None)
  BY VectorFacts DEF VInv
<1>1. CASE /\ s.buf = None \/ s.mem # m
           /\ Rebuild(v, Stored(<<e>>, 2, m))
           /\ Return(j, FrontNode(chain'[v]), Loosen(chain[v], 1))
  <2>1. Settles(v, Loosen(chain[v], 1)) /\ PutIn(v, m, 1, e)
    BY <1>1, MadeForOne
  <2>2. DataInv' /\ chain'[v].at # None /\ OthersStay(v)
    BY <2>1 DEF Settles, OthersStay
  <2>3. NodeOf(FrontNode(chain'[v]), chain')
    BY <2>2, NodesOfVector DEF DataInv
  <2>4. DataInv' /\ HeldInv' /\ fault' = fault /\ it'[j] = chain'[v].node[2]
    BY <1>1, <2>1, <2>3, SettlesAndReturns DEF FrontNode
  <2>5. PutAt(v, m, 1, e, j)
    BY <1>1, <2>1, <2>4 DEF PutAt, PutIn
  <2> QED BY <1>0, <1>1, <2>2, <2>4, <2>5 DEF Inserts, Fits
<1>2. CASE /\ s.buf # None /\ s.mem = m /\ p.cell = None
           /\ fault' = "null" /\ UNCHANGED <<store, chain, loc, it, bond>>
  <2>1. DataInv' /\ HeldInv'
    <3>1. DataInv'
      BY <1>2 DEF VInv, DataInv
    <3>2. HeldInv'
      BY <1>2 DEF VInv, HeldInv
    <3> QED BY <3>1, <3>2
  <2> QED BY <1>2, <2>1 DEF Inserts, Fits, Faults, OthersStay
<1>3. CASE /\ s.buf # None /\ s.mem = m /\ p.cell # None
           /\ ~Within(v, loc[p.cell])
           /\ Return(j, EndNode(chain[v]), bond)
           /\ UNCHANGED <<store, chain, loc>>
  <2>1. Settles(v, bond)
    BY <1>0, <1>3, NothingSettles
  <2>2. NodeOf(EndNode(chain[v]), chain')
    <3>1. NodeOf(EndNode(chain[v]), chain)
      BY <1>0, <1>3, NodesOfVector DEF VInv, DataInv
    <3> QED BY <1>3, <3>1 DEF NodeOf
  <2>3. DataInv' /\ HeldInv' /\ fault' = fault /\ it'[j] = EndNode(chain[v])
    BY <1>3, <2>1, <2>2, SettlesAndReturns
  <2> QED BY <1>0, <1>3, <2>3 DEF Inserts, Fits, OthersStay
<1>4. ASSUME Fits(v, m), p.cell # None, Within(v, loc[p.cell]), NEW bonds,
             Settles(v, bonds), PutIn(v, m, k, e), Placed(bonds)
      PROVE  DataInv' /\ HeldInv' /\ fault' \in Faults /\ OthersStay(v) /\ Inserts(v, p, m, e, j)
  <2>1. k \in 1..Len(s.elem) /\ k \in 1..(Len(store[v].elem) + 1)
    BY <1>0, <1>4 DEF Within
  <2>2. DataInv' /\ OthersStay(v)
    BY <1>4 DEF Settles, OthersStay
  <2> DEFINE n == FindPointable(chain'[v], loc', <<store'[v].buf, k>>)
  <2>3. Return(j, n, bonds)
    BY <1>4
  <2> HIDE DEF k
  <2>4. /\ n = chain'[v].node[k + 1] /\ NodeOf(chain'[v].node[k + 1], chain')
        /\ k \in 1..Len(store'[v].elem) /\ store'[v].elem[k] = e
    BY <1>4, <2>1, <2>2, PlacedIsFound
  <2> HIDE DEF n
  <2>5. HeldInv' /\ fault' = fault /\ it'[j] = n
    <3>1. NodeOf(n, chain')
      BY <2>4
    <3> QED BY <1>4, <2>3, <3>1, SettlesAndReturns
  <2>6. PutAt(v, m, k, e, j)
    BY <1>4, <2>4, <2>5 DEF PutAt
  <2> QED BY <1>0, <1>4, <2>2, <2>5, <2>6 DEF Inserts, k
<1>5. CASE /\ s.buf # None /\ s.mem = m /\ p.cell # None
           /\ Within(v, loc[p.cell]) /\ Full(s)
           /\ Rebuild(v, Regrown(s, k, e))
           /\ Placed(Loosen(chain[v], 1))
  <2>1. k \in 1..(Len(store[v].elem) + 1)
    BY <1>0, <1>5 DEF Within
  <2>2. Settles(v, Loosen(chain[v], 1)) /\ PutIn(v, m, k, e)
    <3> HIDE DEF k
    <3> QED BY <1>5, <2>1, RegrownForOne
  <2> HIDE DEF k
  <2> QED BY <1>4, <1>5, <2>2 DEF Fits
<1>6. CASE /\ s.buf # None /\ s.mem = m /\ p.cell # None
           /\ Within(v, loc[p.cell]) /\ ~Full(s)
           /\ store' = [store EXCEPT ![v].elem = InsertAt(@, k, e)]
           /\ chain' = [chain EXCEPT ![v] = ChainInsert(@, SpareChain, k, e)]
           /\ loc' = ShiftCells([loc EXCEPT ![<<chain'[v].at, e>>] = <<s.buf, k>>],
                                chain'[v], k, 1)
           /\ Placed(Loosen(chain[v], k + 1))
  <2>1. k \in 1..(Len(store[v].elem) + 1)
    BY <1>0, <1>6 DEF Within
  <2>2. Settles(v, Loosen(chain[v], k + 1)) /\ PutIn(v, m, k, e)
    <3> HIDE DEF k
    <3>1. /\ store' = [store EXCEPT ![v] = [store[v] EXCEPT !.elem = InsertAt(store[v].elem, k, e)]]
          /\ chain' = [chain EXCEPT ![v] = ChainInsert(chain[v], SpareChain, k, e)]
      BY <1>6
    <3>2. /\ loc' = ShiftCells([loc EXCEPT ![<<chain'[v].at, e>>] = <<store[v].buf, k>>],
                               chain'[v], k, 1)
          /\ store[v].buf # None /\ store[v].mem = m /\ ~Full(store[v])
      BY <1>6
    <3> QED BY <2>1, <3>1, <3>2, InsertedInPlace
  <2> HIDE DEF k
  <2> QED BY <1>4, <1>6, <2>2 DEF Fits
<1> QED BY <1>1, <1>2, <1>3, <1>5, <1>6 DEF Insert1

\* The element at k is taken out.
TakenOut(v, k) ==
  /\ k \in 1..Len(store[v].elem) /\ store'[v] = [store[v] EXCEPT !.elem = RemoveAt(store[v].elem, k)]

\* The data stay where they are.
LEMMA RemovedInPlace ==
  ASSUME VInv, NEW v \in Vectors, NEW k \in 1..Len(store[v].elem),
         store' = [store EXCEPT ![v] = [store[v] EXCEPT !.elem = RemoveAt(store[v].elem, k)]],
         chain' = [chain EXCEPT ![v] = ChainErase(chain[v], k)],
         loc' = ShiftCells([loc EXCEPT ![chain[v].node[k + 1].cell] = None], chain'[v], k, -1)
  PROVE  Settles(v, Loosen(chain[v], k + 1)) /\ TakenOut(v, k)
<1> DEFINE elem == store[v].elem
           cap == store[v].cap
           buf == store[v].buf
           ch == chain[v]
           t == RemoveAt(elem, k)
           new == ChainErase(ch, k)
           after == ShiftCells([loc EXCEPT ![ch.node[k + 1].cell] = None], new, k, -1)
<1>0. elem \in Seq(Elements) /\ elem # <<>> /\ buf # None
  <2>1. elem \in Seq(Elements) /\ (buf = None => elem = <<>>)
    BY VectorFacts DEF VInv
  <2>2. elem # <<>>
    BY <2>1
  <2> QED BY <2>1, <2>2
<1>1. /\ elem \in Seq(Elements) /\ cap \in Nat /\ buf \in Buffers /\ loc \in LocType
      /\ Len(elem) <= cap /\ IsInjective(elem) /\ Chained(ch, elem, cap)
      /\ \A j \in 1..Len(elem) : loc[<<ch.at, elem[j]>>] = <<buf, j>>
      /\ store \in [Vectors -> StoreType] /\ chain \in [Vectors -> ChainType]
  BY <1>0, VectorFacts DEF VInv, DataInv, DataOK, Located
<1>2. chain'[v] = new
  BY <1>1
<1>3. k \in 1..Len(elem)
  OBVIOUS
<1>4. InPlace(ch, elem, cap, buf, loc, new, t, after, k)
  <2> HIDE DEF elem, cap, buf, ch, t, new, after
  <2> QED BY <1>1, <1>3, EraseInPlace DEF t, new, after
<1>5. store' = [store EXCEPT ![v] = [store[v] EXCEPT !.elem = t]] /\ chain' = [chain EXCEPT ![v] = new]
  OBVIOUS
<1>6. loc' = after
  <2> HIDE DEF new
  <2> QED BY <1>2
<1> HIDE DEF t, new, after, elem, cap, buf, ch
<1>7. InPlace(chain[v], store[v].elem, store[v].cap, store[v].buf, loc, new, t, after, k)
  BY <1>4 DEF elem, cap, buf, ch
<1>8. store[v].buf # None
  BY <1>0 DEF buf
<1>9. OneChanges(v, k + 1)
  BY <1>5, <1>6, <1>7, <1>8, InPlaceKeeps
<1>10. store'[v] = [store[v] EXCEPT !.elem = t]
  BY <1>1, <1>5
<1>11. TakenOut(v, k)
  BY <1>10 DEF TakenOut, t, elem
<1>12. Settles(v, Loosen(chain[v], k + 1))
  BY <1>9, LoosenSettles
<1> QED BY <1>11, <1>12

\* What follows the element taken out is found.
LEMMA FollowingIsFound ==
  ASSUME VInv, NEW v \in Vectors, NEW k, TakenOut(v, k), DataInv', chain'[v].at # None
  PROVE  /\ k = Len(store[v].elem) => EndNode(chain'[v]) = chain'[v].node[k + 1]
         /\ k # Len(store[v].elem) =>
              FindPointable(chain'[v], loc', <<store[v].buf, k>>) = chain'[v].node[k + 1]
         /\ NodeOf(chain'[v].node[k + 1], chain')
<1>0. DataOK(store', chain', loc')
  BY DEF DataInv
<1>1. store[v].elem \in Seq(Elements) /\ store[v] \in StoreType /\ k \in 1..Len(store[v].elem)
  BY VectorFacts DEF VInv, TakenOut
<1>2. /\ store'[v].elem = RemoveAt(store[v].elem, k) /\ store'[v].buf = store[v].buf
  BY <1>1 DEF TakenOut, StoreType
<1>3. Len(store'[v].elem) = Len(store[v].elem) - 1
  BY <1>1, <1>2, RemoveElement
<1>4. /\ store'[v].elem \in Seq(Elements) /\ store'[v].cap \in Nat
      /\ Chained(chain'[v], store'[v].elem, store'[v].cap)
      /\ Located(chain'[v], store'[v], loc')
  BY <1>0, VectorFactsOf
<1>5. Len(chain'[v].node) = Len(store'[v].elem) + 2
  BY <1>0, NodesOfVector
<1>6. k = Len(store[v].elem) => EndNode(chain'[v]) = chain'[v].node[k + 1]
  BY <1>1, <1>3, <1>5 DEF EndNode
<1>7. ASSUME k # Len(store[v].elem)
      PROVE  FindPointable(chain'[v], loc', <<store[v].buf, k>>) = chain'[v].node[k + 1]
  <2>1. k \in 1..Len(store'[v].elem)
    BY <1>1, <1>3, <1>7
  <2>2. FindPointable(chain'[v], loc', <<store'[v].buf, k>>) = chain'[v].node[k + 1]
    BY <1>4, <2>1, PointableIsFound
  <2> QED BY <1>2, <2>2
<1>8. NodeOf(chain'[v].node[k + 1], chain')
  <2>1. k \in 1..(Len(store'[v].elem) + 1)
    BY <1>1, <1>3
  <2> QED BY <1>0, <2>1, NodesOfVector
<1> QED BY <1>6, <1>7, <1>8

\* What erase() of one element comes to.
Erases(v, p, j) ==
  \/ store[v].buf = None /\ UNCHANGED <<store, chain, loc, fault>> /\ it'[j] = NoNode
  \/ store[v].buf # None /\ p.cell = None /\ fault' = "null" /\ UNCHANGED <<store, chain, loc, it>>
  \/ /\ store[v].buf # None /\ p.cell # None /\ ~Within(v, loc[p.cell])
     /\ UNCHANGED <<store, chain, loc, fault>> /\ it'[j] = EndNode(chain[v])
  \/ /\ store[v].buf # None /\ p.cell # None /\ Within(v, loc[p.cell])
     /\ TakenOut(v, loc[p.cell][2]) /\ chain'[v].at # None
     /\ fault' = fault /\ it'[j] = chain'[v].node[loc[p.cell][2] + 1]

\* A default-constructed iterator is returned.
LEMMA ReturnsNoNode ==
  ASSUME VInv, UNCHANGED <<store, chain, loc>>, NEW j \in Iters, Return(j, NoNode, bond)
  PROVE  DataInv' /\ HeldInv' /\ fault' = fault /\ it'[j] = NoNode
<1>1. /\ DataInv' /\ it \in [Iters -> NodeType] /\ bond \in [Iters -> Bonds] /\ fault \in Faults
      /\ \A i \in Iters : OneChain(it[i]) /\ Follows(it[i], bond[i], store', chain', loc')
  BY DEF VInv, DataInv, HeldInv
<1>2. HeldInv'
  BY <1>1, ReturnKeeps
<1>3. NoNode # None
  BY NodeTypes, NodeIsNotNone
<1>4. fault' = fault /\ it'[j] = NoNode
  BY <1>1, <1>3 DEF Return
<1> QED BY <1>1, <1>2, <1>4

\* erase() of one element.
LEMMA Erase1Settles ==
  ASSUME VInv, NEW v \in Vectors, NEW p, NEW j \in Iters, Erase1(v, p, j)
  PROVE  DataInv' /\ HeldInv' /\ fault' \in Faults /\ OthersStay(v) /\ Erases(v, p, j)
<1> DEFINE s == store[v]
           k == loc[p.cell][2]
<1>0. fault \in Faults /\ s.elem \in Seq(Elements) /\ (s.buf # None => chain[v].at # None)
  BY VectorFacts DEF VInv
<1>1. CASE s.buf = None /\ Return(j, NoNode, bond) /\ UNCHANGED <<store, chain, loc>>
  <2>1. DataInv' /\ HeldInv' /\ fault' = fault /\ it'[j] = NoNode
    BY <1>1, ReturnsNoNode
  <2> QED BY <1>0, <1>1, <2>1 DEF Erases, OthersStay
<1>2. CASE s.buf # None /\ p.cell = None /\ fault' = "null" /\ UNCHANGED <<store, chain, loc, it, bond>>
  <2>1. DataInv' /\ HeldInv'
    <3>1. DataInv'
      BY <1>2 DEF VInv, DataInv
    <3>2. HeldInv'
      BY <1>2 DEF VInv, HeldInv
    <3> QED BY <3>1, <3>2
  <2> QED BY <1>2, <2>1 DEF Erases, Faults, OthersStay
<1>3. CASE /\ s.buf # None /\ p.cell # None /\ ~Within(v, loc[p.cell])
           /\ Return(j, EndNode(chain[v]), bond) /\ UNCHANGED <<store, chain, loc>>
  <2>1. Settles(v, bond)
    BY <1>0, <1>3, NothingSettles
  <2>2. NodeOf(EndNode(chain[v]), chain')
    <3>1. NodeOf(EndNode(chain[v]), chain)
      BY <1>0, <1>3, NodesOfVector DEF VInv, DataInv
    <3> QED BY <1>3, <3>1 DEF NodeOf
  <2>3. DataInv' /\ HeldInv' /\ fault' = fault /\ it'[j] = EndNode(chain[v])
    BY <1>3, <2>1, <2>2, SettlesAndReturns
  <2> QED BY <1>0, <1>3, <2>3 DEF Erases, OthersStay
<1>4. CASE /\ s.buf # None /\ p.cell # None /\ Within(v, loc[p.cell])
           /\ store' = [store EXCEPT ![v].elem = RemoveAt(@, k)]
           /\ chain' = [chain EXCEPT ![v] = ChainErase(@, k)]
           /\ loc' = ShiftCells([loc EXCEPT ![chain[v].node[k + 1].cell] = None],
                                chain'[v], k, -1)
           /\ Return(j,
                IF k = Len(s.elem) THEN EndNode(chain'[v])
                ELSE FindPointable(chain'[v], loc', <<s.buf, k>>),
                Loosen(chain[v], k + 1))
  <2>1. k \in 1..Len(s.elem)
    <3>1. Within(v, loc[p.cell])
      BY <1>4
    <3> QED BY <1>0, <3>1 DEF Within
  <2> DEFINE n == IF k = Len(s.elem) THEN EndNode(chain'[v])
                  ELSE FindPointable(chain'[v], loc', <<s.buf, k>>)
  <2>2. Return(j, n, Loosen(chain[v], k + 1))
    BY <1>4
  <2>3. /\ store' = [store EXCEPT ![v] = [store[v] EXCEPT !.elem = RemoveAt(store[v].elem, k)]]
        /\ chain' = [chain EXCEPT ![v] = ChainErase(chain[v], k)]
        /\ loc' = ShiftCells([loc EXCEPT ![chain[v].node[k + 1].cell] = None], chain'[v], k, -1)
    BY <1>4
  <2> HIDE DEF k
  <2>4. Settles(v, Loosen(chain[v], k + 1)) /\ TakenOut(v, k)
    BY <2>1, <2>3, RemovedInPlace
  <2>5. DataInv' /\ OthersStay(v) /\ chain'[v].at # None
    BY <2>4 DEF Settles, OthersStay
  <2>6. n = chain'[v].node[k + 1] /\ NodeOf(chain'[v].node[k + 1], chain')
    BY <2>4, <2>5, FollowingIsFound
  <2> HIDE DEF n
  <2>7. HeldInv' /\ fault' = fault /\ it'[j] = n
    <3>1. NodeOf(n, chain')
      BY <2>6
    <3> QED BY <2>2, <2>4, <3>1, SettlesAndReturns
  <2> QED BY <1>0, <1>4, <2>4, <2>5, <2>6, <2>7 DEF Erases, k
<1> QED BY <1>1, <1>2, <1>3, <1>4 DEF Erase1

\* pop_back()
LEMMA Pop1Settles ==
  ASSUME VInv, NEW v \in Vectors, store[v].elem # <<>>, Pop1(v)
  PROVE  Settles(v, bond') /\ TakenOut(v, Len(store[v].elem))
<1> DEFINE s == store[v]
           k == Len(s.elem)
           ch == chain[v]
           n == Len(ch.node)
           new == ChainErase(ch, k)
<1>1. /\ s.elem \in Seq(Elements) /\ s.cap \in Nat /\ Len(s.elem) \in Nat \ {0}
      /\ k \in 1..Len(s.elem) /\ loc \in LocType /\ ch.at # None
      /\ Chained(ch, s.elem, s.cap)
  <2>1. s.elem \in Seq(Elements) /\ s.cap \in Nat /\ loc \in LocType /\ s.buf # None
    BY VectorFacts DEF VInv, DataInv, DataOK
  <2>2. ch.at # None /\ Chained(ch, s.elem, s.cap)
    BY <2>1, VectorFacts DEF VInv
  <2>3. Len(s.elem) \in Nat \ {0}
    BY <2>1, EmptySeq
  <2> QED BY <2>1, <2>2, <2>3
<1>2. n = k + 2 /\ n - 1 = k + 1 /\ ChainPopBack(ch) = new
  <2>1. n = k + 2
    BY <1>1, ChainedNodes
  <2>2. ChainPopBack(ch) = new
    BY <1>1, PopBackErases
  <2> QED BY <1>1, <2>1, <2>2
<1>3. /\ store' = [store EXCEPT ![v] = [store[v] EXCEPT !.elem = RemoveAt(store[v].elem, k)]]
      /\ chain' = [chain EXCEPT ![v] = new]
      /\ loc' = [loc EXCEPT ![ch.node[k + 1].cell] = None]
      /\ bond' = Loosen(chain[v], k + 1)
  BY <1>2 DEF Pop1
<1>4. chain'[v] = new /\ Len(new.node) = k + 1
  <2>1. chain \in [Vectors -> ChainType]
    BY DEF VInv, DataInv, DataOK
  <2>2. Chained(new, RemoveAt(s.elem, k), s.cap)
    BY <1>1, ChainEraseIsChained
  <2>3. Len(RemoveAt(s.elem, k)) = k - 1
    BY <1>1, RemoveElement
  <2>4. Len(new.node) = Len(RemoveAt(s.elem, k)) + 2
    BY <2>2 DEF Chained
  <2> QED BY <1>1, <1>3, <2>1, <2>3, <2>4
<1> DEFINE mid == [loc EXCEPT ![ch.node[k + 1].cell] = None]
<1>5. Moved(chain'[v], k, -1) = {}
  BY <1>1, <1>4 DEF Moved
<1>6. mid \in LocType
  BY <1>1 DEF LocType
<1>7. loc' = ShiftCells([loc EXCEPT ![chain[v].node[k + 1].cell] = None], chain'[v], k, -1)
  <2>1. loc' = mid
    BY <1>3
  <2> HIDE DEF mid
  <2>2. loc' = ShiftCells(mid, chain'[v], k, -1)
    BY <1>5, <1>6, <2>1, NothingMoves
  <2> QED BY <2>2 DEF mid
<1> HIDE DEF k
<1>8. Settles(v, Loosen(chain[v], k + 1)) /\ TakenOut(v, k)
  BY <1>1, <1>3, <1>7, RemovedInPlace
<1> QED BY <1>3, <1>8 DEF k

\* shrink_to_fit()
LEMMA ShrinkSettles ==
  ASSUME VInv, NEW v \in Vectors, Shrink(v)
  PROVE  /\ chain[v].at # None \/ Len(store[v].elem) < store[v].cap => Settles(v, bond')
         /\ store'[v].elem = store[v].elem /\ OthersStay(v)
<1> DEFINE s == store[v]
           n == Len(s.elem)
           new == IF n = 0 THEN [s EXCEPT !.cap = 0, !.buf = None, !.husk = s.buf]
                  ELSE Stored(s.elem, n, s.mem)
<1>1. /\ s \in StoreType /\ s.elem \in Seq(Elements) /\ s.cap \in Nat /\ n \in Nat
      /\ IsInjective(s.elem) /\ s.mem \in MemTypes
  BY VectorFacts DEF VInv
<1>2. CASE n < s.cap
  <2>1. /\ StoreSound(new) /\ new.elem = s.elem
        /\ \A w \in Vectors : w # v => (new.buf # None => store[w].buf # new.buf)
    <3>1. CASE n = 0
      <4>1. /\ new = [s EXCEPT !.cap = 0, !.buf = None, !.husk = s.buf]
        BY <3>1
      <4> HIDE DEF new
      <4>2. /\ new \in StoreType /\ new.elem = s.elem /\ new.cap = 0 /\ new.buf = None
        BY <1>1, <4>1 DEF StoreType
      <4> QED BY <1>1, <3>1, <4>2 DEF StoreSound
    <3>2. CASE n # 0
      <4>1. new = Stored(s.elem, n, s.mem) /\ n \in Nat \ {0} /\ n <= n
        BY <1>1, <3>2
      <4>2. Stored(s.elem, n, s.mem).elem = s.elem
        BY DEF Stored
      <4> QED BY <1>1, <4>1, <4>2, StoredIsSound
    <3> QED BY <3>1, <3>2
  <2>2. Rebuild(v, new) /\ bond' = Loosen(chain[v], 1)
    BY <1>2 DEF Shrink
  <2> HIDE DEF new
  <2>3. Settles(v, Loosen(chain[v], 1)) /\ store'[v] = new
    BY <2>1, <2>2, RebuildSettles
  <2> QED BY <2>1, <2>2, <2>3 DEF Settles, OthersStay
<1>3. CASE ~(n < s.cap)
  <2>1. UNCHANGED <<store, chain, loc, bond>>
    BY <1>3 DEF Shrink
  <2>2. chain[v].at # None => Settles(v, bond)
    BY <2>1, NothingSettles
  <2> QED BY <1>3, <2>1, <2>2 DEF OthersStay
<1> QED BY <1>2, <1>3

-----------------------------------------------------------------------------
(* Member functions keep the invariant *)

\* A member function that is done leaves no loop behind.
LEMMA NoJobIsSound == job' = NoJob => JobInv'
<1> SUFFICES ASSUME job' = NoJob PROVE JobInv'
  OBVIOUS
<1>1. /\ job'.op = "none" /\ job'.v = None /\ job'.m = Default /\ job'.j = None
      /\ job'.first = NoNode /\ job'.last = NoNode /\ job'.new = <<>> /\ job'.head = None
      /\ job'.left = 0 /\ job'.goal = <<>>
  BY DEF NoJob
<1>2. NoNode \in NodeType /\ OneChain(NoNode)
  BY NoNodeFollows
<1>3. job' \in JobType
  <2>1. NoJob \in JobType
    BY <1>2, VectorAssumption DEF NoJob, JobType
  <2> QED BY <2>1
<1>4. JobIsNew'
  BY <1>1 DEF JobIsNew, IsInjective, Range
<1> QED BY <1>1, <1>2, <1>3, <1>4 DEF JobInv

\* A member function ends.
LEMMA DoneKeeps ==
  ASSUME DataInv', HeldInv', fault' \in Faults, job' = NoJob
  PROVE  VInv'
BY NoJobIsSound DEF VInv

\* A vector has changed, and no iterator is returned.
LEMMA SettledKeeps ==
  ASSUME VInv, NEW v \in Vectors, Settles(v, bond'), it' = it
  PROVE  DataInv' /\ HeldInv'
<1>1. /\ it \in [Iters -> NodeType] /\ bond' \in [Iters -> Bonds]
      /\ \A i \in Iters : OneChain(it[i]) /\ Follows(it[i], bond'[i], store', chain', loc')
  BY DEF VInv, HeldInv, Settles
<1>2. HeldInv'
  BY <1>1, HeldStays
<1> QED BY <1>2 DEF Settles

\* Nothing changes but what is said of a fault, or the loop.
LEMMA NothingKeeps ==
  ASSUME VInv, UNCHANGED <<store, chain, loc, it, bond>>
  PROVE  DataInv' /\ HeldInv'
<1>1. DataInv'
  BY DEF VInv, DataInv
<1>2. HeldInv'
  BY DEF VInv, HeldInv
<1> QED BY <1>1, <1>2

\* Undefined behaviour changes no data.
LEMMA FaultKeeps ==
  ASSUME VInv, Calm, NEW what \in Faults, Fault(what)
  PROVE  VInv'
BY NothingKeeps, DoneKeeps DEF Fault, Calm

\* New elements are not in a vector yet.
LEMMA FreshIsNew ==
  ASSUME NEW n \in Nat, CanMake(n)
  PROVE  /\ Fresh(n) \in Seq(Elements) /\ Len(Fresh(n)) = n /\ IsInjective(Fresh(n))
         /\ \A v \in Vectors : Range(Fresh(n)) \cap Range(store[v].elem) = {}
<1>1. /\ Fresh(n) \in Seq(Elements) /\ Len(Fresh(n)) = n /\ IsInjective(Fresh(n))
      /\ Fresh(n) \in [1..n -> SpareElements]
  BY FreshExists
<1>2. Range(Fresh(n)) \subseteq SpareElements
  BY <1>1 DEF Range
<1>3. \A v \in Vectors, e \in SpareElements : e \notin Range(store[v].elem)
  BY DEF SpareElements
<1> QED BY <1>1, <1>2, <1>3

\* One new element.
LEMMA OneFresh ==
  ASSUME CanMake(1)
  PROVE  /\ Fresh(1)[1] \in Elements
         /\ \A v \in Vectors : Fresh(1)[1] \notin Range(store[v].elem)
<1>1. /\ Fresh(1) \in Seq(Elements) /\ Len(Fresh(1)) = 1
      /\ \A v \in Vectors : Range(Fresh(1)) \cap Range(store[v].elem) = {}
  BY FreshIsNew
<1>2. Fresh(1)[1] \in Elements /\ Fresh(1)[1] \in Range(Fresh(1))
  BY <1>1 DEF Range
<1> QED BY <1>1, <1>2

\* What is not lost when a chain goes away without invalidate() was obtained
\* from another one.
LEMMA LoseLeaves ==
  ASSUME VInv, NEW v \in Vectors, NEW i \in Iters
  PROVE  LET b == Lose(chain[v])[i]
         IN  /\ Lose(chain[v]) \in [Iters -> Bonds]
             /\ b # "lost" /\ Valid(it[i], loc) =>
                  \E u \in Vectors \ {v} : /\ it[i].cell[1] = chain[u].at
                                          /\ it[i].cell[2] \in Range(store[u].elem)
             /\ b = "steady" /\ it[i] # NoNode =>
                  \E u \in Vectors \ {v} : \E k \in 2..Len(chain[u].node) : it[i] = chain[u].node[k]
<1> DEFINE ch == chain[v]
           gone(x) == Valid(it[x], loc) /\ it[x].cell[1] = ch.at
           b == Lose(ch)[i]
<1>1. bond \in [Iters -> Bonds]
  BY DEF VInv, HeldInv
<1>2. Loosen(ch, 1) \in [Iters -> Bonds]
  BY <1>1, LoosenFacts
<1>3. Loosen(ch, 1)[i] # "lost" => bond[i] # "lost"
  BY <1>1, LoosenFacts
<1>4. Loosen(ch, 1)[i] = "steady" =>
             bond[i] = "steady" /\ ~(OnChain(it[i], ch) /\ it[i].prev[2] + 1 >= 1)
  BY <1>1, LoosenFacts
<1>5. Lose(ch) = [x \in Iters |-> IF gone(x) THEN "lost" ELSE Loosen(ch, 1)[x]]
  BY DEF Lose
<1> HIDE DEF gone
<1>6. Lose(ch) \in [Iters -> Bonds]
  BY <1>2, <1>5 DEF Bonds
<1>7. b # "lost" => ~gone(i) /\ bond[i] # "lost"
  BY <1>3, <1>5
<1>8. b = "steady" => bond[i] = "steady" /\ ~(OnChain(it[i], ch) /\ it[i].prev[2] + 1 >= 1)
  BY <1>4, <1>5
<1>9. Follows(it[i], bond[i], store, chain, loc)
  BY DEF VInv, HeldInv
<1> HIDE DEF b
<1>10. ASSUME b # "lost", Valid(it[i], loc)
       PROVE  \E u \in Vectors \ {v} : /\ it[i].cell[1] = chain[u].at
                                      /\ it[i].cell[2] \in Range(store[u].elem)
  <2>1. it[i].cell[1] # ch.at
    BY <1>7, <1>10 DEF gone
  <2> QED BY <1>7, <1>9, <1>10, <2>1 DEF Follows
<1>11. ASSUME b = "steady", it[i] # NoNode
       PROVE  \E u \in Vectors \ {v} : \E k \in 2..Len(chain[u].node) : it[i] = chain[u].node[k]
  <2>1. PICK u \in Vectors : \E k \in 2..Len(chain[u].node) : it[i] = chain[u].node[k]
    BY <1>8, <1>9, <1>11 DEF Follows
  <2>2. PICK k \in 2..Len(chain[u].node) : it[i] = chain[u].node[k]
    BY <2>1
  <2>3. ASSUME u = v PROVE FALSE
    <3>1. store[v].elem \in Seq(Elements) /\ store[v].cap \in Nat
      BY VectorFacts DEF VInv
    <3>2. ch.node # <<>>
      BY <2>2, <2>3
    <3>3. Chained(ch, store[v].elem, store[v].cap)
      BY <3>2, VectorFacts DEF VInv, NoChain
    <3>4. Len(ch.node) = Len(store[v].elem) + 2
      BY <3>1, <3>3, ChainedNodes
    <3>5. k \in 1..(Len(store[v].elem) + 2) /\ k >= 2
      BY <2>2, <2>3, <3>1, <3>4
    <3>6. OnChain(ch.node[k], ch) /\ ch.node[k].prev[2] + 1 >= k
      BY <3>1, <3>3, <3>5, ChainedPrev
    <3>7. it[i] = ch.node[k]
      BY <2>2, <2>3
    <3>8. it[i].prev[2] \in Nat
      BY <3>6, <3>7 DEF VInv, HeldInv, NodeType, OnChain, Addresses
    <3> QED BY <1>8, <1>11, <3>5, <3>6, <3>7, <3>8
  <2> QED BY <2>1, <2>3
<1> QED BY <1>6, <1>10, <1>11 DEF b

\* The data of one vector are made anew.
LEMMA RebuiltKeeps ==
  ASSUME VInv, NEW v \in Vectors, NEW s, StoreSound(s),
         \A w \in Vectors : w # v => (s.buf # None => store[w].buf # s.buf),
         Rebuild(v, s), bond' = Loosen(chain[v], 1), it' = it
  PROVE  DataInv' /\ HeldInv' /\ store'[v] = s /\ OthersStay(v)
<1>1. Settles(v, bond') /\ store'[v] = s
  BY RebuildSettles
<1>2. OthersStay(v)
  BY <1>1 DEF Settles, OthersStay
<1> QED BY <1>1, <1>2, SettledKeeps

\* The constructors, assign() and clear().
LEMMA AssignKeeps ==
  ASSUME VInv, NEW v \in Vectors, NEW n \in Nat, NEW m \in MemTypes, Assign(v, n, m)
  PROVE  VInv'
<1>1. /\ Fresh(n) \in Seq(Elements) /\ IsInjective(Fresh(n)) /\ Len(Fresh(n)) <= n
  BY FreshIsNew DEF Assign
<1>2. /\ StoreSound(Built(Fresh(n), n, m))
      /\ \A w \in Vectors : Built(Fresh(n), n, m).buf # None =>
                              store[w].buf # Built(Fresh(n), n, m).buf
  BY <1>1, BuiltIsSound
<1>3. Rebuild(v, Built(Fresh(n), n, m)) /\ bond' = Loosen(chain[v], 1) /\ it' = it
  BY DEF Assign
<1>4. DataInv' /\ HeldInv'
  BY <1>2, <1>3, RebuiltKeeps
<1> QED BY <1>4, DoneKeeps DEF Assign, Calm, Faults

\* Copying.
LEMMA CopyAssignKeeps ==
  ASSUME VInv, NEW v \in Vectors, NEW w \in Vectors, CopyAssign(v, w)
  PROVE  VInv'
<1> DEFINE s == store[w]
           n == Len(s.elem)
           new == Built(Fresh(n), s.cap, Default)
<1>1. /\ s.elem \in Seq(Elements) /\ s.cap \in Nat /\ n \in Nat /\ n <= s.cap /\ StoreSound(s)
  BY VectorFacts DEF VInv, DataInv, DataOK
<1>2. bond' = Loosen(chain[v], 1) /\ it' = it /\ job' = NoJob /\ CanMake(n) /\ fault \in Faults
  BY DEF CopyAssign, Calm, Faults
<1>3. CASE s.husk # None
  <2>1. Rebuild(v, s) /\ fault' = "shared block"
    BY <1>3 DEF CopyAssign
  <2>2. s.buf = None
    BY <1>1, <1>3 DEF StoreSound
  <2>3. DataInv' /\ HeldInv'
    BY <1>1, <1>2, <2>1, <2>2, RebuiltKeeps
  <2> QED BY <1>2, <2>1, <2>3, DoneKeeps DEF Faults
<1>4. CASE s.husk = None
  <2>1. Rebuild(v, new) /\ fault' = fault
    BY <1>4 DEF CopyAssign
  <2>2. Fresh(n) \in Seq(Elements) /\ IsInjective(Fresh(n)) /\ Len(Fresh(n)) <= s.cap
    BY <1>1, <1>2, FreshIsNew
  <2>3. StoreSound(new) /\ \A u \in Vectors : new.buf # None => store[u].buf # new.buf
    BY <1>1, <2>2, VectorAssumption, BuiltIsSound
  <2> HIDE DEF new
  <2>4. DataInv' /\ HeldInv'
    BY <1>2, <2>1, <2>3, RebuiltKeeps
  <2> QED BY <1>2, <2>1, <2>4, DoneKeeps
<1> QED BY <1>3, <1>4

\* reserve()
LEMMA ReserveKeeps ==
  ASSUME VInv, NEW v \in Vectors, NEW n \in Nat, NEW m \in MemTypes, Reserve(v, n, m)
  PROVE  VInv'
<1> DEFINE s == store[v]
           new == IF m = s.mem THEN Stored(s.elem, n, m) ELSE Built(<<>>, n, m)
<1>0. Calm /\ (n > s.cap \/ m # s.mem)
  BY DEF Reserve
<1>1. CASE s.husk # None /\ n = 0
  <2>1. Fault("assert") /\ "assert" \in Faults
    BY <1>1 DEF Reserve, Faults
  <2> QED BY <1>0, <2>1, FaultKeeps
<1>2. CASE ~(s.husk # None /\ n = 0)
  <2>1. Rebuild(v, new) /\ bond' = Loosen(chain[v], 1) /\ it' = it /\ job' = job /\ fault' = fault
    BY <1>2 DEF Reserve
  <2>2. s.elem \in Seq(Elements) /\ s.cap \in Nat /\ Len(s.elem) <= s.cap /\ IsInjective(s.elem)
    BY VectorFacts DEF VInv
  <2>3. StoreSound(new) /\ \A w \in Vectors : new.buf # None => store[w].buf # new.buf
    <3>1. CASE m = s.mem
      <4>1. n \in Nat \ {0} /\ Len(s.elem) <= n
        BY <1>0, <2>2, <3>1
      <4> QED BY <2>2, <3>1, <4>1, StoredIsSound
    <3>2. CASE m # s.mem
      <4>1. <<>> \in Seq(Elements) /\ IsInjective(<<>>) /\ Len(<<>>) <= n
        BY DEF IsInjective
      <4>2. new = Built(<<>>, n, m)
        BY <3>2
      <4>3. /\ StoreSound(Built(<<>>, n, m))
            /\ \A w \in Vectors : Built(<<>>, n, m).buf # None => store[w].buf # Built(<<>>, n, m).buf
        BY <4>1, BuiltIsSound, ZenonT(30)
      <4> HIDE DEF new
      <4> QED BY <4>2, <4>3
    <3> QED BY <3>1, <3>2
  <2> HIDE DEF new
  <2>4. DataInv' /\ HeldInv'
    BY <2>1, <2>3, RebuiltKeeps
  <2> QED BY <1>0, <2>1, <2>4, DoneKeeps DEF Calm, Faults
<1> QED BY <1>1, <1>2

\* shrink_to_fit()
LEMMA ShrinkToFitKeeps ==
  ASSUME VInv, NEW v \in Vectors, ShrinkToFit(v)
  PROVE  VInv'
<1>1. Settles(v, bond') /\ it' = it /\ job' = NoJob /\ fault' \in Faults
  BY ShrinkSettles DEF ShrinkToFit, Calm, Faults
<1> QED BY <1>1, SettledKeeps, DoneKeeps

\* emplace_back()
LEMMA EmplaceBackKeeps ==
  ASSUME VInv, NEW v \in Vectors, NEW m \in MemTypes, EmplaceBack(v, m)
  PROVE  VInv'
<1>1. Fresh(1)[1] \in Elements /\ Fresh(1)[1] \notin Range(store[v].elem)
  BY OneFresh DEF EmplaceBack
<1>2. Settles(v, bond') /\ it' = it /\ job' = NoJob /\ fault' \in Faults
  BY <1>1, Append1Settles DEF EmplaceBack, Calm, Faults
<1> QED BY <1>2, SettledKeeps, DoneKeeps

\* pop_back()
LEMMA PopBackKeeps ==
  ASSUME VInv, NEW v \in Vectors, PopBack(v)
  PROVE  VInv'
<1>1. Settles(v, bond') /\ it' = it /\ job' = NoJob /\ fault' \in Faults
  BY Pop1Settles DEF PopBack, Calm, Faults
<1> QED BY <1>1, SettledKeeps, DoneKeeps

\* insert() of one element.
LEMMA InsertKeeps ==
  ASSUME VInv, NEW v \in Vectors, NEW i \in Iters, NEW m \in MemTypes, NEW j \in Iters,
         Insert(v, i, m, j)
  PROVE  VInv'
<1>1. Fresh(1)[1] \in Elements /\ Fresh(1)[1] \notin Range(store[v].elem)
  BY OneFresh DEF Insert
<1>2. Insert1(v, it[i], m, Fresh(1)[1], j) /\ job' = NoJob
  BY DEF Insert, Calm
<1>3. DataInv' /\ HeldInv' /\ fault' \in Faults
  BY <1>1, <1>2, Insert1Settles
<1> QED BY <1>2, <1>3, DoneKeeps

\* erase() of one element.
LEMMA EraseKeeps ==
  ASSUME VInv, NEW v \in Vectors, NEW i \in Iters, NEW j \in Iters, Erase(v, i, j)
  PROVE  VInv'
<1>1. Erase1(v, it[i], j) /\ job' = NoJob
  BY DEF Erase, Calm
<1>2. DataInv' /\ HeldInv' /\ fault' \in Faults
  BY <1>1, Erase1Settles
<1> QED BY <1>1, <1>2, DoneKeeps

\* What a vector without a chain is.
LEMMA VacantIsSound == StoreSound(Vacant) /\ NoChain \in ChainType /\ Vacant \in StoreType
<1>1. Vacant \in StoreType /\ NoChain \in ChainType
  BY VectorAssumption DEF Vacant, StoreType, NoChain, ChainType
<1>2. StoreSound(Vacant)
  BY <1>1 DEF StoreSound, Vacant, IsInjective
<1> QED BY <1>1, <1>2

\* Moving: the target has the chain and the storage that the source gives up.
LEMMA MoveAssignKeeps ==
  ASSUME VInv, NEW v \in Vectors, NEW w \in Vectors, MoveAssign(v, w)
  PROVE  VInv'
<1>1. /\ v # w /\ loc' = loc /\ it' = it /\ job' = NoJob /\ fault' = "none"
      /\ bond' = Lose(chain[v])
  BY DEF MoveAssign, Calm
<1>2. /\ store \in [Vectors -> StoreType] /\ chain \in [Vectors -> ChainType] /\ loc \in LocType
      /\ \A u \in Vectors : StoreSound(store[u]) /\ Matched(chain[u], store[u], loc)
      /\ Apart(store, chain)
  BY DEF VInv, DataInv, DataOK
<1>3. /\ store'[v] = store[w] /\ store'[w] = Vacant /\ chain'[v] = chain[w] /\ chain'[w] = NoChain
      /\ \A u \in Vectors \ {v, w} : store'[u] = store[u] /\ chain'[u] = chain[u]
  BY <1>1, <1>2 DEF MoveAssign
<1>4. store' \in [Vectors -> StoreType] /\ chain' \in [Vectors -> ChainType]
  BY <1>2, VacantIsSound DEF MoveAssign
<1>5. ASSUME NEW u \in Vectors PROVE StoreSound(store'[u]) /\ Matched(chain'[u], store'[u], loc')
  <2>1. CASE u = v
    BY <1>1, <1>2, <1>3, <2>1
  <2>2. CASE u = w
    BY <1>1, <1>3, <2>2, VacantIsSound DEF Matched
  <2>3. CASE u \notin {v, w}
    BY <1>1, <1>2, <1>3, <2>3
  <2> QED BY <2>1, <2>2, <2>3
<1>6. Apart(store', chain')
  <2> SUFFICES ASSUME NEW a \in Vectors, NEW b \in Vectors, a # b
               PROVE  /\ chain'[a].at # None => chain'[a].at # chain'[b].at
                      /\ store'[a].buf # None => store'[a].buf # store'[b].buf
    BY DEF Apart
  <2> DEFINE was(u) == IF u = v THEN w ELSE IF u = w THEN v ELSE u
  <2>1. was(a) \in Vectors /\ was(b) \in Vectors /\ was(a) # was(b)
    BY <1>1
  <2>2. \A u \in Vectors : \/ chain'[u] = chain[was(u)] /\ store'[u] = store[was(u)]
                           \/ chain'[u].at = None /\ store'[u].buf = None
    BY <1>3 DEF NoChain, Vacant
  <2>3. /\ chain[was(a)].at # None => chain[was(a)].at # chain[was(b)].at
        /\ store[was(a)].buf # None => store[was(a)].buf # store[was(b)].buf
    BY <1>2, <2>1 DEF Apart
  <2> HIDE DEF was
  <2> QED BY <2>2, <2>3
<1>7. DataInv'
  BY <1>1, <1>2, <1>4, <1>5, <1>6 DEF DataInv, DataOK
<1>8. ASSUME NEW i \in Iters PROVE Follows(it[i], bond'[i], store', chain', loc')
  <2>1. \A u \in Vectors \ {v} : \E x \in Vectors : store'[x] = store[u] /\ chain'[x] = chain[u]
    BY <1>3
  <2>2. ASSUME bond'[i] # "lost", Valid(it[i], loc')
        PROVE  \E u \in Vectors : it[i].cell[1] = chain'[u].at /\ it[i].cell[2] \in Range(store'[u].elem)
    BY <1>1, <2>1, <2>2, LoseLeaves
  <2>3. ASSUME bond'[i] = "steady", it[i] # NoNode
        PROVE  \E u \in Vectors : \E k \in 2..Len(chain'[u].node) : it[i] = chain'[u].node[k]
    BY <1>1, <2>1, <2>3, LoseLeaves
  <2> QED BY <2>2, <2>3 DEF Follows
<1>9. HeldInv'
  <2>1. it' \in [Iters -> NodeType] /\ bond' \in [Iters -> Bonds]
    <3>1. \A i \in Iters : Lose(chain[v]) \in [Iters -> Bonds]
      BY LoseLeaves
    <3>2. CASE Iters = {}
      <4>1. bond' \in [Iters -> Bonds]
        BY <1>1, <3>2 DEF Lose
      <4> QED BY <1>1, <4>1 DEF VInv, HeldInv
    <3>3. CASE Iters # {}
      BY <1>1, <3>1, <3>3 DEF VInv, HeldInv
    <3> QED BY <3>2, <3>3
  <2>2. \A i \in Iters : OneChain(it'[i]) /\ Follows(it'[i], bond'[i], store', chain', loc')
    BY <1>1, <1>8 DEF VInv, HeldInv
  <2> QED BY <2>1, <2>2 DEF HeldInv
<1> QED BY <1>1, <1>7, <1>9, DoneKeeps DEF Faults

\* swap()
LEMMA SwapKeeps ==
  ASSUME VInv, NEW v \in Vectors, NEW w \in Vectors, Swap(v, w)
  PROVE  VInv'
<1> DEFINE was(u) == IF u = v THEN w ELSE IF u = w THEN v ELSE u
<1>1. /\ v # w /\ loc' = loc /\ it' = it /\ bond' = bond /\ job' = NoJob /\ fault' = "none"
  BY DEF Swap, Calm
<1>2. /\ store \in [Vectors -> StoreType] /\ chain \in [Vectors -> ChainType] /\ loc \in LocType
      /\ \A u \in Vectors : StoreSound(store[u]) /\ Matched(chain[u], store[u], loc)
      /\ Apart(store, chain)
  BY DEF VInv, DataInv, DataOK
<1>3. \A u \in Vectors : chain'[u] = chain[was(u)] /\ store'[u] = store[was(u)]
  BY <1>1, <1>2 DEF Swap
<1>4. store' \in [Vectors -> StoreType] /\ chain' \in [Vectors -> ChainType]
  BY <1>2 DEF Swap
<1>5. /\ \A u \in Vectors : was(u) \in Vectors /\ was(was(u)) = u
      /\ \A a, b \in Vectors : a # b => was(a) # was(b)
  BY <1>1
<1> HIDE DEF was
<1>6. ASSUME NEW u \in Vectors PROVE StoreSound(store'[u]) /\ Matched(chain'[u], store'[u], loc')
  BY <1>1, <1>2, <1>3, <1>5
<1>7. Apart(store', chain')
  BY <1>2, <1>3, <1>5 DEF Apart
<1>8. DataInv'
  BY <1>1, <1>2, <1>4, <1>6, <1>7 DEF DataInv, DataOK
<1>9. ASSUME NEW i \in Iters PROVE Follows(it[i], bond[i], store', chain', loc')
  <2>1. Follows(it[i], bond[i], store, chain, loc)
    BY DEF VInv, HeldInv
  <2>2. \A u \in Vectors : was(u) \in Vectors /\ chain'[was(u)] = chain[u] /\ store'[was(u)] = store[u]
    BY <1>3, <1>5
  <2>3. ASSUME bond[i] # "lost", Valid(it[i], loc)
        PROVE  \E u \in Vectors : it[i].cell[1] = chain'[u].at /\ it[i].cell[2] \in Range(store'[u].elem)
    BY <2>1, <2>2, <2>3 DEF Follows
  <2>4. ASSUME bond[i] = "steady", it[i] # NoNode
        PROVE  \E u \in Vectors : \E k \in 2..Len(chain'[u].node) : it[i] = chain'[u].node[k]
    BY <2>1, <2>2, <2>4 DEF Follows
  <2> QED BY <1>1, <2>3, <2>4 DEF Follows
<1>10. HeldInv'
  BY <1>1, <1>9 DEF VInv, HeldInv
<1> QED BY <1>1, <1>8, <1>10, DoneKeeps DEF Faults

\* transfer_internal_memory(): the cells of the old chain are lost.
LEMMA TransferKeeps ==
  ASSUME VInv, NEW v \in Vectors, NEW m \in MemTypes, Transfer(v, m)
  PROVE  VInv'
<1> DEFINE s == store[v]
           n == Len(s.elem)
           c == SpareChain
           new == IF s.buf = None THEN s ELSE Stored(Fresh(n), s.cap, m)
           ch == NewChain(c, new.elem, new.cap)
<1>1. /\ store \in [Vectors -> StoreType] /\ chain \in [Vectors -> ChainType] /\ loc \in LocType
      /\ StoreSound(s) /\ s \in StoreType /\ s.elem \in Seq(Elements) /\ s.cap \in Nat /\ n \in Nat
      /\ n <= s.cap
  BY VectorFacts DEF VInv, DataInv, DataOK
<1>2. /\ it' = it /\ job' = NoJob /\ fault' = "none" /\ CanMake(n) /\ bond' = Lose(chain[v])
      /\ store' = [store EXCEPT ![v] = new]
  BY DEF Transfer, Calm
<1>3. /\ StoreSound(new) /\ new.cap = s.cap
      /\ \A w \in Vectors : w # v => (new.buf # None => store[w].buf # new.buf)
  <2>1. CASE s.buf = None
    BY <1>1, <2>1
  <2>2. CASE s.buf # None
    <3>1. Fresh(n) \in Seq(Elements) /\ IsInjective(Fresh(n)) /\ Len(Fresh(n)) <= s.cap
      BY <1>1, <1>2, FreshIsNew
    <3>2. s.cap \in Nat \ {0}
      BY <1>1, <2>2 DEF StoreSound
    <3>3. new = Stored(Fresh(n), s.cap, m)
      BY <2>2
    <3> QED BY <3>1, <3>2, <3>3, StoredIsSound DEF Stored
  <2> QED BY <2>1, <2>2
<1> HIDE DEF new
<1>4. /\ store'[v] = new /\ chain' = [chain EXCEPT ![v] = ch]
      /\ loc' = PointCells(loc, c, new.elem, new.buf)
  <2>1. store'[v] = new
    BY <1>1, <1>2
  <2>2. /\ chain' = [chain EXCEPT ![v] = NewChain(c, store'[v].elem, s.cap)]
        /\ loc' = PointCells(loc, c, store'[v].elem, store'[v].buf)
    BY DEF Transfer
  <2> QED BY <1>3, <2>1, <2>2
<1>5. /\ c \in Chains /\ c # None /\ \A w \in Vectors : chain[w].at # c
      /\ \A i \in Iters : c \notin Known(it[i])
  BY Spares, NoneIsNoName
<1> HIDE DEF c, ch
<1>6. /\ new.elem \in Seq(Elements) /\ new.cap \in Nat /\ IsInjective(new.elem)
      /\ new.buf \in Buffers \cup {None} /\ (new.buf = None => new.elem = <<>>)
  <2>1. /\ new.elem \in Seq(Elements) /\ new.cap \in Nat /\ IsInjective(new.elem)
        /\ new.buf \in Buffers \cup {None}
    BY <1>3 DEF StoreSound, StoreType
  <2>2. new.buf = None => Len(new.elem) = 0
    BY <1>3, <2>1 DEF StoreSound
  <2> QED BY <2>1, <2>2, EmptySeq
<1>7. Chained(ch, new.elem, new.cap) /\ ch.at = c
  BY <1>5, <1>6, NewChainIsChained DEF ch
<1>8. /\ loc' \in LocType
      /\ \A x \in Cells : x[1] # c => loc'[x] = loc[x]
      /\ \A k \in 1..Len(new.elem) : loc'[<<c, new.elem[k]>>] = <<new.buf, k>>
  BY <1>1, <1>4, <1>5, <1>6, PointCellsPoints
<1>9. Located(ch, new, loc')
  BY <1>7, <1>8 DEF Located
<1>10. DataInv'
  <2>1. \A w \in Vectors : w # v => chain[w].at # ch.at
    BY <1>5, <1>7
  <2>2. \A w \in Vectors : w # v => \A x \in Cells : x[1] = chain[w].at => loc'[x] = loc[x]
    BY <1>5, <1>8
  <2> QED BY <1>2, <1>3, <1>4, <1>7, <1>8, <1>9, <2>1, <2>2, OneVectorChanges DEF VInv
<1>11. \A w \in Vectors \ {v} : store'[w] = store[w] /\ chain'[w] = chain[w]
  BY <1>1, <1>2, <1>4
<1>12. ASSUME NEW i \in Iters PROVE Follows(it[i], bond'[i], store', chain', loc')
  <2>1. ASSUME bond'[i] # "lost", Valid(it[i], loc')
        PROVE  \E u \in Vectors : it[i].cell[1] = chain'[u].at /\ it[i].cell[2] \in Range(store'[u].elem)
    <3>1. it[i].cell \in Cells /\ it[i].cell[1] # c
      BY <1>5, <2>1 DEF VInv, HeldInv, Valid, NodeType, Known
    <3>2. Valid(it[i], loc)
      BY <1>8, <2>1, <3>1 DEF Valid
    <3> QED BY <1>2, <1>11, <2>1, <3>2, LoseLeaves
  <2>2. ASSUME bond'[i] = "steady", it[i] # NoNode
        PROVE  \E u \in Vectors : \E k \in 2..Len(chain'[u].node) : it[i] = chain'[u].node[k]
    BY <1>2, <1>11, <2>2, LoseLeaves
  <2> QED BY <2>1, <2>2 DEF Follows
<1>13. HeldInv'
  <2>1. it' \in [Iters -> NodeType] /\ bond' \in [Iters -> Bonds]
    <3>1. \A i \in Iters : Lose(chain[v]) \in [Iters -> Bonds]
      BY LoseLeaves
    <3>2. CASE Iters = {}
      <4>1. bond' \in [Iters -> Bonds]
        BY <1>2, <3>2 DEF Lose
      <4> QED BY <1>2, <4>1 DEF VInv, HeldInv
    <3>3. CASE Iters # {}
      BY <1>2, <3>1, <3>3 DEF VInv, HeldInv
    <3> QED BY <3>2, <3>3
  <2>2. \A i \in Iters : OneChain(it'[i]) /\ Follows(it'[i], bond'[i], store', chain', loc')
    BY <1>2, <1>12 DEF VInv, HeldInv
  <2> QED BY <2>1, <2>2 DEF HeldInv
<1> QED BY <1>2, <1>10, <1>13, DoneKeeps DEF Faults

\* The node at an address.
LEMMA SlotOfVector ==
  ASSUME NEW stores, NEW chains, NEW locs, DataOK(stores, chains, locs), NEW v \in Vectors,
         NEW k \in DOMAIN chains[v].node
  PROVE  Slot(chains, <<chains[v].at, k>>) = chains[v].node[k]
<1> DEFINE c == chains[v].at
           p == <<c, k>>
           u == CHOOSE w \in Vectors : chains[w].at = c
<1>1. chains[v].at # None
  <2>1. CASE chains[v].at = None
    <3>1. chains[v] = NoChain
      BY <2>1, VectorFactsOf
    <3> QED BY <3>1 DEF NoChain
  <2> QED BY <2>1
<1>2. c \in Chains /\ k \in Nat \ {0}
  <2>1. c \in Chains
    BY <1>1, VectorFactsOf
  <2>2. chains[v].node \in Seq(NodeType)
    BY DEF DataOK, ChainType
  <2> QED BY <2>1, <2>2
<1>3. p # None
  BY <1>2, NoneIsNoName DEF Addresses
<1>4. u \in Vectors /\ chains[u].at = c
  OBVIOUS
<1>5. u = v
  BY <1>1, <1>4 DEF DataOK, Apart
<1> HIDE DEF u
<1>6. Slot(chains, p) = chains[u].node[k]
  BY <1>3 DEF Slot, u
<1> QED BY <1>5, <1>6

\* An address leads to a node of a chain or nowhere.
LEMMA SlotIsNode ==
  ASSUME NEW stores, NEW chains, NEW locs, DataOK(stores, chains, locs),
         NEW p, p \in Addresses(Chains) \cup {None}
  PROVE  \/ Slot(chains, p) = None
         \/ \E v \in Vectors : \E k \in DOMAIN chains[v].node :
              p = <<chains[v].at, k>> /\ Slot(chains, p) = chains[v].node[k]
<1>1. CASE p # None /\ \E v \in Vectors : chains[v].at = p[1] /\ p[2] \in DOMAIN chains[v].node
  <2>1. PICK v \in Vectors : chains[v].at = p[1] /\ p[2] \in DOMAIN chains[v].node
    BY <1>1
  <2>2. p = <<chains[v].at, p[2]>>
    BY <1>1, <2>1 DEF Addresses
  <2>3. Slot(chains, <<chains[v].at, p[2]>>) = chains[v].node[p[2]]
    BY <2>1, SlotOfVector
  <2> QED BY <2>1, <2>2, <2>3
<1>2. CASE ~(p # None /\ \E v \in Vectors : chains[v].at = p[1] /\ p[2] \in DOMAIN chains[v].node)
  BY <1>2 DEF Slot
<1> QED BY <1>1, <1>2

\* A node that is found there was made by one chain.
LEMMA SlotIsOneChain ==
  ASSUME NEW stores, NEW chains, NEW locs, DataOK(stores, chains, locs),
         NEW p, p \in Addresses(Chains) \cup {None}, Slot(chains, p) # None
  PROVE  Slot(chains, p) \in NodeType /\ OneChain(Slot(chains, p))
<1>1. PICK v \in Vectors : \E k \in DOMAIN chains[v].node : Slot(chains, p) = chains[v].node[k]
  BY SlotIsNode
<1>2. PICK k \in DOMAIN chains[v].node : Slot(chains, p) = chains[v].node[k]
  BY <1>1
<1> DEFINE elem == stores[v].elem
           cap == stores[v].cap
           ch == chains[v]
<1>3. elem \in Seq(Elements) /\ cap \in Nat /\ ch.node # <<>>
  BY <1>2, VectorFactsOf
<1>4. Chained(ch, elem, cap)
  BY <1>3, VectorFactsOf DEF NoChain
<1> HIDE DEF elem, cap, ch
<1>5. ch.node \in Seq(NodeType) /\ DOMAIN ch.node = 1..(Len(elem) + 2)
  BY <1>3, <1>4, ChainedNodes
<1>6. k \in 1..(Len(elem) + 2) /\ Slot(chains, p) = ch.node[k]
  BY <1>2, <1>5 DEF ch
<1>7. OneChain(ch.node[k])
  BY <1>3, <1>4, <1>6, ChainedPrev
<1>8. ch.node[k] \in NodeType
  BY <1>5, <1>6
<1> QED BY <1>6, <1>7, <1>8

\* What lies behind the front of a chain may be held.
LEMMA SlotIsHeld ==
  ASSUME NEW stores, NEW chains, NEW locs, DataOK(stores, chains, locs),
         NEW p, p \in Addresses(Chains) \cup {None}, p # None => p[2] > 1
  PROVE  Slot(chains, p) = None \/ NodeOf(Slot(chains, p), chains)
<1> SUFFICES ASSUME Slot(chains, p) # None PROVE NodeOf(Slot(chains, p), chains)
  OBVIOUS
<1>1. PICK v \in Vectors : \E k \in DOMAIN chains[v].node :
              p = <<chains[v].at, k>> /\ Slot(chains, p) = chains[v].node[k]
  BY SlotIsNode
<1>2. PICK k \in DOMAIN chains[v].node : p = <<chains[v].at, k>> /\ Slot(chains, p) = chains[v].node[k]
  BY <1>1
<1>3. p # None
  BY DEF Slot
<1>4. k > 1
  BY <1>2, <1>3
<1>5. chains[v].node \in Seq(NodeType)
  BY DEF DataOK, ChainType
<1>6. k \in 2..Len(chains[v].node)
  BY <1>4, <1>5
<1> QED BY <1>2, <1>6 DEF NodeOf

\* An iterator is returned, and nothing else changes.
LEMMA ReturnOnlyKeeps ==
  ASSUME VInv, UNCHANGED <<store, chain, loc>>, NEW j \in Iters,
         NEW n, n = None \/ NodeOf(n, chain), Return(j, n, bond)
  PROVE  /\ DataInv' /\ HeldInv' /\ fault' \in Faults
         /\ fault' = "null" \/ (fault' = fault /\ it'[j] = n)
<1>1. /\ DataInv' /\ it \in [Iters -> NodeType] /\ bond \in [Iters -> Bonds] /\ fault \in Faults
      /\ \A i \in Iters : OneChain(it[i]) /\ Follows(it[i], bond[i], store', chain', loc')
  BY DEF VInv, DataInv, HeldInv
<1>2. n = None \/ n = NoNode \/ NodeOf(n, chain')
  BY DEF NodeOf
<1> HIDE DEF NodeOf
<1> QED BY <1>1, <1>2, ReturnKeeps

\* begin() and end()
LEMMA BeginKeeps ==
  ASSUME VInv, NEW v \in Vectors, NEW i \in Iters, Begin(v, i) \/ EndOf(v, i)
  PROVE  VInv'
<1>1. CASE chain[v].at = None
  <2>1. Calm /\ Fault("null") /\ "null" \in Faults
    BY <1>1 DEF Begin, EndOf, Faults
  <2> QED BY <2>1, FaultKeeps
<1>2. CASE chain[v].at # None
  <2>1. NodeOf(FrontNode(chain[v]), chain) /\ NodeOf(EndNode(chain[v]), chain)
    BY <1>2, NodesOfVector DEF VInv, DataInv
  <2>2. /\ UNCHANGED <<store, chain, loc, job>> /\ Calm
        /\ Return(i, FrontNode(chain[v]), bond) \/ Return(i, EndNode(chain[v]), bond)
    BY <1>2 DEF Begin, EndOf
  <2>3. DataInv' /\ HeldInv' /\ fault' \in Faults
    BY <2>1, <2>2, ReturnOnlyKeeps
  <2> QED BY <2>2, <2>3, DoneKeeps DEF Calm
<1> QED BY <1>1, <1>2

\* A valid steady iterator is that of an element, and leads on behind it.
LEMMA SteadyLeadsOn ==
  ASSUME VInv, NEW i \in Iters, bond[i] = "steady", it[i].cell # None
  PROVE  \E v \in Vectors : \E k \in 1..Len(store[v].elem) :
           /\ chain[v].at \in Chains /\ it[i] = chain[v].node[k + 1]
           /\ it[i] = NodeAt(chain[v].at, k + 1, store[v].elem[k])
<1>1. it[i] # NoNode
  BY DEF NoNode
<1>2. PICK v \in Vectors : \E k \in 2..Len(chain[v].node) : it[i] = chain[v].node[k]
  BY <1>1 DEF VInv, HeldInv, Follows
<1>3. PICK k \in 2..Len(chain[v].node) : it[i] = chain[v].node[k]
  BY <1>2
<1> DEFINE elem == store[v].elem
           cap == store[v].cap
           ch == chain[v]
<1>4. elem \in Seq(Elements) /\ cap \in Nat /\ ch.node # <<>>
  BY <1>3, VectorFacts DEF VInv
<1>5. Chained(ch, elem, cap)
  BY <1>4, VectorFacts DEF VInv, NoChain
<1> HIDE DEF elem, cap, ch
<1>6. /\ ch.at \in Chains /\ Len(ch.node) = Len(elem) + 2
      /\ ch.node[Len(elem) + 2].cell = None
      /\ \A x \in 1..Len(elem) : ch.node[x + 1] = NodeAt(ch.at, x + 1, elem[x])
  BY <1>4, <1>5, ChainedNodes
<1>7. k \in 2..(Len(elem) + 2) /\ it[i] = ch.node[k]
  BY <1>3, <1>6 DEF ch
<1>8. k # Len(elem) + 2
  BY <1>6, <1>7
<1>9. k - 1 \in 1..Len(elem) /\ (k - 1) + 1 = k
  BY <1>4, <1>7, <1>8
<1>10. it[i] = ch.node[(k - 1) + 1] /\ it[i] = NodeAt(ch.at, (k - 1) + 1, elem[k - 1])
  BY <1>6, <1>7, <1>9
<1> QED BY <1>6, <1>9, <1>10 DEF ch, elem

\* operator++
LEMMA AdvanceKeeps ==
  ASSUME VInv, NEW i \in Iters, Advance(i)
  PROVE  VInv'
<1>1. PICK v \in Vectors : \E k \in 1..Len(store[v].elem) :
           it[i] = NodeAt(chain[v].at, k + 1, store[v].elem[k])
  BY SteadyLeadsOn DEF Advance, Valid
<1>2. PICK k \in 1..Len(store[v].elem) : it[i] = NodeAt(chain[v].at, k + 1, store[v].elem[k])
  BY <1>1
<1>3. it[i].next = <<chain[v].at, (k + 1) + 1>> /\ it[i].next[2] > 1
  BY <1>2 DEF NodeAt
<1>4. it[i].next \in Addresses(Chains) \cup {None}
  BY DEF VInv, HeldInv, NodeType
<1>5. Slot(chain, it[i].next) = None \/ NodeOf(Slot(chain, it[i].next), chain)
  BY <1>3, <1>4, SlotIsHeld DEF VInv, DataInv
<1>6. Return(i, Slot(chain, it[i].next), bond) /\ UNCHANGED <<store, chain, loc, job>> /\ Calm
  BY DEF Advance
<1>7. DataInv' /\ HeldInv' /\ fault' \in Faults
  BY <1>5, <1>6, ReturnOnlyKeeps
<1> QED BY <1>6, <1>7, DoneKeeps DEF Calm

\* operator--
LEMMA RetreatKeeps ==
  ASSUME VInv, NEW i \in Iters, Retreat(i)
  PROVE  VInv'
<1>1. it[i].prev \in Addresses(Chains) \cup {None} /\ it[i].prev[2] > 1
  BY DEF VInv, HeldInv, NodeType, Retreat
<1>2. Slot(chain, it[i].prev) = None \/ NodeOf(Slot(chain, it[i].prev), chain)
  BY <1>1, SlotIsHeld DEF VInv, DataInv
<1>3. Return(i, Slot(chain, it[i].prev), bond) /\ UNCHANGED <<store, chain, loc, job>> /\ Calm
  BY DEF Retreat
<1>4. DataInv' /\ HeldInv' /\ fault' \in Faults
  BY <1>2, <1>3, ReturnOnlyKeeps
<1> QED BY <1>3, <1>4, DoneKeeps DEF Calm

-----------------------------------------------------------------------------
(* Member functions that loop keep it *)

\* The elements from a to b of a sequence, if b is not behind the last.
LEMMA PartOf ==
  ASSUME NEW s \in Seq(Elements), NEW a \in Nat \ {0}, NEW b \in Int, b <= Len(s), b >= a - 1
  PROVE  /\ SubSeq(s, a, b) \in Seq(Elements) /\ Len(SubSeq(s, a, b)) = b - a + 1
         /\ \A k \in 1..(b - a + 1) : SubSeq(s, a, b)[k] = s[a + k - 1]
OBVIOUS

\* Putting one sequence behind another.
LEMMA Joined ==
  ASSUME NEW s \in Seq(Elements), NEW t \in Seq(Elements)
  PROVE  /\ s \o t \in Seq(Elements) /\ Len(s \o t) = Len(s) + Len(t)
         /\ \A k \in 1..(Len(s) + Len(t)) :
              (s \o t)[k] = IF k <= Len(s) THEN s[k] ELSE t[k - Len(s)]
OBVIOUS

\* insert() of several elements, up to the loop.
LEMMA InsertManyKeeps ==
  ASSUME VInv, NEW v \in Vectors, NEW i \in Iters, NEW m \in MemTypes, NEW n \in Nat,
         NEW bulk, NEW j \in Iters, InsertMany(v, i, m, n, bulk, j)
  PROVE  VInv'
<1> DEFINE s == store[v]
           new == Fresh(n)
           p == loc[it[i].cell]
           fits == s.buf # None /\ s.mem = m
           goal == IF ~fits THEN new
                   ELSE IF it[i].cell # None /\ Within(v, p)
                   THEN SubSeq(s.elem, 1, p[2] - 1) \o new
                          \o SubSeq(s.elem, p[2], Len(s.elem))
                   ELSE s.elem
<1>1. Calm /\ CanMake(n)
  BY DEF InsertMany
<1>2. /\ new \in Seq(Elements) /\ Len(new) = n /\ IsInjective(new)
      /\ \A u \in Vectors : Range(new) \cap Range(store[u].elem) = {}
  BY <1>1, FreshIsNew
<1>3. s.elem \in Seq(Elements)
  BY VectorFacts DEF VInv
<1> HIDE DEF new
<1>4. CASE /\ bulk /\ ~fits
           /\ Rebuild(v, Built(new, n, m))
           /\ Return(j, FrontNode(chain'[v]), Loosen(chain[v], 1))
           /\ UNCHANGED job
  <2>1. StoreSound(Built(new, n, m))
        /\ \A w \in Vectors : Built(new, n, m).buf # None => store[w].buf # Built(new, n, m).buf
    BY <1>2, BuiltIsSound
  <2>2. Settles(v, Loosen(chain[v], 1))
    BY <1>4, <2>1, RebuildSettles
  <2>3. NodeOf(FrontNode(chain'[v]), chain')
    BY <2>2, NodesOfVector DEF Settles, DataInv
  <2>4. DataInv' /\ HeldInv' /\ fault' = fault
    BY <1>4, <2>2, <2>3, SettlesAndReturns
  <2> QED BY <1>1, <1>4, <2>4, DoneKeeps DEF Calm, Faults
<1>5. CASE ~bulk /\ chain[v].at = None /\ Fault("null")
  BY <1>1, <1>5, FaultKeeps DEF Faults
<1>6. CASE /\ chain[v].at # None /\ n = 0
           /\ Return(j, EndNode(chain[v]), bond)
           /\ UNCHANGED <<store, chain, loc, job>>
  <2>1. NodeOf(EndNode(chain[v]), chain)
    BY <1>6, NodesOfVector DEF VInv, DataInv
  <2>2. DataInv' /\ HeldInv' /\ fault' \in Faults
    BY <1>6, <2>1, ReturnOnlyKeeps
  <2> QED BY <1>1, <1>6, <2>2, DoneKeeps DEF Calm
<1>7. CASE /\ chain[v].at # None /\ n > 0
           /\ job' = [NoJob EXCEPT
                !.op = "insert", !.v = v, !.m = m, !.j = j, !.first = it[i],
                !.new = new, !.head = new[1], !.left = n - 1, !.goal = goal]
           /\ Return(j, EndNode(chain[v]), bond)
           /\ UNCHANGED <<store, chain, loc>>
  <2>1. NodeOf(EndNode(chain[v]), chain)
    BY <1>7, NodesOfVector DEF VInv, DataInv
  <2>2. DataInv' /\ HeldInv' /\ fault' \in Faults
    BY <1>7, <2>1, ReturnOnlyKeeps
  <2>3. goal \in Seq(Elements)
    <3>1. CASE ~fits
      BY <1>2, <3>1
    <3>2. CASE fits /\ ~(it[i].cell # None /\ Within(v, p))
      BY <1>3, <3>2
    <3>3. CASE fits /\ it[i].cell # None /\ Within(v, p)
      <4> DEFINE k == p[2]
                 a == SubSeq(s.elem, 1, k - 1)
                 b == SubSeq(s.elem, k, Len(s.elem))
      <4>1. k \in 1..Len(s.elem)
        BY <1>3, <3>3 DEF Within
      <4>2. goal = a \o new \o b
        BY <3>3
      <4> HIDE DEF goal
      <4>3. a \in Seq(Elements) /\ b \in Seq(Elements)
        <5> HIDE DEF k
        <5> QED BY <1>3, <4>1
      <4> HIDE DEF a, b
      <4>4. a \o new \in Seq(Elements)
        BY <1>2, <4>3
      <4> QED BY <4>2, <4>3, <4>4
    <3> QED BY <3>1, <3>2, <3>3
  <2> HIDE DEF goal
  <2>4. /\ job'.op = "insert" /\ job'.v = v /\ job'.m = m /\ job'.j = j /\ job'.first = it[i]
        /\ job'.last = NoNode /\ job'.new = new /\ job'.head = new[1] /\ job'.left = n - 1
        /\ job'.goal = goal /\ job' \in [op : {job'.op}, v : {job'.v}, m : {job'.m}, j : {job'.j},
             first : {job'.first}, last : {job'.last}, new : {job'.new}, head : {job'.head},
             left : {job'.left}, goal : {job'.goal}]
    BY <1>7 DEF NoJob
  <2>5. /\ NoNode \in NodeType /\ OneChain(NoNode) /\ it[i] \in NodeType /\ OneChain(it[i])
    BY NoNodeFollows DEF VInv, HeldInv
  <2>6. new[1] \in Elements /\ n - 1 \in Nat /\ new # <<>>
    BY <1>2, <1>7
  <2>7. job' \in JobType
    BY <1>2, <2>3, <2>4, <2>5, <2>6 DEF JobType
  <2>8. JobIsNew'
    BY <1>2, <1>7, <2>4 DEF JobIsNew
  <2>9. JobInv'
    BY <1>2, <2>4, <2>5, <2>6, <2>7, <2>8 DEF JobInv
  <2> QED BY <2>2, <2>9 DEF VInv
<1> HIDE DEF goal
<1>8. \/ /\ bulk /\ ~fits
         /\ Rebuild(v, Built(new, n, m))
         /\ Return(j, FrontNode(chain'[v]), Loosen(chain[v], 1))
         /\ UNCHANGED job
      \/ ~bulk /\ chain[v].at = None /\ Fault("null")
      \/ /\ chain[v].at # None /\ n = 0
         /\ Return(j, EndNode(chain[v]), bond)
         /\ UNCHANGED <<store, chain, loc, job>>
      \/ /\ chain[v].at # None /\ n > 0
         /\ job' = [NoJob EXCEPT
              !.op = "insert", !.v = v, !.m = m, !.j = j, !.first = it[i],
              !.new = new, !.head = new[1], !.left = n - 1, !.goal = goal]
         /\ Return(j, EndNode(chain[v]), bond)
         /\ UNCHANGED <<store, chain, loc>>
  BY DEF InsertMany, new, goal
<1> QED BY <1>4, <1>5, <1>6, <1>7, <1>8

\* erase(first, last), up to the loop.
LEMMA EraseManyKeeps ==
  ASSUME VInv, NEW v \in Vectors, NEW i \in Iters, NEW l \in Iters, NEW j \in Iters,
         EraseMany(v, i, l, j)
  PROVE  VInv'
<1> DEFINE s == store[v]
           a == it[i].prev[2]
           b == it[l].prev[2]
           goal == SubSeq(s.elem, 1, a - 1) \o SubSeq(s.elem, b, Len(s.elem))
<1>1. /\ job' = [NoJob EXCEPT !.op = "erase", !.v = v, !.j = j, !.first = it[i], !.last = it[l],
                              !.goal = goal]
      /\ Return(j, EndNode(chain[v]), bond) /\ UNCHANGED <<store, chain, loc>>
  BY DEF EraseMany
<1>2. /\ chain[v].at # None /\ it[i].prev # None /\ it[l].prev # None
      /\ a < b /\ b < Len(chain[v].node)
  BY DEF EraseMany, IsRange, OnChain
<1>3. /\ s.elem \in Seq(Elements) /\ Len(chain[v].node) = Len(s.elem) + 2
      /\ NodeOf(EndNode(chain[v]), chain)
  BY <1>2, VectorFacts, NodesOfVector DEF VInv, DataInv
<1>4. a \in Nat \ {0} /\ b \in Nat \ {0}
  BY <1>2 DEF VInv, HeldInv, NodeType, Addresses
<1>5. DataInv' /\ HeldInv' /\ fault' \in Faults
  BY <1>1, <1>3, ReturnOnlyKeeps
<1>6. goal \in Seq(Elements)
  <2> DEFINE x == SubSeq(s.elem, 1, a - 1)
             y == SubSeq(s.elem, b, Len(s.elem))
  <2>1. x \in Seq(Elements) /\ y \in Seq(Elements)
    <3> HIDE DEF a, b
    <3> QED BY <1>2, <1>3, <1>4
  <2> HIDE DEF x, y
  <2>2. x \o y \in Seq(Elements)
    BY <2>1
  <2> QED BY <2>2 DEF x, y
<1> HIDE DEF goal
<1>7. /\ job'.op = "erase" /\ job'.v = v /\ job'.m = Default /\ job'.j = j /\ job'.first = it[i]
      /\ job'.last = it[l] /\ job'.new = <<>> /\ job'.head = None /\ job'.left = 0
      /\ job'.goal = goal /\ job' \in [op : {job'.op}, v : {job'.v}, m : {job'.m}, j : {job'.j},
           first : {job'.first}, last : {job'.last}, new : {job'.new}, head : {job'.head},
           left : {job'.left}, goal : {job'.goal}]
  BY <1>1 DEF NoJob
<1>8. it[i] \in NodeType /\ OneChain(it[i]) /\ it[l] \in NodeType /\ OneChain(it[l])
  BY DEF VInv, HeldInv
<1>9. job' \in JobType
  <2>1. <<>> \in Seq(Elements) /\ 0 \in Nat /\ Default \in MemTypes
    BY VectorAssumption
  <2> QED BY <1>6, <1>7, <1>8, <2>1 DEF JobType
<1>10. JobIsNew'
  BY <1>7 DEF JobIsNew, IsInjective, Range
<1>11. JobInv'
  BY <1>7, <1>8, <1>9, <1>10 DEF JobInv
<1> QED BY <1>5, <1>11 DEF VInv

\* resize(), up to the loop.
LEMMA ResizeKeeps ==
  ASSUME VInv, NEW v \in Vectors, NEW n \in Nat, NEW m \in MemTypes, Resize(v, n, m)
  PROVE  VInv'
<1> DEFINE s == store[v]
           size == Len(s.elem)
           fits == s.buf # None /\ s.mem = m
           more == Fresh(n - size)
<1>1. /\ Calm /\ it' = it /\ fault' = "none"
  BY DEF Resize, Calm
<1>2. /\ s.elem \in Seq(Elements) /\ s.cap \in Nat /\ size \in Nat /\ size <= s.cap /\ IsInjective(s.elem)
  BY VectorFacts DEF VInv
<1>3. CASE /\ ~fits /\ CanMake(n)
           /\ Rebuild(v, Built(Fresh(n), n, m))
           /\ bond' = Loosen(chain[v], 1)
           /\ UNCHANGED job
  <2>1. /\ Fresh(n) \in Seq(Elements) /\ IsInjective(Fresh(n)) /\ Len(Fresh(n)) <= n
    BY <1>3, FreshIsNew
  <2>2. /\ StoreSound(Built(Fresh(n), n, m))
        /\ \A w \in Vectors : Built(Fresh(n), n, m).buf # None =>
                                store[w].buf # Built(Fresh(n), n, m).buf
    BY <2>1, BuiltIsSound
  <2>3. DataInv' /\ HeldInv'
    BY <1>1, <1>3, <2>2, RebuiltKeeps
  <2> QED BY <1>1, <1>3, <2>3, DoneKeeps DEF Calm, Faults
<1>4. CASE /\ fits /\ size < n /\ CanMake(n - size)
           /\ job' = [[NoJob EXCEPT !.v = v, !.m = m] EXCEPT
                        !.op = "grow", !.new = more, !.goal = s.elem \o more]
           /\ IF n > s.cap
              THEN /\ Rebuild(v, Stored(s.elem, n, m))
                   /\ bond' = Loosen(chain[v], 1)
              ELSE UNCHANGED <<store, chain, loc, bond>>
  <2>1. n - size \in Nat /\ n - size > 0 /\ n \in Nat \ {0}
    BY <1>2, <1>4
  <2>2. /\ more \in Seq(Elements) /\ Len(more) = n - size /\ IsInjective(more)
        /\ \A w \in Vectors : Range(more) \cap Range(store[w].elem) = {}
    <3> HIDE DEF size
    <3> QED BY <1>4, <2>1, FreshIsNew
  <2> HIDE DEF more
  <2>3. DataInv' /\ HeldInv' /\ store'[v].elem = s.elem /\ OthersStay(v)
    <3>1. CASE n > s.cap
      <4>1. /\ StoreSound(Stored(s.elem, n, m))
            /\ \A w \in Vectors : store[w].buf # Stored(s.elem, n, m).buf
        BY <1>2, <2>1, <3>1, StoredIsSound
      <4>2. DataInv' /\ HeldInv' /\ store'[v] = Stored(s.elem, n, m) /\ OthersStay(v)
        BY <1>1, <1>4, <3>1, <4>1, RebuiltKeeps
      <4> QED BY <4>2 DEF Stored
    <3>2. CASE ~(n > s.cap)
      <4>1. UNCHANGED <<store, chain, loc, bond>>
        BY <1>4, <3>2
      <4> QED BY <1>1, <4>1, NothingKeeps DEF OthersStay
    <3> QED BY <3>1, <3>2
  <2>4. s.elem \o more \in Seq(Elements) /\ more # <<>>
    BY <1>2, <2>1, <2>2
  <2> DEFINE goal == s.elem \o more
  <2> HIDE DEF goal
  <2>5. /\ job'.op = "grow" /\ job'.v = v /\ job'.m = m /\ job'.j = None /\ job'.first = NoNode
        /\ job'.last = NoNode /\ job'.new = more /\ job'.head = None /\ job'.left = 0
        /\ job'.goal = goal
        /\ job' \in [op : {job'.op}, v : {job'.v}, m : {job'.m}, j : {job'.j},
             first : {job'.first}, last : {job'.last}, new : {job'.new}, head : {job'.head},
             left : {job'.left}, goal : {job'.goal}]
    BY <1>4 DEF NoJob, goal
  <2>6. NoNode \in NodeType /\ OneChain(NoNode)
    BY NoNodeFollows
  <2>7. job' \in JobType
    <3>1. goal \in Seq(Elements) /\ 0 \in Nat
      BY <2>4 DEF goal
    <3> QED BY <2>2, <2>5, <2>6, <3>1 DEF JobType
  <2>8. JobIsNew'
    <3>1. ASSUME NEW w \in Vectors PROVE store'[w].elem = store[w].elem
      BY <2>3 DEF OthersStay
    <3> QED BY <2>2, <2>5, <3>1 DEF JobIsNew
  <2>9. JobInv'
    BY <2>4, <2>5, <2>6, <2>7, <2>8 DEF JobInv
  <2> QED BY <1>1, <2>3, <2>9 DEF VInv, Faults
<1>5. CASE /\ fits /\ n < size
           /\ job' = [[NoJob EXCEPT !.v = v, !.m = m] EXCEPT
                        !.op = "shrink", !.left = size - n, !.goal = SubSeq(s.elem, 1, n)]
           /\ UNCHANGED <<store, chain, loc, bond>>
  <2>1. DataInv' /\ HeldInv'
    BY <1>1, <1>5, NothingKeeps
  <2>2. SubSeq(s.elem, 1, n) \in Seq(Elements) /\ size - n \in Nat /\ size - n <= size
    BY <1>2, <1>5, SMTT(30)
  <2> DEFINE goal == SubSeq(s.elem, 1, n)
  <2> HIDE DEF goal
  <2>3. /\ job'.op = "shrink" /\ job'.v = v /\ job'.m = m /\ job'.j = None /\ job'.first = NoNode
        /\ job'.last = NoNode /\ job'.new = <<>> /\ job'.head = None /\ job'.left = size - n
        /\ job'.goal = goal
        /\ job' \in [op : {job'.op}, v : {job'.v}, m : {job'.m}, j : {job'.j},
             first : {job'.first}, last : {job'.last}, new : {job'.new}, head : {job'.head},
             left : {job'.left}, goal : {job'.goal}]
    BY <1>5 DEF NoJob, goal
  <2>4. NoNode \in NodeType /\ OneChain(NoNode)
    BY NoNodeFollows
  <2>5. job' \in JobType
    <3>1. goal \in Seq(Elements) /\ <<>> \in Seq(Elements)
      BY <2>2 DEF goal
    <3> QED BY <2>2, <2>3, <2>4, <3>1 DEF JobType
  <2>6. JobIsNew'
    BY <2>3 DEF JobIsNew, IsInjective, Range
  <2>7. job'.left <= Len(store'[job'.v].elem)
    BY <1>5, <2>2, <2>3
  <2>8. JobInv'
    BY <2>3, <2>4, <2>5, <2>6, <2>7 DEF JobInv
  <2> QED BY <1>1, <2>1, <2>8 DEF VInv, Faults
<1> QED BY <1>3, <1>4, <1>5 DEF Resize

\* The first of a sequence of new elements, and those that are left.
LEMMA HeadAndTail ==
  ASSUME NEW s \in Seq(Elements), s # <<>>, IsInjective(s)
  PROVE  /\ Head(s) \in Elements /\ Head(s) \in Range(s) /\ Head(s) = s[1]
         /\ Tail(s) \in Seq(Elements) /\ Len(Tail(s)) = Len(s) - 1 /\ Len(s) \in Nat \ {0}
         /\ IsInjective(Tail(s)) /\ Range(Tail(s)) \subseteq Range(s) \ {Head(s)}
         /\ \A k \in 1..(Len(s) - 1) : Tail(s)[k] = s[k + 1]
<1>1. /\ Len(s) \in Nat \ {0} /\ Head(s) = s[1] /\ Head(s) \in Elements
      /\ Tail(s) \in Seq(Elements) /\ Len(Tail(s)) = Len(s) - 1
      /\ \A k \in 1..(Len(s) - 1) : Tail(s)[k] = s[k + 1]
      /\ DOMAIN s = 1..Len(s) /\ DOMAIN Tail(s) = 1..(Len(s) - 1)
  BY EmptySeq
<1> DEFINE t == Tail(s)
           n == Len(s)
<1> HIDE DEF t, n
<1>2. Head(s) \in Range(s)
  <2>1. 1 \in DOMAIN s
    BY <1>1
  <2> QED BY <1>1, <2>1 DEF Range
<1>3. n \in Nat \ {0} /\ DOMAIN s = 1..n /\ DOMAIN t = 1..(n - 1) /\ \A k \in 1..(n - 1) : t[k] = s[k + 1]
  BY <1>1 DEF t, n
<1>4. ASSUME NEW a \in DOMAIN t, NEW b \in DOMAIN t, t[a] = t[b] PROVE a = b
  <2>1. a + 1 \in DOMAIN s /\ b + 1 \in DOMAIN s /\ s[a + 1] = s[b + 1]
    BY <1>3, <1>4
  <2>2. a + 1 = b + 1
    BY <2>1 DEF IsInjective
  <2> QED BY <1>3, <2>2
<1>5. ASSUME NEW a \in DOMAIN t PROVE t[a] \in Range(s) /\ t[a] # s[1]
  <2>1. a + 1 \in DOMAIN s /\ 1 \in DOMAIN s /\ a + 1 # 1 /\ t[a] = s[a + 1]
    BY <1>3
  <2>2. s[a + 1] # s[1]
    BY <2>1 DEF IsInjective
  <2> QED BY <2>1, <2>2 DEF Range
<1>6. IsInjective(t) /\ Range(t) \subseteq Range(s) \ {Head(s)}
  BY <1>1, <1>4, <1>5 DEF IsInjective, Range
<1> QED BY <1>1, <1>2, <1>6 DEF t

\* After one more element was put in, those that are left are still new.
LEMMA RestIsNew ==
  ASSUME VInv, NEW v \in Vectors, NEW m, NEW k, PutIn(v, m, k, Head(job.new)), OthersStay(v),
         job.new # <<>>, k \in 1..(Len(store[v].elem) + 1) \/ ~Fits(v, m),
         job' = [job EXCEPT !.new = Tail(@)]
  PROVE  /\ JobIsNew' /\ job' \in JobType /\ Len(job'.new) = Len(job.new) - 1
         /\ job'.op = job.op /\ job'.v = job.v /\ job'.m = job.m /\ job'.j = job.j
         /\ job'.left = job.left /\ job'.first = job.first /\ job'.last = job.last
         /\ job'.head = job.head /\ job'.goal = job.goal /\ job'.new = Tail(job.new)
<1>1. /\ job \in JobType /\ job.new \in Seq(Elements) /\ IsInjective(job.new)
      /\ \A u \in Vectors : Range(job.new) \cap Range(store[u].elem) = {}
  BY DEF VInv, JobInv, JobIsNew, JobType
<1> DEFINE e == Head(job.new)
           t == Tail(job.new)
<1>2. /\ e \in Elements /\ e \in Range(job.new) /\ t \in Seq(Elements)
      /\ Len(t) = Len(job.new) - 1 /\ IsInjective(t) /\ Range(t) \subseteq Range(job.new) \ {e}
  BY <1>1, HeadAndTail
<1> HIDE DEF e, t
<1>3. job' = [job EXCEPT !.new = t]
  BY DEF t
<1>4. /\ job'.op = job.op /\ job'.v = job.v /\ job'.m = job.m /\ job'.j = job.j
      /\ job'.left = job.left /\ job'.first = job.first /\ job'.last = job.last
      /\ job'.head = job.head /\ job'.goal = job.goal /\ job'.new = t /\ job' \in JobType
  BY <1>1, <1>2, <1>3 DEF JobType
<1>5. Range(store'[v].elem) \subseteq Range(store[v].elem) \cup {e}
  <2>1. CASE Fits(v, m)
    <3>1. store'[v].elem = InsertAt(store[v].elem, k, e) /\ k \in 1..(Len(store[v].elem) + 1)
      BY <2>1 DEF PutIn, Fits, e
    <3>2. store[v].elem \in Seq(Elements) /\ IsInjective(store[v].elem) /\ e \notin Range(store[v].elem)
      BY <1>1, <1>2, VectorFacts DEF VInv
    <3> QED BY <1>2, <3>1, <3>2, InsertionInserts DEF Inserted
  <2>2. CASE ~Fits(v, m)
    <3>1. store'[v].elem = <<e>>
      BY <2>2 DEF PutIn, Fits, e
    <3> QED BY <1>2, <3>1, OneElement
  <2> QED BY <2>1, <2>2
<1>6. ASSUME NEW u \in Vectors PROVE Range(t) \cap Range(store'[u].elem) = {}
  <2>1. CASE u = v
    BY <1>1, <1>2, <1>5, <2>1
  <2>2. CASE u # v
    BY <1>1, <1>2, <2>2 DEF OthersStay
  <2> QED BY <2>1, <2>2
<1>7. JobIsNew'
  BY <1>2, <1>4, <1>6 DEF JobIsNew
<1> QED BY <1>2, <1>4, <1>7 DEF t

\* One more element in the loop of resize().
LEMMA GrowKeeps == VInv /\ Grow => VInv'
<1> SUFFICES ASSUME VInv, Grow PROVE VInv'
  OBVIOUS
<1> DEFINE v == job.v
           e == Head(job.new)
           k == Len(store[v].elem) + 1
<1>1. /\ job \in JobType /\ v \in Vectors /\ job.new # <<>> /\ job.new \in Seq(Elements)
      /\ IsInjective(job.new) /\ job.m \in MemTypes /\ job.op = "grow"
      /\ \A u \in Vectors : Range(job.new) \cap Range(store[u].elem) = {}
      /\ OneChain(job.first) /\ OneChain(job.last)
  BY DEF VInv, JobInv, JobIsNew, JobType, Grow
<1>2. e \in Elements /\ e \notin Range(store[v].elem)
  <2>1. e \in Elements /\ e \in Range(job.new)
    BY <1>1, HeadAndTail
  <2> QED BY <1>1, <2>1
<1>3. Append1(v, job.m, e) /\ it' = it /\ fault' = fault /\ fault = "none"
  BY DEF Grow
<1>4. Settles(v, bond') /\ PutIn(v, job.m, k, e)
  <2> HIDE DEF e
  <2> QED BY <1>1, <1>2, <1>3, Append1Settles
<1>5. DataInv' /\ HeldInv' /\ fault' \in Faults /\ OthersStay(v)
  BY <1>1, <1>3, <1>4, SettledKeeps DEF Settles, OthersStay, Faults
<1>6. CASE job' = NoJob
  BY <1>5, <1>6, DoneKeeps
<1>7. CASE Len(job.new) # 1 /\ job' = [job EXCEPT !.new = Tail(@)]
  <2>1. k \in 1..(Len(store[v].elem) + 1)
    <3>1. store[v].elem \in Seq(Elements)
      BY <1>1, VectorFacts DEF VInv
    <3> QED BY <3>1
  <2>2. /\ JobIsNew' /\ job' \in JobType /\ Len(job'.new) = Len(job.new) - 1
        /\ job'.op = job.op /\ job'.v = job.v /\ job'.first = job.first /\ job'.last = job.last
    <3> HIDE DEF k, v
    <3> QED BY <1>1, <1>4, <1>5, <1>7, <2>1, RestIsNew
  <2>3. job'.new # <<>>
    <3>1. Len(job.new) \in Nat \ {0}
      BY <1>1, HeadAndTail
    <3>2. Len(job'.new) # 0
      BY <1>7, <2>2, <3>1
    <3> QED BY <3>2
  <2>4. JobInv'
    BY <1>1, <2>2, <2>3 DEF JobInv
  <2> QED BY <1>5, <2>4 DEF VInv
<1> QED BY <1>6, <1>7 DEF Grow

\* One element less in the loop of resize(), and its end.
LEMMA PopThenShrinkKeeps == VInv /\ PopThenShrink => VInv'
<1> SUFFICES ASSUME VInv, PopThenShrink PROVE VInv'
  OBVIOUS
<1> DEFINE v == job.v
           n == Len(store[v].elem)
<1>1. /\ job \in JobType /\ v \in Vectors /\ job.op = "shrink" /\ job.left \in Nat
      /\ job.left <= n /\ JobIsNew /\ OneChain(job.first) /\ OneChain(job.last)
  BY DEF VInv, JobInv, JobType, PopThenShrink
<1>2. it' = it /\ fault' = fault /\ fault' \in Faults
  BY DEF PopThenShrink, Faults
<1>3. store[v].elem \in Seq(Elements) /\ IsInjective(store[v].elem) /\ store[v] \in StoreType
  BY <1>1, VectorFacts DEF VInv
<1>4. CASE job.left > 0
  <2>1. store[v].elem # <<>>
    BY <1>1, <1>4
  <2>2. Pop1(v) /\ job' = [job EXCEPT !.left = @ - 1]
    BY <1>4 DEF PopThenShrink
  <2>3. Settles(v, bond') /\ TakenOut(v, n)
    BY <1>1, <2>1, <2>2, Pop1Settles
  <2>4. DataInv' /\ HeldInv' /\ OthersStay(v)
    BY <1>1, <1>2, <2>3, SettledKeeps DEF Settles, OthersStay
  <2>5. /\ job'.op = job.op /\ job'.v = job.v /\ job'.left = job.left - 1
        /\ job'.new = job.new /\ job'.first = job.first /\ job'.last = job.last
        /\ job' \in JobType
    <3>1. job.left - 1 \in Nat
      BY <1>1, <1>4
    <3> DEFINE rest == job.left - 1
    <3> HIDE DEF rest
    <3>2. job' = [job EXCEPT !.left = rest] /\ rest \in Nat
      BY <2>2, <3>1 DEF rest
    <3>3. /\ job'.op = job.op /\ job'.v = job.v /\ job'.left = rest
          /\ job'.new = job.new /\ job'.first = job.first /\ job'.last = job.last
          /\ job' \in JobType
      BY <1>1, <3>2 DEF JobType
    <3> QED BY <3>3 DEF rest
  <2>6. /\ n \in 1..n /\ store'[v].elem = RemoveAt(store[v].elem, n)
    BY <1>3, <2>3 DEF TakenOut, StoreType
  <2>7. Len(store'[v].elem) = n - 1 /\ Range(store'[v].elem) \subseteq Range(store[v].elem)
    BY <1>3, <2>6, RemovalRemoves DEF Removed
  <2>8. JobIsNew'
    <3>1. ASSUME NEW u \in Vectors PROVE Range(store'[u].elem) \subseteq Range(store[u].elem)
      BY <2>4, <2>7 DEF OthersStay
    <3> QED BY <1>1, <2>5, <3>1 DEF JobIsNew
  <2>9. job'.left <= Len(store'[job'.v].elem)
    BY <1>1, <1>3, <2>5, <2>7
  <2>10. JobInv'
    BY <1>1, <2>5, <2>8, <2>9 DEF JobInv
  <2> QED BY <1>2, <2>4, <2>10 DEF VInv
<1>5. CASE ~(job.left > 0)
  <2>1. Shrink(v) /\ job' = NoJob
    BY <1>5 DEF PopThenShrink
  <2>2. CASE chain[v].at # None \/ n < store[v].cap
    <3>1. Settles(v, bond')
      BY <1>1, <2>1, <2>2, ShrinkSettles
    <3> QED BY <1>1, <1>2, <2>1, <3>1, SettledKeeps, DoneKeeps
  <2>3. CASE ~(chain[v].at # None \/ n < store[v].cap)
    <3>1. UNCHANGED <<store, chain, loc, bond>>
      BY <2>1, <2>3 DEF Shrink
    <3> QED BY <1>2, <2>1, <3>1, NothingKeeps, DoneKeeps
  <2> QED BY <2>2, <2>3
<1> QED BY <1>4, <1>5

\* One round of erase(first, last).
LEMMA EraseNextKeeps == VInv /\ EraseNext => VInv'
<1> SUFFICES ASSUME VInv, EraseNext PROVE VInv'
  OBVIOUS
<1> DEFINE v == job.v
           next == Slot(chain', job.first.next)
<1>1. /\ job \in JobType /\ v \in Vectors /\ job.j \in Iters /\ job.op = "erase"
      /\ JobIsNew /\ OneChain(job.first) /\ OneChain(job.last)
  BY DEF VInv, JobInv, EraseNext
<1>2. DataInv' /\ HeldInv' /\ fault' \in Faults /\ OthersStay(v) /\ Erases(v, job.first, job.j)
  BY <1>1, Erase1Settles DEF EraseNext
<1>3. CASE job' = NoJob
  BY <1>2, <1>3, DoneKeeps
<1>4. CASE job' = [job EXCEPT !.first = IF next = None THEN NoNode ELSE next]
  <2>1. job.first.next \in Addresses(Chains) \cup {None}
    BY <1>1 DEF JobType, NodeType
  <2> DEFINE first == IF next = None THEN NoNode ELSE next
  <2>2. first \in NodeType /\ OneChain(first)
    <3>1. DataOK(store', chain', loc')
      BY <1>2 DEF DataInv
    <3> QED BY <2>1, <3>1, NoNodeFollows, SlotIsOneChain
  <2> HIDE DEF first
  <2>3. /\ job'.op = job.op /\ job'.v = job.v /\ job'.j = job.j /\ job'.new = job.new
        /\ job'.first = first /\ job'.last = job.last /\ job' \in JobType
    <3>1. job' = [job EXCEPT !.first = first]
      BY <1>4 DEF first
    <3> QED BY <1>1, <2>2, <3>1 DEF JobType
  <2>4. ASSUME NEW u \in Vectors PROVE Range(store'[u].elem) \subseteq Range(store[u].elem)
    <3>1. CASE store'[u] = store[u]
      BY <3>1
    <3>2. CASE store'[u] # store[u]
      <4>1. u = v
        BY <1>2, <3>2 DEF OthersStay
      <4> DEFINE k == loc[job.first.cell][2]
      <4>2. TakenOut(v, k)
        BY <1>2, <3>2, <4>1 DEF Erases
      <4>3. /\ store[v].elem \in Seq(Elements) /\ IsInjective(store[v].elem) /\ store[v] \in StoreType
        BY <1>1, VectorFacts DEF VInv
      <4> HIDE DEF k
      <4>4. k \in 1..Len(store[v].elem) /\ store'[v].elem = RemoveAt(store[v].elem, k)
        BY <4>2, <4>3 DEF TakenOut, StoreType
      <4> QED BY <4>1, <4>3, <4>4, RemovalRemoves DEF Removed
    <3> QED BY <3>1, <3>2
  <2>5. JobIsNew'
    BY <1>1, <2>3, <2>4 DEF JobIsNew
  <2>6. JobInv'
    BY <1>1, <2>2, <2>3, <2>5 DEF JobInv
  <2> QED BY <1>2, <2>6 DEF VInv
<1> QED BY <1>3, <1>4 DEF EraseNext

\* The loop of erase(first, last) ends.
LEMMA EraseEndKeeps == VInv /\ EraseEnd => VInv'
<1> SUFFICES ASSUME VInv, EraseEnd PROVE VInv'
  OBVIOUS
<1> QED BY NothingKeeps, DoneKeeps DEF EraseEnd, Faults

\* The iterator of an element.
LEMMA NodePlace ==
  ASSUME DataInv, NEW v \in Vectors, NEW k \in 1..Len(store[v].elem)
  PROVE  LET n == chain[v].node[k + 1]
         IN  /\ n = NodeAt(chain[v].at, k + 1, store[v].elem[k])
             /\ n.cell = <<chain[v].at, store[v].elem[k]>> /\ n.cell # None
             /\ n.next = <<chain[v].at, k + 2>> /\ n.prev = <<chain[v].at, k>>
             /\ loc[n.cell] = <<store[v].buf, k>> /\ store[v].buf # None /\ loc[n.cell] # None
             /\ Within(v, loc[n.cell]) /\ Valid(n, loc)
<1> DEFINE n == chain[v].node[k + 1]
           elem == store[v].elem
           at == chain[v].at
<1>1. /\ elem \in Seq(Elements) /\ elem # <<>> /\ store[v].cap \in Nat
      /\ (store[v].buf = None => elem = <<>>) /\ store[v].buf \in Buffers \cup {None}
      /\ (store[v].buf # None => at # None)
  BY VectorFacts
<1>2. /\ store[v].buf # None /\ at # None
  BY <1>1
<1>3. at \in Chains /\ Chained(chain[v], elem, store[v].cap) /\ Located(chain[v], store[v], loc)
  BY <1>2, VectorFacts
<1>4. n = NodeAt(at, k + 1, elem[k])
  <2> HIDE DEF elem
  <2>1. k \in 1..Len(elem)
    BY DEF elem
  <2> QED BY <1>1, <1>3, <2>1, ChainedNodes
<1> HIDE DEF n
<1>5. /\ n.cell = <<at, elem[k]>> /\ n.next = <<at, (k + 1) + 1>> /\ n.prev = <<at, (k + 1) - 1>>
  BY <1>4 DEF NodeAt
<1>6. (k + 1) + 1 = k + 2 /\ (k + 1) - 1 = k
  OBVIOUS
<1>7. elem[k] \in Elements
  BY <1>1
<1>8. n.cell # None
  BY <1>3, <1>5, <1>7, NoneIsNoName DEF Cells
<1>9. loc[n.cell] = <<store[v].buf, k>>
  BY <1>3, <1>5 DEF Located
<1>10. loc[n.cell] # None
  BY <1>1, <1>2, <1>9, NoneIsNoName DEF Addresses
<1>11. Within(v, loc[n.cell])
  BY <1>1, <1>9, <1>10 DEF Within
<1> QED BY <1>2, <1>4, <1>5, <1>6, <1>8, <1>9, <1>10, <1>11 DEF n, Valid

\* The end is the iterator of no element.
LEMMA EndHasNoCell ==
  ASSUME NEW stores, NEW chains, NEW locs, DataOK(stores, chains, locs),
         NEW v \in Vectors, chains[v].at # None
  PROVE  /\ EndNode(chains[v]) = chains[v].node[Len(stores[v].elem) + 2]
         /\ EndNode(chains[v]).cell = None
<1>1. /\ Chained(chains[v], stores[v].elem, stores[v].cap)
      /\ stores[v].elem \in Seq(Elements) /\ stores[v].cap \in Nat
  BY VectorFactsOf
<1> QED BY <1>1, ChainedNodes DEF EndNode

\* Where the loop of insert() goes on: behind the element put in last.
InsertionGoesOn(q) ==
  /\ q \in 1..Len(store[job.v].elem) /\ q >= job.left + 1 - Len(job.new)
  /\ it[job.j] = chain[job.v].node[q + 1]
  /\ Slot(chain, it[job.j].next) = chain[job.v].node[q + 2]

\* Between two rounds of the loop the iterator is behind the front.
LEMMA InsertionPosition ==
  ASSUME VInv, job.op = "insert", Len(job.new) < job.left + 1
  PROVE  /\ job.v \in Vectors /\ Fits(job.v, job.m)
         /\ \E q \in 1..Len(store[job.v].elem) : InsertionGoesOn(q)
<1>1. job.v \in Vectors /\ Position /\ job \in JobType /\ DataInv
  BY DEF VInv, JobInv
<1> DEFINE v == job.v
<1>2. PICK k \in 2..(Len(store[v].elem) + 1) :
        k >= job.left + 2 - Len(job.new) /\ it[job.j] = chain[v].node[k]
  BY <1>1 DEF Position
<1>3. store[v].elem \in Seq(Elements) /\ job.left \in Nat /\ Len(job.new) \in Nat
  BY <1>1, VectorFacts DEF JobType
<1> DEFINE q == k - 1
<1>4. q \in 1..Len(store[v].elem) /\ q + 1 = k /\ q >= job.left + 1 - Len(job.new)
  <2> DEFINE n == Len(store[v].elem)
             l == Len(job.new)
             left == job.left
  <2>1. n \in Nat /\ l \in Nat /\ left \in Nat /\ k \in 2..(n + 1) /\ k >= left + 2 - l
    BY <1>2, <1>3
  <2> HIDE DEF n, l, left
  <2>2. q \in 1..n /\ q + 1 = k /\ q >= left + 1 - l
    BY <2>1
  <2> QED BY <2>2 DEF n, l, left
<1> HIDE DEF q
<1>5. it[job.j] = chain[v].node[q + 1]
  BY <1>2, <1>4
<1>6. it[job.j].next = <<chain[v].at, q + 2>> /\ store[v].buf # None
  <2> HIDE DEF v
  <2> QED BY <1>1, <1>4, <1>5, NodePlace DEF v
<1>7. q + 2 \in DOMAIN chain[v].node
  <2>1. chain[v].at # None
    BY <1>1, <1>6, VectorFacts
  <2>2. Len(chain[v].node) = Len(store[v].elem) + 2 /\ chain[v].node \in Seq(NodeType)
    BY <1>1, <2>1, NodesOfVector DEF DataInv, DataOK, ChainType
  <2>3. DOMAIN chain[v].node = 1..(Len(store[v].elem) + 2)
    BY <2>2
  <2> HIDE DEF v
  <2>4. q + 2 \in 1..(Len(store[v].elem) + 2)
    BY <1>3, <1>4
  <2> QED BY <2>3, <2>4
<1>8. Slot(chain, <<chain[v].at, q + 2>>) = chain[v].node[q + 2]
  BY <1>1, <1>7, SlotOfVector DEF DataInv
<1>9. InsertionGoesOn(q)
  BY <1>4, <1>5, <1>6, <1>8 DEF InsertionGoesOn
<1> QED BY <1>1, <1>4, <1>9 DEF Fits, Position

\* What the loop takes for the place of the next element.
NextPlace == IF Len(job.new) = job.left + 1 THEN job.first ELSE Slot(chain, it[job.j].next)

\* A later element goes behind the one put in last, or nowhere.
LEMMA LaterPlace ==
  ASSUME VInv, job.op = "insert", job.new # <<>>, Len(job.new) # job.left + 1
  PROVE  /\ Fits(job.v, job.m)
         /\ \E q \in 1..Len(store[job.v].elem) :
              /\ InsertionGoesOn(q)
              /\ NextPlace.cell # None =>
                   /\ q + 1 <= Len(store[job.v].elem) /\ loc[NextPlace.cell][2] = q + 1
                   /\ Within(job.v, loc[NextPlace.cell])
<1>1. job.v \in Vectors /\ job \in JobType /\ DataInv /\ Len(job.new) <= job.left + 1
  BY DEF VInv, JobInv
<1>2. Len(job.new) < job.left + 1
  BY <1>1 DEF JobType
<1>3. Fits(job.v, job.m)
  BY <1>2, InsertionPosition
<1>4. PICK q \in 1..Len(store[job.v].elem) : InsertionGoesOn(q)
  BY <1>2, InsertionPosition
<1>5. NextPlace = chain[job.v].node[q + 2]
  BY <1>4 DEF NextPlace, InsertionGoesOn
<1>6. store[job.v].elem \in Seq(Elements) /\ chain[job.v].at # None
  BY <1>1, <1>3, VectorFacts DEF Fits
<1>7. ASSUME NextPlace.cell # None
      PROVE  /\ q + 1 <= Len(store[job.v].elem) /\ loc[NextPlace.cell][2] = q + 1
             /\ Within(job.v, loc[NextPlace.cell])
  <2>1. q # Len(store[job.v].elem)
    <3>1. chain[job.v].node[Len(store[job.v].elem) + 2].cell = None
      <4>1. DataOK(store, chain, loc) /\ job.v \in Vectors /\ chain[job.v].at # None
        BY <1>1, <1>6 DEF DataInv
      <4>2. /\ EndNode(chain[job.v]) = chain[job.v].node[Len(store[job.v].elem) + 2]
            /\ EndNode(chain[job.v]).cell = None
        BY <4>1, EndHasNoCell, ZenonT(30)
      <4> QED BY <4>2
    <3> QED BY <1>5, <1>7, <3>1
  <2>2. q + 1 \in 1..Len(store[job.v].elem)
    BY <1>6, <2>1
  <2>3. /\ loc[chain[job.v].node[(q + 1) + 1].cell] = <<store[job.v].buf, q + 1>>
        /\ Within(job.v, loc[chain[job.v].node[(q + 1) + 1].cell])
    BY <1>1, <2>2, NodePlace
  <2>4. (q + 1) + 1 = q + 2
    BY <1>6
  <2> QED BY <1>5, <1>6, <2>2, <2>3, <2>4
<1> QED BY <1>3, <1>4, <1>7

\* When the loop goes on, it has put in the element at k.
PutNext(k) ==
  /\ PutAt(job.v, job.m, k, Head(job.new), job.j) /\ fault' = "none"
  /\ k >= job.left + 2 - Len(job.new)
  /\ \/ ~Fits(job.v, job.m) /\ k = 1 /\ Len(job.new) = job.left + 1
     \/ /\ Fits(job.v, job.m) /\ k \in 1..Len(store[job.v].elem)
        /\ k = loc[NextPlace.cell][2] /\ NextPlace.cell # None /\ Within(job.v, loc[NextPlace.cell])

\* One round of the loop of insert().
InsertedNext ==
  \/ \E k \in 1..Len(store'[job.v].elem) : PutNext(k)
  \/ /\ UNCHANGED <<store, chain, loc>> /\ Fits(job.v, job.m)
     /\ \/ fault' = "null" /\ NextPlace.cell = None
        \/ /\ fault' = "none" /\ it'[job.j] = EndNode(chain[job.v])
           /\ NextPlace.cell # None /\ ~Within(job.v, loc[NextPlace.cell])

\* One round of the loop of insert().
LEMMA InsertNextInserts ==
  ASSUME VInv, InsertNext
  PROVE  /\ DataInv' /\ HeldInv' /\ fault' \in Faults /\ OthersStay(job.v) /\ InsertedNext
         /\ job.v \in Vectors /\ job \in JobType /\ job.j \in Iters
<1> DEFINE v == job.v
           e == Head(job.new)
<1>1. /\ job \in JobType /\ v \in Vectors /\ job.j \in Iters /\ job.op = "insert"
      /\ job.new # <<>> /\ job.new \in Seq(Elements) /\ IsInjective(job.new) /\ job.m \in MemTypes
      /\ Range(job.new) \cap Range(store[v].elem) = {} /\ fault = "none"
      /\ Len(job.new) <= job.left + 1 /\ job.left \in Nat
  BY DEF VInv, JobInv, JobIsNew, JobType, InsertNext
<1>2. e \in Elements /\ e \notin Range(store[v].elem) /\ Len(job.new) \in Nat \ {0}
  <2>1. e \in Elements /\ e \in Range(job.new) /\ Len(job.new) \in Nat \ {0}
    BY <1>1, HeadAndTail
  <2> QED BY <1>1, <2>1
<1>3. Insert1(v, NextPlace, job.m, e, job.j)
  BY DEF InsertNext, NextPlace
<1> HIDE DEF e
<1>4. /\ DataInv' /\ HeldInv' /\ fault' \in Faults /\ OthersStay(v)
      /\ Inserts(v, NextPlace, job.m, e, job.j)
  BY <1>1, <1>2, <1>3, Insert1Settles
<1>5. CASE ~Fits(v, job.m) /\ PutAt(v, job.m, 1, e, job.j)
  <2>1. Len(job.new) = job.left + 1
    BY <1>1, <1>5, LaterPlace
  <2>2. PutNext(1) /\ 1 \in 1..Len(store'[v].elem)
    BY <1>1, <1>5, <2>1 DEF PutNext, PutAt, e
  <2> QED BY <1>1, <1>4, <2>2 DEF InsertedNext
<1>6. CASE /\ Fits(v, job.m) /\ Within(v, loc[NextPlace.cell]) /\ NextPlace.cell # None
           /\ PutAt(v, job.m, loc[NextPlace.cell][2], e, job.j)
  <2> DEFINE k == loc[NextPlace.cell][2]
  <2>1. k \in 1..Len(store[v].elem)
    <3>1. store[v].elem \in Seq(Elements)
      BY <1>1, VectorFacts DEF VInv
    <3> QED BY <1>6, <3>1 DEF Within
  <2>2. k >= job.left + 2 - Len(job.new)
    <3>1. CASE Len(job.new) = job.left + 1
      <4> HIDE DEF k
      <4> QED BY <1>1, <2>1, <3>1
    <3>2. CASE Len(job.new) # job.left + 1
      <4>1. PICK q \in 1..Len(store[v].elem) : InsertionGoesOn(q) /\ k = q + 1
        BY <1>1, <1>6, <3>2, LaterPlace
      <4>2. q >= job.left + 1 - Len(job.new)
        BY <4>1 DEF InsertionGoesOn
      <4> HIDE DEF k
      <4> QED BY <1>1, <1>2, <4>1, <4>2
    <3> QED BY <3>1, <3>2
  <2>3. PutNext(k) /\ k \in 1..Len(store'[v].elem)
    BY <1>1, <1>6, <2>1, <2>2 DEF PutNext, PutAt, e
  <2> QED BY <1>1, <1>4, <2>3 DEF InsertedNext
<1>7. CASE /\ Fits(v, job.m) /\ UNCHANGED <<store, chain, loc, fault>>
           /\ it'[job.j] = EndNode(chain[v])
           /\ NextPlace.cell # None /\ ~Within(v, loc[NextPlace.cell])
  BY <1>1, <1>4, <1>7 DEF InsertedNext
<1>8. CASE /\ Fits(v, job.m) /\ NextPlace.cell = None /\ fault' = "null"
           /\ UNCHANGED <<store, chain, loc, it>>
  BY <1>1, <1>4, <1>8 DEF InsertedNext
<1> QED BY <1>4, <1>5, <1>6, <1>7, <1>8 DEF Inserts

\* It keeps what the loop has to know for the next round.
LEMMA InsertNextKeeps == VInv /\ InsertNext => VInv'
<1> SUFFICES ASSUME VInv, InsertNext PROVE VInv'
  OBVIOUS
<1> DEFINE v == job.v
<1>1. /\ DataInv' /\ HeldInv' /\ fault' \in Faults /\ OthersStay(v) /\ InsertedNext
      /\ v \in Vectors /\ job \in JobType /\ job.j \in Iters
  BY InsertNextInserts
<1>2. CASE job' = NoJob
  BY <1>1, <1>2, DoneKeeps
<1>3. CASE /\ fault' = "none" /\ Valid(it'[job.j], loc') /\ job.left # 0
           /\ job' = [job EXCEPT !.new = Tail(@)]
  <2>1. PICK k \in 1..Len(store'[v].elem) : PutNext(k)
    <3>1. CASE /\ UNCHANGED <<store, chain, loc>> /\ Fits(v, job.m)
               /\ fault' = "none" /\ it'[job.j] = EndNode(chain[v])
      <4>1. chain[v].at # None
        BY <1>1, <3>1, VectorFacts DEF VInv, Fits
      <4>2. EndNode(chain[v]).cell = None
        BY <1>1, <4>1, EndHasNoCell DEF VInv, DataInv
      <4> QED BY <1>3, <3>1, <4>2 DEF Valid
    <3> QED BY <1>1, <1>3, <3>1 DEF InsertedNext
  <2>2. /\ PutIn(v, job.m, k, Head(job.new)) /\ it'[job.j] = chain'[v].node[k + 1]
        /\ k >= job.left + 2 - Len(job.new)
        /\ k \in 1..(Len(store[v].elem) + 1) \/ ~Fits(v, job.m)
    <3>1. store[v].elem \in Seq(Elements)
      BY <1>1, VectorFacts DEF VInv
    <3> QED BY <2>1, <3>1 DEF PutNext, PutAt
  <2>3. job.new # <<>> /\ job.op = "insert" /\ Len(job.new) <= job.left + 1 /\ job.left \in Nat
        /\ OneChain(job.first) /\ OneChain(job.last)
    BY DEF InsertNext, VInv, JobInv, JobType
  <2>4. /\ JobIsNew' /\ job' \in JobType /\ Len(job'.new) = Len(job.new) - 1
        /\ job'.op = job.op /\ job'.v = job.v /\ job'.m = job.m /\ job'.j = job.j
        /\ job'.left = job.left /\ job'.first = job.first /\ job'.last = job.last
    <3> HIDE DEF v
    <3> QED BY <1>1, <1>3, <2>2, <2>3, RestIsNew
  <2>5. Position'
    <3>1. store'[v].elem \in Seq(Elements)
      BY <1>1, VectorFactsOf DEF DataInv
    <3>2. Len(job.new) \in Nat
      BY <1>1 DEF JobType
    <3>3. k + 1 \in 2..(Len(store'[v].elem) + 1) /\ k + 1 >= job'.left + 2 - Len(job'.new)
      <4> DEFINE n == Len(store'[v].elem)
                 l == Len(job.new)
      <4>1. n \in Nat /\ l \in Nat /\ k \in 1..n /\ k >= job.left + 2 - l
        BY <2>1, <2>2, <3>1, <3>2
      <4>2. job'.left = job.left /\ Len(job'.new) = l - 1
        BY <2>4
      <4> HIDE DEF n, l
      <4>3. k + 1 \in 2..(n + 1) /\ k + 1 >= job.left + 2 - (l - 1)
        BY <2>3, <4>1
      <4> QED BY <4>2, <4>3 DEF n
    <3>4. store'[v].buf # None /\ store'[v].mem = job.m
      BY <2>2 DEF PutIn
    <3>5. \E q \in 2..(Len(store'[v].elem) + 1) :
            q >= job'.left + 2 - Len(job'.new) /\ it'[job.j] = chain'[v].node[q]
      BY <2>2, <3>3
    <3> QED BY <2>4, <3>4, <3>5 DEF Position
  <2>6. Len(job'.new) <= job'.left + 1 /\ job'.left > 0
    <3>1. Len(job.new) \in Nat
      BY <1>1 DEF JobType
    <3> QED BY <1>3, <2>3, <2>4, <3>1
  <2>7. JobInv'
    BY <1>1, <2>3, <2>4, <2>5, <2>6 DEF JobInv
  <2> QED BY <1>1, <2>7 DEF VInv
<1> QED BY <1>2, <1>3 DEF InsertNext

\* One step back to the element put in first.
LEMMA InsertBackMoves ==
  ASSUME VInv, InsertBack, NEW q, InsertionGoesOn(q)
  PROVE  /\ it'[job.j] = chain[job.v].node[q] /\ q > 1 /\ q >= job.left + 1
         /\ UNCHANGED <<store, chain, loc>> /\ fault' = "none"
         /\ DataInv' /\ HeldInv' /\ fault' \in Faults
<1> DEFINE v == job.v
           j == job.j
<1>1. /\ job \in JobType /\ v \in Vectors /\ j \in Iters /\ job.op = "insert" /\ job.new = <<>>
      /\ job.left \in Nat /\ job.left > 0 /\ DataInv /\ fault = "none"
  BY DEF VInv, JobInv, JobType, InsertBack
<1>2. Len(job.new) = 0
  BY <1>1
<1>3. Fits(v, job.m)
  BY <1>1, <1>2, InsertionPosition
<1>5. q \in 1..Len(store[v].elem) /\ q >= job.left + 1 /\ it[j] = chain[v].node[q + 1]
  BY <1>1, <1>2 DEF InsertionGoesOn
<1>6. store[v].elem \in Seq(Elements)
  BY <1>1, VectorFacts
<1>7. it[j].prev = <<chain[v].at, q>> /\ q > 1
  <2>1. chain[v].node[q + 1].prev = <<chain[v].at, q>>
    <3>1. q \in 1..Len(store[v].elem)
      BY <1>5
    <3> HIDE DEF v
    <3> QED BY <1>1, <3>1, NodePlace
  <2> QED BY <1>1, <1>5, <1>6, <2>1
<1>8. q \in DOMAIN chain[v].node
  <2>1. chain[v].at # None
    BY <1>1, <1>3, VectorFacts DEF Fits
  <2>2. Len(chain[v].node) = Len(store[v].elem) + 2 /\ chain[v].node \in Seq(NodeType)
    BY <1>1, <2>1, NodesOfVector DEF DataInv, DataOK, ChainType
  <2> QED BY <1>5, <1>6, <2>2
<1>9. Slot(chain, it[j].prev) = chain[v].node[q] /\ NodeOf(chain[v].node[q], chain)
  <2>1. Slot(chain, it[j].prev) = chain[v].node[q]
    BY <1>1, <1>7, <1>8, SlotOfVector DEF DataInv
  <2>2. chain[v].node \in Seq(NodeType)
    BY <1>1 DEF DataInv, DataOK, ChainType
  <2>3. q \in 2..Len(chain[v].node)
    BY <1>7, <1>8, <2>2
  <2> QED BY <1>1, <2>1, <2>3 DEF NodeOf
<1>10. /\ Return(j, Slot(chain, it[j].prev), bond) /\ UNCHANGED <<store, chain, loc>>
  BY DEF InsertBack
<1>11. DataInv' /\ HeldInv' /\ fault' \in Faults
  BY <1>1, <1>9, <1>10, ReturnOnlyKeeps
<1>12. it'[j] = chain[v].node[q]
  <2>1. DataOK(store, chain, loc)
    BY <1>1 DEF DataInv
  <2>2. chain[v].node[q] \in NodeType
    BY <1>9, <2>1, NodesFollow
  <2>3. chain[v].node[q] # None
    BY <2>2, NodeIsNotNone
  <2> QED BY <1>1, <1>9, <1>10, <2>3 DEF Return, VInv, HeldInv
<1>13. fault' = "none"
  <2>1. DataOK(store, chain, loc)
    BY <1>1 DEF DataInv
  <2>2. chain[v].node[q] # None
    BY <1>9, <2>1, NodesFollow, NodeIsNotNone
  <2> QED BY <1>1, <1>9, <1>10, <2>2 DEF Return
<1> QED BY <1>5, <1>7, <1>10, <1>11, <1>12, <1>13

\* It keeps what the loop has to know.
LEMMA InsertBackKeeps == VInv /\ InsertBack => VInv'
<1> SUFFICES ASSUME VInv, InsertBack PROVE VInv'
  OBVIOUS
<1> DEFINE v == job.v
           j == job.j
<1>1. /\ job \in JobType /\ v \in Vectors /\ j \in Iters /\ job.op = "insert" /\ job.new = <<>>
      /\ job.left \in Nat /\ job.left > 0 /\ JobIsNew /\ DataInv
      /\ OneChain(job.first) /\ OneChain(job.last)
  BY DEF VInv, JobInv, JobType, InsertBack
<1>2. Len(job.new) = 0
  BY <1>1
<1>3. Fits(v, job.m) /\ \E q \in 1..Len(store[v].elem) : InsertionGoesOn(q)
  BY <1>1, <1>2, InsertionPosition
<1>4. PICK q \in 1..Len(store[v].elem) : InsertionGoesOn(q)
  BY <1>3
<1>5. /\ q >= job.left + 1 /\ it'[j] = chain[v].node[q] /\ q > 1
      /\ UNCHANGED <<store, chain, loc>> /\ DataInv' /\ HeldInv' /\ fault' \in Faults
  BY <1>4, InsertBackMoves
<1>6. store[v].elem \in Seq(Elements)
  BY <1>1, VectorFacts
<1>7. CASE job' = NoJob
  BY <1>5, <1>7, DoneKeeps
<1>8. CASE job.left # 1 /\ job' = [job EXCEPT !.left = @ - 1]
  <2> DEFINE rest == job.left - 1
  <2>1. rest \in Nat /\ rest > 0 /\ q >= rest + 2
    BY <1>1, <1>5, <1>8
  <2> HIDE DEF rest
  <2>2. /\ job'.op = job.op /\ job'.v = job.v /\ job'.m = job.m /\ job'.j = job.j
        /\ job'.left = rest /\ job'.new = <<>> /\ job'.first = job.first /\ job'.last = job.last
        /\ job' \in JobType
    <3>1. job' = [job EXCEPT !.left = rest]
      BY <1>8 DEF rest
    <3> QED BY <1>1, <2>1, <3>1 DEF JobType
  <2>3. JobIsNew'
    BY <2>2 DEF JobIsNew, IsInjective, Range
  <2>4. Position'
    <3>1. q \in 2..(Len(store[v].elem) + 1) /\ q >= rest + 2 - Len(<<>>)
      BY <1>5, <1>6, <2>1
    <3>2. \E x \in 2..(Len(store'[v].elem) + 1) :
            x >= job'.left + 2 - Len(job'.new) /\ it'[j] = chain'[v].node[x]
      BY <1>5, <2>2, <3>1
    <3>3. store'[v].buf # None /\ store'[v].mem = job.m
      BY <1>3, <1>5 DEF Fits
    <3> QED BY <2>2, <3>2, <3>3 DEF Position
  <2>5. Len(job'.new) <= job'.left + 1 /\ job'.left > 0
    BY <2>1, <2>2
  <2>6. JobInv'
    BY <1>1, <2>2, <2>3, <2>4, <2>5 DEF JobInv
  <2> QED BY <1>5, <2>6 DEF VInv
<1> QED BY <1>7, <1>8 DEF InsertBack

-----------------------------------------------------------------------------
(* The invariant and what follows from it *)

\* There are more arrays of nodes than vectors, so that each has its own.
LEMMA ChainsSuffice ==
  LET at == CHOOSE f \in [Vectors -> Chains] : \A v, w \in Vectors : v # w => f[v] # f[w]
  IN  at \in [Vectors -> Chains] /\ \A v, w \in Vectors : v # w => at[v] # at[w]
<1> DEFINE Apt(f) == f \in [Vectors -> Chains] /\ \A v, w \in Vectors : v # w => f[v] # f[w]
           n == Cardinality(Vectors)
           m == Cardinality(Chains)
<1>1. n \in Nat /\ m \in Nat /\ n <= m
  BY Finite, VectorAssumption
<1>2. ExistsBijection(1..m, Chains) /\ ExistsBijection(1..n, Vectors)
  BY Finite, FS_NatBijection, FS_CardinalityType
<1> HIDE DEF n, m
<1>3. PICK g : g \in Bijection(1..m, Chains)
  BY <1>2 DEF ExistsBijection
<1>4. PICK h : h \in Bijection(1..n, Vectors)
  BY <1>2 DEF ExistsBijection
<1>5. \A v \in Vectors : \E k \in 1..n : h[k] = v
  BY <1>4 DEF Bijection, Surjection
<1> DEFINE idx(v) == CHOOSE k \in 1..n : h[k] = v
           f == [v \in Vectors |-> g[idx(v)]]
<1>6. \A v \in Vectors : idx(v) \in 1..n /\ h[idx(v)] = v
  BY <1>5
<1> HIDE DEF idx
<1>7. \A v \in Vectors : idx(v) \in 1..m
  BY <1>1, <1>6
<1>8. \A a \in 1..m : g[a] \in Chains
  BY <1>3 DEF Bijection, Injection
<1>9. \A a, b \in 1..m : g[a] = g[b] => a = b
  BY <1>3 DEF Bijection, Injection, IsInjective
<1>10. Apt(f)
  <2>1. f \in [Vectors -> Chains]
    BY <1>7, <1>8
  <2>2. ASSUME NEW v \in Vectors, NEW w \in Vectors, v # w PROVE f[v] # f[w]
    <3>1. idx(v) # idx(w)
      BY <1>6, <2>2
    <3> QED BY <1>7, <1>9, <3>1
  <2> HIDE DEF f
  <2> QED BY <2>1, <2>2
<1> HIDE DEF f
<1>11. \E x \in [Vectors -> Chains] : \A v, w \in Vectors : v # w => x[v] # x[w]
  BY <1>10
<1> QED BY <1>11

\* Default-constructed vectors and iterators.
LEMMA InitVInv == Init => VInv
<1> SUFFICES ASSUME Init PROVE VInv
  OBVIOUS
<1> DEFINE at == CHOOSE f \in [Vectors -> Chains] : \A v, w \in Vectors : v # w => f[v] # f[w]
<1>1. at \in [Vectors -> Chains] /\ \A v, w \in Vectors : v # w => at[v] # at[w]
  BY ChainsSuffice
<1>2. /\ store = [v \in Vectors |-> Vacant]
      /\ chain = [v \in Vectors |-> NewChain(at[v], <<>>, 0)]
      /\ loc = [x \in Cells |-> None]
      /\ it = [i \in Iters |-> NoNode]
      /\ bond = [i \in Iters |-> "steady"]
      /\ job = NoJob
      /\ fault = "none"
  BY DEF Init
<1> HIDE DEF at
<1>3. /\ Vacant.elem = <<>> /\ Vacant.cap = 0 /\ Vacant.buf = None /\ <<>> \in Seq(Elements) /\ 0 \in Nat
      /\ Len(Vacant.elem) = 0
  BY DEF Vacant
<1>4. ASSUME NEW v \in Vectors
      PROVE  /\ store[v] = Vacant /\ chain[v] \in ChainType /\ chain[v].at = at[v]
             /\ Chained(chain[v], store[v].elem, store[v].cap)
  <2>1. chain[v] = NewChain(at[v], <<>>, 0) /\ store[v] = Vacant
    BY <1>2
  <2>2. Chained(NewChain(at[v], <<>>, 0), <<>>, 0) /\ NewChain(at[v], <<>>, 0).at = at[v]
    BY <1>1, <1>3, NewChainIsChained
  <2>3. chain[v] \in ChainType
    BY <2>1, <2>2 DEF Chained, ChainType
  <2> QED BY <1>3, <2>1, <2>2, <2>3
<1>5. DataInv
  <2>1. store \in [Vectors -> StoreType] /\ loc \in LocType
    BY <1>2, VacantIsSound DEF LocType
  <2>2. chain \in [Vectors -> ChainType]
    <3>1. chain = [v \in Vectors |-> chain[v]]
      BY <1>2
    <3> QED BY <1>4, <3>1
  <2>3. ASSUME NEW v \in Vectors PROVE StoreSound(store[v]) /\ Matched(chain[v], store[v], loc)
    <3>1. Located(chain[v], store[v], loc)
      BY <1>3, <1>4 DEF Located
    <3> QED BY <1>4, <3>1, VacantIsSound DEF Matched
  <2>4. Apart(store, chain)
    <3> SUFFICES ASSUME NEW v \in Vectors, NEW w \in Vectors, v # w
                 PROVE  chain[v].at # chain[w].at /\ store[v].buf = None
      BY DEF Apart
    <3> QED BY <1>1, <1>3, <1>4
  <2> QED BY <2>1, <2>2, <2>3, <2>4 DEF DataInv, DataOK
<1>6. HeldInv
  <2>1. it \in [Iters -> NodeType] /\ bond \in [Iters -> Bonds]
    BY <1>2, NodeTypes DEF Bonds
  <2>2. ASSUME NEW i \in Iters PROVE OneChain(it[i]) /\ Follows(it[i], bond[i], store, chain, loc)
    <3>1. it[i] = NoNode
      BY <1>2
    <3> QED BY <3>1, NoNodeFollows
  <2> QED BY <2>1, <2>2 DEF HeldInv
<1>7. JobInv
  <2>1. /\ job.op = "none" /\ job.v = None /\ job.m = Default /\ job.j = None
        /\ job.first = NoNode /\ job.last = NoNode /\ job.new = <<>> /\ job.head = None
        /\ job.left = 0 /\ job.goal = <<>>
    BY <1>2 DEF NoJob
  <2>2. NoNode \in NodeType /\ OneChain(NoNode)
    BY NoNodeFollows
  <2>3. NoJob \in JobType
    BY <2>2, VectorAssumption DEF NoJob, JobType
  <2>4. JobIsNew
    BY <2>1 DEF JobIsNew, IsInjective, Range
  <2> QED BY <1>2, <2>1, <2>2, <2>3, <2>4 DEF JobInv
<1> QED BY <1>2, <1>5, <1>6, <1>7 DEF VInv, Faults

\* Every step of a vector keeps data, chains, iterators and loop in step.
LEMMA NextVInv == VInv /\ [Next]_vars => VInv'
<1> SUFFICES ASSUME VInv, [Next]_vars PROVE VInv'
  OBVIOUS
<1>0. \A n \in 0..MaxSize : n \in Nat
  OBVIOUS
<1>1. ASSUME NEW v \in Vectors, NEW m \in MemTypes, NEW n \in 0..MaxSize,
             Assign(v, n, m) \/ Reserve(v, n, m) \/ Resize(v, n, m)
      PROVE  VInv'
  BY <1>0, <1>1, AssignKeeps, ReserveKeeps, ResizeKeeps
<1>2. ASSUME NEW v \in Vectors, NEW w \in Vectors,
             CopyAssign(v, w) \/ MoveAssign(v, w) \/ Swap(v, w)
      PROVE  VInv'
  BY <1>2, CopyAssignKeeps, MoveAssignKeeps, SwapKeeps
<1>3. ASSUME NEW v \in Vectors, NEW m \in MemTypes, Transfer(v, m) \/ EmplaceBack(v, m)
      PROVE  VInv'
  BY <1>3, TransferKeeps, EmplaceBackKeeps
<1>4. ASSUME NEW v \in Vectors, ShrinkToFit(v) \/ PopBack(v)
      PROVE  VInv'
  BY <1>4, ShrinkToFitKeeps, PopBackKeeps
<1>5. ASSUME NEW v \in Vectors, NEW i \in Iters, NEW j \in Iters, NEW m \in MemTypes, Insert(v, i, m, j)
      PROVE  VInv'
  BY <1>5, InsertKeeps
<1>6. ASSUME NEW v \in Vectors, NEW i \in Iters, NEW j \in Iters, Erase(v, i, j)
      PROVE  VInv'
  BY <1>6, EraseKeeps
<1>7. ASSUME NEW v \in Vectors, NEW i \in Iters, NEW j \in Iters, NEW m \in MemTypes,
             NEW n \in 0..MaxSize, NEW bulk \in BOOLEAN, InsertMany(v, i, m, n, bulk, j)
      PROVE  VInv'
  BY <1>0, <1>7, InsertManyKeeps
<1>8. ASSUME NEW v \in Vectors, NEW i \in Iters, NEW l \in Iters, NEW j \in Iters, EraseMany(v, i, l, j)
      PROVE  VInv'
  BY <1>8, EraseManyKeeps
<1>9. CASE Member
  BY <1>1, <1>2, <1>3, <1>4, <1>5, <1>6, <1>7, <1>8, <1>9 DEF Member
<1>10. CASE Loop
  BY <1>10, InsertNextKeeps, InsertBackKeeps, EraseNextKeeps, EraseEndKeeps, GrowKeeps,
     PopThenShrinkKeeps DEF Loop
<1>11. CASE Walk
  BY <1>11, BeginKeeps, AdvanceKeeps, RetreatKeeps DEF Walk
<1>12. CASE UNCHANGED vars
  <2>1. DataInv' /\ HeldInv'
    BY <1>12, NothingKeeps DEF vars
  <2>2. JobInv'
    BY <1>12 DEF VInv, JobInv, JobIsNew, Position, vars
  <2> QED BY <1>12, <2>1, <2>2 DEF VInv, vars
<1>13. CASE Undefined
  BY <1>12, <1>13 DEF Undefined
<1> QED BY <1>9, <1>10, <1>11, <1>12, <1>13 DEF Next

\* VInv holds in every reachable state: data, chains, cells, held iterators and the
\* loops of member functions are in step.
THEOREM VectorInvariant == Spec => []VInv
<1>1. Init => VInv
  BY InitVInv
<1>2. VInv /\ [Next]_vars => VInv'
  BY NextVInv
<1> QED BY <1>1, <1>2, PTL DEF Spec

\* After every member function of every vector, whatever the number of vectors,
\* iterators and elements, node k + 1 of the chain is the iterator of element k,
\* linked to its neighbours, and its cell holds the address of the element.
THEOREM VectorIsWellFormed == Spec => []WellFormed
<1>1. VInv => WellFormed
  BY VInvIsWellFormed
<1> QED BY <1>1, VectorInvariant, PTL

\* An iterator that a program holds and that says it is valid leads to the element
\* it was obtained for, and stays the node of a chain as long as nothing changed in
\* front of it.
THEOREM VectorIteratorsFollow == Spec => []HeldIteratorsFollow
<1>1. VInv => HeldIteratorsFollow
  BY VInvFollows
<1> QED BY <1>1, VectorInvariant, PTL

-----------------------------------------------------------------------------
(* What insert() and erase() of one element return *)

\* The iterator n is valid and leads to the element at k of the data s.
LeadsToElement(n, s, k, locs) ==
  n.cell[2] = s.elem[k] /\ locs[n.cell] = <<s.buf, k>> /\ Valid(n, locs)

\* So does the iterator of an element, in any state.
LEMMA NodeLeads ==
  ASSUME NEW stores, NEW chains, NEW locs, DataOK(stores, chains, locs),
         NEW v \in Vectors, NEW k \in 1..Len(stores[v].elem), NEW n, n = chains[v].node[k + 1]
  PROVE  LeadsToElement(n, stores[v], k, locs)
<1> DEFINE elem == stores[v].elem
           at == chains[v].at
<1>1. /\ elem \in Seq(Elements) /\ elem # <<>> /\ stores[v].cap \in Nat
      /\ (stores[v].buf = None => elem = <<>>) /\ stores[v].buf \in Buffers \cup {None}
      /\ (stores[v].buf # None => at # None)
  BY VectorFactsOf
<1>2. stores[v].buf # None /\ at # None
  BY <1>1
<1>3. at \in Chains /\ Chained(chains[v], elem, stores[v].cap) /\ Located(chains[v], stores[v], locs)
  BY <1>2, VectorFactsOf
<1>4. n = NodeAt(at, k + 1, elem[k])
  <2> HIDE DEF elem
  <2>1. k \in 1..Len(elem)
    BY DEF elem
  <2> QED BY <1>1, <1>3, <2>1, ChainedNodes
<1>5. n.cell = <<at, elem[k]>>
  BY <1>4 DEF NodeAt
<1>6. elem[k] \in Elements
  BY <1>1
<1>7. n.cell # None
  BY <1>3, <1>5, <1>6, NoneIsNoName DEF Cells
<1>8. locs[n.cell] = <<stores[v].buf, k>>
  BY <1>3, <1>5 DEF Located
<1>9. locs[n.cell] # None
  BY <1>1, <1>2, <1>8, NoneIsNoName DEF Addresses
<1> QED BY <1>5, <1>7, <1>8, <1>9 DEF Valid, LeadsToElement

\* Taking out what was put in.
LEMMA PutInTakenOut ==
  ASSUME NEW s \in Seq(Elements), NEW k \in 1..(Len(s) + 1), NEW e \in Elements
  PROVE  RemoveAt(InsertAt(s, k, e), k) = s
<1> DEFINE t == InsertAt(s, k, e)
           u == RemoveAt(t, k)
<1>1. /\ t \in Seq(Elements) /\ Len(t) = Len(s) + 1
      /\ \A m \in 1..(k - 1) : t[m] = s[m]
      /\ \A m \in (k + 1)..(Len(s) + 1) : t[m] = s[m - 1]
  BY InsertElement
<1> HIDE DEF t
<1>2. /\ u \in Seq(Elements) /\ Len(u) = Len(s)
      /\ \A m \in 1..Len(s) : u[m] = IF m < k THEN t[m] ELSE t[m + 1]
  <2>1. k \in 1..Len(t)
    BY <1>1
  <2>2. /\ u \in Seq(Elements) /\ Len(u) = Len(t) - 1
        /\ \A m \in 1..(Len(t) - 1) : u[m] = IF m < k THEN t[m] ELSE t[m + 1]
    BY <1>1, <2>1, RemoveElement
  <2> QED BY <1>1, <2>2
<1> HIDE DEF u
<1>3. ASSUME NEW m \in 1..Len(s) PROVE u[m] = s[m]
  <2>1. CASE m < k
    BY <1>1, <1>2, <2>1
  <2>2. CASE ~(m < k)
    <3>1. m + 1 \in (k + 1)..(Len(s) + 1) /\ (m + 1) - 1 = m
      BY <2>2
    <3> QED BY <1>1, <1>2, <2>2, <3>1
  <2> QED BY <2>1, <2>2
<1>4. u = s
  BY <1>2, <1>3, SeqEqual
<1> QED BY <1>4 DEF t, u

\* An iterator that leads into a vector leads to its own element there.
LEMMA HeldPlace ==
  ASSUME VInv, NEW i \in Iters, NEW v \in Vectors, bond[i] # "lost", it[i].cell # None,
         Within(v, loc[it[i].cell])
  PROVE  /\ loc[it[i].cell][2] \in 1..Len(store[v].elem)
         /\ store[v].elem[loc[it[i].cell][2]] = it[i].cell[2]
<1> DEFINE p == loc[it[i].cell]
<1>1. p # None /\ p[1] = store[v].buf /\ p[2] \in DOMAIN store[v].elem
  BY DEF Within
<1>2. LeadsToItsElement(i) /\ Valid(it[i], loc)
  BY <1>1, VInvFollows DEF HeldIteratorsFollow, ValidReachesOwnElement, Valid
<1>3. PICK w \in Vectors : Within(w, p) /\ store[w].elem[p[2]] = it[i].cell[2]
  BY <1>2 DEF LeadsToItsElement
<1>4. store[w].buf = store[v].buf
  BY <1>1, <1>3 DEF Within
<1>5. /\ store[v].elem \in Seq(Elements) /\ (store[v].buf = None => store[v].elem = <<>>)
  BY VectorFacts DEF VInv
<1>6. p[2] \in 1..Len(store[v].elem)
  BY <1>1, <1>5
<1>7. store[v].buf # None
  <2>1. Len(store[v].elem) # 0
    BY <1>5, <1>6
  <2> QED BY <1>5, <2>1
<1>8. v = w
  BY <1>4, <1>7 DEF VInv, DataInv, DataOK, Apart
<1> QED BY <1>3, <1>6, <1>8

\* What insert() of one element promises.
InsertsItsElement(v, i, j) ==
  LET k == loc'[it'[j].cell][2]
      old == store[v].elem
  IN  /\ fault' = "none" /\ Valid(it'[j], loc')
      /\ store'[v].elem[k] \notin Range(old)
      /\ IF Len(store'[v].elem) = 1 THEN TRUE
         ELSE /\ RemoveAt(store'[v].elem, k) = old
              /\ old[k] = it[i].cell[2]

\* It keeps the promise whenever it changes something.
LEMMA InsertReturnsIt ==
  ASSUME VInv, NEW v \in Vectors, NEW i \in Iters, NEW j \in Iters, NEW m \in MemTypes,
         Insert(v, i, m, j), store'[v] # store[v]
  PROVE  InsertsItsElement(v, i, j)
<1> DEFINE e == Fresh(1)[1]
           q == loc[it[i].cell][2]
           old == store[v].elem
<1>1. /\ e \in Elements /\ e \notin Range(store[v].elem) /\ Insert1(v, it[i], m, e, j)
      /\ fault = "none" /\ bond[i] # "lost" /\ old \in Seq(Elements)
  BY OneFresh, VectorFacts DEF Insert, Calm, VInv
<1> HIDE DEF e
<1>2. DataOK(store', chain', loc') /\ Inserts(v, it[i], m, e, j)
  BY <1>1, Insert1Settles DEF DataInv
<1>3. ASSUME NEW k, PutAt(v, m, k, e, j)
      PROVE  /\ fault' = "none" /\ Valid(it'[j], loc') /\ loc'[it'[j].cell][2] = k
             /\ store'[v].elem[k] = e
  <2>1. /\ k \in 1..Len(store'[v].elem) /\ store'[v].elem[k] = e
        /\ fault' = fault /\ it'[j] = chain'[v].node[k + 1]
    BY <1>3 DEF PutAt
  <2>2. Valid(it'[j], loc') /\ loc'[it'[j].cell] = <<store'[v].buf, k>>
    <3> HIDE DEF q, old
    <3>1. k \in 1..Len(store'[v].elem) /\ it'[j] = chain'[v].node[k + 1]
      BY <2>1
    <3>2. DataOK(store', chain', loc')
      BY <1>2
    <3>3. LeadsToElement(it'[j], store'[v], k, loc')
      BY <3>1, <3>2, NodeLeads
    <3> QED BY <3>3 DEF LeadsToElement
  <2> QED BY <1>1, <2>1, <2>2
<1>4. CASE ~Fits(v, m) /\ PutAt(v, m, 1, e, j)
  <2>1. store'[v].elem = <<e>>
    BY <1>4 DEF PutAt, PutIn, Fits
  <2>2. Len(store'[v].elem) = 1
    BY <2>1
  <2> QED BY <1>1, <1>3, <1>4, <2>2 DEF InsertsItsElement
<1>5. CASE Fits(v, m) /\ Within(v, loc[it[i].cell]) /\ it[i].cell # None /\ PutAt(v, m, q, e, j)
  <2>1. q \in 1..Len(old) /\ old[q] = it[i].cell[2]
    BY <1>1, <1>5, HeldPlace
  <2> HIDE DEF q
  <2>2. store'[v].elem = InsertAt(old, q, e)
    BY <1>5 DEF PutAt, PutIn, Fits
  <2>3. q \in 1..(Len(old) + 1)
    BY <1>1, <2>1
  <2> HIDE DEF old
  <2>4. RemoveAt(store'[v].elem, q) = old
    BY <1>1, <2>2, <2>3, PutInTakenOut
  <2>5. /\ fault' = "none" /\ Valid(it'[j], loc') /\ loc'[it'[j].cell][2] = q
        /\ store'[v].elem[q] = e
    BY <1>3, <1>5
  <2> QED BY <1>1, <2>1, <2>4, <2>5 DEF InsertsItsElement, old
<1>6. CASE UNCHANGED store
  BY <1>6
<1> QED BY <1>2, <1>4, <1>5, <1>6 DEF Inserts

\* What erase() of one element promises.
ErasesItsElement(v, i, j) ==
  LET old == store[v].elem
      k == loc[it[i].cell][2]
  IN  /\ fault' = "none"
      /\ old[k] = it[i].cell[2]
      /\ store'[v].elem = RemoveAt(old, k)
      /\ IF k = Len(old) THEN it'[j] = EndNode(chain'[v])
         ELSE /\ Valid(it'[j], loc')
              /\ it'[j].cell[2] = old[k + 1]

\* It keeps the promise whenever it changes something.
LEMMA EraseReturnsNext ==
  ASSUME VInv, NEW v \in Vectors, NEW i \in Iters, NEW j \in Iters,
         Erase(v, i, j), store'[v] # store[v]
  PROVE  ErasesItsElement(v, i, j)
<1> DEFINE k == loc[it[i].cell][2]
           old == store[v].elem
<1>1. /\ Erase1(v, it[i], j) /\ fault = "none" /\ bond[i] # "lost" /\ old \in Seq(Elements)
      /\ store[v] \in StoreType
  BY VectorFacts DEF Erase, Calm, VInv
<1>2. DataInv' /\ DataOK(store', chain', loc') /\ Erases(v, it[i], j)
  BY <1>1, Erase1Settles DEF DataInv
<1>3. /\ it[i].cell # None /\ Within(v, loc[it[i].cell]) /\ TakenOut(v, k)
      /\ chain'[v].at # None /\ fault' = fault /\ it'[j] = chain'[v].node[k + 1]
  BY <1>2 DEF Erases
<1>4. k \in 1..Len(old) /\ old[k] = it[i].cell[2]
  BY <1>1, <1>3, HeldPlace
<1> HIDE DEF k
<1>5. store'[v].elem = RemoveAt(old, k)
  BY <1>1, <1>3 DEF TakenOut, StoreType
<1>6. CASE k = Len(old)
  <2>1. it'[j] = EndNode(chain'[v])
    BY <1>2, <1>3, <1>6, FollowingIsFound
  <2> QED BY <1>1, <1>3, <1>4, <1>5, <1>6, <2>1 DEF ErasesItsElement, k
<1>7. CASE k # Len(old)
  <2>1. /\ Len(store'[v].elem) = Len(old) - 1
        /\ \A m \in 1..(Len(old) - 1) : store'[v].elem[m] = IF m < k THEN old[m] ELSE old[m + 1]
    BY <1>1, <1>4, <1>5, RemoveElement
  <2>2. k \in 1..Len(store'[v].elem) /\ k \in 1..(Len(old) - 1) /\ ~(k < k)
    BY <1>1, <1>4, <1>7, <2>1
  <2>3. store'[v].elem[k] = old[k + 1]
    BY <2>1, <2>2
  <2>4. it'[j].cell[2] = store'[v].elem[k] /\ Valid(it'[j], loc')
    <3>1. LeadsToElement(it'[j], store'[v], k, loc')
      BY <1>2, <1>3, <2>2, NodeLeads
    <3> QED BY <3>1 DEF LeadsToElement
  <2> QED BY <1>1, <1>3, <1>4, <1>5, <1>7, <2>3, <2>4 DEF ErasesItsElement, k
<1> QED BY <1>6, <1>7

\* insert() and erase() of one element put in or take out that element and
\* return an iterator to the new element or to the one behind the erased, for
\* any iterator a program may still use.
THEOREM VectorReturnsItsPlace == Spec => ReturnsItsPlace
<1>1. VInv /\ [Next]_vars =>
        [\A v \in Vectors, i, j \in Iters, m \in MemTypes :
           /\ Insert(v, i, m, j) /\ store'[v] # store[v]
           => LET k == loc'[it'[j].cell][2]
                  old == store[v].elem
              IN  /\ fault' = "none" /\ Valid(it'[j], loc')
                  /\ store'[v].elem[k] \notin Range(old)
                  /\ IF Len(store'[v].elem) = 1 THEN TRUE
                     ELSE /\ RemoveAt(store'[v].elem, k) = old
                          /\ old[k] = it[i].cell[2]]_vars
  <2> SUFFICES ASSUME VInv, NEW v \in Vectors, NEW i \in Iters, NEW j \in Iters, NEW m \in MemTypes,
                      Insert(v, i, m, j), store'[v] # store[v]
               PROVE  InsertsItsElement(v, i, j)
    BY DEF InsertsItsElement
  <2> QED BY InsertReturnsIt
<1>2. VInv /\ [Next]_vars =>
        [\A v \in Vectors, i, j \in Iters :
           /\ Erase(v, i, j) /\ store'[v] # store[v]
           => LET old == store[v].elem
                  k == loc[it[i].cell][2]
              IN  /\ fault' = "none"
                  /\ old[k] = it[i].cell[2]
                  /\ store'[v].elem = RemoveAt(old, k)
                  /\ IF k = Len(old) THEN it'[j] = EndNode(chain'[v])
                     ELSE /\ Valid(it'[j], loc')
                          /\ it'[j].cell[2] = old[k + 1]]_vars
  <2> SUFFICES ASSUME VInv, NEW v \in Vectors, NEW i \in Iters, NEW j \in Iters,
                      Erase(v, i, j), store'[v] # store[v]
               PROVE  ErasesItsElement(v, i, j)
    BY DEF ErasesItsElement
  <2> QED BY EraseReturnsNext
<1>3. Spec => InsertReturnsInserted
  BY <1>1, VectorInvariant, PTL DEF Spec, InsertReturnsInserted
<1>4. Spec => EraseReturnsFollowing
  BY <1>2, VectorInvariant, PTL DEF Spec, EraseReturnsFollowing
<1> QED BY <1>3, <1>4 DEF ReturnsItsPlace

-----------------------------------------------------------------------------
(* What the loops of insert() and resize() reach *)

\* g is s with the elements n put in from the place k on.
Spliced(g, s, k, n) ==
  /\ g \in Seq(Elements) /\ Len(g) = Len(s) + Len(n)
  /\ \A x \in 1..(k - 1) : g[x] = s[x]
  /\ \A x \in 1..Len(n) : g[k - 1 + x] = n[x]
  /\ \A x \in k..Len(s) : g[x + Len(n)] = s[x]

\* How insert() is said to put them in.
LEMMA SplicedMade ==
  ASSUME NEW s \in Seq(Elements), NEW k \in 1..(Len(s) + 1), NEW n \in Seq(Elements)
  PROVE  Spliced(SubSeq(s, 1, k - 1) \o n \o SubSeq(s, k, Len(s)), s, k, n)
<1> DEFINE a == SubSeq(s, 1, k - 1)
           b == SubSeq(s, k, Len(s))
           an == a \o n
           g == an \o b
           l == Len(s)
           ln == Len(n)
<1>0. l \in Nat /\ ln \in Nat /\ k \in 1..(l + 1)
  OBVIOUS
<1>1. a \in Seq(Elements) /\ Len(a) = k - 1 /\ \A x \in 1..(k - 1) : a[x] = s[x]
  <2>1. /\ a \in Seq(Elements) /\ Len(a) = (k - 1) - 1 + 1
        /\ \A x \in 1..((k - 1) - 1 + 1) : a[x] = s[1 + x - 1]
    <3>1. 1 \in Nat \ {0} /\ k - 1 \in Int /\ k - 1 <= Len(s) /\ k - 1 >= 1 - 1
      OBVIOUS
    <3> QED BY <3>1, PartOf
  <2>2. (k - 1) - 1 + 1 = k - 1 /\ \A x \in 1..(k - 1) : 1 + x - 1 = x
    BY <1>0
  <2> HIDE DEF a
  <2> QED BY <2>1, <2>2
<1>2. b \in Seq(Elements) /\ Len(b) = l - k + 1 /\ \A x \in 1..(l - k + 1) : b[x] = s[k + x - 1]
  <2>1. k \in Nat \ {0} /\ l \in Int /\ l <= Len(s) /\ l >= k - 1
    OBVIOUS
  <2> QED BY <2>1, PartOf
<1> HIDE DEF a, b
<1>3. /\ an \in Seq(Elements) /\ Len(an) = (k - 1) + ln
      /\ \A x \in 1..((k - 1) + ln) : an[x] = IF x <= k - 1 THEN a[x] ELSE n[x - (k - 1)]
  <2>1. /\ an \in Seq(Elements) /\ Len(an) = Len(a) + Len(n)
        /\ \A x \in 1..(Len(a) + Len(n)) : an[x] = IF x <= Len(a) THEN a[x] ELSE n[x - Len(a)]
    BY <1>1, Joined
  <2> HIDE DEF an
  <2> QED BY <1>1, <2>1
<1> HIDE DEF an
<1>4. /\ g \in Seq(Elements) /\ Len(g) = ((k - 1) + ln) + (l - k + 1)
      /\ \A x \in 1..(((k - 1) + ln) + (l - k + 1)) :
           g[x] = IF x <= (k - 1) + ln THEN an[x] ELSE b[x - ((k - 1) + ln)]
  <2>1. /\ g \in Seq(Elements) /\ Len(g) = Len(an) + Len(b)
        /\ \A x \in 1..(Len(an) + Len(b)) : g[x] = IF x <= Len(an) THEN an[x] ELSE b[x - Len(an)]
    BY <1>2, <1>3, Joined
  <2> HIDE DEF g, l, ln
  <2> QED BY <1>2, <1>3, <2>1
<1> HIDE DEF g, l, ln
<1>5. ((k - 1) + ln) + (l - k + 1) = l + ln
  BY <1>0
<1>6. ASSUME NEW x \in 1..(k - 1) PROVE g[x] = s[x]
  <2>1. x \in 1..(l + ln) /\ x <= (k - 1) + ln /\ x \in 1..((k - 1) + ln) /\ x <= k - 1
    BY <1>0
  <2> QED BY <1>1, <1>3, <1>4, <1>5, <2>1
<1>7. ASSUME NEW x \in 1..ln PROVE g[k - 1 + x] = n[x]
  <2> DEFINE y == k - 1 + x
  <2>1. /\ y \in 1..(l + ln) /\ y <= (k - 1) + ln /\ y \in 1..((k - 1) + ln) /\ ~(y <= k - 1)
        /\ y - (k - 1) = x
    BY <1>0
  <2> HIDE DEF y
  <2>2. g[y] = n[x]
    BY <1>3, <1>4, <1>5, <2>1
  <2> QED BY <2>2 DEF y
<1>8. ASSUME NEW x \in k..l PROVE g[x + ln] = s[x]
  <2> DEFINE y == x + ln
             z == y - ((k - 1) + ln)
  <2>1. y \in 1..(l + ln) /\ ~(y <= (k - 1) + ln) /\ z \in 1..(l - k + 1) /\ k + z - 1 = x
    BY <1>0
  <2>2. g[y] = b[z]
    <3> HIDE DEF y
    <3> QED BY <1>4, <1>5, <2>1
  <2> HIDE DEF z
  <2>3. b[z] = s[x]
    BY <1>2, <2>1 DEF l
  <2> QED BY <2>2, <2>3
<1>9. g \in Seq(Elements) /\ Len(g) = l + ln
  BY <1>4, <1>5
<1>10. Spliced(g, s, k, n)
  BY <1>6, <1>7, <1>8, <1>9 DEF Spliced, l, ln
<1> QED BY <1>10 DEF g, an, a, b

\* How resize() is said to.
LEMMA SplicedBehind ==
  ASSUME NEW s \in Seq(Elements), NEW n \in Seq(Elements)
  PROVE  Spliced(s \o n, s, Len(s) + 1, n)
<1> DEFINE g == s \o n
           l == Len(s)
           ln == Len(n)
<1>0. l \in Nat /\ ln \in Nat
  OBVIOUS
<1>1. /\ g \in Seq(Elements) /\ Len(g) = l + ln
      /\ \A x \in 1..(l + ln) : g[x] = IF x <= l THEN s[x] ELSE n[x - l]
  BY Joined
<1> HIDE DEF g, l, ln
<1>2. \A x \in 1..((l + 1) - 1) : g[x] = s[x]
  BY <1>0, <1>1
<1>3. ASSUME NEW x \in 1..ln PROVE g[(l + 1) - 1 + x] = n[x]
  <2>1. (l + 1) - 1 + x = l + x /\ l + x \in 1..(l + ln) /\ ~(l + x <= l) /\ (l + x) - l = x
    BY <1>0
  <2> QED BY <1>1, <2>1
<1>4. \A x \in (l + 1)..l : g[x + ln] = s[x]
  BY <1>0
<1> QED BY <1>1, <1>2, <1>3, <1>4 DEF Spliced, g, l, ln

\* One more of them was put in.
LEMMA SplicedOn ==
  ASSUME NEW s \in Seq(Elements), NEW k \in 1..(Len(s) + 1), NEW n \in Seq(Elements), n # <<>>,
         IsInjective(n), NEW g, Spliced(g, s, k, n), NEW t, t = InsertAt(s, k, Head(n))
  PROVE  Spliced(g, t, k + 1, Tail(n))
<1> DEFINE r == Tail(n)
           l == Len(s)
           ln == Len(n)
<1>0. l \in Nat /\ k \in 1..(l + 1)
  OBVIOUS
<1>1. /\ ln \in Nat \ {0} /\ Head(n) = n[1] /\ Head(n) \in Elements
      /\ r \in Seq(Elements) /\ Len(r) = ln - 1 /\ \A x \in 1..(ln - 1) : r[x] = n[x + 1]
  BY HeadAndTail
<1>2. /\ t \in Seq(Elements) /\ Len(t) = l + 1 /\ t[k] = n[1]
      /\ \A x \in 1..(k - 1) : t[x] = s[x]
      /\ \A x \in (k + 1)..(l + 1) : t[x] = s[x - 1]
  <2> DEFINE e == Head(n)
  <2>1. e \in Elements /\ e = n[1] /\ t = InsertAt(s, k, e)
    BY <1>1
  <2> HIDE DEF e
  <2>2. /\ InsertAt(s, k, e) \in Seq(Elements) /\ Len(InsertAt(s, k, e)) = Len(s) + 1
        /\ InsertAt(s, k, e)[k] = e
        /\ \A x \in 1..(k - 1) : InsertAt(s, k, e)[x] = s[x]
        /\ \A x \in (k + 1)..(Len(s) + 1) : InsertAt(s, k, e)[x] = s[x - 1]
    BY <2>1, InsertElement
  <2> QED BY <2>1, <2>2
<1>3. /\ g \in Seq(Elements) /\ Len(g) = l + ln
      /\ \A x \in 1..(k - 1) : g[x] = s[x]
      /\ \A x \in 1..ln : g[k - 1 + x] = n[x]
      /\ \A x \in k..l : g[x + ln] = s[x]
  BY DEF Spliced
<1> HIDE DEF r, l, ln
<1>4. ASSUME NEW x \in 1..k PROVE g[x] = t[x]
  <2>1. CASE x = k
    <3>1. 1 \in 1..ln /\ k - 1 + 1 = k
      BY <1>0, <1>1
    <3>2. g[k - 1 + 1] = n[1]
      BY <1>3, <3>1
    <3> QED BY <1>2, <2>1, <3>1, <3>2
  <2>2. CASE x # k
    <3>1. x \in 1..(k - 1)
      BY <1>0, <2>2
    <3> QED BY <1>2, <1>3, <3>1
  <2> QED BY <2>1, <2>2
<1>5. ASSUME NEW x \in 1..(ln - 1) PROVE g[(k + 1) - 1 + x] = r[x]
  <2>1. x + 1 \in 1..ln /\ k - 1 + (x + 1) = (k + 1) - 1 + x
    BY <1>0, <1>1
  <2>2. g[k - 1 + (x + 1)] = n[x + 1]
    BY <1>3, <2>1
  <2> QED BY <1>1, <2>1, <2>2
<1>6. ASSUME NEW x \in (k + 1)..(l + 1) PROVE g[x + (ln - 1)] = t[x]
  <2>1. x - 1 \in k..l /\ (x - 1) + ln = x + (ln - 1)
    BY <1>0, <1>1
  <2>2. g[(x - 1) + ln] = s[x - 1]
    BY <1>3, <2>1
  <2> QED BY <1>2, <2>1, <2>2
<1>7. (k + 1) - 1 = k /\ l + ln = (l + 1) + (ln - 1)
  BY <1>0, <1>1
<1>8. /\ Len(g) = Len(t) + Len(r)
      /\ \A x \in 1..((k + 1) - 1) : g[x] = t[x]
  BY <1>1, <1>2, <1>3, <1>4, <1>7
<1>9. \A x \in 1..Len(r) : g[(k + 1) - 1 + x] = r[x]
  BY <1>1, <1>5
<1>10. \A x \in (k + 1)..Len(t) : g[x + Len(r)] = t[x]
  BY <1>1, <1>2, <1>6
<1> QED BY <1>3, <1>8, <1>9, <1>10 DEF Spliced, r

\* All of them were.
LEMMA SplicedDone ==
  ASSUME NEW s \in Seq(Elements), NEW k \in 1..(Len(s) + 1), NEW n \in Seq(Elements), n = <<>>,
         NEW g, Spliced(g, s, k, n)
  PROVE  g = s
<1> DEFINE l == Len(s)
<1>0. l \in Nat /\ k \in 1..(l + 1) /\ Len(n) = 0
  OBVIOUS
<1>1. /\ g \in Seq(Elements) /\ Len(g) = l + 0
      /\ \A x \in 1..(k - 1) : g[x] = s[x]
      /\ \A x \in k..l : g[x + 0] = s[x]
  BY <1>0 DEF Spliced
<1>2. ASSUME NEW x \in 1..Len(s) PROVE g[x] = s[x]
  <2>1. x \in 1..(k - 1) \/ (x \in k..l /\ x + 0 = x)
    BY <1>0
  <2> QED BY <1>1, <2>1
<1>3. Len(g) = Len(s)
  BY <1>0, <1>1
<1> QED BY <1>1, <1>2, <1>3, SeqEqual

\* Where there were no elements, they are all there are.
LEMMA SplicedFirst ==
  ASSUME NEW n \in Seq(Elements), n # <<>>, IsInjective(n), NEW t, t = <<Head(n)>>
  PROVE  Spliced(n, t, 2, Tail(n))
<1> DEFINE r == Tail(n)
           ln == Len(n)
<1>1. /\ ln \in Nat \ {0} /\ Head(n) = n[1] /\ Head(n) \in Elements
      /\ r \in Seq(Elements) /\ Len(r) = ln - 1 /\ \A x \in 1..(ln - 1) : r[x] = n[x + 1]
  BY HeadAndTail
<1>2. Len(t) = 1 /\ t[1] = n[1]
  BY <1>1
<1> HIDE DEF r, ln
<1>3. ASSUME NEW x \in 1..(ln - 1) PROVE n[2 - 1 + x] = r[x]
  <2>1. 2 - 1 + x = x + 1
    BY <1>1
  <2> QED BY <1>1, <2>1
<1>4. \A x \in 1..(2 - 1) : n[x] = t[x]
  BY <1>2
<1>5. \A x \in 1..Len(r) : n[2 - 1 + x] = r[x]
  BY <1>1, <1>3
<1>6. \A x \in 2..Len(t) : n[x + Len(r)] = t[x]
  BY <1>2
<1>7. n \in Seq(Elements) /\ Len(n) = Len(t) + Len(r)
  BY <1>1, <1>2 DEF ln
<1> QED BY <1>4, <1>5, <1>6, <1>7 DEF Spliced, r

\* While resize() adds, the elements to come belong behind those there are.
GrowGoal ==
  Fits(job.v, job.m) /\ Spliced(job.goal, store[job.v].elem, Len(store[job.v].elem) + 1, job.new)

\* g is s without its last n elements.
Cut(g, s, n) ==
  g \in Seq(Elements) /\ Len(g) + n = Len(s) /\ \A x \in 1..Len(g) : g[x] = s[x]

\* Whether the argument of insert() leads to an element of the vector.
Lands == job.first.cell # None /\ Within(job.v, loc[job.first.cell])

\* Before the first round of the loop of insert().
FirstGoal ==
  /\ job.head = Head(job.new)
  /\ ~Fits(job.v, job.m) => job.goal = job.new
  /\ Fits(job.v, job.m) /\ Lands =>
       Spliced(job.goal, store[job.v].elem, loc[job.first.cell][2], job.new)
  /\ Fits(job.v, job.m) /\ ~Lands => job.goal = store[job.v].elem

\* Later the iterator it returns is that of the element at q, the elements to
\* come belong behind it, and the one that was put in first is as far in front
\* of it as there were elements put in since, less those it has moved back over.
LaterGoal(q) ==
  LET d == job.left + 1 - Len(job.new)
  IN  /\ q \in 1..Len(store[job.v].elem) /\ q >= d /\ d > 0
      /\ it[job.j] = chain[job.v].node[q + 1]
      /\ Spliced(job.goal, store[job.v].elem, q + 1, job.new)
      /\ job.head = store[job.v].elem[q + 1 - d]

\* What is still to be done leads to what was asked for.
GoalInv ==
  /\ job.op = "grow" => GrowGoal
  /\ job.op = "shrink" => Cut(job.goal, store[job.v].elem, job.left)
  /\ job.op = "insert" /\ Len(job.new) = job.left + 1 => FirstGoal
  /\ job.op = "insert" /\ Len(job.new) # job.left + 1 => \E q \in Nat : LaterGoal(q)

\* What LoopsReachGoal says of a step.
Reached ==
  /\ store'[job.v].elem = job.goal
  /\ job.op = "insert" /\ Valid(it'[job.j], loc') => it'[job.j].cell[2] = job.head

\* Nothing has to be known of the loop that is over.
LEMMA OverKeepsGoal ==
  ASSUME job'.op \in {"none", "erase"}
  PROVE  GoalInv'
BY DEF GoalInv

\* So when a member function ends.
LEMMA DoneKeepsGoal ==
  ASSUME job' = NoJob
  PROVE  GoalInv'
<1>1. job'.op = "none"
  BY DEF NoJob
<1> QED BY <1>1, OverKeepsGoal

\* Where the iterators of two elements are the same, so are their places.
LEMMA OnePlace ==
  ASSUME DataInv, NEW v \in Vectors, NEW k \in 1..Len(store[v].elem),
         NEW l \in 1..Len(store[v].elem), chain[v].node[k + 1] = chain[v].node[l + 1]
  PROVE  k = l
<1>1. chain[v].node[k + 1].prev = <<chain[v].at, k>>
  BY NodePlace
<1>2. chain[v].node[l + 1].prev = <<chain[v].at, l>>
  BY NodePlace
<1> QED BY <1>1, <1>2

\* Grow puts in the next element, and the last one completes the sequence.
LEMMA GrowReaches ==
  ASSUME VInv, GoalInv, Grow
  PROVE  GoalInv' /\ (job' = NoJob => Reached)
<1> DEFINE v == job.v
           e == Head(job.new)
           s == store[v].elem
           k == Len(s) + 1
           n == job.new
<1>1. /\ job \in JobType /\ v \in Vectors /\ n # <<>> /\ n \in Seq(Elements)
      /\ IsInjective(n) /\ job.m \in MemTypes /\ job.op = "grow"
      /\ \A u \in Vectors : Range(n) \cap Range(store[u].elem) = {}
  BY DEF VInv, JobInv, JobIsNew, JobType, Grow
<1>2. e \in Elements /\ e \notin Range(s)
  <2>1. e \in Elements /\ e \in Range(n)
    BY <1>1, HeadAndTail
  <2> QED BY <1>1, <2>1
<1>3. PutIn(v, job.m, k, e)
  <2>1. Append1(v, job.m, e)
    BY DEF Grow
  <2> HIDE DEF e
  <2> QED BY <1>1, <1>2, <2>1, Append1Settles
<1>4. Fits(v, job.m) /\ Spliced(job.goal, s, k, n)
  BY <1>1 DEF GoalInv, GrowGoal
<1>5. /\ s \in Seq(Elements) /\ k \in 1..(Len(s) + 1)
      /\ store'[v].elem = InsertAt(s, k, e) /\ store'[v].buf # None /\ store'[v].mem = job.m
  <2>1. s \in Seq(Elements)
    BY <1>1, VectorFacts DEF VInv
  <2> QED BY <1>3, <1>4, <2>1 DEF PutIn, Fits
<1>6. Spliced(job.goal, store'[v].elem, k + 1, Tail(n))
  <2> HIDE DEF s, k, n
  <2>1. e = Head(n)
    BY DEF n
  <2> QED BY <1>1, <1>4, <1>5, <2>1, SplicedOn
<1>7. Len(store'[v].elem) = k
  <2> HIDE DEF s, e
  <2>1. k \in 1..(Len(s) + 1) /\ e \in Elements
    BY <1>2, <1>5 DEF s
  <2>2. Len(InsertAt(s, k, e)) = Len(s) + 1
    <3> HIDE DEF k
    <3> QED BY <1>5, <2>1, InsertElement
  <2> QED BY <1>5, <2>2
<1>8. CASE Len(n) = 1 /\ job' = NoJob
  <2>1. Tail(n) \in Seq(Elements) /\ Len(Tail(n)) = 0
    BY <1>1, <1>8, HeadAndTail
  <2>2. Tail(n) = <<>>
    BY <2>1, EmptySeq
  <2> DEFINE t == store'[v].elem
  <2>3. t \in Seq(Elements) /\ k + 1 \in 1..(Len(t) + 1)
    <3>1. t \in Seq(Elements)
      <4> HIDE DEF s, k, e
      <4> QED BY <1>2, <1>5, InsertElement
    <3> QED BY <1>5, <1>7, <3>1
  <2>4. job.goal = t
    <3> HIDE DEF t, k, v
    <3>1. Spliced(job.goal, t, k + 1, Tail(n))
      BY <1>6 DEF t
    <3> DEFINE r == Tail(n)
               kk == k + 1
    <3>2. r \in Seq(Elements) /\ r = <<>> /\ kk \in 1..(Len(t) + 1) /\ Spliced(job.goal, t, kk, r)
      BY <2>1, <2>2, <2>3, <3>1
    <3> HIDE DEF r, kk
    <3> QED BY <2>3, <3>2, SplicedDone
  <2> QED BY <1>1, <1>8, <2>4, DoneKeepsGoal DEF Reached
<1>9. CASE Len(n) # 1 /\ job' = [job EXCEPT !.new = Tail(@)]
  <2>1. job'.op = "grow" /\ job'.v = v /\ job'.m = job.m /\ job'.goal = job.goal /\ job'.new = Tail(n)
    BY <1>1, <1>9 DEF JobType
  <2>2. GrowGoal'
    BY <1>5, <1>6, <1>7, <2>1 DEF GrowGoal, Fits
  <2>3. GoalInv' /\ job' # NoJob
    BY <2>1, <2>2 DEF GoalInv, NoJob
  <2> QED BY <2>3
<1> QED BY <1>8, <1>9 DEF Grow

\* PopThenShrink takes out the last element, or ends with what remains.
LEMMA PopReaches ==
  ASSUME VInv, GoalInv, PopThenShrink
  PROVE  GoalInv' /\ (job' = NoJob => Reached)
<1> DEFINE v == job.v
           s == store[v].elem
           g == job.goal
<1>1. /\ job \in JobType /\ v \in Vectors /\ job.op = "shrink" /\ job.left \in Nat
      /\ job.left <= Len(s)
  BY DEF VInv, JobInv, JobType, PopThenShrink
<1>2. s \in Seq(Elements) /\ store[v] \in StoreType
  BY <1>1, VectorFacts DEF VInv
<1>3. Cut(g, s, job.left)
  BY <1>1 DEF GoalInv
<1>4. g \in Seq(Elements) /\ Len(g) + job.left = Len(s) /\ \A x \in 1..Len(g) : g[x] = s[x]
  BY <1>3 DEF Cut
<1>5. CASE job.left > 0
  <2>1. s # <<>>
    BY <1>1, <1>5
  <2>2. Pop1(v) /\ job' = [job EXCEPT !.left = @ - 1]
    BY <1>5 DEF PopThenShrink
  <2>3. TakenOut(v, Len(s))
    BY <1>1, <2>1, <2>2, Pop1Settles
  <2>4. Len(s) \in 1..Len(s) /\ store'[v].elem = RemoveAt(s, Len(s))
    BY <1>2, <2>3 DEF TakenOut, StoreType
  <2> DEFINE t == store'[v].elem
  <2>5. /\ t \in Seq(Elements) /\ Len(t) = Len(s) - 1
        /\ \A x \in 1..(Len(s) - 1) : t[x] = IF x < Len(s) THEN s[x] ELSE s[x + 1]
    <3> DEFINE k == Len(s)
    <3>1. k \in 1..Len(s) /\ t = RemoveAt(s, k)
      BY <2>4
    <3> HIDE DEF t, s, k
    <3>2. /\ t \in Seq(Elements) /\ Len(t) = Len(s) - 1
          /\ \A x \in 1..(Len(s) - 1) : t[x] = IF x < k THEN s[x] ELSE s[x + 1]
      BY <1>2, <3>1, RemoveElement
    <3> QED BY <3>2 DEF k
  <2>6. /\ job'.op = "shrink" /\ job'.v = v /\ job'.left = job.left - 1 /\ job'.goal = g
    BY <1>1, <2>2 DEF JobType
  <2>7. Cut(g, t, job.left - 1)
    <3> HIDE DEF t, s, g
    <3>1. Len(s) \in Nat /\ Len(g) \in Nat
      BY <1>2, <1>4
    <3>2. \A x \in 1..Len(g) : x \in 1..(Len(s) - 1) /\ x < Len(s)
      BY <1>1, <1>4, <1>5, <3>1
    <3>3. \A x \in 1..Len(g) : g[x] = t[x]
      BY <1>4, <2>5, <3>2
    <3>4. Len(g) + (job.left - 1) = Len(t)
      BY <1>1, <1>4, <2>5, <3>1
    <3> QED BY <1>4, <3>3, <3>4 DEF Cut
  <2>8. GoalInv' /\ job' # NoJob
    BY <2>6, <2>7 DEF GoalInv, NoJob
  <2> QED BY <2>8
<1>6. CASE ~(job.left > 0)
  <2>1. Shrink(v) /\ job' = NoJob
    BY <1>6 DEF PopThenShrink
  <2>2. store'[v].elem = s
    BY <1>1, <2>1, ShrinkSettles
  <2>3. g = s
    <3> HIDE DEF g, s
    <3>1. Len(g) = Len(s)
      BY <1>1, <1>2, <1>4, <1>6
    <3> QED BY <1>2, <1>4, <3>1, SeqEqual
  <2> QED BY <1>1, <2>1, <2>2, <2>3, DoneKeepsGoal DEF Reached
<1> QED BY <1>5, <1>6

\* What was put in first is at that place, and the elements to come belong
\* behind what was put in now.
PutSoFar(k) ==
  LET d == job.left + 2 - Len(job.new)
  IN  /\ Spliced(job.goal, store'[job.v].elem, k + 1, Tail(job.new))
      /\ k >= d /\ d > 0 /\ job.head = store'[job.v].elem[k + 1 - d]

\* Each round of the loop of insert() puts an element where it belongs.
LEMMA PutNextGoal ==
  ASSUME VInv, GoalInv, InsertNext, NEW k \in 1..Len(store'[job.v].elem), PutNext(k)
  PROVE  PutSoFar(k)
<1> DEFINE v == job.v
           e == Head(job.new)
           n == job.new
           s == store[v].elem
           t == store'[v].elem
           g == job.goal
<1>1. /\ job \in JobType /\ v \in Vectors /\ n # <<>> /\ n \in Seq(Elements)
      /\ IsInjective(n) /\ job.op = "insert" /\ DataInv
      /\ Len(n) <= job.left + 1 /\ job.left \in Nat
  BY DEF VInv, JobInv, JobIsNew, JobType, InsertNext
<1>2. /\ e \in Elements /\ e = n[1] /\ Len(n) \in Nat \ {0}
      /\ s \in Seq(Elements) /\ t \in Seq(Elements)
  <2>1. DataInv'
    BY InsertNextInserts
  <2>2. DataOK(store', chain', loc')
    BY <2>1 DEF DataInv
  <2>3. t \in Seq(Elements)
    BY <1>1, <2>2, VectorFactsOf
  <2> QED BY <1>1, <2>3, HeadAndTail, VectorFacts
<1>3. /\ t[k] = e /\ k >= job.left + 2 - Len(n)
      /\ t = IF Fits(v, job.m) THEN InsertAt(s, k, e) ELSE <<e>>
  BY DEF PutNext, PutAt, PutIn, Fits
<1>4. k \in Nat /\ job.left + 2 - Len(n) > 0
  <2> HIDE DEF n, t
  <2> QED BY <1>1, <1>2
<1>5. CASE ~Fits(v, job.m)
  <2>1. k = 1 /\ Len(n) = job.left + 1 /\ t = <<e>>
    BY <1>3, <1>5 DEF PutNext
  <2>2. FirstGoal
    BY <1>1, <2>1 DEF GoalInv
  <2>3. g = n /\ job.head = e
    BY <1>5, <2>2 DEF FirstGoal
  <2>4. Spliced(n, t, 2, Tail(n))
    <3> HIDE DEF n, t, e
    <3>1. t = <<Head(n)>>
      BY <2>1 DEF e, n
    <3> QED BY <1>1, <3>1, SplicedFirst
  <2>5. k + 1 = 2 /\ k + 1 - (job.left + 2 - Len(n)) = k
    <3> HIDE DEF n
    <3> QED BY <1>1, <1>2, <2>1
  <2> QED BY <1>3, <1>4, <2>3, <2>4, <2>5 DEF PutSoFar
<1>6. CASE Fits(v, job.m)
  <2>1. /\ k \in 1..Len(s) /\ k = loc[NextPlace.cell][2] /\ NextPlace.cell # None
        /\ Within(v, loc[NextPlace.cell]) /\ t = InsertAt(s, k, e)
    BY <1>3, <1>6 DEF PutNext
  <2>2. ASSUME Spliced(g, s, k, n) PROVE Spliced(g, t, k + 1, Tail(n))
    <3> HIDE DEF n, t, e, s, g
    <3>1. k \in 1..(Len(s) + 1) /\ t = InsertAt(s, k, Head(n))
      BY <1>2, <2>1 DEF e, n
    <3> QED BY <1>1, <1>2, <2>2, <3>1, SplicedOn
  <2>3. CASE Len(n) = job.left + 1
    <3>1. FirstGoal /\ NextPlace = job.first
      BY <1>1, <2>3 DEF GoalInv, NextPlace
    <3>2. Spliced(g, s, k, n) /\ job.head = e
      BY <1>6, <2>1, <3>1 DEF FirstGoal, Lands
    <3>3. k + 1 - (job.left + 2 - Len(n)) = k
      <4> HIDE DEF n
      <4> QED BY <1>1, <1>2, <1>4, <2>3
    <3> QED BY <1>3, <1>4, <2>2, <3>2, <3>3 DEF PutSoFar
  <2>4. CASE Len(n) # job.left + 1
    <3>1. PICK q \in Nat : LaterGoal(q)
      BY <1>1, <2>4 DEF GoalInv
    <3>2. PICK r \in 1..Len(s) : InsertionGoesOn(r) /\ k = r + 1
      BY <1>1, <2>1, <2>4, LaterPlace
    <3>3. /\ q \in 1..Len(s) /\ chain[v].node[q + 1] = chain[v].node[r + 1]
          /\ q >= job.left + 1 - Len(n) /\ job.left + 1 - Len(n) > 0
          /\ job.head = s[q + 1 - (job.left + 1 - Len(n))] /\ Spliced(g, s, q + 1, n)
      BY <3>1, <3>2 DEF LaterGoal, InsertionGoesOn
    <3>4. q = r
      <4>1. q \in 1..Len(store[v].elem) /\ r \in 1..Len(store[v].elem)
        BY <3>2, <3>3
      <4> HIDE DEF s, v
      <4>2. DataInv /\ v \in Vectors /\ chain[v].node[q + 1] = chain[v].node[r + 1]
        BY <1>1, <3>3
      <4> QED BY <4>1, <4>2, OnePlace
    <3>5. Spliced(g, s, k, n)
      BY <3>2, <3>3, <3>4
    <3> DEFINE x == k + 1 - (job.left + 2 - Len(n))
    <3>6. x = q + 1 - (job.left + 1 - Len(n)) /\ x \in 1..(k - 1)
      <4> DEFINE l == Len(n)
                 left == job.left
      <4>1. l \in Nat /\ left \in Nat /\ q \in Nat /\ k = q + 1 /\ q >= left + 1 - l /\ left + 1 - l > 0
        BY <1>1, <1>2, <3>2, <3>3, <3>4
      <4>2. x = k + 1 - (left + 2 - l)
        OBVIOUS
      <4> HIDE DEF n, s, l, left, x
      <4>3. x = q + 1 - (left + 1 - l) /\ x \in 1..(k - 1)
        BY <4>1, <4>2
      <4> QED BY <4>3 DEF l, left
    <3>7. t[x] = s[x]
      <4> HIDE DEF x, t, s, e
      <4>1. k \in 1..(Len(s) + 1)
        BY <1>2, <2>1
      <4>2. \A y \in 1..(k - 1) : InsertAt(s, k, e)[y] = s[y]
        BY <1>2, <4>1, InsertElement
      <4> QED BY <2>1, <3>6, <4>2
    <3>8. job.head = t[x]
      BY <3>3, <3>6, <3>7
    <3>9. k >= job.left + 2 - Len(n)
      BY <1>3
    <3> QED BY <1>4, <2>2, <3>5, <3>8, <3>9 DEF PutSoFar
  <2> QED BY <2>3, <2>4
<1> QED BY <1>5, <1>6

\* Put in front of any place, no elements change nothing.
LEMMA NothingSpliced ==
  ASSUME NEW s \in Seq(Elements), NEW k \in 1..(Len(s) + 1), NEW n \in Seq(Elements), n = <<>>
  PROVE  Spliced(s, s, k, n)
<1>1. Len(n) = 0 /\ Len(s) \in Nat
  OBVIOUS
<1>2. \A x \in k..Len(s) : s[x + 0] = s[x]
  <2>1. \A x \in k..Len(s) : x + 0 = x
    BY <1>1
  <2> QED BY <2>1
<1> QED BY <1>1, <1>2 DEF Spliced

\* InsertNext: the loop goes on from there, or ends with the only element, or
\* with nothing put in at all.
LEMMA InsertNextReaches ==
  ASSUME VInv, GoalInv, InsertNext
  PROVE  GoalInv' /\ (job' = NoJob /\ fault' = "none" => Reached)
<1> DEFINE v == job.v
           j == job.j
           n == job.new
           s == store[v].elem
           t == store'[v].elem
           g == job.goal
<1>1. /\ job \in JobType /\ v \in Vectors /\ n # <<>> /\ n \in Seq(Elements)
      /\ IsInjective(n) /\ job.op = "insert" /\ DataInv /\ job \in JobType
      /\ Len(n) <= job.left + 1 /\ job.left \in Nat
  BY DEF VInv, JobInv, JobIsNew, JobType, InsertNext
<1>2. /\ InsertedNext /\ DataOK(store', chain', loc')
  BY InsertNextInserts DEF DataInv
<1>3. /\ t \in Seq(Elements) /\ s \in Seq(Elements) /\ Len(n) \in Nat \ {0}
      /\ Tail(n) \in Seq(Elements) /\ Len(Tail(n)) = Len(n) - 1
  BY <1>1, <1>2, VectorFactsOf, VectorFacts, HeadAndTail
<1>4. ASSUME NEW k \in 1..Len(t), PutNext(k)
      PROVE  /\ PutSoFar(k) /\ it'[j] = chain'[v].node[k + 1] /\ Valid(it'[j], loc')
             /\ it'[j].cell[2] = t[k] /\ fault' = "none"
  <2>1. PutSoFar(k)
    BY <1>4, PutNextGoal
  <2>2. it'[j] = chain'[v].node[k + 1] /\ fault' = "none"
    BY <1>4 DEF PutNext, PutAt
  <2>3. LeadsToElement(it'[j], store'[v], k, loc')
    BY <1>1, <1>2, <2>2, NodeLeads
  <2> QED BY <2>1, <2>2, <2>3 DEF LeadsToElement
<1>5. CASE /\ UNCHANGED <<store, chain, loc>> /\ Fits(v, job.m)
           /\ fault' = "none" /\ it'[j] = EndNode(chain[v])
           /\ NextPlace.cell # None /\ ~Within(v, loc[NextPlace.cell])
  <2>1. ~Valid(it'[j], loc')
    <3>1. chain[v].at # None
      BY <1>1, <1>5, VectorFacts DEF Fits
    <3>2. EndNode(chain[v]).cell = None
      BY <1>1, <3>1, EndHasNoCell, ZenonT(30) DEF DataInv
    <3> QED BY <1>5, <3>2 DEF Valid
  <2>2. job' = NoJob
    BY <2>1 DEF InsertNext
  <2>3. Len(n) = job.left + 1
    BY <1>1, <1>5, LaterPlace
  <2>4. g = s
    <3>1. FirstGoal /\ NextPlace = job.first
      BY <1>1, <2>3 DEF GoalInv, NextPlace
    <3> QED BY <1>5, <3>1 DEF FirstGoal, Lands
  <2>5. t = g
    BY <1>5, <2>4
  <2> QED BY <2>1, <2>2, <2>5, DoneKeepsGoal DEF Reached
<1>6. CASE \E k \in 1..Len(t) : PutNext(k)
  <2>1. PICK k \in 1..Len(t) : PutNext(k)
    BY <1>6
  <2>2. /\ PutSoFar(k) /\ it'[j] = chain'[v].node[k + 1] /\ Valid(it'[j], loc')
        /\ it'[j].cell[2] = t[k] /\ fault' = "none"
    BY <1>4, <2>1
  <2>3. CASE job.left = 0 /\ job' = NoJob
    <3>1. Len(n) = 1 /\ Tail(n) = <<>>
      <4>1. Len(n) = 1
        <5> HIDE DEF n
        <5> QED BY <1>1, <1>3, <2>3
      <4>2. Len(Tail(n)) = 0
        BY <1>3, <4>1
      <4> QED BY <1>3, <4>1, <4>2, EmptySeq
    <3>2. Spliced(g, t, k + 1, Tail(n)) /\ job.head = t[k]
      <4>1. k + 1 - (job.left + 2 - Len(n)) = k
        BY <2>3, <3>1
      <4> QED BY <2>2, <4>1 DEF PutSoFar
    <3>3. g = t
      <4> DEFINE r == Tail(n)
                 kk == k + 1
      <4>1. r \in Seq(Elements) /\ r = <<>> /\ kk \in 1..(Len(t) + 1) /\ Spliced(g, t, kk, r)
        BY <1>3, <3>1, <3>2
      <4> HIDE DEF r, kk, t, g
      <4> QED BY <1>3, <4>1, SplicedDone
    <3> QED BY <2>2, <2>3, <3>2, <3>3, DoneKeepsGoal DEF Reached
  <2>4. CASE job.left # 0 /\ job' = [job EXCEPT !.new = Tail(@)]
    <3>1. /\ job'.op = "insert" /\ job'.v = v /\ job'.j = j /\ job'.left = job.left
          /\ job'.goal = g /\ job'.head = job.head /\ job'.new = Tail(n)
      BY <1>1, <2>4 DEF JobType
    <3>2. /\ Len(job'.new) # job'.left + 1 /\ k \in Nat
          /\ job'.left + 1 - Len(job'.new) = job.left + 2 - Len(n)
      <4> DEFINE l == Len(n)
                 left == job.left
      <4>1. l \in Nat /\ left \in Nat /\ l <= left + 1 /\ Len(job'.new) = l - 1 /\ job'.left = left
        BY <1>1, <1>3, <3>1
      <4> HIDE DEF l, left
      <4>2. Len(job'.new) # job'.left + 1 /\ job'.left + 1 - Len(job'.new) = left + 2 - l
        BY <4>1
      <4> QED BY <4>2 DEF l, left
    <3>3. LaterGoal(k)'
      BY <2>2, <3>1, <3>2 DEF LaterGoal, PutSoFar
    <3>4. GoalInv' /\ job' # NoJob
      BY <3>1, <3>2, <3>3 DEF GoalInv, NoJob
    <3> QED BY <3>4
  <2> QED BY <2>2, <2>3, <2>4 DEF InsertNext
<1>7. CASE fault' # "none"
  <2>1. job' = NoJob
    BY <1>7 DEF InsertNext
  <2> QED BY <1>7, <2>1, DoneKeepsGoal
<1> QED BY <1>2, <1>5, <1>6, <1>7 DEF InsertedNext

\* InsertBack: the iterator moves towards the element that was put in first.
LEMMA InsertBackReaches ==
  ASSUME VInv, GoalInv, InsertBack
  PROVE  GoalInv' /\ (job' = NoJob => Reached)
<1> DEFINE v == job.v
           j == job.j
           s == store[v].elem
           g == job.goal
           n == job.new
<1>1. /\ job \in JobType /\ v \in Vectors /\ j \in Iters /\ job.op = "insert" /\ n = <<>>
      /\ job.left \in Nat /\ job.left > 0 /\ DataInv /\ n \in Seq(Elements)
  BY DEF VInv, JobInv, JobType, InsertBack
<1>2. Len(n) = 0 /\ s \in Seq(Elements)
  BY <1>1, VectorFacts
<1>3. PICK q \in Nat : LaterGoal(q)
  BY <1>1, <1>2 DEF GoalInv
<1>4. /\ q \in 1..Len(s) /\ it[j] = chain[v].node[q + 1] /\ q >= job.left + 1
      /\ Spliced(g, s, q + 1, n) /\ job.head = s[q - job.left]
  <2>1. /\ q \in 1..Len(s) /\ it[j] = chain[v].node[q + 1] /\ q >= job.left + 1 - 0
        /\ Spliced(g, s, q + 1, n) /\ job.head = s[q + 1 - (job.left + 1 - 0)]
    BY <1>2, <1>3 DEF LaterGoal
  <2>2. q + 1 - (job.left + 1 - 0) = q - job.left /\ job.left + 1 - 0 = job.left + 1
    BY <1>1
  <2> QED BY <2>1, <2>2
<1>5. /\ it'[j] = chain[v].node[q] /\ q > 1 /\ UNCHANGED <<store, chain, loc>>
      /\ fault' = "none"
  <2>1. PICK r \in 1..Len(s) : InsertionGoesOn(r)
    BY <1>1, <1>2, InsertionPosition
  <2>2. /\ it'[j] = chain[v].node[r] /\ r > 1 /\ UNCHANGED <<store, chain, loc>>
        /\ fault' = "none"
    BY <2>1, InsertBackMoves
  <2>3. chain[v].node[q + 1] = chain[v].node[r + 1]
    BY <1>4, <2>1 DEF InsertionGoesOn
  <2>4. q = r
    <3>1. q \in 1..Len(store[v].elem) /\ r \in 1..Len(store[v].elem)
      BY <1>4, <2>1
    <3> HIDE DEF v, s
    <3> QED BY <1>1, <2>3, <3>1, OnePlace
  <2> QED BY <2>2, <2>4
<1>6. g = s
  <2> DEFINE k == q + 1
  <2>1. k \in 1..(Len(s) + 1) /\ Spliced(g, s, k, n)
    BY <1>2, <1>4
  <2> HIDE DEF k, s, g, n
  <2> QED BY <1>1, <1>2, <2>1, SplicedDone
<1> DEFINE p == q - 1
<1>7. p \in 1..Len(s) /\ p + 1 = q /\ p \in Nat
  <2> HIDE DEF s
  <2> QED BY <1>2, <1>4, <1>5
<1>8. it'[j].cell[2] = s[p]
  <2> HIDE DEF p
  <2>1. p \in 1..Len(store[v].elem) /\ it'[j] = chain[v].node[p + 1]
    BY <1>5, <1>7
  <2>2. DataOK(store, chain, loc)
    BY <1>1 DEF DataInv
  <2>3. LeadsToElement(it'[j], store[v], p, loc)
    BY <1>1, <2>1, <2>2, NodeLeads
  <2> QED BY <2>3 DEF LeadsToElement
<1>9. CASE job.left = 1 /\ job' = NoJob
  <2>1. job.head = s[p]
    BY <1>4, <1>9
  <2> QED BY <1>5, <1>6, <1>8, <1>9, <2>1, DoneKeepsGoal DEF Reached
<1>10. CASE job.left # 1 /\ job' = [job EXCEPT !.left = @ - 1]
  <2>1. /\ job'.op = "insert" /\ job'.v = v /\ job'.j = j /\ job'.left = job.left - 1
        /\ job'.goal = g /\ job'.head = job.head /\ job'.new = n
    BY <1>1, <1>10 DEF JobType
  <2> HIDE DEF p
  <2>2. Spliced(g, s, p + 1, n)
    <3> DEFINE k == p + 1
    <3>1. k \in 1..(Len(s) + 1)
      BY <1>2, <1>7
    <3> HIDE DEF k, s, g, n
    <3>2. Spliced(s, s, k, n)
      BY <1>1, <1>2, <3>1, NothingSpliced
    <3> QED BY <1>6, <3>2 DEF k
  <2>3. /\ Len(job'.new) = 0 /\ job'.left + 1 - Len(job'.new) = job.left
        /\ p + 1 - job.left = q - job.left /\ p >= job.left
        /\ 0 # job'.left + 1
    <3> DEFINE left == job.left
               l == Len(job'.new)
    <3>1. /\ left \in Nat /\ left > 0 /\ q \in Nat /\ p \in Nat /\ p + 1 = q /\ q >= left + 1
          /\ l = 0 /\ job'.left = left - 1
      BY <1>1, <1>2, <1>4, <1>7, <2>1
    <3> HIDE DEF left, l
    <3>2. /\ l = 0 /\ job'.left + 1 - l = left /\ p + 1 - left = q - left /\ p >= left
          /\ 0 # job'.left + 1
      BY <3>1
    <3> QED BY <3>2 DEF left, l
  <2>4. LaterGoal(p)'
    <3>1. /\ p \in 1..Len(store'[job'.v].elem) /\ it'[job'.j] = chain'[job'.v].node[p + 1]
          /\ Spliced(job'.goal, store'[job'.v].elem, p + 1, job'.new)
          /\ job'.head = store'[job'.v].elem[p + 1 - job.left]
      BY <1>4, <1>5, <1>7, <2>1, <2>2, <2>3
    <3> QED BY <1>1, <2>3, <3>1 DEF LaterGoal
  <2>5. GoalInv' /\ job' # NoJob
    BY <1>7, <2>1, <2>3, <2>4 DEF GoalInv, NoJob
  <2> QED BY <2>5
<1> QED BY <1>9, <1>10 DEF InsertBack

\* insert() of several elements sets out for the sequence it is to make.
LEMMA InsertManyAims ==
  ASSUME VInv, GoalInv, NEW v \in Vectors, NEW i \in Iters, NEW m \in MemTypes, NEW n \in Nat,
         NEW bulk, NEW j \in Iters, InsertMany(v, i, m, n, bulk, j)
  PROVE  GoalInv'
<1> DEFINE s == store[v]
           new == Fresh(n)
           p == loc[it[i].cell]
           fits == s.buf # None /\ s.mem = m
           lands == it[i].cell # None /\ Within(v, p)
           goal == IF ~fits THEN new
                   ELSE IF it[i].cell # None /\ Within(v, p)
                   THEN SubSeq(s.elem, 1, p[2] - 1) \o new
                          \o SubSeq(s.elem, p[2], Len(s.elem))
                   ELSE s.elem
<1>1. job = NoJob /\ CanMake(n) /\ job.op = "none"
  BY DEF InsertMany, Calm, NoJob
<1>2. new \in Seq(Elements) /\ Len(new) = n /\ IsInjective(new)
  BY <1>1, FreshIsNew
<1>3. s.elem \in Seq(Elements)
  BY VectorFacts DEF VInv
<1>4. CASE job' = job
  BY <1>1, <1>4, OverKeepsGoal
<1>5. CASE /\ n > 0 /\ UNCHANGED <<store, chain, loc>>
           /\ job' = [NoJob EXCEPT
                !.op = "insert", !.v = v, !.m = m, !.j = j, !.first = it[i],
                !.new = new, !.head = new[1], !.left = n - 1, !.goal = goal]
  <2> HIDE DEF new
  <2>1. ASSUME fits, lands PROVE Spliced(goal, s.elem, p[2], new)
    <3> DEFINE k == p[2]
               e == s.elem
    <3>1. k \in 1..(Len(e) + 1)
      BY <1>3, <2>1 DEF Within
    <3>2. goal = SubSeq(e, 1, k - 1) \o new \o SubSeq(e, k, Len(e))
      BY <2>1
    <3> HIDE DEF goal, k, e
    <3>3. e \in Seq(Elements)
      BY <1>3 DEF e
    <3>4. Spliced(goal, e, k, new)
      BY <1>2, <3>1, <3>2, <3>3, SplicedMade
    <3> QED BY <3>4 DEF k, e
  <2>2. ~fits => goal = new
    OBVIOUS
  <2>3. fits /\ ~lands => goal = s.elem
    OBVIOUS
  <2> HIDE DEF goal
  <2>4. /\ job'.op = "insert" /\ job'.v = v /\ job'.m = m /\ job'.first = it[i]
        /\ job'.new = new /\ job'.head = new[1] /\ job'.left = n - 1 /\ job'.goal = goal
    BY <1>5 DEF NoJob
  <2>5. Head(new) = new[1]
    <3>1. new # <<>>
      BY <1>2, <1>5
    <3> QED BY <1>2, <3>1, HeadAndTail
  <2>6. /\ Fits(job.v, job.m)' <=> fits
        /\ Lands' <=> lands
    BY <1>5, <2>4 DEF Fits, Lands, Within
  <2>7. FirstGoal'
    <3>1. job'.head = Head(job'.new)
      BY <2>4, <2>5
    <3>2. ~Fits(job.v, job.m)' => job'.goal = job'.new
      BY <2>2, <2>4, <2>6
    <3>3. Fits(job.v, job.m)' /\ Lands' =>
            Spliced(job'.goal, store'[job'.v].elem, loc'[job'.first.cell][2], job'.new)
      BY <1>5, <2>1, <2>4, <2>6
    <3>4. Fits(job.v, job.m)' /\ ~Lands' => job'.goal = store'[job'.v].elem
      BY <1>5, <2>3, <2>4, <2>6
    <3> QED BY <3>1, <3>2, <3>3, <3>4 DEF FirstGoal
  <2>8. Len(job'.new) = job'.left + 1
    BY <1>2, <2>4
  <2> QED BY <2>4, <2>7, <2>8 DEF GoalInv
<1> HIDE DEF goal
<1>6. \/ job' = job
      \/ /\ n > 0 /\ UNCHANGED <<store, chain, loc>>
         /\ job' = [NoJob EXCEPT
              !.op = "insert", !.v = v, !.m = m, !.j = j, !.first = it[i],
              !.new = new, !.head = new[1], !.left = n - 1, !.goal = goal]
  BY DEF InsertMany, Fault, new, goal
<1> QED BY <1>4, <1>5, <1>6

\* So does resize().
LEMMA ResizeAims ==
  ASSUME VInv, GoalInv, NEW v \in Vectors, NEW n \in Nat, NEW m \in MemTypes, Resize(v, n, m)
  PROVE  GoalInv'
<1> DEFINE s == store[v]
           size == Len(s.elem)
           fits == s.buf # None /\ s.mem = m
           more == Fresh(n - size)
<1>1. job = NoJob /\ job.op = "none"
  BY DEF Resize, Calm, NoJob
<1>2. s.elem \in Seq(Elements) /\ size \in Nat
  BY VectorFacts DEF VInv
<1>3. CASE UNCHANGED job
  BY <1>1, <1>3, OverKeepsGoal
<1>4. CASE /\ fits /\ size < n /\ CanMake(n - size)
           /\ job' = [[NoJob EXCEPT !.v = v, !.m = m] EXCEPT
                        !.op = "grow", !.new = more, !.goal = s.elem \o more]
           /\ IF n > s.cap
              THEN /\ Rebuild(v, Stored(s.elem, n, m))
                   /\ bond' = Loosen(chain[v], 1)
              ELSE UNCHANGED <<store, chain, loc, bond>>
  <2>1. more \in Seq(Elements)
    <3>1. n - size \in Nat
      BY <1>2, <1>4
    <3> HIDE DEF size
    <3> QED BY <1>4, <3>1, FreshIsNew
  <2> HIDE DEF more
  <2>2. /\ job'.op = "grow" /\ job'.v = v /\ job'.m = m /\ job'.new = more
        /\ job'.goal = s.elem \o more
    BY <1>4 DEF NoJob
  <2>3. /\ store'[v].elem = s.elem /\ Fits(v, m)'
    <3>1. CASE n > s.cap
      <4>1. store \in [Vectors -> StoreType] /\ SpareBuffer \in Buffers
        BY Spares DEF VInv, DataInv, DataOK
      <4>2. store'[v] = Stored(s.elem, n, m)
        BY <1>4, <3>1, <4>1 DEF Rebuild
      <4>3. SpareBuffer # None
        BY <4>1, NoneIsNoName
      <4> QED BY <4>2, <4>3 DEF Stored, Fits
    <3>2. CASE ~(n > s.cap)
      BY <1>4, <3>2 DEF Fits
    <3> QED BY <3>1, <3>2
  <2>4. Spliced(s.elem \o more, s.elem, Len(s.elem) + 1, more)
    BY <1>2, <2>1, SplicedBehind
  <2>5. GrowGoal'
    <3> DEFINE g == s.elem \o more
    <3>1. Spliced(g, s.elem, Len(s.elem) + 1, more) /\ job'.goal = g
      BY <2>2, <2>4
    <3> HIDE DEF g
    <3> QED BY <2>2, <2>3, <3>1 DEF GrowGoal, Fits
  <2> QED BY <2>2, <2>5 DEF GoalInv
<1>5. CASE /\ fits /\ n < size
           /\ job' = [[NoJob EXCEPT !.v = v, !.m = m] EXCEPT
                        !.op = "shrink", !.left = size - n, !.goal = SubSeq(s.elem, 1, n)]
           /\ UNCHANGED <<store, chain, loc, bond>>
  <2> DEFINE g == SubSeq(s.elem, 1, n)
  <2>1. g \in Seq(Elements) /\ Len(g) = n /\ \A x \in 1..n : g[x] = s.elem[x]
    <3> DEFINE e == s.elem
               one == 1
    <3>1. e \in Seq(Elements) /\ one \in Nat \ {0} /\ n \in Int /\ n <= Len(e) /\ n >= one - 1
      BY <1>2, <1>5
    <3>2. one = 1 /\ n - one + 1 = n /\ \A x \in 1..n : one + x - 1 = x
      OBVIOUS
    <3> HIDE DEF e, one
    <3>3. /\ SubSeq(e, one, n) \in Seq(Elements) /\ Len(SubSeq(e, one, n)) = n - one + 1
          /\ \A x \in 1..(n - one + 1) : SubSeq(e, one, n)[x] = e[one + x - 1]
      BY <3>1, PartOf
    <3>4. /\ SubSeq(e, one, n) \in Seq(Elements) /\ Len(SubSeq(e, one, n)) = n
          /\ \A x \in 1..n : SubSeq(e, one, n)[x] = e[x]
      BY <3>2, <3>3
    <3> QED BY <3>4 DEF e, one
  <2> HIDE DEF g
  <2>2. /\ job'.op = "shrink" /\ job'.v = v /\ job'.left = size - n /\ job'.goal = g
    BY <1>5 DEF NoJob, g
  <2>3. Cut(g, s.elem, size - n)
    <3>1. Len(g) + (size - n) = Len(s.elem)
      BY <1>2, <2>1
    <3> QED BY <2>1, <3>1 DEF Cut
  <2>4. store' = store
    BY <1>5
  <2>5. Cut(job'.goal, store'[job'.v].elem, job'.left)
    <3> HIDE DEF size
    <3> QED BY <2>2, <2>3, <2>4
  <2> QED BY <2>2, <2>5 DEF GoalInv
<1> QED BY <1>3, <1>4, <1>5 DEF Resize

\* The members that have no loop, and the program's own steps.
LEMMA NoLoopKeepsGoal ==
  ASSUME Calm, job' = job
  PROVE  GoalInv'
BY DoneKeepsGoal DEF Calm

\* At the start there is no loop.
LEMMA InitGoal == Init => GoalInv
BY DEF Init, GoalInv, NoJob

\* The members that start a loop say what it is to reach.
LEMMA MemberGoal ==
  ASSUME VInv, GoalInv, Member
  PROVE  GoalInv'
<1>1. PICK v \in Vectors :
    \/ \E m \in MemTypes, n \in 0..MaxSize : Assign(v, n, m) \/ Reserve(v, n, m) \/ Resize(v, n, m)
    \/ \E w \in Vectors : CopyAssign(v, w) \/ MoveAssign(v, w) \/ Swap(v, w)
    \/ \E m \in MemTypes : Transfer(v, m) \/ EmplaceBack(v, m)
    \/ ShrinkToFit(v) \/ PopBack(v)
    \/ \E i, j \in Iters, m \in MemTypes : Insert(v, i, m, j)
    \/ \E i, j \in Iters : Erase(v, i, j)
    \/ \E i, j \in Iters, m \in MemTypes, n \in 0..MaxSize, bulk \in BOOLEAN :
         InsertMany(v, i, m, n, bulk, j)
    \/ \E i, l, j \in Iters : EraseMany(v, i, l, j)
  BY DEF Member
<1>2. 0..MaxSize \subseteq Nat
  BY VectorAssumption
<1>3. ASSUME NEW m \in MemTypes, NEW n \in 0..MaxSize, Resize(v, n, m) PROVE GoalInv'
  BY <1>2, <1>3, ResizeAims
<1>4. ASSUME NEW i \in Iters, NEW j \in Iters, NEW m \in MemTypes, NEW n \in 0..MaxSize,
             NEW bulk \in BOOLEAN, InsertMany(v, i, m, n, bulk, j)
      PROVE  GoalInv'
  BY <1>2, <1>4, InsertManyAims
<1>5. ASSUME NEW i \in Iters, NEW l \in Iters, NEW j \in Iters, EraseMany(v, i, l, j)
      PROVE  GoalInv'
  <2>1. job'.op = "erase"
    BY <1>5 DEF EraseMany, NoJob
  <2> QED BY <2>1, OverKeepsGoal
<1>6. CASE \E m \in MemTypes, n \in 0..MaxSize : Assign(v, n, m) \/ Reserve(v, n, m)
  BY <1>6, NoLoopKeepsGoal DEF Assign, Reserve, Fault, Calm
<1>7. CASE \E w \in Vectors : CopyAssign(v, w) \/ MoveAssign(v, w) \/ Swap(v, w)
  BY <1>7, NoLoopKeepsGoal DEF CopyAssign, MoveAssign, Swap, Calm
<1>8. CASE \E m \in MemTypes : Transfer(v, m) \/ EmplaceBack(v, m)
  BY <1>8, NoLoopKeepsGoal DEF Transfer, EmplaceBack, Calm
<1>9. CASE ShrinkToFit(v) \/ PopBack(v)
  BY <1>9, NoLoopKeepsGoal DEF ShrinkToFit, PopBack, Calm
<1>10. CASE \/ \E i, j \in Iters, m \in MemTypes : Insert(v, i, m, j)
            \/ \E i, j \in Iters : Erase(v, i, j)
  BY <1>10, NoLoopKeepsGoal DEF Insert, Erase, Calm
<1> QED BY <1>1, <1>3, <1>4, <1>5, <1>6, <1>7, <1>8, <1>9, <1>10

\* A member starts outside the loops.
LEMMA MemberIsCalm == Member => Calm
<1> SUFFICES ASSUME NEW v \in Vectors,
    \/ \E m \in MemTypes, n \in 0..MaxSize : Assign(v, n, m) \/ Reserve(v, n, m) \/ Resize(v, n, m)
    \/ \E w \in Vectors : CopyAssign(v, w) \/ MoveAssign(v, w) \/ Swap(v, w)
    \/ \E m \in MemTypes : Transfer(v, m) \/ EmplaceBack(v, m)
    \/ ShrinkToFit(v) \/ PopBack(v)
    \/ \E i, j \in Iters, m \in MemTypes : Insert(v, i, m, j)
    \/ \E i, j \in Iters : Erase(v, i, j)
    \/ \E i, j \in Iters, m \in MemTypes, n \in 0..MaxSize, bulk \in BOOLEAN :
         InsertMany(v, i, m, n, bulk, j)
    \/ \E i, l, j \in Iters : EraseMany(v, i, l, j)
             PROVE  Calm
  BY DEF Member
<1>1. \A n, m : Assign(v, n, m) \/ Reserve(v, n, m) \/ Resize(v, n, m) => Calm
  BY DEF Assign, Reserve, Resize
<1>2. \A w : CopyAssign(v, w) \/ MoveAssign(v, w) \/ Swap(v, w) => Calm
  BY DEF CopyAssign, MoveAssign, Swap
<1>3. \A m : Transfer(v, m) \/ EmplaceBack(v, m) => Calm
  BY DEF Transfer, EmplaceBack
<1>4. ShrinkToFit(v) \/ PopBack(v) => Calm
  BY DEF ShrinkToFit, PopBack
<1>5. \A i, j, m : Insert(v, i, m, j) \/ Erase(v, i, j) => Calm
  BY DEF Insert, Erase
<1>6. ASSUME NEW i, NEW j, NEW m, NEW n, NEW bulk, InsertMany(v, i, m, n, bulk, j) PROVE Calm
  <2> HIDE DEF Calm
  <2> QED BY <1>6, Zenon DEF InsertMany
<1>7. \A i, l, j : EraseMany(v, i, l, j) => Calm
  BY DEF EraseMany
<1> QED BY <1>1, <1>2, <1>3, <1>4, <1>5, <1>6, <1>7

\* Every step keeps what is to be reached, and reaches it where a loop ends.
LEMMA NextGoal ==
  ASSUME VInv, GoalInv, [Next]_vars
  PROVE  /\ GoalInv'
         /\ job.op \in {"insert", "grow", "shrink"} /\ job' = NoJob /\ fault' = "none"
              /\ job' # job => Reached
<1>1. CASE Member
  <2>1. job.op = "none"
    BY <1>1, MemberIsCalm DEF Calm, NoJob
  <2> QED BY <1>1, <2>1, MemberGoal
<1>2. CASE InsertNext
  BY <1>2, InsertNextReaches
<1>3. CASE InsertBack
  BY <1>3, InsertBackReaches
<1>4. CASE Grow
  BY <1>4, GrowReaches
<1>5. CASE PopThenShrink
  BY <1>5, PopReaches
<1>6. CASE EraseNext \/ EraseEnd
  <2>1. job.op = "erase" /\ job \in JobType
    BY <1>6 DEF EraseNext, EraseEnd, VInv, JobInv
  <2>2. job'.op \in {"none", "erase"}
    BY <1>6, <2>1 DEF EraseNext, EraseEnd, JobType, NoJob
  <2> QED BY <2>1, <2>2, OverKeepsGoal
<1>7. CASE Walk
  <2>1. job.op = "none" /\ job' = job
    BY <1>7 DEF Walk, Begin, EndOf, Advance, Retreat, Fault, Calm, NoJob
  <2> QED BY <2>1, OverKeepsGoal
<1>8. CASE UNCHANGED vars
  <2>1. UNCHANGED <<store, chain, loc, it, job>>
    BY <1>8 DEF vars
  <2>2. GoalInv'
    BY <2>1 DEF GoalInv, GrowGoal, FirstGoal, LaterGoal, Lands, Fits, Within
  <2> QED BY <2>1, <2>2
<1> QED BY <1>1, <1>2, <1>3, <1>4, <1>5, <1>6, <1>7, <1>8 DEF Next, Loop, Undefined

\* The loops of insert() and resize() end with the sequence that was asked for,
\* whatever they had to rebuild on the way, and insert() with the iterator of
\* the first element it put in.
THEOREM VectorLoopsReachGoal == Spec => LoopsReachGoal
<1>1. VInv /\ Init => GoalInv
  BY InitGoal
<1>2. VInv /\ GoalInv /\ [Next]_vars => GoalInv'
  BY NextGoal
<1>3. VInv /\ GoalInv /\ [Next]_vars =>
        [job.op \in {"insert", "grow", "shrink"} /\ job' = NoJob /\ fault' = "none" =>
           /\ store'[job.v].elem = job.goal
           /\ job.op = "insert" /\ Valid(it'[job.j], loc') =>
                it'[job.j].cell[2] = job.head]_vars
  <2> SUFFICES ASSUME VInv, GoalInv, [Next]_vars, job.op \in {"insert", "grow", "shrink"},
                      job' = NoJob, fault' = "none"
               PROVE  Reached
    BY DEF Reached
  <2>1. job' # job
    BY DEF NoJob
  <2> QED BY <2>1, NextGoal
<1> QED BY <1>1, <1>2, <1>3, VectorInvariant, PTL DEF Spec, LoopsReachGoal
=============================================================================
