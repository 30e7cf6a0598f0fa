------------------------------- MODULE Vector -------------------------------
(***************************************************************************)
(* IvyVector: a sequence in an IvyUnifiedPtr and the chain of iterators    *)
(* over it.  Programs hold copies of the chain's iterators, which share    *)
(* the cells of the nodes they were copied from; the vector keeps the      *)
(* cells up to date or sets them to null, so that a copy can be asked      *)
(* whether it is valid.  The chain of const iterators is handled the same  *)
(* way and is not represented.                                             *)
(*                                                                         *)
(* Elements are identities, not values: a copy of an element is another    *)
(* element.  One thread uses the vectors, in the execution space where     *)
(* storage of all MemTypes is addressable.                                 *)
(***************************************************************************)
EXTENDS IteratorChain, FiniteSets

CONSTANTS
  Vectors,   \* vector objects
  Iters,     \* iterators the program holds
  MemTypes,  \* memory types of the data
  Default,   \* get_execution_default_memory()
  MaxSize    \* bound on sizes and capacities

ASSUME VectorAssumption ==
  /\ Default \in MemTypes /\ MaxSize \in Nat
  /\ None \notin Elements \cup Chains \cup Buffers \cup Vectors \cup Iters
  /\ None \notin Cells \cup (Chains \X Int) \cup (Buffers \X Int)
  /\ None \notin [cell : Cells \cup {None}, next : (Chains \X Int) \cup {None},
                  prev : (Chains \X Int) \cup {None}]
  /\ \A S \in {Vectors, Iters, Chains, Buffers, Elements} : IsFiniteSet(S)
  /\ Cardinality(Chains) > Cardinality(Vectors) + Cardinality(Iters) + 2
  /\ Cardinality(Buffers) > Cardinality(Vectors) + Cardinality(Iters)

VARIABLES
  store,  \* _data: elements, capacity, storage, memory type; husk: the control
          \* block, named for the storage it had, when there is no storage
  chain,  \* _iterator_builder
  loc,    \* the address in each cell
  it,     \* the iterators the program holds
  bond,   \* what the program may do with them: "steady" iterators may be
          \* moved and dereferenced, "loose" ones dereferenced while valid,
          \* "lost" ones nothing (history; the code has no such state)
  job,    \* the loop that a member function is in
  fault   \* "none", or what undefined behaviour the program ran into

vars == <<store, chain, loc, it, bond, job, fault>>

Vacant == [elem |-> <<>>, cap |-> 0, buf |-> None, mem |-> Default, husk |-> None]

NoJob == [op |-> "none", v |-> None, m |-> Default, j |-> None, first |-> NoNode,
          last |-> NoNode, new |-> <<>>, head |-> None, left |-> 0, goal |-> <<>>]

-----------------------------------------------------------------------------
(* Identifiers for what is allocated or constructed next *)

Known(n) == {p[1] : p \in {n.cell, n.next, n.prev} \ {None}}

SpareChain ==
  CHOOSE c \in Chains : /\ \A v \in Vectors : chain[v].at # c
                        /\ \A i \in Iters : c \notin Known(it[i])
                        /\ c \notin Known(job.first) \cup Known(job.last)

HeldLocs == {loc[it[i].cell] : i \in {x \in Iters : it[x].cell # None}} \ {None}

SpareBuffer ==
  CHOOSE b \in Buffers : /\ \A v \in Vectors : b \notin {store[v].buf, store[v].husk}
                         /\ \A p \in HeldLocs : p[1] # b

SpareElements ==
  {e \in Elements : /\ \A v \in Vectors : e \notin Range(store[v].elem)
                    /\ \A i \in Iters : it[i].cell # None => it[i].cell[2] # e
                    /\ e \notin Range(job.new)}

\* n elements that do not exist yet.
Fresh(n) ==
  CHOOSE s \in [1..n -> SpareElements] : IsInjective(s)

CanMake(n) == Cardinality(SpareElements) >= n

-----------------------------------------------------------------------------
(* Addresses and what the program holds *)

\* The node at an address, if an array has one there.
Slot(chains, p) ==
  IF p # None /\ \E v \in Vectors : chains[v].at = p[1] /\ p[2] \in DOMAIN chains[v].node
  THEN chains[CHOOSE v \in Vectors : chains[v].at = p[1]].node[p[2]]
  ELSE None

\* is_valid()
Valid(n, locs) == n.cell # None /\ locs[n.cell] # None

\* The address p is that of an element of v.
Within(v, p) == p # None /\ p[1] = store[v].buf /\ p[2] \in DOMAIN store[v].elem

OnChain(n, ch) == n.prev # None /\ ch.at # None /\ n.prev[1] = ch.at

\* Iterators of ch at slot k or behind it may no longer be moved.
Loosen(ch, k) ==
  [i \in Iters |-> IF bond[i] = "steady" /\ OnChain(it[i], ch) /\ it[i].prev[2] + 1 >= k
                   THEN "loose" ELSE bond[i]]

\* Valid iterators whose cells ch owned are not told when ch goes away.
Lose(ch) ==
  [i \in Iters |-> IF Valid(it[i], loc) /\ it[i].cell[1] = ch.at THEN "lost"
                   ELSE Loosen(ch, 1)[i]]

Calm == fault = "none" /\ job = NoJob
Fault(what) == fault' = what /\ UNCHANGED <<store, chain, loc, it, bond, job>>

\* The iterator n is returned into j; None stands for what a null pointer
\* dereferences to.
Return(j, n, bonds) ==
  IF n = None
  THEN fault' = "null" /\ bond' = bonds /\ UNCHANGED it
  ELSE /\ it' = [it EXCEPT ![j] = n]
       /\ bond' = [bonds EXCEPT ![j] = "steady"]
       /\ UNCHANGED fault

-----------------------------------------------------------------------------
(* Parts the member functions are made of *)

\* Mutant of Rebuild: the old chain is replaced without invalidating it.
RebuildSilently(v, s) ==
  LET c == SpareChain
  IN  /\ store' = [store EXCEPT ![v] = s]
      /\ chain' = [chain EXCEPT ![v] = NewChain(c, s.elem, s.cap)]
      /\ loc' = PointCells(loc, c, s.elem, s.buf)

\* _data becomes s, then reset_iterator_builders().
Rebuild(v, s) ==
  LET c == SpareChain
  IN  /\ store' = [store EXCEPT ![v] = s]
      /\ chain' = [chain EXCEPT ![v] = NewChain(c, s.elem, s.cap)]
      /\ loc' = PointCells(InvalidateCells(loc, chain[v]), c, s.elem, s.buf)

\* A store of the elements elem in new storage.
Stored(elem, cap, m) ==
  [elem |-> elem, cap |-> cap, buf |-> SpareBuffer, mem |-> m, husk |-> None]

\* build_unified(), which makes nothing when there is nothing to make.
Built(elem, cap, m) == IF cap = 0 THEN Vacant ELSE Stored(elem, cap, m)

\* _data.insert() or _data.emplace_back() at index k with no storage left.
Regrown(s, k, e) == Stored(InsertAt(s.elem, k, e), s.cap + 2, s.mem)

Full(s) == Len(s.elem) = s.cap

\* emplace_back(mem_type, ...), and emplace_back(...) for m = store[v].mem.
Append1(v, m, e) ==
  LET s == store[v]
      i == Len(s.elem) + 1
  IN  \/ /\ s.buf = None \/ s.mem # m
         /\ Rebuild(v, Stored(<<e>>, 2, m))
         /\ bond' = Loosen(chain[v], 1)
      \/ /\ s.buf # None /\ s.mem = m /\ Full(s)
         /\ Rebuild(v, Regrown(s, i, e))
         /\ bond' = Loosen(chain[v], 1)
      \/ /\ s.buf # None /\ s.mem = m /\ ~Full(s)
         /\ store' = [store EXCEPT ![v].elem = Append(@, e)]
         /\ chain' = [chain EXCEPT ![v] = ChainPushBack(@, SpareChain, e)]
         /\ loc' = [loc EXCEPT ![<<chain'[v].at, e>>] = <<s.buf, i>>]
         /\ bond' = Loosen(chain[v], i + 1)

\* insert() of one element at the iterator p.
Insert1(v, p, m, e, j) ==
  LET s == store[v]
      k == loc[p.cell][2]
      Placed(bonds) ==
        Return(j, FindPointable(chain'[v], loc', <<store'[v].buf, k>>), bonds)
  IN  \/ /\ s.buf = None \/ s.mem # m
         /\ Rebuild(v, Stored(<<e>>, 2, m))
         /\ Return(j, FrontNode(chain'[v]), Loosen(chain[v], 1))
      \/ /\ s.buf # None /\ s.mem = m /\ p.cell = None
         /\ fault' = "null" /\ UNCHANGED <<store, chain, loc, it, bond>>
      \/ /\ s.buf # None /\ s.mem = m /\ p.cell # None
         /\ ~Within(v, loc[p.cell])
         /\ Return(j, EndNode(chain[v]), bond)
         /\ UNCHANGED <<store, chain, loc>>
      \/ /\ s.buf # None /\ s.mem = m /\ p.cell # None
         /\ Within(v, loc[p.cell]) /\ Full(s)
         /\ Rebuild(v, Regrown(s, k, e))
         /\ Placed(Loosen(chain[v], 1))
      \/ /\ s.buf # None /\ s.mem = m /\ p.cell # None
         /\ Within(v, loc[p.cell]) /\ ~Full(s)
         /\ store' = [store EXCEPT ![v].elem = InsertAt(@, k, e)]
         /\ chain' = [chain EXCEPT ![v] = ChainInsert(@, SpareChain, k, e)]
         /\ loc' = ShiftCells([loc EXCEPT ![<<chain'[v].at, e>>] = <<s.buf, k>>],
                              chain'[v], k, 1)
         /\ Placed(Loosen(chain[v], k + 1))

\* Mutant of Erase1: the cell of the erased element is not set to null.
Erase1Silently(v, p, j) ==
  LET s == store[v]
      k == loc[p.cell][2]
  IN  /\ s.buf # None /\ p.cell # None /\ Within(v, loc[p.cell])
      /\ store' = [store EXCEPT ![v].elem = RemoveAt(@, k)]
      /\ chain' = [chain EXCEPT ![v] = ChainErase(@, k)]
      /\ loc' = ShiftCells(loc, chain'[v], k, -1)
      /\ Return(j,
           IF k = Len(s.elem) THEN EndNode(chain'[v])
           ELSE FindPointable(chain'[v], loc', <<s.buf, k>>),
           Loosen(chain[v], k + 1))

\* erase() of the element at the iterator p.
Erase1(v, p, j) ==
  LET s == store[v]
      k == loc[p.cell][2]
  IN  \/ /\ s.buf = None
         /\ Return(j, NoNode, bond)
         /\ UNCHANGED <<store, chain, loc>>
      \/ /\ s.buf # None /\ p.cell = None
         /\ fault' = "null" /\ UNCHANGED <<store, chain, loc, it, bond>>
      \/ /\ s.buf # None /\ p.cell # None /\ ~Within(v, loc[p.cell])
         /\ Return(j, EndNode(chain[v]), bond)
         /\ UNCHANGED <<store, chain, loc>>
      \/ /\ s.buf # None /\ p.cell # None /\ Within(v, loc[p.cell])
         /\ store' = [store EXCEPT ![v].elem = RemoveAt(@, k)]
         /\ chain' = [chain EXCEPT ![v] = ChainErase(@, k)]
         /\ loc' = ShiftCells([loc EXCEPT ![chain[v].node[k + 1].cell] = None],
                              chain'[v], k, -1)
         /\ Return(j,
              IF k = Len(s.elem) THEN EndNode(chain'[v])
              ELSE FindPointable(chain'[v], loc', <<s.buf, k>>),
              Loosen(chain[v], k + 1))

\* pop_back() of a vector that is not empty.
Pop1(v) ==
  LET n == Len(chain[v].node)
  IN  /\ loc' = [loc EXCEPT ![chain[v].node[n - 1].cell] = None]
      /\ chain' = [chain EXCEPT ![v] = ChainPopBack(@)]
      /\ store' = [store EXCEPT ![v].elem = RemoveAt(@, Len(@))]
      /\ bond' = Loosen(chain[v], n - 1)

\* shrink_to_fit(): nothing is allocated for nothing, but the control block
\* stays.
Shrink(v) ==
  LET s == store[v]
      n == Len(s.elem)
  IN  IF n < s.cap
      THEN /\ Rebuild(v, IF n = 0 THEN [s EXCEPT !.cap = 0, !.buf = None, !.husk = s.buf]
                         ELSE Stored(s.elem, n, s.mem))
           /\ bond' = Loosen(chain[v], 1)
      ELSE UNCHANGED <<store, chain, loc, bond>>

-----------------------------------------------------------------------------
(* Member functions that change what a vector is made of *)

\* The constructors and assign() with n elements; clear() for n = 0.
Assign(v, n, m) ==
  /\ Calm /\ CanMake(n)
  /\ Rebuild(v, Built(Fresh(n), n, m))
  /\ bond' = Loosen(chain[v], 1)
  /\ UNCHANGED <<it, job, fault>>

\* Copying.  The copy of a vector without storage takes the pointers as they
\* are, a control block included, which both will free.
CopyAssign(v, w) ==
  LET s == store[w]
      n == Len(s.elem)
  IN  /\ Calm /\ v # w /\ CanMake(n)
      /\ IF s.husk # None
         THEN Rebuild(v, s) /\ fault' = "shared block"
         ELSE Rebuild(v, Built(Fresh(n), s.cap, Default)) /\ UNCHANGED fault
      /\ bond' = Loosen(chain[v], 1)
      /\ UNCHANGED <<it, job>>

\* Moving.  The chain of the target goes away without invalidate().
MoveAssign(v, w) ==
  /\ Calm /\ v # w
  /\ store' = [store EXCEPT ![v] = store[w], ![w] = Vacant]
  /\ chain' = [chain EXCEPT ![v] = chain[w], ![w] = NoChain]
  /\ bond' = Lose(chain[v])
  /\ UNCHANGED <<loc, it, job, fault>>

Swap(v, w) ==
  /\ Calm /\ v # w
  /\ store' = [store EXCEPT ![v] = store[w], ![w] = store[v]]
  /\ chain' = [chain EXCEPT ![v] = chain[w], ![w] = chain[v]]
  /\ UNCHANGED <<loc, it, bond, job, fault>>

\* transfer_internal_memory() with release_old: data, if any, and chain are
\* copied and the old ones released; reset_iterator_builders() meets the
\* copied cells.
Transfer(v, m) ==
  LET s == store[v]
      n == Len(s.elem)
      c == SpareChain
  IN  /\ Calm /\ CanMake(n)
      /\ store' = [store EXCEPT ![v] = IF s.buf = None THEN s ELSE Stored(Fresh(n), s.cap, m)]
      /\ chain' = [chain EXCEPT ![v] = NewChain(c, store'[v].elem, s.cap)]
      /\ loc' = PointCells(loc, c, store'[v].elem, store'[v].buf)
      /\ bond' = Lose(chain[v])
      /\ UNCHANGED <<it, job, fault>>

\* Mutant of Reserve: only a change of capacity makes a new chain.
ReserveKeepsChain(v, n, m) ==
  LET s == store[v]
      new == IF m = s.mem THEN Stored(s.elem, n, m) ELSE Built(<<>>, n, m)
  IN  /\ Calm /\ (n > s.cap \/ m # s.mem)
      /\ IF s.husk # None /\ n = 0 THEN Fault("assert")
         ELSE /\ IF n = s.cap
                 THEN store' = [store EXCEPT ![v] = new] /\ UNCHANGED <<chain, loc>>
                 ELSE Rebuild(v, new)
              /\ bond' = Loosen(chain[v], 1)
              /\ UNCHANGED <<it, job, fault>>

\* reserve(n); with another memory type the elements are given up, and with
\* n = 0 the storage.  A control block without storage cannot change its type.
Reserve(v, n, m) ==
  LET s == store[v]
  IN  /\ Calm /\ (n > s.cap \/ m # s.mem)
      /\ IF s.husk # None /\ n = 0 THEN Fault("assert")
         ELSE /\ Rebuild(v, IF m = s.mem THEN Stored(s.elem, n, m) ELSE Built(<<>>, n, m))
              /\ bond' = Loosen(chain[v], 1)
              /\ UNCHANGED <<it, job, fault>>

ShrinkToFit(v) ==
  /\ Calm /\ Len(store[v].elem) < store[v].cap
  /\ Shrink(v)
  /\ UNCHANGED <<it, job, fault>>

EmplaceBack(v, m) ==
  /\ Calm /\ CanMake(1) /\ Len(store[v].elem) < MaxSize
  /\ Append1(v, m, Fresh(1)[1])
  /\ UNCHANGED <<it, job, fault>>

PopBack(v) ==
  /\ Calm /\ store[v].elem # <<>>
  /\ Pop1(v)
  /\ UNCHANGED <<it, job, fault>>

Insert(v, i, m, j) ==
  /\ Calm /\ CanMake(1) /\ Len(store[v].elem) < MaxSize
  /\ bond[i] # "lost"
  /\ Insert1(v, it[i], m, Fresh(1)[1], j)
  /\ UNCHANGED job

Erase(v, i, j) ==
  /\ Calm /\ bond[i] # "lost"
  /\ Erase1(v, it[i], j)
  /\ UNCHANGED job

-----------------------------------------------------------------------------
(* Member functions that loop.  Nothing else runs meanwhile. *)

\* insert() of n elements: bulk for insert(pos, n, ...), which makes them at
\* once when it has to make the data; otherwise for a range or a list.
InsertMany(v, i, m, n, bulk, j) ==
  LET s == store[v]
      new == Fresh(n)
      p == loc[it[i].cell]
      fits == s.buf # None /\ s.mem = m
  IN  /\ Calm /\ CanMake(n) /\ Len(s.elem) + n <= MaxSize
      /\ bond[i] # "lost"
      /\ \/ /\ bulk /\ ~fits
            /\ Rebuild(v, Built(new, n, m))
            /\ Return(j, FrontNode(chain'[v]), Loosen(chain[v], 1))
            /\ UNCHANGED job
         \/ /\ ~bulk /\ chain[v].at = None
            /\ Fault("null")
         \/ /\ ~bulk \/ fits
            /\ chain[v].at # None /\ n = 0
            /\ Return(j, EndNode(chain[v]), bond)
            /\ UNCHANGED <<store, chain, loc, job>>
         \/ /\ ~bulk \/ fits
            /\ chain[v].at # None /\ n > 0
            /\ job' = [NoJob EXCEPT
                 !.op = "insert", !.v = v, !.m = m, !.j = j, !.first = it[i],
                 !.new = new, !.head = new[1], !.left = n - 1,
                 !.goal = IF ~fits THEN new
                          ELSE IF it[i].cell # None /\ Within(v, p)
                          THEN SubSeq(s.elem, 1, p[2] - 1) \o new
                                 \o SubSeq(s.elem, p[2], Len(s.elem))
                          ELSE s.elem]
            /\ Return(j, EndNode(chain[v]), bond)
            /\ UNCHANGED <<store, chain, loc>>

\* Mutant of InsertNext: each element is put before the one put last.
InsertNextBefore ==
  /\ fault = "none" /\ job.op = "insert" /\ job.new # <<>>
  /\ Insert1(job.v, IF Len(job.new) = job.left + 1 THEN job.first ELSE it[job.j],
             job.m, Head(job.new), job.j)
  /\ job' = IF fault' # "none" \/ ~Valid(it'[job.j], loc') \/ job.left = 0 THEN NoJob
            ELSE [job EXCEPT !.new = Tail(@)]

\* The next element goes to pos, or behind the one inserted last.
InsertNext ==
  /\ fault = "none" /\ job.op = "insert" /\ job.new # <<>>
  /\ Insert1(job.v, IF Len(job.new) = job.left + 1 THEN job.first
                    ELSE Slot(chain, it[job.j].next),
             job.m, Head(job.new), job.j)
  /\ job' = IF fault' # "none" \/ ~Valid(it'[job.j], loc') \/ job.left = 0 THEN NoJob
            ELSE [job EXCEPT !.new = Tail(@)]

\* res -= n - 1: back to the element inserted first.
InsertBack ==
  /\ fault = "none" /\ job.op = "insert" /\ job.new = <<>>
  /\ Return(job.j, Slot(chain, it[job.j].prev), bond)
  /\ job' = IF job.left = 1 THEN NoJob ELSE [job EXCEPT !.left = @ - 1]
  /\ UNCHANGED <<store, chain, loc>>

\* Iterators i and l bound a range of v.
IsRange(v, i, l) ==
  /\ bond[i] = "steady" /\ bond[l] = "steady"
  /\ OnChain(it[i], chain[v]) /\ OnChain(it[l], chain[v])
  /\ it[i].prev[2] < it[l].prev[2] /\ it[l].prev[2] < Len(chain[v].node)

\* erase(first, last)
EraseMany(v, i, l, j) ==
  /\ Calm /\ IsRange(v, i, l)
  /\ job' = [NoJob EXCEPT
       !.op = "erase", !.v = v, !.j = j, !.first = it[i], !.last = it[l],
       !.goal = SubSeq(store[v].elem, 1, it[i].prev[2] - 1)
                  \o SubSeq(store[v].elem, it[l].prev[2], Len(store[v].elem))]
  /\ Return(j, EndNode(chain[v]), bond)
  /\ UNCHANGED <<store, chain, loc>>

\* operator== of iterators
Same(a, b) == a.cell = b.cell

\* One round of the loop: erase, then follow the link that first had.
EraseNext ==
  LET next == Slot(chain', job.first.next)
  IN  /\ fault = "none" /\ job.op = "erase" /\ ~Same(job.first, job.last)
      /\ Erase1(job.v, job.first, job.j)
      /\ job' = IF fault' # "none" \/ ~Valid(it'[job.j], loc') THEN NoJob
                ELSE [job EXCEPT !.first = IF next = None THEN NoNode ELSE next]

EraseEnd ==
  /\ fault = "none" /\ job.op = "erase" /\ Same(job.first, job.last)
  /\ job' = NoJob
  /\ UNCHANGED <<store, chain, loc, it, bond, fault>>

\* resize(n)
Resize(v, n, m) ==
  LET s == store[v]
      size == Len(s.elem)
      fits == s.buf # None /\ s.mem = m
      task == [NoJob EXCEPT !.v = v, !.m = m]
  IN  /\ Calm
      /\ \/ /\ ~fits /\ CanMake(n)
            /\ Rebuild(v, Built(Fresh(n), n, m))
            /\ bond' = Loosen(chain[v], 1)
            /\ UNCHANGED job
         \/ /\ fits /\ size < n /\ CanMake(n - size)
            /\ job' = [task EXCEPT !.op = "grow", !.new = Fresh(n - size),
                                   !.goal = s.elem \o Fresh(n - size)]
            /\ IF n > s.cap
               THEN /\ Rebuild(v, Stored(s.elem, n, m))
                    /\ bond' = Loosen(chain[v], 1)
               ELSE UNCHANGED <<store, chain, loc, bond>>
         \/ /\ fits /\ n < size
            /\ job' = [task EXCEPT !.op = "shrink", !.left = size - n,
                                   !.goal = SubSeq(s.elem, 1, n)]
            /\ UNCHANGED <<store, chain, loc, bond>>
      /\ UNCHANGED <<it, fault>>

Grow ==
  /\ fault = "none" /\ job.op = "grow"
  /\ Append1(job.v, job.m, Head(job.new))
  /\ job' = IF Len(job.new) = 1 THEN NoJob ELSE [job EXCEPT !.new = Tail(@)]
  /\ UNCHANGED <<it, fault>>

\* pop_back() as often as needed, then shrink_to_fit().
PopThenShrink ==
  /\ fault = "none" /\ job.op = "shrink"
  /\ IF job.left > 0
     THEN Pop1(job.v) /\ job' = [job EXCEPT !.left = @ - 1]
     ELSE Shrink(job.v) /\ job' = NoJob
  /\ UNCHANGED <<it, fault>>

-----------------------------------------------------------------------------
(* Iterators the program obtains and moves *)

\* begin() and end(); a vector that was moved from has no chain.
Begin(v, i) ==
  /\ Calm
  /\ IF chain[v].at = None THEN Fault("null")
     ELSE Return(i, FrontNode(chain[v]), bond) /\ UNCHANGED <<store, chain, loc, job>>

EndOf(v, i) ==
  /\ Calm
  /\ IF chain[v].at = None THEN Fault("null")
     ELSE Return(i, EndNode(chain[v]), bond) /\ UNCHANGED <<store, chain, loc, job>>

\* operator++ and operator--, within the bounds the program can know of.
Advance(i) ==
  /\ Calm /\ bond[i] = "steady" /\ Valid(it[i], loc)
  /\ Return(i, Slot(chain, it[i].next), bond)
  /\ UNCHANGED <<store, chain, loc, job>>

Retreat(i) ==
  /\ Calm /\ bond[i] = "steady"
  /\ it[i].prev # None /\ it[i].prev[2] > 1
  /\ Return(i, Slot(chain, it[i].prev), bond)
  /\ UNCHANGED <<store, chain, loc, job>>

-----------------------------------------------------------------------------
\* Vectors and iterators are default-constructed.
Init ==
  LET at == CHOOSE f \in [Vectors -> Chains] : \A v, w \in Vectors : v # w => f[v] # f[w]
  IN  /\ store = [v \in Vectors |-> Vacant]
      /\ chain = [v \in Vectors |-> NewChain(at[v], <<>>, 0)]
      /\ loc = [x \in Cells |-> None]
      /\ it = [i \in Iters |-> NoNode]
      /\ bond = [i \in Iters |-> "steady"]
      /\ job = NoJob
      /\ fault = "none"

Member ==
  \E v \in Vectors :
    \/ \E m \in MemTypes, n \in 0..MaxSize : Assign(v, n, m) \/ Reserve(v, n, m) \/ Resize(v, n, m)
    \/ \E w \in Vectors : CopyAssign(v, w) \/ MoveAssign(v, w) \/ Swap(v, w)
    \/ \E m \in MemTypes : Transfer(v, m) \/ EmplaceBack(v, m)
    \/ ShrinkToFit(v) \/ PopBack(v)
    \/ \E i, j \in Iters, m \in MemTypes : Insert(v, i, m, j)
    \/ \E i, j \in Iters : Erase(v, i, j)
    \/ \E i, j \in Iters, m \in MemTypes, n \in 0..MaxSize, bulk \in BOOLEAN :
         InsertMany(v, i, m, n, bulk, j)
    \/ \E i, l, j \in Iters : EraseMany(v, i, l, j)

Loop == InsertNext \/ InsertBack \/ EraseNext \/ EraseEnd \/ Grow \/ PopThenShrink

Walk ==
  \E i \in Iters :
    \/ \E v \in Vectors : Begin(v, i) \/ EndOf(v, i)
    \/ Advance(i) \/ Retreat(i)

\* Nothing is said of a program that ran into undefined behaviour.
Undefined == fault # "none" /\ UNCHANGED vars

Next == Member \/ Loop \/ Walk \/ Undefined

Spec == Init /\ [][Next]_vars
=============================================================================
