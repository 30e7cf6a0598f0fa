--------------------------- MODULE LinkedPointers ---------------------------
(***************************************************************************)
(* Shared pointers inside the objects that shared pointers manage, as in a *)
(* list: a node has one pointer to a next node.  Releasing the last owner  *)
(* of a node destructs it, which releases its pointer in turn, and an      *)
(* assignment may release the node its own source lies in.                 *)
(***************************************************************************)
EXTENDS Naturals, FiniteSets

CONSTANTS Roots,    \* pointers of the user
          Nodes,    \* nodes that can be allocated
          Null,
          KeepsSources  \* users keep the node a source lies in

LinkedAssumption ==
  /\ IsFiniteSet(Roots) /\ IsFiniteSet(Nodes)
  /\ Null \notin Nodes /\ Roots \cap Nodes = {} /\ KeepsSources \in BOOLEAN

VARIABLES target,   \* the node a pointer points to: of a root, or inside a node
          refs,     \* ref_count of each node; 0 when it is not allocated
          asked,    \* what the source of the last operation pointed to
          got       \* what its destination points to since then

linkedVars == <<target, refs, asked, got>>

\* A pointer is named by the root it is, or by the node it lies in.
Pointers == Roots \cup Nodes
Exists(p) == p \in Nodes => refs[p] > 0

InitLinked == /\ target = [p \in Pointers |-> Null]
              /\ refs = [n \in Nodes |-> 0]
              /\ asked = Null /\ got = Null

\* The nodes from n on that one more release of n would free: each has one
\* owner, the pointer in the node before it.
Chain[k \in 0 .. Cardinality(Nodes)] ==
  [n \in Nodes \cup {Null} |->
     IF k = 0 \/ n = Null THEN {}
     ELSE IF refs[n] # 1 THEN {} ELSE {n} \cup Chain[k - 1][target[n]]]
FreedBy(p) == Chain[Cardinality(Nodes)][target[p]]

\* Mutant of Released: what freed nodes pointed to is given up twice.
ReleasedTwice(p) ==
  [n \in Nodes |->
     IF n \in FreedBy(p) THEN 0
     ELSE IF n \in {target[m] : m \in FreedBy(p)} THEN refs[n] - 2
     ELSE IF n = target[p] THEN refs[n] - 1
     ELSE refs[n]]

\* The counts after release() of p.
Released(p) ==
  [n \in Nodes |->
     IF n \in FreedBy(p) THEN 0
     ELSE IF n = target[p] \/ n \in {target[m] : m \in FreedBy(p)} THEN refs[n] - 1
     ELSE refs[n]]

\* What is read from a pointer after the release of p: anything, if that has
\* freed the node it lies in.
ReadAfter(p, q) == IF q \in FreedBy(p) THEN Nodes \cup {Null} ELSE {target[q]}

Keeps(p, q) == KeepsSources => q \notin FreedBy(p)

Counted(counts, n) == IF n = Null THEN counts ELSE [counts EXCEPT ![n] = @ + 1]

\* Freed nodes hold no pointers any more.
Cleared(p) == [m \in Pointers |-> IF m \in FreedBy(p) THEN Null ELSE target[m]]

\* Assigning may free the node the destination lies in, at the end of a cycle
\* that it alone closed; users do not assign to a pointer that goes away.
MayAssign(p) == Exists(p) /\ p \notin FreedBy(p)

\* p = make_shared<node>()
New(p) ==
  \E n \in Nodes :
    /\ refs[n] = 0 /\ MayAssign(p) /\ target[p] = Null
    /\ target' = [target EXCEPT ![p] = n]
    /\ refs' = [refs EXCEPT ![n] = 1]
    /\ asked' = n /\ got' = n

\* p = q: nothing if both point to the same, else release, then take the
\* members of q and count the new owner.
Assign(p, q) ==
  /\ MayAssign(p) /\ Exists(q) /\ target[p] # target[q] /\ Keeps(p, q)
  /\ \E n \in ReadAfter(p, q) :
       /\ target' = [Cleared(p) EXCEPT ![p] = n]
       /\ refs' = Counted(Released(p), n)
       /\ asked' = target[q] /\ got' = n

\* p = std::move(q): release, take the members of q and empty it.
MoveAssign(p, q) ==
  /\ MayAssign(p) /\ Exists(q) /\ p # q /\ Keeps(p, q)
  /\ \E n \in ReadAfter(p, q) :
       /\ target' = [Cleared(p) EXCEPT ![p] = n, ![q] = Null]
       /\ refs' = Released(p)
       /\ asked' = target[q] /\ got' = n

\* p.reset(), or the end of p's scope
ResetPointer(p) ==
  /\ MayAssign(p) /\ target[p] # Null
  /\ target' = [Cleared(p) EXCEPT ![p] = Null]
  /\ refs' = Released(p)
  /\ asked' = Null /\ got' = Null

NextLinked == \E p \in Pointers :
  New(p) \/ ResetPointer(p) \/ \E q \in Pointers : Assign(p, q) \/ MoveAssign(p, q)

SpecLinked == InitLinked /\ [][NextLinked]_linkedVars
-----------------------------------------------------------------------------
LinkedTyped == /\ target \in [Pointers -> Nodes \cup {Null}]
               /\ refs \in [Nodes -> 0 .. Cardinality(Pointers)]

\* "Shared reference count." (IvyUnifiedPtr.hh:40): a node counts the pointers
\* to it, in roots and in nodes that are there, however far a release reached.
CountsAreOwners ==
  \A n \in Nodes : refs[n] = Cardinality({p \in Pointers : Exists(p) /\ target[p] = n})

\* The nodes one gets to in at most k steps from those of a set.
Targets(S) == {target[n] : n \in S} \ {Null}
Reached[k \in 0 .. Cardinality(Nodes)] ==
  [S \in SUBSET Nodes |-> IF k = 0 THEN S ELSE S \cup Reached[k - 1][Targets(S)]]
Reachable(S) == Reached[Cardinality(Nodes)][S]
After(n) == Reachable(Targets({n}))

\* A node is given back as soon as no root leads to it, unless it is in a
\* cycle or behind one: nothing but cycles leaks.
OnlyCyclesLeak ==
  \A n \in Nodes :
    refs[n] > 0 =>
      \/ n \in Reachable(Targets(Roots))
      \/ \E m \in Nodes : refs[m] > 0 /\ m \in After(m) /\ n \in Reachable({m})

\* A node counts the pointers to it, however far a release reached, and nothing
\* but cycles leaks.
ReleasesAreComplete == LinkedTyped /\ CountsAreOwners /\ OnlyCyclesLeak

\* "Assign from the same IvyUnifiedPtr type." (IvyUnifiedPtr.hh:186): the
\* destination points to what the source pointed to before.
AssignsSource == got = asked
=============================================================================
