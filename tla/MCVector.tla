------------------------------ MODULE MCVector ------------------------------
(* Instances of Vector for TLC.                                            *)
EXTENDS VectorProperties

CONSTANTS v1, v2, i1, i2, c1, c2, c3, c4, c5, c6, c7, a1, a2, a3, a4, a5,
          host, unified

FiveElements == 1..5
SevenElements == 1..7

-----------------------------------------------------------------------------
(* Chains, buffers and elements have names only for the model's sake.      *)
(* States that differ in nothing but these names are explored once: View   *)
(* replaces a name by its place in a list of all names in use.  Cells that *)
(* nothing refers to are left out, and so are the links of iterators that  *)
(* may no longer be moved.                                                 *)

vs == SetToSeq(Vectors)
is == SetToSeq(Iters)

\* Iterators without the links that no step follows.
Unlinked(n) == [NoNode EXCEPT !.cell = n.cell]
HeldNode(i) == IF bond[i] = "steady" THEN it[i] ELSE Unlinked(it[i])
JobNode == IF job.op = "insert" THEN Unlinked(job.first) ELSE job.first

\* The components p[d] of the addresses and cells in a sequence.
Parts(s, d) == [k \in DOMAIN s |-> IF s[k] = None THEN None ELSE s[k][d]]

\* The sequence s with each name replaced by the place of its first use.
Numbered(s) ==
  [k \in DOMAIN s |-> IF s[k] = None THEN 0
                      ELSE CHOOSE j \in 1..k : s[j] = s[k] /\ \A m \in 1..(j - 1) : s[m] # s[k]]

View ==
  LET nodes == FlattenSeq([k \in DOMAIN vs |-> chain[vs[k]].node])
                 \o [k \in DOMAIN is |-> HeldNode(is[k])] \o <<JobNode, job.last>>
      cells == [k \in DOMAIN nodes |-> nodes[k].cell]
      nexts == [k \in DOMAIN nodes |-> nodes[k].next]
      prevs == [k \in DOMAIN nodes |-> nodes[k].prev]
      locs == [k \in DOMAIN cells |-> IF cells[k] = None THEN None ELSE loc[cells[k]]]
      chains == [k \in DOMAIN vs |-> chain[vs[k]].at]
                  \o Parts(cells, 1) \o Parts(nexts, 1) \o Parts(prevs, 1)
      buffers == [k \in DOMAIN vs |-> store[vs[k]].buf]
                   \o [k \in DOMAIN vs |-> store[vs[k]].husk] \o Parts(locs, 1)
      elements == FlattenSeq([k \in DOMAIN vs |-> store[vs[k]].elem])
                    \o Parts(cells, 2) \o job.new \o job.goal \o <<job.head>>
  IN  <<Numbered(chains), Numbered(buffers), Numbered(elements),
        Parts(locs, 2), Parts(nexts, 2), Parts(prevs, 2),
        [v \in Vectors |-> <<Len(store[v].elem), store[v].cap, store[v].mem,
                             Len(chain[v].node), chain[v].room>>],
        bond, job.op, job.v, job.m, job.j, Len(job.new), job.left, fault>>
=============================================================================
