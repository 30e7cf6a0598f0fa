---------------------------- MODULE MCClientGraph ----------------------------
(***************************************************************************)
(* ClientGraph for TLC: four nodes with products and two values, or five   *)
(* with exponentials, which a function and its gradient take.              *)
(***************************************************************************)
EXTENDS ClientGraph, TLC

VARIABLE used

InitGraph == Init /\ used \in {"four", "gradients"}

NextGraph ==
  /\ UNCHANGED used
  /\ \/ used = "four" /\ Calls(Nodes, Values, {"Multiply"}) /\ Cardinality(Allocated') <= 4
     \/ used = "gradients" /\ Calls(Nodes, {2}, {"Exp"})

SpecGraph == InitGraph /\ [][NextGraph]_<<vars, used>>

\* Addresses are interchangeable.
Interchangeable == Permutations(Nodes)
-----------------------------------------------------------------------------
\* Nodes are what the code can build, and the clients of a node are the
\* functions that depend on it, each in its list once.
ListsAreDependents == TypeOK /\ ClientsAreDependents
=============================================================================
