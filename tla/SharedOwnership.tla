-------------------------- MODULE SharedOwnership --------------------------
(***************************************************************************)
(* What reference counting promises to the users of IvyUnifiedPtr, with no *)
(* counter, no lock, no stream and no thread in sight: a block of storage  *)
(* has a set of owners; it is reclaimed after its last owner left, never   *)
(* before, and nobody becomes an owner of a block that has none.           *)
(* UnifiedPtr implements this specification.                               *)
(***************************************************************************)
CONSTANTS
  Handles,  \* the IvyUnifiedPtr objects
  Blocks    \* storage together with its control block

VARIABLES
  owners,   \* owners[b]: the handles that own block b
  live      \* live: the blocks whose storage exists

vars == <<owners, live>>

Init ==
  /\ owners = [b \in Blocks |-> {}]
  /\ live = {}

\* A handle becomes the first owner of storage that did not exist before.
Create(h, b) ==
  /\ b \notin live
  /\ live' = live \cup {b}
  /\ owners' = [owners EXCEPT ![b] = {h}]

\* A handle joins the owners of a block that has at least one.
Join(h, b) ==
  /\ b \in live
  /\ owners[b] # {}
  /\ owners' = [owners EXCEPT ![b] = @ \cup {h}]
  /\ UNCHANGED live

\* An owner leaves.
Leave(h, b) ==
  /\ h \in owners[b]
  /\ owners' = [owners EXCEPT ![b] = @ \ {h}]
  /\ UNCHANGED live

\* An owner passes its ownership to a handle that owns nothing.
Pass(g, h, b) ==
  /\ g \in owners[b]
  /\ \A c \in Blocks : h \notin owners[c]
  /\ owners' = [owners EXCEPT ![b] = (@ \ {g}) \cup {h}]
  /\ UNCHANGED live

\* Two handles trade what they own.
Trade(g, h) ==
  /\ owners' = [b \in Blocks |->
                  {k \in Handles : \/ k \notin {g, h} /\ k \in owners[b]
                                   \/ k = g /\ h \in owners[b]
                                   \/ k = h /\ g \in owners[b]}]
  /\ UNCHANGED live

\* Storage nobody owns is reclaimed.
Reclaim(b) ==
  /\ b \in live
  /\ owners[b] = {}
  /\ live' = live \ {b}
  /\ UNCHANGED owners

Next ==
  \/ \E h \in Handles, b \in Blocks : Create(h, b) \/ Join(h, b) \/ Leave(h, b)
  \/ \E g, h \in Handles, b \in Blocks : Pass(g, h, b)
  \/ \E g, h \in Handles : Trade(g, h)
  \/ \E b \in Blocks : Reclaim(b)

Spec == Init /\ [][Next]_vars
=============================================================================
