---------------------------- MODULE MCUnifiedPtr ----------------------------
(* Instances of UnifiedPtr for TLC. *)
EXTENDS UnifiedPtrProperties, TLC

CONSTANTS t1, t2, h1, h2, h3, b1, b2, s1, s2

\* Thread t1 owns two pointers and t2 one; which of them are unique, and which
\* thread runs device code, is for the .cfg to say.
MCOwnerOf == (h1 :> t1) @@ (h2 :> t2) @@ (h3 :> t1)

\* All blocks hash to one lock: the collision the striped pool allows.
OneLock == [b \in Blocks |-> 1]
=============================================================================
