---------------------------- MODULE TensorValues ----------------------------
(***************************************************************************)
(* What tensors are to their user: each live tensor is a sequence of       *)
(* values in row-major order, of its own.  No operation on one tensor      *)
(* shows in another one, except that a move empties its source.            *)
(***************************************************************************)
EXTENDS Integers, Sequences, TLC

CONSTANTS Tensors, Values,
          MaxElements   \* elements a tensor may have

VARIABLE contents   \* from the live tensors to sequences of values

Live == DOMAIN contents

vars == contents

Init == contents = [t \in {} |-> << >>]

Put(t, c) == contents' = (t :> c) @@ contents

Uniform(n, v) == [k \in 1 .. n |-> v]

Construct(t) == /\ t \notin Live
                /\ \E n \in 0 .. MaxElements, v \in Values : Put(t, Uniform(n, v))
Fill(t)      == /\ t \in Live
                /\ \E v \in Values : Put(t, Uniform(Len(contents[t]), v))
\* A tensor that was moved from has room for its elements again once filled.
Refill(t)    == /\ t \in Live /\ contents[t] = << >>
                /\ \E n \in 0 .. MaxElements, v \in Values : Put(t, Uniform(n, v))
Write(t)     == /\ t \in Live
                /\ \E k \in DOMAIN contents[t], v \in Values :
                     Put(t, [contents[t] EXCEPT ![k] = v])
Copy(t, u)   == u \in Live /\ Put(t, contents[u])
Move(t, u)   == /\ u \in Live \ {t}
                /\ contents' = (t :> contents[u]) @@ (u :> << >>) @@ contents
Destroy(t)   == /\ t \in Live
                /\ contents' = [u \in Live \ {t} |-> contents[u]]

Next == \E t \in Tensors :
  \/ Construct(t) \/ Fill(t) \/ Refill(t) \/ Write(t) \/ Destroy(t)
  \/ \E u \in Tensors : Copy(t, u) \/ Move(t, u)

Spec == Init /\ [][Next]_vars
=============================================================================
