----------------------------- MODULE ArrayValues -----------------------------
(***************************************************************************)
(* What arrays in different memories and views of them are to their user:  *)
(* sequences of values.  A copy is an array of its own, wherever it lies.  *)
(* A view is either a window on an array, which shows what is written to   *)
(* it, or a copy of what it showed when it was made.                       *)
(***************************************************************************)
EXTENDS Naturals, Sequences

CONSTANTS Arrays, Views, Values,
          Sizes    \* members an array may have

VARIABLES contents,  \* from arrays to sequences of values
          shown      \* from views to their source, if windows, and values

vars == <<contents, shown>>

Copied == "copied"   \* the source of a view that is a copy

Put(f, x, y) == [z \in DOMAIN f \cup {x} |-> IF z = x THEN y ELSE f[z]]
Drop(f, x)   == [z \in DOMAIN f \ {x} |-> f[z]]

Init == contents = [a \in {} |-> << >>] /\ shown = [v \in {} |-> << >>]

New(a) == /\ a \notin DOMAIN contents
          /\ contents' = Put(contents, a, << >>)
          /\ UNCHANGED shown

Fill(a) == /\ a \in DOMAIN contents /\ contents[a] = << >>
           /\ \E n \in Sizes, x \in Values :
                contents' = Put(contents, a, [k \in 1 .. n |-> x])
           /\ UNCHANGED shown

Remove(a) == a \in DOMAIN contents /\ contents' = Drop(contents, a) /\ UNCHANGED shown

Set(a) ==
  /\ a \in DOMAIN contents
  /\ \E k \in DOMAIN contents[a], x \in Values :
       /\ contents' = [contents EXCEPT ![a][k] = x]
       /\ shown' = [v \in DOMAIN shown |->
                      IF shown[v].src = a /\ k \in DOMAIN shown[v].vals
                      THEN [shown[v] EXCEPT !.vals[k] = x] ELSE shown[v]]

Copy(b, a) == /\ a \in DOMAIN contents /\ a # b
              /\ contents' = Put(contents, b, contents[a])
              /\ UNCHANGED shown

\* One element of w members to all elements of b.
Spread(b, a) ==
  /\ {a, b} \subseteq DOMAIN contents /\ a # b
  /\ \E n \in Sizes, w \in 1 .. 2 :
       /\ w = Len(contents[a])
       /\ contents' = Put(contents, b, [k \in 1 .. n |-> contents[a][((k - 1) % w) + 1]])
  /\ UNCHANGED shown

Show(v, a) ==
  /\ v \notin DOMAIN shown /\ a \in DOMAIN contents
  /\ \E n \in 0 .. Len(contents[a]), src \in {a, Copied} :
       shown' = Put(shown, v, [src |-> src, vals |-> SubSeq(contents[a], 1, n)])
  /\ UNCHANGED contents

SetCopy(v) == /\ v \in DOMAIN shown /\ shown[v].src = Copied
              /\ \E k \in DOMAIN shown[v].vals, x \in Values :
                   shown' = [shown EXCEPT ![v].vals[k] = x]
              /\ UNCHANGED contents

Pass(w, v) == /\ v \in DOMAIN shown /\ w \notin DOMAIN shown
              /\ shown' = Put(Drop(shown, v), w, shown[v])
              /\ UNCHANGED contents

Close(v) == v \in DOMAIN shown /\ shown' = Drop(shown, v) /\ UNCHANGED contents

Next ==
  \/ \E a \in Arrays : \/ New(a) \/ Fill(a) \/ Remove(a) \/ Set(a)
                       \/ \E b \in Arrays : Copy(b, a) \/ Spread(b, a)
                       \/ \E v \in Views : Show(v, a)
  \/ \E v \in Views : SetCopy(v) \/ Close(v) \/ \E w \in Views : Pass(w, v)

Spec == Init /\ [][Next]_vars
=============================================================================
