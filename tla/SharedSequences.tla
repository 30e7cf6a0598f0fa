-------------------------- MODULE SharedSequences --------------------------
(***************************************************************************)
(* What unified pointers to arrays promise: each handle points to a        *)
(* sequence or to nothing, handles may share a sequence and all see what   *)
(* any of them does to it, and an element is in one place.  There is one   *)
(* operation for each kind of call, named with its pointer and its place,  *)
(* so that a call can be held to the step that is its own.                 *)
(***************************************************************************)
EXTENDS Naturals, Sequences

CONSTANTS Handles, Names, Elements, None,
          Counts      \* how many elements a sequence may begin with

VARIABLES points, contents

vars == <<points, contents>>

\* A sequence nobody points to is empty.
Init == /\ points = [h \in Handles |-> None]
        /\ contents = [n \in Names |-> <<>>]

Used      == UNION {{contents[n][i] : i \in DOMAIN contents[n]} : n \in Names}
Unnamed   == {n \in Names : \A h \in Handles : points[h] # n}
Its(h) == contents[points[h]]

\* What is left of the sequences when h no longer points to its own.
Left(h) == [n \in Names |-> IF \E g \in Handles \ {h} : points[g] = n THEN contents[n]
                            ELSE <<>>]

Change(h, s) == /\ contents' = [contents EXCEPT ![points[h]] = s]
                /\ UNCHANGED points

Share(h, g) == /\ points[h] = None
               /\ points' = [points EXCEPT ![h] = points[g]]
               /\ UNCHANGED contents

Leave(h) == /\ contents' = Left(h)
            /\ points' = [points EXCEPT ![h] = None]

\* A handle takes a name nobody else has, with count elements nobody else has.
Begin(h, count) ==
  \E n \in Unnamed \cup {points[h]} :
    /\ n # None /\ \A g \in Handles \ {h} : points[g] # n
    /\ points' = [points EXCEPT ![h] = n]
    /\ LET new == contents'[n] IN
         /\ contents' = [Left(h) EXCEPT ![n] = new]
         /\ Len(new) = count
         /\ \A i \in DOMAIN new : new[i] \in Elements \ Used
         /\ \A i, j \in DOMAIN new : new[i] = new[j] => i = j

\* x stands in front of element i + 1 then, or behind the last.
InsertAt(h, i, x) == /\ points[h] # None /\ i \in 0 .. Len(Its(h))
                     /\ x \in Elements \ Used
                     /\ Change(h, SubSeq(Its(h), 1, i) \o <<x>>
                                  \o SubSeq(Its(h), i + 1, Len(Its(h))))

RemoveAt(h, i) == /\ points[h] # None /\ i \in DOMAIN Its(h)
                  /\ Change(h, SubSeq(Its(h), 1, i - 1)
                               \o SubSeq(Its(h), i + 1, Len(Its(h))))

Next == \E h \in Handles :
  \/ \E g \in Handles : Share(h, g)
  \/ Leave(h)
  \/ \E count \in Counts : Begin(h, count)
  \/ points[h] # None /\ \/ \E i \in 0 .. Len(Its(h)), x \in Elements : InsertAt(h, i, x)
                         \/ \E i \in DOMAIN Its(h) : RemoveAt(h, i)

Spec == Init /\ [][Next]_vars
=============================================================================
