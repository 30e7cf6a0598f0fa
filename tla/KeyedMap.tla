------------------------------ MODULE KeyedMap ------------------------------
(***************************************************************************)
(* What a keyed container in some memory promises: every key has at most   *)
(* one value, the last one put; contents change hands between containers   *)
(* as a whole.                                                             *)
(***************************************************************************)
EXTENDS Functions

CONSTANTS Maps, Keys, Values, MemTypes, Default

VARIABLES entries,  \* for each map, a function from its keys to their values
          place     \* the memory type of each map's data

vars == <<entries, place>>

Nothing == [k \in {} |-> k]

Init == /\ entries = [m \in Maps |-> Nothing]
        /\ place = [m \in Maps |-> Default]

Put(m, k, v, mt) ==
  /\ entries[m] = Nothing \/ mt = place[m]
  /\ entries' = [entries EXCEPT ![m] =
                   [x \in DOMAIN @ \cup {k} |-> IF x = k THEN v ELSE @[x]]]
  /\ place' = [place EXCEPT ![m] = mt]

Drop(m) ==
  /\ entries' = [entries EXCEPT ![m] = Nothing]
  /\ place' = [place EXCEPT ![m] = Default]

Relocate(m, mt) ==
  /\ place' = [place EXCEPT ![m] = mt]
  /\ UNCHANGED entries

Exchange(m, w) ==
  /\ entries' = [entries EXCEPT ![m] = entries[w], ![w] = entries[m]]
  /\ place' = [place EXCEPT ![m] = place[w], ![w] = place[m]]

TakeOver(m, w) ==
  /\ entries' = [entries EXCEPT ![m] = entries[w], ![w] = Nothing]
  /\ place' = [place EXCEPT ![m] = place[w], ![w] = Default]

Next ==
  \E m \in Maps :
    \/ \E k \in Keys, v \in Values, mt \in MemTypes : Put(m, k, v, mt)
    \/ Drop(m)
    \/ \E mt \in MemTypes : Relocate(m, mt)
    \/ \E w \in Maps \ {m} : Exchange(m, w) \/ TakeOver(m, w)

Spec == Init /\ [][Next]_vars
=============================================================================
