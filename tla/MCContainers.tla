---------------------------- MODULE MCContainers ----------------------------
(***************************************************************************)
(* Containers for TLC: the maps in three instances, and the algorithms on  *)
(* the chains of vectors and maps.  In each behaviour one of them is used. *)
(*                                                                         *)
(* Hashes are those of std_ivy::hash for unsigned integers, the integers   *)
(* themselves; the key of hash 9 shares its bucket with different keys as  *)
(* the map grows.                                                          *)
(***************************************************************************)
EXTENDS UnorderedMapProperties

CONSTANTS m1, m2, x, y, host, pinned

VARIABLES used, contiguous, value, ch, loc, call, result

FewKeys == {0, 2, 4, 9}
IntHash == [k \in FewKeys |-> k]

Filled(n, vs) == UNION {[1 .. k -> vs] : k \in 0 .. n}

Chain == INSTANCE ChainAlgorithms WITH
  Chains <- {"nodes"}, Buffers <- {"data"}, Elements <- 1 .. 7, Values <- 0 .. 2,
  Fillings <- [c \in BOOLEAN |-> IF c THEN Filled(7, 0 .. 1) ELSE Filled(5, 0 .. 2)]

ASSUME Chain!AlgorithmAssumption

chain == <<contiguous, value, ch, loc, call, result>>
everything == <<vars, used, chain>>

InitContainers ==
  /\ used \in {"one map", "growth", "two maps", "algorithms"}
  /\ Init /\ Chain!Init
  /\ used # "algorithms" => contiguous /\ value = <<>>
  /\ steady = (used \in {"growth", "two maps"})

\* One map through every operation; one that is filled one element at a time,
\* across changes of the modulus; two that change hands.  Values are not looked
\* at: a second one, of the key that changes its bucket, is told from the first.
NextOfMaps ==
  \/ used = "one map" /\ (\/ Steadily({m1}, FewKeys, {x}, MemTypes)
                          \/ Otherwise({m1}, FewKeys, {x}, MemTypes))
  \/ used = "growth" /\ (Steadily({m1}, FewKeys, {x}, {host}) \/ Steadily({m1}, {9}, {y}, {host}))
  \/ used = "two maps" /\ Steadily({m1, m2}, {0, 2}, {x}, MemTypes)

NextContainers ==
  \/ NextOfMaps /\ UNCHANGED <<used, steady, chain>>
  \/ used = "algorithms" /\ Chain!Next /\ UNCHANGED <<used, vars>>

SpecContainers == InitContainers /\ [][NextContainers]_everything

\* States that differ in the names of storage only are the same.
Position(s, p) == <<CHOOSE k \in DOMAIN s.bucket : s.bucket[k].blk = p[1], p[2]>>

Shape(s) ==
  <<s.mem, s.bcap, [k \in DOMAIN s.bucket |-> <<s.bucket[k].hash, s.bucket[k].cap, s.bucket[k].elem>>],
    s.chain.room,
    [n \in DOMAIN s.chain.node |-> IF Resident(s, s.chain.node[n])
                                    THEN Position(s, s.chain.node[n]) ELSE None]>>

Grip(h) ==
  IF h.at = None THEN "null" ELSE IF h.lost THEN "lost" ELSE
  LET homes == {m \in Maps : maps[m].chain.gen = h.gen /\ Resident(maps[m], h.at)}
  IN  {<<m, Position(maps[m], h.at)>> : m \in homes}

View == <<[m \in Maps |-> Shape(maps[m])], [i \in Iters |-> Grip(held[i])], used, chain>>
-----------------------------------------------------------------------------
\* On every range of a chain y - x is the number of increments from x to y,
\* searches return the first hit or the end, minmax_element the first minimum
\* and the last maximum, and a loop over the reversed ends goes backwards
\* (IvyIteratorImpl.h, IvyFind.h, IvyMinMax.h).
AlgorithmsAgree ==
  /\ Chain!TypeOK /\ Chain!DistanceCounts /\ Chain!ReverseVisitsRange
  /\ Chain!FindsFirst /\ Chain!MinFirstMaxLast
=============================================================================
