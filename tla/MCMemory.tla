------------------------------- MODULE MCMemory -------------------------------
(***************************************************************************)
(* Memory for TLC: the storage of resizable pointers, pointers inside the  *)
(* objects that pointers manage, and arrays and views in several memories, *)
(* of single members and of pairs.  A behaviour is about one of them; the  *)
(* others stay in their initial state.                                     *)
(***************************************************************************)
EXTENDS ResizableStorage, LinkedPointers, MemoryTransferProperties, TLC

VARIABLE used

\* The same arrays and views, of pairs.
Pairs == INSTANCE MemoryTransferProperties WITH
  Width <- 2, Lengths <- {1}, ArrayMemories <- {"Host", "GPU", "PageLocked"},
  LeafMemories <- {"Host", "Unified"}, ReferenceMemories <- {"Host", "PageLocked"}

ASSUME LinkedAssumption
ASSUME TransferAssumption /\ ValuesAssumption /\ Width = 1
ASSUME Pairs!TransferAssumption

everything == <<vars, used, linkedVars, transferVars>>

InitMemory ==
  /\ used \in {"storage", "links", "singles", "pairs"}
  /\ Init /\ InitLinked /\ InitTransfers

NextMemory ==
  \/ used = "storage" /\ Next /\ UNCHANGED <<used, linkedVars, transferVars>>
  \/ used = "links" /\ NextLinked /\ UNCHANGED <<used, vars, transferVars>>
  \/ used = "singles" /\ NextTransfers /\ UNCHANGED <<used, vars, linkedVars>>
  \/ /\ used = "pairs" /\ Pairs!NextTransfers /\ Cardinality(DOMAIN view') <= 1
     /\ UNCHANGED <<used, vars, linkedVars>>

SpecMemory == InitMemory /\ [][NextMemory]_everything

\* Arrays, views and handles are interchangeable.
Interchangeable == Permutations(Handles) \cup Permutations(Arrays) \cup Permutations(Views)

\* The bytes behind the last element are overwritten before they are read:
\* states that differ in them only are one.
Behind(at) ==
  LET users == {h \in Handles : handle[h].ptr = at} IN
    IF storage[at] = None \/ users = {} THEN storage[at]
    ELSE SubSeq(storage[at], 1, Size(CHOOSE h \in users : TRUE))

\* What the last assignment was asked for is not looked at again.
Seen == <<handle, block, [at \in Addresses |-> Behind(at)], alive, misread,
          used, target, refs, transferVars>>
-----------------------------------------------------------------------------
\* TransfersAreSound speaks of members, and so of pairs too.  No copy of bytes
\* lets one array or view show in another, the elements a transfer creates lie
\* in the memory of their array, and no half of a pair is left alone.
TransfersActLikeValues ==
  /\ Abstract!Init
  /\ [][used = "singles" => Follows]_everything
  /\ [][used = "singles" => [Abstract!Next]_(Abstract!vars)]_everything
  /\ [](used = "pairs" => Pairs!TransferTypeOK)
  /\ [][used = "pairs" => [Pairs!Abstract!Next]_(Pairs!Abstract!vars)]_everything
=============================================================================
