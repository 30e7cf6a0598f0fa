---------------------- MODULE MemoryTransferProperties ----------------------
(***************************************************************************)
(* What the allocator's primitives and the views promise to their users.   *)
(***************************************************************************)
EXTENDS MemoryTransfer

\* Values are numbered, so that one more number says that there is none.
ValuesAssumption == Values = 0 .. Cardinality(Values) - 1

\* The members of each array are as many as its capacity asks for, leaves are
\* allocated in some memory, and views have sources that still exist where
\* they are windows.
TransferTypeOK ==
  /\ \A a \in DOMAIN arr :
       /\ arr[a].mem \in Memories /\ arr[a].size \in 0 .. CapacityOf(arr[a].cells)
       /\ arr[a].cells \in Seq(Leaves \cup {RawMember})
  /\ \A l \in DOMAIN leaf : l \in Leaves /\ leaf[l] \in [mem : Memories, val : Values]
  /\ \A v \in DOMAIN view : Borrowed(view[v].src) => view[v].src \in DOMAIN arr
  /\ stray \subseteq {"beyond", "raw", "unreachable", "direction"} /\ done \in [reported : BOOLEAN, worked : BOOLEAN]

\* No primitive reads a member that is not constructed or lies beyond the
\* array, an array in memory host code cannot reach, or tells the CUDA
\* runtime that a pointer lies where it does not.
NoStrayAccess == stray = {}

\* Who owns what its members point to: arrays, and views that copied their
\* elements too; and the members that point to leaf l.
Keepers    == DOMAIN arr \cup {v \in DOMAIN view : view[v].own /\ view[v].deep}
CellsOf(o) == IF o \in DOMAIN arr THEN arr[o].cells ELSE view[o].cells
Holders(l) == UNION {{<<o, k>> : k \in {j \in DOMAIN CellsOf(o) : CellsOf(o)[j] = l}} : o \in Keepers}

\* However arrays are built, copied, transferred, viewed and destroyed, each
\* allocated leaf has exactly one owner, who will destroy it, and no owner
\* points to a leaf that is gone.
LeavesHeldOnce ==
  /\ \A l \in DOMAIN leaf : Cardinality(Holders(l)) = 1
  /\ \A o \in Keepers : Held(CellsOf(o)) \subseteq DOMAIN leaf

\* A copied view is in default memory with all it points to, and one that is
\* not a copy shows an array in default memory: host code may read it.
ViewsAreReadable ==
  \A v \in DOMAIN view :
    IF view[v].own
    THEN view[v].deep => \A l \in Held(view[v].cells) :
                           l \in DOMAIN leaf /\ leaf[l].mem = ExecutionDefault
    ELSE arr[view[v].src].mem = ExecutionDefault

\* Primitives read what is constructed, inside the array, where it lies; each
\* allocated leaf has exactly one owner; host code may read what a view shows.
TransfersAreSound == TransferTypeOK /\ NoStrayAccess /\ LeavesHeldOnce /\ ViewsAreReadable

\* The elements of an array that a transfer creates lie in the memory of the
\* array, with all they own.
Follows ==
  \A b \in DOMAIN arr' \ DOMAIN arr :
    \A l \in Held(arr'[b].cells) : leaf'[l].mem = arr'[b].mem

TransfersFollow == [][Follows]_transferVars

-----------------------------------------------------------------------------
(* The refinement.                                                         *)

\* A leaf that is gone holds no value.
Val(l) == IF l \in DOMAIN leaf THEN leaf[l].val ELSE Cardinality(Values)

Vals(cells, n) == [k \in 1 .. n * Width |-> Val(cells[k])]

Abstract == INSTANCE ArrayValues WITH
  Sizes <- {n * Width : n \in Lengths},
  contents <- [a \in DOMAIN arr |-> Vals(arr[a].cells, arr[a].size)],
  shown <- [v \in DOMAIN view |->
    LET w == view[v]
    IN  [src  |-> IF w.own /\ w.deep THEN "copied" ELSE w.src,
         vals |-> Vals(IF w.own THEN w.cells ELSE arr[w.src].cells, w.size)]]

\* Every array holds values of its own wherever it lies, and a view shows its
\* source or keeps a copy of it: no copy of bytes lets one show in another.
ActsLikeValues == Abstract!Spec

-----------------------------------------------------------------------------
(* What the comments say and the code does not do.                         *)

\* "@return True on success" (IvyUnifiedPtr.hh:291): a transfer that did all
\* there was to do reports success.
ReportsSuccess == done.worked => done.reported

\* "allocators so that complex data structures can be copied correctly"
\* (IvyAllocator.h:552): copy_data never assigns to raw memory.
CopiesCorrectly == "raw" \notin stray

\* "preserves correctness for pair-held nested state" (IvyAllocator.h:325).
PairsStayCorrect == "beyond" \notin stray

\* "@param owning_mem_type_ Source memory-domain tag." (IvyMemoryView.h:113):
\* the copy is made from the memory the caller names.
ViewsFromTheirSource == "direction" \notin stray
=============================================================================
