--------------------------- MODULE MemoryTransfer ---------------------------
(***************************************************************************)
(* Arrays of elements in different memories, the allocator's primitives    *)
(* on them and memory views, in host code of a CUDA build.  An element     *)
(* owns a leaf, a block of its own that may lie in another memory than the *)
(* array, as a vector or a unique pointer does; an element of Width = 2 is *)
(* a pair of such members.  Copies of bytes copy the pointer to the leaf,  *)
(* so it is the transfer primitives that must keep one owner to a leaf.    *)
(*                                                                         *)
(* A step is a call from start to end.  The copies to and from pageable    *)
(* host memory of which these calls are made have left the host buffer     *)
(* when they return, so nothing can be seen in between.                    *)
(***************************************************************************)
EXTENDS Naturals, Sequences, FiniteSets

(* The kinds of memory a block may live in, as host code of a CUDA build   *)
(* sees them, and the copies the CUDA runtime is asked for.  A prefetched  *)
(* unified block differs from a unified one in timing only.                *)
Memories == {"Host", "GPU", "PageLocked", "Unified"}

IsHostMemory(m)  == m \in {"Host", "PageLocked"}
IsGPUMemory(m)   == m = "GPU"
IsUnified(m)     == m = "Unified"
IsPageLocked(m)  == m = "PageLocked"
UseDeviceAcc(m)  == IsGPUMemory(m) \/ IsUnified(m)
ExecutionDefault == "Host"
RunAccOnHost(m)  == ~UseDeviceAcc(ExecutionDefault) /\ UseDeviceAcc(m)
IsAddressable(m) == IsUnified(m) \/ IsHostMemory(m)

\* get_cuda_transfer_direction: which side the runtime is told each pointer
\* lies on; it finds out itself as soon as one is declared to be unified.
TransferDirection(tgt, src) ==
  IF IsUnified(tgt) \/ IsUnified(src)
  THEN [tgt |-> "any", src |-> "any"]
  ELSE [tgt |-> IF IsHostMemory(tgt) THEN "host" ELSE "device",
        src |-> IF IsHostMemory(src) THEN "host" ELSE "device"]

\* What the CUDA runtime requires: memory m can be reached from that side.
OnSide(side, m) ==
  \/ side = "any" \/ IsUnified(m)
  \/ side = "host" /\ IsHostMemory(m)
  \/ side = "device" /\ IsGPUMemory(m)

-----------------------------------------------------------------------------
CONSTANTS Arrays,            \* pointers of the user to arrays
          Views,             \* memview objects of the user
          Leaves,            \* addresses of leaves, naturals from 1
          Values,            \* what a leaf may hold
          Width,             \* members of an element: 1, or 2 for a pair
          Lengths,           \* bound: capacities of arrays
          ArrayMemories,     \* memories the user allocates arrays in
          LeafMemories,      \* memories the user builds elements in
          ReferenceMemories, \* memories of arrays viewed by reference
          CopiesToNew,       \* TRUE: copy_data also where the size changes
          MaxOps             \* bound: calls of the user

TransferAssumption ==
  /\ Leaves \subseteq Nat \ {0} /\ IsFiniteSet(Leaves)
  /\ Width \in {1, 2} /\ Lengths \subseteq Nat \ {0}
  /\ ArrayMemories \cup LeafMemories \cup ReferenceMemories \subseteq Memories
  /\ Arrays \cap Views = {} /\ CopiesToNew \in BOOLEAN

VARIABLES arr,    \* the allocated arrays: memory, size, members in a row
          leaf,   \* the allocated leaves: memory and value
          view,   \* the live views
          stray,  \* accesses to memory that must not be touched, by kind
          done,   \* the last transfer reported success / did its work
          ops     \* calls so far

transferVars == <<arr, leaf, view, stray, done, ops>>

RawMember == 0   \* a member that is not constructed

With(f, x, y)  == [z \in DOMAIN f \cup {x} |-> IF z = x THEN y ELSE f[z]]
Without(f, X)  == [z \in DOMAIN f \ X |-> f[z]]
Least(S)       == CHOOSE x \in S : \A y \in S : x <= y
Held(cells)    == {cells[k] : k \in DOMAIN cells} \ {RawMember}
CapacityOf(cs) == Len(cs) \div Width
Unbuilt(n)     == [k \in 1 .. n * Width |-> RawMember]

-----------------------------------------------------------------------------
(* The primitives, as functions on the members of an array (cells) and on  *)
(* the leaves (lf).                                                        *)

\* transfer_memory of n elements to an array of tgt members: bytes, a leaf
\* has two holders from then on.
Bytes(tgt, src, n) == [k \in DOMAIN tgt |-> IF k <= n * Width THEN src[k] ELSE tgt[k]]

\* transfer_memory declares its pointers by kind, where they may lie
\* elsewhere.
Misdirected(tgtKind, tgtMem, srcKind, srcMem) ==
  LET d == TransferDirection(tgtKind, srcKind)
  IN  {x \in {"direction"} : ~(OnSide(d.tgt, tgtMem) /\ OnSide(d.src, srcMem))}

\* A member is constructed, and takes a new leaf.
Made(was, k, m, v) ==
  LET l == Least(Leaves \ DOMAIN was.leaf)
  IN  [was EXCEPT !.cells[k] = l, !.leaf = With(@, l, [mem |-> m, val |-> v])]

\* construct of n elements: in place, or on the host and then byte by byte;
\* the elements built on the host are not destructed.
Construct(cells, n, m, v, lf) ==
  LET new[k \in 0 .. n * Width] ==
        IF k = 0 THEN [cells |-> cells, leaf |-> lf] ELSE Made(new[k - 1], k, m, v)
  IN  new[n * Width]

\* destruct of n elements, on a copy of their bytes unless on the host.
Destruct(cells, n, lf) == Without(lf, Held(SubSeq(cells, 1, n * Width)))

\* The members transfer_internal_memory passes on, in order.  For pairs the
\* transfer of each first and of each second member is told that there are
\* n of them, and members lie next to each other.
Visits(n) ==
  IF Width = 1 THEN [k \in 1 .. n |-> k]
  ELSE LET pair[i \in 0 .. n] ==
             IF i = 0 THEN << >>
             ELSE pair[i - 1] \o [k \in 1 .. n |-> 2 * i - 2 + k]
                              \o [k \in 1 .. n |-> 2 * i - 1 + k]
       IN  pair[n]

\* Mutant: the pointers are taken over without a copy of what they hold.
InternalShallow(cells, n, m, at, release, lf) ==
  [cells |-> cells, leaf |-> lf, stray |-> {}]

\* transfer_internal_memory of one member: always into a new leaf, the old
\* one is released only on demand.
Visit(was, k, m, release) ==
  LET c == was.cells[k]
      l == Least(Leaves \ DOMAIN was.leaf)
  IN  IF k \notin DOMAIN was.cells THEN [was EXCEPT !.stray = @ \cup {"beyond"}]
      ELSE IF c \notin DOMAIN was.leaf THEN [was EXCEPT !.stray = @ \cup {"raw"}]
      ELSE [was EXCEPT !.cells[k] = l,
                       !.leaf = With(IF release THEN Without(@, {c}) ELSE @, l,
                                     [mem |-> m, val |-> @[c].val])]

\* transfer_internal_memory of n elements, read in place in memory at.
Internal(cells, n, m, at, release, lf) ==
  LET todo == Visits(n)
      go[i \in 0 .. Len(todo)] ==
        IF i = 0
        THEN [cells |-> cells, leaf |-> lf,
              stray |-> {x \in {"unreachable"} : n > 0 /\ ~IsAddressable(at)}]
        ELSE Visit(go[i - 1], todo[i], m, release)
  IN  go[Len(todo)]

\* Where transfer works on the copied elements: in the target itself, or in
\* p_int, a block in the default memory.
WorkMemory(tgtMem, srcMem) ==
  IF tgtMem = ExecutionDefault /\ srcMem = ExecutionDefault THEN tgtMem
  ELSE ExecutionDefault

\* transfer of n elements with internal memory: bytes, then new leaves.  An
\* empty p_int cannot be allocated, and the result says so.
Transfer(tgt, src, n, tgtMem, srcMem, lf) ==
  LET direct == tgtMem = ExecutionDefault /\ srcMem = ExecutionDefault
      r == Internal(Bytes(Unbuilt(n), src, n), n, tgtMem,
                    WorkMemory(tgtMem, srcMem), FALSE, lf)
  IN  [cells |-> Bytes(tgt, r.cells, n), leaf |-> r.leaf, stray |-> r.stray,
       res |-> direct \/ n > 0]

-----------------------------------------------------------------------------
InitTransfers ==
  /\ arr = [a \in {} |-> << >>]
  /\ leaf = [l \in {} |-> << >>]
  /\ view = [v \in {} |-> << >>]
  /\ stray = {}
  /\ done = [reported |-> TRUE, worked |-> TRUE]
  /\ ops = 0

Step == ops < MaxOps /\ ops' = ops + 1

Room(n) == Cardinality(Leaves \ DOMAIN leaf) >= n   \* bound: leaves there are

\* The user keeps what a view borrows from.
Borrowed(a) == \E v \in DOMAIN view : view[v].src = a /\ ~(view[v].own /\ view[v].deep)

Allocate(a, n, m) ==
  /\ Step /\ a \notin DOMAIN arr
  /\ arr' = With(arr, a, [mem |-> m, size |-> 0, cells |-> Unbuilt(n)])
  /\ UNCHANGED <<leaf, view, stray, done>>

BuildElements(a, n, m, val) ==
  /\ Step /\ a \in DOMAIN arr
  /\ arr[a].size = 0 /\ n <= CapacityOf(arr[a].cells) /\ Room(n * Width)
  /\ LET r == Construct(arr[a].cells, n, m, val, leaf)
     IN  /\ arr' = [arr EXCEPT ![a].cells = r.cells, ![a].size = n]
         /\ leaf' = r.leaf
  /\ UNCHANGED <<view, stray, done>>

Destroy(a) ==
  /\ Step /\ a \in DOMAIN arr /\ ~Borrowed(a)
  /\ leaf' = Destruct(arr[a].cells, arr[a].size, leaf)
  /\ arr' = Without(arr, {a})
  /\ UNCHANGED <<view, stray, done>>

\* A user of the array, on the host or in a kernel, assigns to a member.
Write(a, k, val) ==
  /\ Step /\ a \in DOMAIN arr /\ k \in 1 .. arr[a].size * Width
  /\ leaf' = [leaf EXCEPT ![arr[a].cells[k]].val = val]
  /\ UNCHANGED <<arr, view, stray, done>>

\* transfer_impl and the allocator's users: a new array of the same capacity
\* in memory m takes a copy of the elements.
Clone(b, a, m) ==
  /\ Step /\ a \in DOMAIN arr /\ b \notin DOMAIN arr
  /\ Room(Len(Visits(arr[a].size)))
  /\ LET n == arr[a].size
         r == Transfer(Unbuilt(CapacityOf(arr[a].cells)), arr[a].cells, n, m, arr[a].mem, leaf)
     IN  /\ arr' = With(arr, b, [mem |-> m, size |-> n, cells |-> r.cells])
         /\ leaf' = r.leaf
         /\ stray' = stray \cup r.stray \cup Misdirected(m, m, arr[a].mem, arr[a].mem)
         /\ done' = [reported |-> r.res, worked |-> r.stray = {}]
  /\ UNCHANGED view

\* transfer_internal_memory on an array host code can read: the elements
\* stay, their leaves move to memory m.  Pairs elsewhere go through p_int.
MoveInternal(a, m) ==
  /\ Step /\ a \in DOMAIN arr /\ ~Borrowed(a)
  /\ arr[a].size > 0 /\ (Width = 2 \/ ~RunAccOnHost(arr[a].mem))
  /\ Room(Len(Visits(arr[a].size)))
  /\ LET r == Internal(arr[a].cells, arr[a].size, m, ExecutionDefault, TRUE, leaf)
     IN  /\ arr' = [arr EXCEPT ![a].cells = r.cells]
         /\ leaf' = r.leaf
         /\ stray' = stray \cup r.stray
         /\ done' = [reported |-> TRUE, worked |-> r.stray = {}]
  /\ UNCHANGED view

\* Assignment to a member releases what it has and makes its own copy of v.
Assigned(was, k, v) ==
  LET rest == Without(was.leaf, {was.cells[k]})
      l    == Least(Leaves \ DOMAIN rest)
  IN  [cells |-> [was.cells EXCEPT ![k] = l],
       leaf  |-> With(rest, l, [mem |-> ExecutionDefault, val |-> v]),
       stray |-> was.stray \cup {x \in {"raw"} : was.cells[k] = RawMember}]

\* The values x to the first members, in order.
AssignAll(cells, x, lf) ==
  LET go[k \in 0 .. Len(x)] ==
        IF k = 0 THEN [cells |-> cells, leaf |-> lf, stray |-> {}]
        ELSE Assigned(go[k - 1], k, x[k])
  IN  go[Len(x)]

\* copy_data from array a to array b, both on the host: an array of another
\* size is replaced by new storage, and then elements are assigned, each one
\* its own copy in the default memory; a single element is copied to all.
CopyData(b, a, n) ==
  LET was    == arr[b]
      kept   == CapacityOf(was.cells) = n
      freed  == IF kept THEN leaf ELSE Destruct(was.cells, was.size, leaf)
      target == IF kept THEN was.cells ELSE Unbuilt(n)
      from(k) == IF arr[a].size = 1 THEN arr[a].cells[((k - 1) % Width) + 1]
                 ELSE arr[a].cells[k]
      r == AssignAll(target, [k \in 1 .. n * Width |-> leaf[from(k)].val], freed)
  IN /\ Step /\ {a, b} \subseteq DOMAIN arr /\ a # b /\ ~Borrowed(b)
     /\ arr[a].mem = ExecutionDefault /\ was.mem = ExecutionDefault
     /\ was.size = CapacityOf(was.cells)
     /\ arr[a].size \in {1, n} /\ (kept \/ CopiesToNew) /\ Room(n * Width)
     /\ arr' = [arr EXCEPT ![b].cells = r.cells, ![b].size = n]
     /\ leaf' = r.leaf
     /\ stray' = stray \cup r.stray
     /\ UNCHANGED <<view, done>>

-----------------------------------------------------------------------------
(* Memory views.  A view of memory the host cannot be sure to reach, or a  *)
(* forced one, owns a copy in the default memory; any other is the         *)
(* original.                                                               *)

Owns(mem, force) == mem # ExecutionDefault \/ force

\* The constructors: s elements of array a, room for n, the copy declared to
\* come from memory kind.
NewView(v, a, s, n, kind, deep, force) ==
  LET own == Owns(arr[a].mem, force)
      r == IF own /\ deep
           THEN Transfer(Unbuilt(n), arr[a].cells, s, ExecutionDefault, kind, leaf)
           ELSE [cells |-> Bytes(Unbuilt(n), arr[a].cells, s), leaf |-> leaf, stray |-> {}]
  IN /\ Step /\ v \notin DOMAIN view /\ Room(Len(Visits(s)))
     /\ view' = With(view, v, [src |-> a, own |-> own, deep |-> deep, size |-> s,
                               cells |-> IF own THEN r.cells ELSE << >>])
     /\ leaf' = r.leaf
     /\ stray' = stray \cup r.stray \cup
          (IF own THEN Misdirected(ExecutionDefault, ExecutionDefault, kind, arr[a].mem) ELSE {})
     /\ UNCHANGED <<arr, done>>

ViewByPointer(v, a, deep, force) ==
  /\ a \in DOMAIN arr
  /\ NewView(v, a, arr[a].size, CapacityOf(arr[a].cells), arr[a].mem, deep, force)

\* The constructor from a reference declares the default memory as source.
ViewByReference(v, a, deep, force) ==
  /\ a \in DOMAIN arr /\ arr[a].size > 0 /\ arr[a].mem \in ReferenceMemories
  /\ NewView(v, a, 1, 1, ExecutionDefault, deep, force)

\* view(): one container on the host, copied if its data are elsewhere.
ViewOf(v, a) ==
  /\ Width = 1 /\ a \in DOMAIN arr
  /\ arr[a].mem = ExecutionDefault /\ arr[a].size > 0
  /\ NewView(v, a, 1, 1, ExecutionDefault, TRUE,
             leaf[arr[a].cells[1]].mem # ExecutionDefault)

MoveView(w, v) ==
  /\ Step /\ v \in DOMAIN view /\ w \notin DOMAIN view
  /\ view' = With(Without(view, {v}), w, view[v])
  /\ UNCHANGED <<arr, leaf, stray, done>>

\* Mutant: a recursive view frees its bytes only.
DropViewBytes(v) ==
  /\ Step /\ v \in DOMAIN view
  /\ view' = Without(view, {v})
  /\ UNCHANGED <<arr, leaf, stray, done>>

\* The destructor: an owning view gives back its copy, and the leaves in it
\* if they were copied too.
DropView(v) ==
  /\ Step /\ v \in DOMAIN view
  /\ leaf' = IF view[v].own /\ view[v].deep
             THEN Destruct(view[v].cells, view[v].size, leaf) ELSE leaf
  /\ view' = Without(view, {v})
  /\ UNCHANGED <<arr, stray, done>>

WriteView(v, k, val) ==
  /\ Step /\ v \in DOMAIN view /\ view[v].own /\ k \in 1 .. view[v].size * Width
  /\ leaf' = [leaf EXCEPT ![view[v].cells[k]].val = val]
  /\ UNCHANGED <<arr, view, stray, done>>

NextTransfers ==
  \/ \E a \in Arrays :
       \/ Destroy(a)
       \/ \E n \in Lengths, m \in ArrayMemories : Allocate(a, n, m)
       \/ \E n \in Lengths, m \in LeafMemories, x \in Values : BuildElements(a, n, m, x)
       \/ \E n \in Lengths, x \in Values : \E k \in 1 .. n * Width : Write(a, k, x)
       \/ \E m \in LeafMemories : MoveInternal(a, m)
       \/ \E b \in Arrays \ {a} : \/ \E m \in ArrayMemories : Clone(b, a, m)
                                  \/ \E n \in Lengths : CopyData(b, a, n)
  \/ \E v \in Views :
       \/ DropView(v)
       \/ \E w \in Views \ {v} : MoveView(w, v)
       \/ \E n \in Lengths, x \in Values : \E k \in 1 .. n * Width : WriteView(v, k, x)
       \/ \E a \in Arrays :
            \/ \E deep, force \in BOOLEAN : \/ ViewByPointer(v, a, deep, force)
                                            \/ ViewByReference(v, a, deep, force)
            \/ ViewOf(v, a)

SpecTransfers == InitTransfers /\ [][NextTransfers]_transferVars
=============================================================================
