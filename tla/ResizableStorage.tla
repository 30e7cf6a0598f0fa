------------------------- MODULE ResizableStorage --------------------------
(***************************************************************************)
(* The size and the capacity of a unified pointer, and the operations that *)
(* change them: IvyUnifiedPtr::reserve, shrink_to_fit, emplace_back,       *)
(* insert, pop_back and erase.  The control block that the owners share    *)
(* holds size and capacity; the address of the storage is in each handle.  *)
(* Elements move as bytes: a cell holds the object whose bytes it has,     *)
(* also where another cell has them too and only one of them counts.       *)
(***************************************************************************)
EXTENDS Naturals, Sequences, FiniteSets, SequencesExt

CONSTANTS Handles,
          Spaces,     \* memory types storage may be in
          MaxCapacity,  \* bound on the capacity of a pointer
          MaxObjects,   \* bound on the objects alive at one time
          None,
          Careful       \* users reallocate storage they own alone, and pass
                        \* elements of a pointer to it only where these stay

ASSUME StorageAssumption ==
  /\ IsFiniteSet(Handles) /\ "host" \in Spaces
  /\ MaxCapacity \in Nat /\ MaxObjects \in Nat /\ Careful \in BOOLEAN
  /\ None \notin Handles /\ None \notin Nat /\ None \notin Seq(Nat)
  /\ None \notin [refs : Nat, size : Nat, capacity : Nat, mem : Spaces]

Blocks    == 1 .. Cardinality(Handles)
Addresses == 1 .. Cardinality(Handles) + 1
Objects   == 1 .. MaxObjects
Raw       == 0
Cells     == Objects \cup {Raw}

VARIABLES handle,   \* handle[h]: control block and address of the storage
          block,    \* block[b]: count of owners, size, capacity, memory type
          storage,  \* storage[a]: the cells at a, or None
          alive,    \* objects constructed and not destructed
          misread   \* a constructor read something else than its argument

vars == <<handle, block, storage, alive, misread>>

Init == /\ handle = [h \in Handles |-> [cb |-> None, ptr |-> None]]
        /\ block = [b \in Blocks |-> None]
        /\ storage = [a \in Addresses |-> None]
        /\ alive = {}
        /\ misread = FALSE
-----------------------------------------------------------------------------
(* Reading a handle *)

Cb(h)       == block[handle[h].cb]
Size(h)     == IF handle[h].cb = None THEN 0 ELSE Cb(h).size
Capacity(h) == IF handle[h].cb = None THEN 0 ELSE Cb(h).capacity
Memory(h)   == IF handle[h].cb = None THEN "host" ELSE Cb(h).mem
Data(h)     == IF handle[h].ptr = None THEN <<>> ELSE storage[handle[h].ptr]

\* What the user may ask of h: it has not been left with freed storage.
Usable(h) == handle[h].ptr # None => storage[handle[h].ptr] # None
Owned(h)  == handle[h].cb # None /\ Usable(h)

FreeAddress == CHOOSE a \in Addresses : storage[a] = None
FreeObjects(n) == CHOOSE s \in [1 .. n -> Objects \ alive] : IsInjective(s)
RawCells(n) == [i \in 1 .. n |-> Raw]
-----------------------------------------------------------------------------
(* Parts of the operations *)

\* Storage and blocks after release() by h.  The last owner destructs the
\* elements and frees storage and block.
Release(h) ==
  LET b == handle[h].cb
      a == handle[h].ptr
  IN  IF b = None THEN [block |-> block, storage |-> storage, alive |-> alive]
      ELSE IF block[b].refs > 1
        THEN [block |-> [block EXCEPT ![b].refs = @ - 1], storage |-> storage, alive |-> alive]
        ELSE [block |-> [block EXCEPT ![b] = None],
              storage |-> IF a = None THEN storage ELSE [storage EXCEPT ![a] = None],
              alive |-> alive \ ToSet(SubSeq(Data(h), 1, block[b].size))]

\* reset(ptr, n_size, n_capacity, mem_type, stream): give up what h had and
\* take the storage at a, if there is any, with a new control block.
ResetTo(h, a, cells, size, mem, born) ==
  LET r == Release(h)
      b == CHOOSE c \in Blocks : r.block[c] = None
  IN  /\ alive' = r.alive \cup born
      /\ IF a = None
         THEN /\ handle' = [handle EXCEPT ![h] = [cb |-> None, ptr |-> None]]
              /\ block' = r.block /\ storage' = r.storage
         ELSE /\ handle' = [handle EXCEPT ![h] = [cb |-> b, ptr |-> a]]
              /\ block' = [r.block EXCEPT ![b] = [refs |-> 1, size |-> size,
                                                  capacity |-> Len(cells), mem |-> mem]]
              /\ storage' = [r.storage EXCEPT ![a] = cells]

\* allocate of no elements leaves the pointer null.
NewAddress(n) == IF n = 0 THEN None ELSE FreeAddress

\* reserve does nothing where the capacity is enough.
Enough(h, n) == n <= Capacity(h)

\* The cells of new storage for n elements: the bytes of all cells there were.
Moved(h, n) == [i \in 1 .. n |-> IF i <= Capacity(h) THEN Data(h)[i] ELSE Raw]

\* Whether users do what reallocates the storage of h.
MayReallocate(h) == Careful /\ handle[h].cb # None => Cb(h).refs = 1

\* Swap the storage of this handle for new storage with these cells and free
\* the old one: only the control block tells the other owners.
AtNewStorage(h, cells, size) ==
  LET a == NewAddress(Len(cells)) IN
    /\ handle' = [handle EXCEPT ![h].ptr = a]
    /\ storage' = LET s == [storage EXCEPT ![handle[h].ptr] = None]
                  IN  IF a = None THEN s ELSE [s EXCEPT ![a] = cells]
    /\ block' = [block EXCEPT ![handle[h].cb].size = size,
                              ![handle[h].cb].capacity = Len(cells)]

\* Give h these cells and size.  Without capacity it gets a new control block;
\* where the number of cells changes new storage; else they change in place.
Store(h, cells, size, born, died) ==
  CASE Capacity(h) = 0 -> ResetTo(h, FreeAddress, cells, size, Memory(h), born)
    [] Capacity(h) # 0 /\ Len(cells) # Capacity(h) ->
         AtNewStorage(h, cells, size) /\ alive' = (alive \ died) \cup born
    [] OTHER -> /\ storage' = [storage EXCEPT ![handle[h].ptr] = cells]
                /\ block' = [block EXCEPT ![handle[h].cb].size = size]
                /\ alive' = (alive \ died) \cup born
                /\ UNCHANGED handle

Full(h) == Size(h) = Capacity(h)

\* The cells with room for one more element: reserve(n_capacity + 2) if full.
Roomy(h) == IF Full(h) THEN Moved(h, Capacity(h) + 2) ELSE Data(h)

\* The cells after those from p to n have moved up by one, through a temporary.
Opened(cells, p, n) ==
  [i \in DOMAIN cells |-> IF i > p /\ i <= n + 1 THEN cells[i - 1] ELSE cells[i]]

\* The cells after those behind p, to the capacity, have moved down by one.
Closed(cells, p) ==
  [i \in DOMAIN cells |-> IF i >= p /\ i < Len(cells) THEN cells[i + 1] ELSE cells[i]]

\* A constructor called with element j of h reads what is in that cell when
\* the cells are as given: freed storage if h has moved, the object under
\* construction if j is its cell.  j = 0 is an argument from elsewhere.
Misreads(h, cells, p, j) ==
  j # 0 /\ (Full(h) \/ j = p \/ cells[j] # Data(h)[j])

Argument(h, p, j) == Careful /\ j # 0 => ~Full(h) /\ j < p
-----------------------------------------------------------------------------
(* The operations *)

\* build_unified: storage for c elements, n of them constructed.
Build(h, n, c, m) ==
  /\ handle[h].cb = None /\ n <= c /\ c \in 1 .. MaxCapacity
  /\ Cardinality(alive) + n <= MaxObjects
  /\ LET new == FreeObjects(n)
     IN  ResetTo(h, FreeAddress, new \o RawCells(c - n), n, m, ToSet(new))
  /\ UNCHANGED misread

\* IvyUnifiedPtr(other) of a shared pointer.
Copy(h, g) ==
  /\ handle[h].cb = None /\ Owned(g)
  /\ handle' = [handle EXCEPT ![h] = handle[g]]
  /\ block' = [block EXCEPT ![handle[g].cb].refs = @ + 1]
  /\ UNCHANGED <<storage, alive, misread>>

Reset(h) == /\ Owned(h)
            /\ ResetTo(h, None, <<>>, 0, "host", {})
            /\ UNCHANGED misread

Reserve(h, n) ==
  /\ Usable(h) /\ ~Enough(h, n) /\ MayReallocate(h)
  /\ Store(h, Moved(h, n), Size(h), {}, {})
  /\ UNCHANGED misread

\* reserve(n, new_mem_type): another memory type starts an empty pointer.  A
\* pointer that is null but has a block fails an assertion if n = 0.
ReserveIn(h, n, m) ==
  /\ Usable(h) /\ Memory(h) # m /\ n <= MaxCapacity
  /\ n = 0 => handle[h].ptr # None
  /\ ResetTo(h, NewAddress(n), RawCells(n), 0, m, {})
  /\ UNCHANGED misread

ShrinkToFit(h) ==
  /\ Usable(h) /\ Size(h) < Capacity(h) /\ MayReallocate(h)
  /\ Store(h, SubSeq(Data(h), 1, Size(h)), Size(h), {}, {})
  /\ UNCHANGED misread

\* emplace_back and push_back; j is the element passed as argument, or 0.
EmplaceBack(h, j) ==
  /\ Usable(h) /\ Cardinality(alive) < MaxObjects
  /\ Full(h) => MayReallocate(h) /\ Capacity(h) + 2 <= MaxCapacity
  /\ Argument(h, Size(h) + 1, j)
  /\ LET p == Size(h) + 1
         x == FreeObjects(1)[1]
     IN  /\ Store(h, [Roomy(h) EXCEPT ![p] = x], p, {x}, {})
         /\ misread' = (misread \/ Misreads(h, Roomy(h), p, j))

\* Mutant of Insert: one place further.
InsertBehind(h, p, j) ==
  /\ Usable(h) /\ p \in 1 .. Size(h) /\ Cardinality(alive) < MaxObjects
  /\ Full(h) => MayReallocate(h) /\ Capacity(h) + 2 <= MaxCapacity
  /\ Argument(h, p, j)
  /\ LET cells == Opened(Roomy(h), p + 1, Size(h))
         x == FreeObjects(1)[1]
     IN  /\ Store(h, [cells EXCEPT ![p + 1] = x], Size(h) + 1, {x}, {})
         /\ misread' = (misread \/ Misreads(h, cells, p + 1, j))

\* insert(p - 1): the position must be that of an element.
Insert(h, p, j) ==
  /\ Usable(h) /\ p \in 1 .. Size(h) /\ Cardinality(alive) < MaxObjects
  /\ Full(h) => MayReallocate(h) /\ Capacity(h) + 2 <= MaxCapacity
  /\ Argument(h, p, j)
  /\ LET cells == Opened(Roomy(h), p, Size(h))
         x == FreeObjects(1)[1]
     IN  /\ Store(h, [cells EXCEPT ![p] = x], Size(h) + 1, {x}, {})
         /\ misread' = (misread \/ Misreads(h, cells, p, j))

\* Mutant of PopBack: the element is not destructed.
PopBackAlive(h) ==
  /\ Usable(h) /\ Size(h) > 0
  /\ Store(h, Data(h), Size(h) - 1, {}, {})
  /\ UNCHANGED misread

PopBack(h) ==
  /\ Usable(h) /\ Size(h) > 0
  /\ Store(h, Data(h), Size(h) - 1, {}, {Data(h)[Size(h)]})
  /\ UNCHANGED misread

\* erase(p - 1)
Erase(h, p) ==
  /\ Usable(h) /\ p <= Size(h)
  /\ Store(h, Closed(Data(h), p), Size(h) - 1, {}, {Data(h)[p]})
  /\ UNCHANGED misread

Next == \E h \in Handles :
  \/ \E n \in 0 .. 2, c \in 1 .. MaxCapacity, m \in Spaces : Build(h, n, c, m)
  \/ \E g \in Handles : Copy(h, g)
  \/ Reset(h)
  \/ \E n \in 1 .. MaxCapacity : Reserve(h, n)
  \/ \E n \in {0, 2}, m \in Spaces : ReserveIn(h, n, m)
  \/ ShrinkToFit(h)
  \/ \E j \in 0 .. Size(h) : EmplaceBack(h, j)
  \/ \E p \in 1 .. Size(h), j \in 0 .. Size(h) : Insert(h, p, j)
  \/ PopBack(h)
  \/ \E p \in 1 .. Size(h) : Erase(h, p)

Spec == Init /\ [][Next]_vars
-----------------------------------------------------------------------------
(* Properties *)

TypeOK ==
  /\ handle \in [Handles -> [cb : Blocks \cup {None}, ptr : Addresses \cup {None}]]
  /\ \A b \in Blocks : block[b] # None =>
       block[b] \in [refs : 1 .. Cardinality(Handles), size : 0 .. MaxObjects,
                     capacity : 0 .. MaxCapacity, mem : Spaces]
  /\ alive \subseteq Objects /\ misread \in BOOLEAN

\* "Shared ownership with reference counting." (IvyUnifiedPtr.hh:24): owners
\* of one control block point to the same storage, which is the size the block
\* says and is there, and nobody else's.
OwnersAgree ==
  \A h, g \in Handles :
    /\ Usable(h)
    /\ handle[h].cb = None => handle[h].ptr = None
    /\ handle[h].cb # None => /\ block[handle[h].cb] # None
                              /\ Len(Data(h)) = Capacity(h) /\ Size(h) <= Capacity(h)
    /\ handle[h].ptr # None =>
         (handle[h].cb = handle[g].cb <=> handle[h].ptr = handle[g].ptr)

ElementsOf(h) == SubSeq(Data(h), 1, Size(h))

\* Every object that is constructed is an element of one pointer, at one place,
\* until it is destructed; none is lost and none is destructed twice, and
\* storage and control blocks nobody has are given back.
ElementsAlive ==
  /\ alive = UNION {ToSet(ElementsOf(h)) : h \in Handles}
  /\ \A h, g \in Handles :
       /\ IsInjective(ElementsOf(h))
       /\ handle[h].cb # handle[g].cb => ToSet(ElementsOf(h)) \cap ToSet(ElementsOf(g)) = {}
  /\ \A a \in Addresses : storage[a] # None => \E h \in Handles : handle[h].ptr = a
  /\ \A b \in Blocks : block[b] # None =>
       block[b].refs = Cardinality({h \in Handles : handle[h].cb = b})

\* "Append an element copy/move at the end." (IvyUnifiedPtr.hh:300): what is
\* constructed is what was passed, also if that is an element of the pointer.
ArgumentsIntact == ~misread

\* Owners of one block agree on its storage and size, what is constructed is
\* an element at one place until it is destructed, and arguments that refer to
\* elements are read before they move (reserve, insert, erase, emplace_back).
StorageIsSound == TypeOK /\ OwnersAgree /\ ElementsAlive /\ ArgumentsIntact

\* The pointers are the sequences of SharedSequences.
Contents(b) == IF \E h \in Handles : handle[h].cb = b
               THEN ElementsOf(CHOOSE h \in Handles : handle[h].cb = b) ELSE <<>>
Shared == INSTANCE SharedSequences WITH
  Names <- Blocks, Elements <- Objects, Counts <- 0 .. 2,
  points <- [h \in Handles |-> handle[h].cb],
  contents <- [b \in Blocks |-> Contents(b)]

\* Nobody sees that storage moves; a pointer without any begins an empty sequence.
Unseen(h) == IF Capacity(h) = 0 THEN Shared!Begin(h, 0) ELSE UNCHANGED Shared!vars

\* An element behind the last, or the first of a pointer without storage.
EndGets(h) == IF Capacity(h) = 0 THEN Shared!Begin(h, 1)
              ELSE \E x \in Objects : Shared!InsertAt(h, Size(h), x)

\* The step that is its own for each call on h.
EachAsNamed(h) ==
  /\ \A n \in 0 .. 2, c \in 1 .. MaxCapacity, m \in Spaces :
       Build(h, n, c, m) => Shared!Begin(h, n)
  /\ \A g \in Handles : Copy(h, g) => Shared!Share(h, g)
  /\ Reset(h) => Shared!Leave(h)
  /\ \A n \in 1 .. MaxCapacity : Reserve(h, n) => Unseen(h)
  /\ \A n \in {0, 2}, m \in Spaces :
       ReserveIn(h, n, m) => IF n = 0 THEN Shared!Leave(h) ELSE Shared!Begin(h, 0)
  /\ ShrinkToFit(h) => Unseen(h)
  /\ \A j \in 0 .. Size(h) : EmplaceBack(h, j) => EndGets(h)
  /\ \A p \in 1 .. Size(h), j \in 0 .. Size(h) :
       Insert(h, p, j) => \E x \in Objects : Shared!InsertAt(h, p - 1, x)
  /\ PopBack(h) => Shared!RemoveAt(h, Size(h))
  /\ \A p \in 1 .. Size(h) : Erase(h, p) => Shared!RemoveAt(h, p)

CallsDoAsNamed == \A h \in Handles : EachAsNamed(h)

\* The pointers are sequences that their owners share: emplace_back and insert
\* put a new element at the end and at their position, pop_back and erase take
\* out the last element and that at their position, build_unified, reset,
\* copies and reserve in another memory begin, leave and share a sequence, no
\* call changes another sequence, and nobody sees reserve and shrink_to_fit.
ActsLikeSequences == Shared!Spec /\ [][CallsDoAsNamed]_vars
=============================================================================
