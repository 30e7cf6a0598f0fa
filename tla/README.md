# TLA+ for the IvyHeterogeneousCore (USDS-HCC)

USDS-HCC is a header-only C++20 library (`src/interface`) that gives CPU and
CUDA code the same containers, smart pointers, streams and autodiff nodes, with
an explicit memory type (`Host`, `PageLocked`, `GPU`, `Unified`,
`UnifiedPrefetched`) for every piece of storage. This directory holds its
formal models, the TLC instances that check them, and the theorems TLAPS
proves about them. `PROJECT.json` lists, for machines, what this file explains:
runs, the source lines behind each definition, mutants, hazards, theorems.

## 1. Inventory

| component | state | operations | talks to | hard because |
|---|---|---|---|---|
| Unified pointer `IvyUnifiedPtr.h/.hh` | `ptr_`, `cblock_`, `stream_`, `exec_mem_type_`, `progenitor_mem_type_`; shared control block `{ref_count, size, capacity, mem_type}` | construct, copy, move, assign, reset, transfer, clone, swap, destroy; resize operations | memory helpers, streams; every container is built on it | several host threads and device code; the counter is either a hardware atomic or a staged read-modify-write under a spinlock whose write is asynchronous; progenitor write rules |
| Memory helpers, allocator `IvyMemoryHelpers.h`, `IvyMemoryTypes.h`, `IvyAllocator.h` | none of their own | allocate, construct, transfer, destruct, free; deep copies of objects that own memory | CUDA runtime, unified pointer | partial failure, nested ownership, asynchronous copies |
| Memory views `IvyMemoryView.h` | an optional temporary copy | construct, destroy | allocator | who owns the copy, where it is copied from |
| Iterator chains `IvyContiguousIterator.h`, `IvyContiguousIteratorBuilder.h` | array of nodes `[rend, 1..n, end]` with links, cells shared with iterators users hold | reset, push/pop, insert, erase, invalidate, transfer | vector, unified pointer | links and cells must follow data that is shifted bytewise |
| Vector `IvyVectorImpl.h` | data pointer, two chains | assign, reserve, insert, erase, emplace_back, pop_back, resize, swap, transfer | chain, unified pointer | keeps data and chains in step over long call sequences |
| Unordered map `IvyUnorderedMapImpl.h`, bucketed chain | buckets of (hash, values), two chains | insert, erase, find, rehash, operator[] | chain, unified pointer | buckets are matched by a modulus that changes with the size |
| Algorithms, kernel dispatch `IvyParallelOp.h`, `IvyKernelRun.h` | a layered buffer | grouped reductions; 1D-3D dispatch to GPU, CPU, OpenMP | allocator, streams | boundary arithmetic, which indices run |
| Streams, events `stream/*` | CUDA handle and an ownership flag | create, record, wait, synchronise, destroy | CUDA runtime | ordering holds within one stream only |
| Autodiff graph `IvyClientManager.h`, `IvyBaseModifiable.h`, `IvyFunction.h` | client lists, modified flags, operands | add_client, set_modified, eval, depends_on, deep copy | vector, shared pointer | propagation through a graph, reference cycles, copies of cyclic structures |
| Autodiff tensors `IvyTensor.h`, `IvyTensorShape.h` | extents, rank, cached number of elements, data pointer, modified flag | construct, copy, move, index, reshape, slice, reorder, contract | unified pointer, clients | the cached number, the extents and the block have to agree; three sets of strides |
| Autodiff arithmetic, special functions `arithmetic/*`, `special_functions/*` | none of their own | evaluators and gradients for each pair of domains | autodiff graph | written out part by part for up to nine combinations of domains |

What makes each correct:

* *Unified pointer*: the count is the number of owners at every moment, storage
  is freed exactly once and only after the last owner left, a unique pointer
  has no second owner, every operation ends.
* *Iterator chain and vector*: node `i` refers to element `i`; an iterator a
  user holds refers to the element it was taken for or is invalid; the chain
  never moves while the data stays.
* *Unordered map*: it is a map, i.e. a key is found if and only if it was
  inserted, with the last value, through every path of rehashing.
* *Reduction and dispatch*: the result is that of the serial loop, no index
  outside the buffer is touched, the recursion ends.
* *Autodiff graph*: a changed leaf is seen by everything that depends on it;
  nodes that are no longer used are given back; a gradient is the derivative of
  the value.
* *Tensors*: an index inside the extents names one element of the block, which
  is the tensor's own.
* *Allocator and views*: a deep copy shares nothing with its source, whatever
  memories it passes through; what an element owns has one owner.
* *Streams*: work runs after all it was ordered behind; a raw stream is
  destroyed once, by its owner.

`PROJECT.json` "hazards" lists what can go wrong at which line, with the
property that covers it or the reason none does.

## 2. Plan

The model of every component listed as modelled in part below is in place; what
is left out of each is in section 7. The order was: ownership (`UnifiedPtr`)
with its abstraction and proofs; the chain and the vector; the map against an
abstract map; reductions and kernel dispatch; the graph of clients; deep copies
and views; resizing with several owners; tensors; functions and evaluators;
streams.

## 3. Modules

Components are composed where they share state: `Vector` and `UnorderedMap`
with the chain of iterators, `MemoryTransfer` with views, `Tensor` with its
shape. `MC...` modules hold instances for TLC. Some of them put components that
do not interact side by side; then a variable `used` says which one a behaviour
is about, and the others stay in an initial state, so that nothing multiplies.

| module | role |
|---|---|
| `SharedOwnership` | abstract: blocks and their owners; no counter, lock, stream or thread |
| `UnifiedPtr` | the pointer operations as the code performs them |
| `UnifiedPtrProperties` | owners, invariants, liveness, the refinement, the inductive invariant |
| `UnifiedPtrInvariant` | proofs: registers of operations; owners, counts and storage; counter updates, the induction; `UnifiedPtr` implements `SharedOwnership`; unique pointers are sole owners |
| `ResizableStorage`, `SharedSequences` | pointers that grow and shrink; abstract: sequences that owners share |
| `LinkedPointers` | pointers inside the objects that pointers manage |
| `MemoryProofs` | proofs: owners, storage and objects of resizable pointers are in step, and implement `SharedSequences`; of linked pointers counts are owners, and nothing but cycles leaks |
| `MemoryTransfer`, `MemoryTransferProperties`, `ArrayValues` | kinds of memory and who can address them; arrays whose elements own data, deep copies, views; abstract: arrays and views of values |
| `TransferProofs` | proofs: transfers read what is there, each leaf has one owner, views are readable |
| `ResultLoop` | the OpenMP loop that gathers results |
| `IteratorChain` | the chain of iterators as operators: nodes, links, cells |
| `Vector`, `VectorProperties` | a vector: its data, its chain, and the iterators a program holds |
| `VectorProofs` | proofs: what one insertion, removal or new array does to a chain and its cells; the invariant of vectors and held iterators, what members return, where their loops end |
| `UnorderedMap`, `UnorderedMapProperties`, `KeyedMap` | buckets, chain, held iterators; abstract: functions from keys to values |
| `UnorderedMapProofs` | proofs: chains list elements, held iterators keep their keys; with single insertions each key is once where a search looks, and maps implement `KeyedMap` |
| `ChainAlgorithms` | distance, searches, `minmax_element`, reverse and input iterators |
| `LaunchGrid`, `KernelRun` | launch grids and thread indices; dispatch to device, fallback, host |
| `KernelProofs` | proofs: valid grids, and the body runs once for each index |
| `ParallelReduce` | reductions in layers, through a stream |
| `ParallelProofs` | proofs: the loop reports every failure; reductions return what one pass does, in the buffer that was counted for them |
| `Streams`, `StreamsProofs` | streams, events, who destroys what; proofs |
| `ClientGraph` | nodes, clients, modified flags, gradients, release |
| `PrimeField` | arithmetic modulo a prime, with a root of -1, NaN and dual numbers |
| `FunctionGraph`, `FunctionGraphProperties` | functions as expressions, evaluators, gradients |
| `ComplexValues` | the evaluators for each pair of domains |
| `TensorShape`, `Tensor`, `TensorProperties`, `TensorValues` | index arithmetic; tensors and their blocks; abstract: sequences of values |
| `MCUnifiedPtr`, `MCVector`, `MCContainers`, `MCFunctions`, `MCClientGraph`, `MCMemory`, `MCParallel`, `MCStreams` | instances for TLC |

### 3.1 UnifiedPtr

*State.* `handle[h]` holds `cblock_`, `stream_` and `progenitor_mem_type_`; a
block `b` has `mem` (does its storage exist), `exec` (where its control block
lives), `count` (`ref_count` as it is in memory) and, per stream, `flying` (a
count queued by `cudaMemcpyAsync` that has not landed). `locked` is the spinlock
pool. Each thread has a program counter and a task record: its operation, the
handles, the direction of the count, the value read, and storage allocated
ahead of a release. `aborted` records a write-access assert.

*Actions.* One action starts each public operation (`Make`, `CopyConstruct`,
`MoveConstruct`, `CopyAssign`, `MoveAssign`, `Drop`, `Reset`, `Restream`,
`Transfer`, `Clone`, `Swap`). An operation that releases or acquires goes on
through `CountAtomic`, or `Lock`, `ReadCount`, `WriteCount`, `Unlock`, then
perhaps `Clean`, and ends in its `Finish...` action, which stands for all the
code after `release()`. `LandWrite` is the stream.

*Interleaving.* Threads interleave between every access to shared state: the
atomic, the lock, the two transfers of the staged update, the free. A handle is
an ordinary C++ object, so it is modified by one thread (`OwnerOf`) and not
while another reads it (`MayModify`, `MayRead`); copies *from* a handle of
another thread are allowed. Device code is a thread for which `Host` control
blocks are not addressable and `GPU` ones are; it is given only blocks it can
address, since it cannot stage. `CountAtomic` carries one assumption on the
environment: device code is not run on a block whose counter the host is
staging at that moment. The library does nothing to enforce it.

*Data left out.* A block stands for elements and control block together; sizes,
capacities and values are not here, nor are handles that live inside a block.
All blocks count as non-empty (for the test in `swap`). `PageLocked` counts as
`Host`, `UnifiedPrefetched` as `Unified`. The memory type of the elements is
not kept: `Transfer` may be asked for any type. `copy(ptr, ...)` allocates after
its release and `Reset` before it; nobody else can see the difference.
Operations on empty handles that change no ownership are left out.

*External.* `flying` and `LandWrite` are CUDA's promise: a host-to-device copy
from pageable memory returns once staged, transfers in one stream keep their
order, those of different streams have none, a device-to-host copy to pageable
memory returns when done.

| property | says |
|---|---|
| `TypeOK` | types |
| `CountMatchesOwners` | the count in memory, or the one flying to it, is the number of owners |
| `NoUseAfterFree` | an owner's block exists; so does one whose count is about to be touched |
| `NoOrphan` | a block without owner has exactly one thread on its way to free it |
| `UniqueIsSole` | an idle unique pointer with write access is the only owner |
| `ImplementsOwnership` | every behaviour is one of `SharedOwnership` |
| `WorkEnds` | operations end (`OperationsComplete`) and all storage is given back (`NoLeak`) |
| `IInv` | the inductive invariant of the proofs |
| `FinalCount`, `TransferByProgenitor` | what the test and a comment say; violated, see 5 |

An owner is a handle that holds the block *and is counted*: between taking the
members and the increment, and between the decrement and clearing the members,
a handle holds a block it does not own (`Uncounted`).

### 3.2 Vector

*State.* `store[v]` is `_data`: its elements, capacity, storage and memory type
(and `husk`, a control block left without storage). `chain[v]` is
`_iterator_builder`: the array of nodes with a cell and two links each. `loc` is
the content of the cells, which nodes share with the copies the program holds
(`it`). `job` is the loop a member function is in: `insert` of several elements,
`erase` of a range and `resize` call other member functions, and each call is a
step. `fault` records undefined behaviour, after which nothing is claimed.

*Actions.* Each member function is an action: the constructors and `assign` are
`Assign` (the chain of a vector under construction is empty), `clear` and the
destructor `Assign` of no elements; then `CopyAssign`,
`MoveAssign`, `Swap`, `Transfer`, `Reserve`, `ShrinkToFit`, `EmplaceBack`,
`PopBack`, `Insert`, `InsertMany`, `Erase`, `EraseMany`, `Resize`; `Begin`,
`EndOf`, `Advance` and `Retreat` are what the program does with iterators. The
parts `Append1`, `Insert1`, `Erase1` have one disjunct per path of the code.

*What may be done with a held iterator* is history (`bond`), as in the rules of
the standard containers: a "steady" one may be moved and dereferenced; after a
change at its element or in front of it, it is "loose" and may be dereferenced
or passed to `insert` and `erase`, which look only at its cell; a "lost" one,
whose vector was moved over or transferred, may not be used. What the code does
when the rules are broken is not explored.

*Data left out.* Elements are identities. Allocation does not fail. Only
addresses that some iterator still holds are kept from being given out again,
and a lost iterator's are never reused. The chain of const iterators gets the
same calls. The member functions do the same for a chain in another memory
space, in more steps.

| property | says |
|---|---|
| `WellFormed` | types, and `ChainMirrorsData`: node `k + 1` is the linked iterator of element `k`, its cell holds the element's address; the chain has room for the data's capacity |
| `HeldIteratorsFollow` | a held iterator that says it is valid leads to the element it was obtained for (`ValidReachesOwnElement`); a steady one is what the chain has in its place (`SteadyIteratorsStay`) |
| `ReturnsItsPlace` | `insert` puts the element in front of its argument and returns its iterator; `erase` takes out its argument only and returns the following iterator |
| `LoopsReachGoal` | `insert` of several and `resize` end with the sequence asked for |
| `EraseRangeErases`, `ValidIteratorsLive`, `CopiesOwnTheirBlock` | what comments say; violated, see 5 |

### 3.3 ResizableStorage and LinkedPointers

`UnifiedPtr` has no elements. `ResizableStorage` has the rest of the class:
`handle[h]` is `cblock_` and `ptr_`, `block[b]` is `ref_count`, `size`,
`capacity` and the memory type, `storage[at]` the cells an address holds, and
`alive` the objects that are constructed and not destructed. Actions: `Build`,
`Copy`, `Reset`, `Reserve`, `ReserveIn`, `ShrinkToFit`, `EmplaceBack`, `Insert`,
`PopBack`, `Erase`; each is a whole call, with its bytewise shifts. The count is
atomic here, since `UnifiedPtr` says how it is kept.

With `Careful = TRUE` only sole owners reallocate and arguments stay where they
are while they are read, which is what the code needs (see 5). Then
`StorageIsSound` holds (owners agree on storage and size, each constructed
object is one element at one place, arguments are intact), and
`ActsLikeSequences`: the pointers implement `SharedSequences`, in which owners
share sequences, and each call takes the step of it that is its own
(`CallsDoAsNamed`): `insert` and `erase` put in and take out at their position,
`emplace_back` and `pop_back` at the end, `reserve` and `shrink_to_fit` are seen by
nobody, building begins a sequence with as many elements as asked for.

`LinkedPointers` is a list: a node holds a pointer to another. Assigning and
resetting release recursively. `ReleasesAreComplete`: a node counts the pointers
to it however far a release reached, and nothing but cycles leaks.

### 3.4 MemoryTransfer

Arrays in host, device, page-locked or unified memory, whose elements own data
elsewhere (a *leaf*, in a memory of its own). `Width = 2` makes an element a
pair. A step is one call: `Allocate`, `BuildElements`, `Write`, `MoveInternal`
(`transfer_internal_memory`), `Clone` (allocate and transfer), `CopyData`,
`Destroy`, and for views `ViewByPointer`, `ViewByReference`, `ViewOf`,
`MoveView`, `WriteView`, `DropView`. Below them the allocator's primitives are
operators: bytewise copies, the intermediate array in a memory the host can
write, the internal transfer of each element, the release of what the old
elements owned. `stray` collects accesses the code makes and may not: to raw
cells, beyond the array, to memory the host cannot address, or with a direction
that contradicts where the pointers lie.

`TransfersAreSound`: nothing strays, each leaf has one owner, host code may read
what a view shows. `TransfersActLikeValues`: arrays and views are values
(`ArrayValues`), so no copy of bytes lets one array show in another; and the
elements a transfer creates lie in the memory of their array.

### 3.5 Maps

*State* (`UnorderedMap`). `maps[m]`: the memory type, the capacity of the bucket
array, the buckets (hash, address of their storage, capacity, elements) and the
chain (generation, room, and the address each node points to). `held` are
iterators of the program with the generation of their chain; an iterator is
*lost* when the code gave up its chain without telling it. `steady` says which
kind of program uses the maps; it never changes.

*Actions.* `Insert`, `InsertRange`, `InsertList`, `Get` (`operator()`), `Store`
(through `operator[]`), `Find`, `Ends`, `Rehash`, `Clear`, `Destroy`, `Transfer`,
`Swap`, `MoveAssign`, `MoveInto`. `Inserted` follows `insert_impl`: search among
the buckets congruent modulo `sqrt(size) + 1`, then a new element in the first
of them or a new bucket, then the chain, which is appended to or made anew when
storage has moved. `Rehashed` does nothing unless there will be more buckets.

*Properties.* `MapsListElements`: the chain has one node for each element and
`size()` counts elements. `HeldReachesKey`: a held iterator is null or leads to
its key. For programs that make single insertions in the memory the data is in
(`steady`, whose actions are `Steadily`): `SteadyLayout` (each key once, in the bucket a search looks into,
across every rehash) and `SteadyActsAsKeyed` (the map implements `KeyedMap`: an
insertion puts its value at its key, nothing changes another's). The other
operations break these; see 5.

`ChainAlgorithms` fills the container of a vector or a map and makes one call
on a range: distance by address or along the chain, the unrolled searches, the
pairwise `minmax_element`, a reversed loop. `AlgorithmsAgree` compares each with
its definition.

### 3.6 ResultLoop, KernelRun, ParallelReduce

`ResultLoop` is the loop `res &= transfer(...)` with OpenMP's static schedule:
`Transfer`, then `Gather` and `Combine` with a reduction or `Read` and `Write`
without. `FailuresReported`: at the end every element was transferred, and the
result is true if and only if all succeeded. That holds with the reduction, which
the loop of `IvyAllocator.h` has and that of `IvyClientManager.h` has not (section 5).

`LaunchGrid` is `check_GPU_usable` with its casts and widths (`IntWord` stands for
2^32) and `kernel_call_dims`. `KernelRun` picks a path (device, CUDA build
without usable device, host build), makes *lanes* of units that interleave (one
per device thread, one per OpenMP chunk) and runs them; on the device the call
returns before they have run. `KernelsVisitOnce`: a call that returned true runs
the kernel once for each index of its box, and proposed grids are valid.

`ParallelReduce` has the buffer, the commands in the stream (transfer, kernels,
transfer, free) and the host's program. A value is known by the run of positions
it was reduced from, from the first to the one behind the last: the operation
need only be associative. What is reduced from fresh memory, or from values that
do not follow one another, is `Mixed`, and no cell may ever hold that.
`ReductionsAreSerial`: the result is that of one pass, no unit leaves the
buffer `parallel_op_n_mem` counted or reads a cell before it is filled.
`CallsEnd`: loops, dispatches and reductions end.

### 3.7 Streams

`wrapper[w]` is a stream object (how it was made, its raw stream, `is_owned_`),
`live` the raw streams, `queue[r]` what a stream has to do. Events remember at
each recording what came before it. Actions: `Construct`, `Make`, `Destruct`,
`Destroy`, `Swap`, `Launch`, `Synchronize`, `NewEvent`, `Record`, `Wait`,
`SynchronizeEvent` and, for the device, `Run`. `before` and `needs` are history:
the work that must precede the next or a given piece.

`TypeOK` also says that what is queued has been made: a piece of work is one
that was launched, and recordings and waits are of a recording of their event
that `record()` was called for.
`OwnersHaveStreams`: what a wrapper owns exists and has one owner. `OrderKept`:
work is done after all its stream was given before, and all that events it
waited for were recorded after. `WorkAndStreamsEnd`: all work is done in the
end, and streams with automatic storage leave nothing behind.

### 3.8 Autodiff

`ClientGraph`: leaves with values, functions with operands, an output and a
modified flag, and in each node the list of clients. `MakeLeaf`, `Make1D`,
`Make2D`, `SetValue` (which flags the clients), `Value` (which evaluates but
clears no flag), `EvalFcn` (which clears the function's own), `Gradient`,
`Transfer` of a leaf, `Drop`. A node is freed when nothing refers to it
(`Remaining`). `ListsAreDependents`: the clients of a node are the functions that
have it as an operand, each listed once, and nothing referred to has been freed.
`FreshAboveLeaves`: a function returns its value by the present values of the
leaves, as long as `eval_fcn` has cleared no function of functions below it
(where it has, the value can be stale: section 5).
`GradientStaysApart`: what `gradient()` returns is a client of nothing that was
there before, while a function the user builds is a client of its operands.

`FunctionGraph`: a function is an expression. Each operation has its evaluator
and its gradient, which builds new functions, as the source does. Values are
*dual numbers modulo a prime* with a square root of -1 and NaN: identities of
derivatives and of complex parts that hold over the reals hold there, and a
wrong sign, operand or factor fails at some point. Exponential and circular
functions become homomorphisms, division by zero and undefined logarithms NaN.
`GradientsAreDerivatives` compares what `gradient()` computes with the dual part
of the value: of sums, differences, products, quotients and powers however nested, and
of functions of one operand where that is a leaf. Where it is a function the
property only says that the evaluator's own factor is the derivative at the
operand; the factor of the operand is missing in the code (section 5).
`EvaluatorsAgree` compares the overloads of `ComplexValues` for
all domains with each other and with the function they are named for, and the
comparisons with one preorder.

`TensorShape` is the index arithmetic (`get_abs_index`, slices, `reshape` with a
wildcard, reorderings, contractions), `Tensor` the object on top of it: extents
with the cached number of elements, the block, the flag; `Construct`, `Default`,
`Copy`, `MoveConstruct`, `MoveAssign`, `Fill`, `Write`, `SetModified`, `Reshape`,
`ReshapeLike`, `ReshapedCopy`, `Destroy`. `IndicesAgree`: indices are row-major
without gaps, reorderings transpose and compose, slices divide evenly, an
element of a contraction sums over the pairs that agree. `TensorsOwnTheirData`,
and `TensorsActLikeValues`: tensors implement sequences of values of their own,
and elements that change in place are flagged.

## 4. Runs

| run | instance | shows |
|---|---|---|
| `unified_ptr_host` | two host threads, three handles (one unique), two blocks, one stream, three operations each, fair | safety, the refinement, operations end, no leak; blocks in host, unified or device memory |
| `unified_ptr_device` | a host thread and device code | the inductive invariant of the proofs |
| `vector_one` | one vector, sizes and capacities to 4, two held iterators | all properties; every loop |
| `vector_two` | two vectors, sizes to 2, two memory types, one held iterator | the invariants under copying, moving, swapping, transfer and change of memory |
| `containers` | maps: one through every operation (4 keys, 2 memories); one that grows across a change of the modulus; two that change hands. Algorithms: all fillings to 5 elements of 3 values, to 7 of 2 | maps and algorithms, 3.5 |
| `functions` | expressions two operations deep with all operations, three deep with `Exp`, products and quotients, modulo 13, at two points; all overloads; shapes of 4 and 6 elements, three small tensors | autodiff values, 3.8 |
| `graph` | four nodes with products, five with exponentials and their gradients | autodiff graph, 3.8 |
| `memory` | two handles with up to 3 objects; two roots and four nodes; two arrays and two views, single members and pairs, five calls | storage, links and transfers, 3.3 and 3.4 |
| `parallel` | teams of four on up to 5 elements; boxes around the limits of a device of 2 x 4 threads; up to 9 values in groups of 2 and 3 | 3.6 |
| `streams` | two wrappers, three raw streams, one event, two pieces of work and two recordings | 3.7 |
| `unified_ptr_two_streams` | two streams | violation: a lost update |
| `vector_erase_range` | as `vector_one` | violation: `erase(first, last)` |

*Why these bounds.* `UnifiedPtr`: one lock for all blocks, so that every pair of
counter updates collides on it; two blocks give address reuse and an assignment
between blocks; three handles give a last owner, a second to last and one that
arrives in between; three operations per thread build two owners, race their
release and use what is left. The theorems cover the rest. `Vector`: four elements leave
room in front of, between and behind two iterators, for an insertion that fits
and one that reallocates (capacity grows by 2). Names of chains, storage and
elements mean nothing, so TLC compares states through the view `View`, which
numbers them by first use. Maps: the modulus changes at sizes 1 and 4; six
elements lie beyond the second change, and the key 9 meets different keys
before and after it. Searches are unrolled by four and `minmax_element` by two,
so seven elements take every remainder. Reductions: nine values in groups of two
make four layers, with full and short groups in each. Dispatch: boxes at a block,
above it, at the grid's limit and above it. Streams: two pieces of work on two
streams, an event recorded twice. Functions: a gradient is composed from the
operation and the gradient of its operand, so two levels show the rule for each
pair of operations; with 13 elements and two points a wrong formula would have
to agree at all of them. `ClientGraph`: two levels over a leaf and a second
operand; a gradient of one operand takes two nodes and three new ones. `MaxOps` bounds what
has no natural end (transfers, tensors).

*Fairness*, all weak. `UnifiedPtr` (`FairSpec`): a thread that can continue its
operation does, a thread leaves its scopes (destructors of automatic objects
run), a stream delivers. Nothing is assumed of the spinlock: it has no queue,
and a thread could lose every race; progress rests on `MaxOps`, after which the
others stop asking for the lock. `parallel`: the threads of a team go on, a call
goes on to its launch and its end, some unit of a launch runs, the host goes on
and the device works off its stream. `streams`: the device works on every
stream; nothing is assumed of the host.

Invariants that belong together are one property of a run (`StorageIsSound`,
`IndicesAgree`, ...): its definition names the parts, each of which has its own
text in its component's module. Each property has a mutant, next to the
definition it changes, that breaks it.

## 5. Where the code and its comments part

Two of these are runs: `unified_ptr_two_streams` and `vector_erase_range`. The
others are stated as formulas in the module named; checking the formula on the
module with the constants given there finds the sequence described.

*Ownership and storage*

* **A lost counter update across streams.** `inc_dec_counter` stages the count
  of a device-resident block under a spinlock, and the comment
  (`IvyUnifiedPtr.h:607-612`) calls that race-free. `write_meta_field` only
  *queues* the write in the handle's stream; the lock is released before it
  lands. Handles of one block may have different streams (`reset` with a
  stream, lines 425-431), and then the next thread reads the old value.
  `FinalCount` (the test's "final use_count") fails. With one stream the
  stream's order repairs it: that is the assumption `OneStream` of the theorems.
* **`transfer` by a context that is not the progenitor** (`IvyUnifiedPtr.h:500`).
  The comment expects `release()` to abort; `release()` looks at the write access
  only if the count drops to zero. `TransferByProgenitor`, `UnifiedPtrProperties`.
* **Resizing a block with several owners** (`IvyUnifiedPtr.h:687`): `reserve`,
  `shrink_to_fit`, `emplace_back` and `insert` replace `ptr_` of one handle and
  free the storage the others point to. `OwnersAgree`, `ResizableStorage` with
  `Careful = FALSE`.
* **Arguments that are elements** (`IvyUnifiedPtr.h:734`): `push_back(p[0])` on a
  full pointer and `insert(i, p[j])` with `j >= i` read them after they were freed
  or shifted. `ArgumentsIntact`, `ResizableStorage` with `Careful = FALSE`.
* **`p = p->next`** (`IvyUnifiedPtr.h:198`, `:225`) releases the node that holds
  its source before reading it. `AssignsSource`, `LinkedPointers` with
  `KeepsSources = FALSE`.
* **A copy of a vector after `resize(0)`** shares the control block of its
  source, and both free it (`IvyUnifiedPtr.h:472`, `IvyVectorImpl.h:51-66`).
  `CopiesOwnTheirBlock`, `VectorProperties`, as `vector_two`.

*Iterators and containers*

* **`erase(first, last)`** (`IvyVectorImpl.h:398-403`, "Erase range
  `[first,last)`") advances the iterator it has just erased through. Its link
  was copied before the chain moved up, so it steps over an element and perhaps
  over `last`. `{1, 2, 3}` without `[begin, begin + 1)` leaves `{2}`; with
  `{1, 2}` the loop dereferences the end.
* **Iterators into a vector that is moved over** stay "valid"
  (`IvyVectorImpl.h:67-73`): the old chain is freed without `invalidate()`. So
  do those into a vector whose memory is transferred. `ValidIteratorsLive`,
  `VectorProperties`, as `vector_two`.
* **`rbegin()` and `rend()`** (`IvyContiguousIteratorBuilder.h:170`) are one
  node too far in front: `*rbegin()` is the last element but one, and the last
  step of a loop dereferences null. `ReverseVisitsAll`, `ChainAlgorithms`.
* **Input iterators** (`IvyIteratorImpl.h:90`): `operator==` compares an operand
  with itself; all are equal. `InputVisitsAll`, `ChainAlgorithms`.
* **`rehash(n)` by a user** (`IvyUnorderedMapImpl.h:303`) widens the bucket array
  so that later insertions do not rehash when the modulus changes: keys are
  doubled. `BucketsFollowSize`, `UnorderedMapProperties`.
* **Inserting a range** (`:447`) rehashes at the end only: `{3, 2}` into
  `{0, 1, 2}` leaves the key 2 twice. **Inserting in another memory type** (`:336`)
  drops what was there and keeps its capacity: keys are doubled later.
  `KeysUnique`, `UnorderedMapProperties`.
* **Inserting a list** (`:461`) into a map without data does nothing.
  `ListIsInserted`, `UnorderedMapProperties`.
* **`operator[]`** (`:607`, `:642`) looks at the first bucket that is not
  congruent again and again, and does not find keys behind it.
  `IndexFindsKeys`, `UnorderedMapProperties`.

*Memory*

* **Pairs** (`IvyAllocator.h:334`): the transfer of `n` pairs passes `n` for each
  member, and runs past the array. `PairsStayCorrect`, `MemoryTransferProperties`
  with `Width = 2` and `Lengths = {2}`.
* **Views by reference** (`IvyMemoryView.h:132`) copy from the default memory
  whatever memory the caller names. `ViewsFromTheirSource`,
  `ReferenceMemories = {"GPU"}`.
* **Transfers of no elements** (`IvyAllocator.h:292`) report failure.
  `ReportsSuccess`.
* **`copy_data` where the size changes** (`IvyAllocator.h:670`) assigns to
  elements that were never constructed. `CopiesCorrectly`, `CopiesToNew = TRUE`.
* **The loop over client lists** (`IvyClientManager.h:141`) has no reduction,
  unlike the same loop at `IvyAllocator.h:249`, whose comment says it must: a
  failure may be lost. `FailuresReported`, `ResultLoop` with `Reduction = FALSE`.

*Parallel work and streams*

* **Planes and boxes on the device** (`IvyKernelRun.h:106`): the grid lies along
  x, so that only the units `(i, 0)` and `(i, 0, 0)` are run. `BoxesCovered`,
  `KernelRun` on a device with room for the box.
* **More than 2^31 items** (`IvyCudaConfig.h:66`): a cast to `int` makes the
  block size wrap around; the launch fails and the call returns true.
  `UsableIsValid`, `KernelRun` with an `IntWord` below twice the items.
* **The fallback** (`IvyKernelRun.h:231`) runs units the guard would skip; in a
  reduction they read and write past the buffer. `StaysInBuffer`,
  `ParallelReduce` with `Paths = {"fallback"}`.
* **`n_serial = 1`, or no values** (`IvyParallelOp.h:66`): `parallel_op_n_mem`
  recurses for ever. `Returns`, `ParallelReduce` with `Serials = {1}`.
* **`destroy_stream`** (`IvyCudaStream.h:31`) frees the object without its
  destructor; the raw stream stays. `OwnedStreamsEnd`, `Streams`.
* **Event flags** (`IvyCudaEvent.h:20`) are stored and not passed on.
  `FlagsTakeEffect`, `Streams` with a flag other than `"DisableTiming"`, or with it.

*Autodiff*

* **The chain rule for one operand** (`IvyMathFunctionPrimitives.h:33`): the
  evaluator stands in the place of the domain, and the operand counts as a
  variable: the gradient of `Exp(c*c)` is `Exp(c*c)`. `ChainRule`,
  `FunctionGraphProperties`.
* **Powers** (`IvyMathBaseArithmetic.h:1039`): the gradient evaluates `Log(x)`
  times zero; `Pow(x, 3)` has none where `x` is negative, and `x*x*x` has.
  `CubesAgree`, `FunctionGraphProperties`.
* **Subtraction of plain numbers** (`IvyMathBaseArithmetic.h:727`) adds.
  `SubtractSubtracts`, `ComplexValues`.
* **Stale values** (`IvyClientManager.h:66`): flags reach the direct clients of a
  leaf only. With `f1 = x*y`, `f3 = f1*f1`, `f3->value()` stays what it was
  before `x` changed. `NeverStale`, `ClientGraph`.
* **Graphs are not released** (`IvyClientManager.h:58`): operands and clients
  hold each other. `NoNodeOutlivesUser`, `ClientGraph`.
* **Moved-from tensors** (`IvyTensorShape.h:49`) keep rank and number of
  elements. `CacheIsCurrent`, `TensorProperties`.
* **Contractions of all axes** (`IvyTensorShape.h:115`) have no element where one
  is left. `ContractionCounts`, `TensorProperties`.
* **Assigning to a tensor** (`IvyTensor.h:118`) loses the block it owned.
  `BlocksAreHeld`, `TensorProperties`.

Also in the code, and part of the model, but not at odds with a comment:
`begin()` of a vector that was moved from, and a range or list insertion of two
elements into an empty vector, dereference null; `reserve`, `insert`,
`emplace_back` and `resize` of a vector with another memory type than the data's
drop the elements that were there; `reserve(0)` with another type after
`resize(0)` ends in an assert.

## 6. Proofs

*UnifiedPtr*, for all values of the constants that satisfy
`ConstantsAssumption`:

* `TypeCorrect`: `Spec => []TypeOK`; `ControlCorrect`: the registers of running
  operations fit, nobody modifies a handle that another thread reads, an
  uncounted copy shares the block of its source. No assumption on streams.
* `InvariantCorrect`: `Spec => []IInv`, and from it `CountCorrect`,
  `NoUseAfterFreeCorrect`, `NoOrphanCorrect`, assuming `OneStream` (one stream
  for all counter updates; without it they are false, see 5).
* `OwnershipImplemented`, under the same assumption:
  `Spec => ImplementsOwnership`, every behaviour is one of `SharedOwnership`.
* `UniqueCorrect`, under the same assumption: `Spec => []UniqueIsSole`.

*Argument.* `CountMatchesOwners` alone is not inductive. A staged update is in
progress over four steps, so the invariant must say that the lock excludes other
sections (`SectionInv`), that the value a section read is still the count when
it writes, and that what it wrote is the number of owners once it counts itself;
that only device-resident counters fly (`FlyingInv`); that whoever saw the last
owner leave is alone with the block (`DyingInv`); that storage allocated ahead
belongs to one operation (`FreshInv`); that device code never needs the staged
path (`DeviceInv`). The control part is proved first and then used as a fact.
The heap part is one lemma per action: it says which handles enter or leave
`Owners(b)`, and cardinality lemmas turn that into the change of the count.

For the refinement each action is shown to keep the owners of all blocks and the
set of live blocks (`Invisible`), or to be one of the abstract steps: an
increment is a `Join` at the moment it takes effect, a decrement a `Leave`, a
move a `Pass`, a swap a `Trade`; the free is a `Reclaim`, and needs `DyingInv`:
whoever frees a block is alone with it.

`UniqueIsSole` speaks of idle threads, and copies of unique pointers make two
holders of one block for a while, so the invariant (`SoleInv`) says who they may
be at any moment: the two ends of a copy whose source is about to be released, or
anybody once that release has begun, because another thread may by then copy the
new owner. A handle whose decrement has taken effect does not count: its members
are stale, and the block may already be somebody else's. TLC agreed on `SoleInv`
before the proof, on the instance of `unified_ptr_host` with one, two or three of
the handles unique and with each of the threads on the device.

*ResultLoop*, under `LoopAssumption`, for any number of threads and any length:
`ReductionReports`: if `Reduction` holds, `Spec => []FailuresReported`, with the
types of the loop. The invariant (`Inv`) says of each thread of the team that it is in its row, has transferred
what it passed, and has gathered the conjunction of those results; and that the
shared result is the conjunction over the rows that are combined. That the rows
are disjoint and cover the array is arithmetic of `Limit` (monotone, from 0 to
`n`). `Ahead` adds that a thread is at most one behind the end and that no element
it has yet to transfer has a result, which is what keeps the types. Without the
reduction the theorem is false, see 5.

*Streams*, under `StreamsAssumption`, for any numbers of wrappers, raw streams
and events and any bounds: `TypeCorrect`, `OwnersKeepStreams`
(`Spec => []OwnersHaveStreams`) and `OrderIsKept` (`Spec => []OrderKept`).
`TypeCorrect` includes that queues hold only what was made. `OrderKept` speaks of the moment work is done, when what it needs may be queued
in other streams. The invariant says of every raw stream that each task in its
queue needs only what is done or ahead of it in that queue, counting through the
recordings a wait stands for (`Ordered`), and that a recording that was reached
has all its work done (`Settled`). Two lemmas, on appending to a queue and on
running its head, carry the proof.

*Vector*, under `VectorAssumption`, for any numbers of vectors, elements and held
iterators and any sizes up to `MaxSize`. The assumption asks for more names of
chains and storage than can be in use, as the addresses an allocator has; when
elements run out the members that make some are not called:

* `VectorInvariant`: `Spec => []VInv`, and from it `VectorIsWellFormed`
  (`Spec => []WellFormed`) and `VectorIteratorsFollow`
  (`Spec => []HeldIteratorsFollow`).
* `VectorReturnsItsPlace`: `Spec => ReturnsItsPlace`; `VectorLoopsReachGoal`:
  `Spec => LoopsReachGoal`.

The four are all that the runs `vector_one` and `vector_two` check.

*Argument.* `ChainMirrorsData` is not inductive. Moving a vector leaves it without
a chain, iterators are compared by their cells, and an insertion finds its place
through the cell of an iterator the program holds. `VInv` adds what this needs:

* `DataInv`: the elements of a vector are different, within the capacity, and
  every chain is an array with one front, one end and a linked node per element
  (`Chained`), the cells hold the addresses (`Located`), and no two vectors share
  a chain or storage (`Apart`), so that a change to one leaves the cells of the
  others alone.
* `HeldInv`: a held iterator that is valid and not lost has the cell of an element
  some vector has now, and a steady one is a node of its chain (`Follows`).
* `JobInv`: what a running loop still has to put in is new; the iterator that
  `insert` of several walks back with is far enough behind the front.

The first part of `VectorProofs` is about sequences, chains and cells only. `FixPrevNext`,
`ChainInsert` and `ChainErase` work on indices of nodes, one of which is behind
the end; the lemmas there say that the result is again `Chained` for the sequence
with the element put in or taken out (`ChainInsertIsChained`, `ChainEraseIsChained`),
and that cells follow (`InsertInPlace`, `EraseInPlace`). Each member function is
then one lemma about `VInv'`.

For the loops a second layer is needed, `GoalInv`, since nothing in `VInv` says
what a loop is for: what is done and what is left make the sequence asked for
(`GrowGoal`, `FirstGoal`, `LaterGoal`). `insert` of several puts in the last
element first and goes back one iterator per round; after a round that moves the
data the iterator is the one `insert` of one element returned, and `VInv` makes
it a node of the new chain. An induction over rounds, not over data, so the
prover can do it. `erase` of a range does not reach its goal (5), and the
theorem leaves it out as the property does.

Two changes of the model were needed: the assumption that the sorts of names are
sets that `None` is not in, and that a new name is any that nobody has instead of
the least.

*ResizableStorage*, under `StorageAssumption`, for any numbers of pointers and
objects, any memories and any bound on capacities, and under the hypothesis
`Careful`, without which it is false (5): `StorageInvariant` (`Spec => []SInv`)
and from it `StorageCorrect` (`Spec => []StorageIsSound`) and
`StorageImplementsSequences` (`Spec => ActsLikeSequences`).

*Argument.* `StorageIsSound` is nearly inductive; `SInv` states it of handles,
blocks, storage and objects as values (`Sound`), so that it can be said of the
state before a step, after it, and in the middle of `reset`, which releases
before it takes. Whatever an operation does, it changes one block, its owners
and their storage: `OneBlockKeeps` says that such a change keeps `Sound` if the
objects alive change with the elements of that block. Taking a new block
(`TakeKeeps`), changing the cells in place or at a new address (`ChangeKeeps`),
one more owner (`JoinKeeps`) and releasing (`ReleaseKeeps`) are cases of it.
Beside it stand lemmas on cells: what `Moved`, `Opened` and `Closed` leave of the
elements (`MovedHolds`, `OpenedHolds`, `ClosedHolds`), and a count that says
there is always a free address, block and object (`AddressIsFree`), since every
one in use has an owner of its own. `Careful` is needed where storage moves
(`ChangeKeeps` asks for one owner) and where arguments are read.

For the refinement the same lemmas say one thing more (`Gives`): what the owners
of that block see after the change, and that owners of others see what they saw
(`OneBlockGives`). So an operation is `Leave`, `Begin`, `Share`, `InsertAt` or
`RemoveAt` of `SharedSequences`, or no step of it where storage moves and nobody
sees it (`LeaveStep`, `BeginStep`, `InsertStep`, `RemoveStep`, `KeepStep`). The lemma
of each operation names its step with its position (`StepAsNamed` collects them),
so the theorem is about calls and not only about what some call may do. What
is left is that the shifts of cells are what their names say of sequences
(`GrownIsPutIn`, `ShrunkIsTakenOut`).

Here, too, what is taken next is any that is free instead of the least, and the
assumption says what `None` is not.

*LinkedPointers*, under `LinkedAssumption` (finitely many pointers and nodes) and
the hypothesis `KeepsSources`, which users have to see to (5):
`ReleasesComplete` (`SpecLinked => []ReleasesAreComplete`).

*Argument.* The invariant (`LinkedInv`) is that counts are owners, where a
pointer inside a node that is not there is null. What a release frees is a chain:
nodes that have one owner each, the one before. So the chain visits no node twice
(`ChainIsLinear`), `Cardinality(Nodes)` rounds are enough to get to its end
(`ChainIsWhole`), and a node that stays loses exactly the owners that were freed,
at most one (`ReleasedCounts`). That nothing but cycles leaks then needs no
history: a node that is there has an owner, the owner another, and of all nodes
that lead to the first one, one with the most nodes behind it has an owner with
as many, which lies in a cycle (`OnlyCyclesRemain`); or one comes to a root.
`Chain` and `Reached` are recursive functions of naturals. The library's induction
theorems take an operator, which the prover cannot instantiate; that a set of
naturals has a least element can be cited, and is enough (`LeastExists`,
`ByInduction`).

*ParallelReduce*, for any numbers of values and any sizes of groups under
`WordAssumption` and `SensibleCalls`: `ReductionCorrect`
(`Spec => []ReductionsAreSerial`, which includes the types). `SensibleCalls` leaves out what
is at odds with a comment (5): groups of one and the fallback. It also asks for
`3 * n < Word`: that is room for the layers, so the counters of
`parallel_op_n_mem` never wrap around.

*Argument.* The property speaks of the end; the invariant (`RInv`) must know the
whole pyramid. It names the layers `T` of the call, each with its size, the cell
it starts at and the input position at which each of its values begins. Layer
`k + 1` lies behind layer `k`, and its values begin at every `serial`-th value of
layer `k` (`Behind`), so that the only arithmetic is that the groups of one layer
cover it (`NumberOfGroups`, `PieceOf`). `Size` finds the
layers one at a time (`LayersGrow`), and `op_parallel_core` goes through the same
ones. `Computed` says which commands are done and which are given; the stream
holds those between in order (`InOrder`), the first perhaps in part, and the
layer it reads holds what `T` says, as does the part of the next that is done.
`UnitIsRight` is the step of one unit: its cells are inside the buffer and
filled, its values follow one another, and nobody else writes its result.
The model's values were sequences of positions before; what `+` makes of them is
now said without concatenation, whose laws would need induction over data.

*MemoryTransfer*, under `SensibleTransfers`, for any numbers of arrays, views and
leaves and any values and lengths, in any memories: `TransfersKeepOneOwner`
(`SpecTransfers => []TransfersAreSound`). `SensibleTransfers` leaves out the calls the
primitives are not sound for (5): pairs that are not alone in their array, views
by reference of memory in the device, `copy_data` to a target of another size.

*Argument.* `LeavesHeldOnce` counts members; the invariant (`TInv`) says the same
with sets, as who owns what is easier to follow: owners (arrays, and views that
copied their elements too) hold disjoint sets of leaves, no owner one of them
twice, and together they hold all there are (`Owned`). It adds that arrays have
room for whole elements and exactly the first `size` are constructed (`Built`),
and that what a view borrows from is there. Beside it stand the primitives, as
recursive functions over members: while `construct`, `transfer_internal_memory`
or the assignments of `copy_data` are at member `i`, those before it have new
leaves, each its own, in the memory asked for, those behind it what they had, and
what was given back is gone (`Passed`, kept by `PassedOneMore`); so they end with
new leaves for all (`ConstructWorks`, `InternalWorks`, `AssignAllWorks`), and
`transfer` leaves the source as it was (`TransferWorks`). Each call then is a
change to one owner: it holds other leaves (`OwnerChanges`), is gone with what it
held (`OwnerGoes`), or is another object now (`OwnerPasses`); the owners beside it
hold what they held, with what was in it.

The recursive functions of the model had steps written inside them; these are
operators now (`Made`, `Visit`, `Assigned`), so that lemmas can speak of them. And
the assumption says that an array is not a view.

*KernelRun*, for any limits of a device, boxes and teams of threads:
`DispatchVisitsOnce` (`SpecKernel => []KernelsVisitOnce`), under `DeviceAssumption`
(positive limits that an int holds), `TeamsAssumption` and `SensibleBoxes`. The
last one leaves out more items than an int holds (5), and, where more blocks are
needed than lie along x, those that fit one plane, for which `IvyCudaConfig.h:78`
leaves z at 0, and limits whose product no int holds. No device with 2^31 - 1
blocks along x gets there; for smaller ones it is a real restriction.

*Argument.* Grids are arithmetic of rounded quotients. A block has warps enough
for the items or as many threads as it can (`BlockFits`), a grid the least number
of blocks that holds the items (`NeededIs`), in no more layers than there are
(`GridFits`); no cast or product wraps around (`Narrow`). The index of
a thread is its place in mixed radix: no two threads have the same
(`PlacesDiffer`), and every index below the number of items has a thread
(`PlacesTaken`). The same facts about quotients show that the nested loops visit each index
of a box once (`LoopVisits`), and chunks of rounded-up size part them
(`ChunkIs`, `LoopParts`), the last ones perhaps empty. The
invariant (`KInv`) says that before the launch nothing has run, and that after it no two units have the
same index, in one lane or in two, and the body has run once for exactly the
indices of the box that no unit is left for (`Accounted`); the threads behind the
end of the box have indices outside it, which the guard skips. When no lane is
left, that is `EachIndexOnce`. For planes and boxes on the device only the types
are kept, since `EachIndexOnce` leaves them out: there it is false (5).

Two changes of the model made this provable: the number of items is a case per number of
extents instead of a fold, and a chunk is an operator.

*UnorderedMap*, under `MapAssumption` (finitely many maps and held iterators, keys
with a hash in `Nat`), for any keys, hashes, memories and sizes:
`ChainsListElements` (`Spec => []MapsListElements`), `HeldIteratorsReachTheirKey`
(`Spec => []HeldReachesKey`), `SteadyMapsKeepLayout` (`Spec => []SteadyLayout`) and
`SteadyMapsAreKeyed` (`Spec => SteadyActsAsKeyed`, the refinement of `KeyedMap`):
all that the run `containers` checks of maps.

*Argument.* The first two rest on `Good`: each map is `MapOk`, that is, buckets are
full to no more than their capacity, in storage of their own, and the chain is
an enumeration of the addresses of the elements (`Places`); and every iterator
that is neither null nor lost is at one of them, on the chain it came from, with
its key. An operation replaces a map by one that either has a chain of a
generation nobody knows (so `Told` sets what is held to null) or has kept every
address with its key (`Follows`, `Supersedes`). `AddressesList` says that going
through the buckets gives each address once, by induction over buckets.

The last two rest on `Layout`: no key twice, as many bucket slots as
`BucketSize` of the size asks for, no two buckets congruent modulo that number
and every element congruent to its bucket (`ByResidue`). It is stronger than
`SteadyLayout`, since `rehash` must be called exactly when the modulus changes. An
insertion into such a map never needs more buckets than there is room for, as
there are no more residues than slots (`RoomForResidue`), so the capacity stays
`BucketSize` of the size before it; if the size passes a square, `rehash` then
puts all elements one by one into empty buckets, under the new modulus
(`Rebuilt`, an induction over the elements in chain order). A key missed in its bucket is
in no other (`MissingIsNew`), and so the elements after an insertion are the
old ones with other keys, and the new one (`Settles`). `BucketSize` is an integer
square root defined by `CHOOSE`, so that it exists, is unique and grows has to be
shown first (`BucketSizeIs`, `BucketSizeGrows`).

For the refinement, what `find` gives for all keys is a function that the set of
elements determines (`MadeOf`, `MadeOnce`), so each action is a step of
`KeyedMap` because of what it does to that set (`Steps`).

Three changes of the model were needed: the folds of the library are recursive
functions of naturals now; a new name is any that nobody has instead of the
least; the kind of program is a variable that stays, instead of a choice of
actions by the run, so that the theorem and the run state the same property.

*Only model-checked*: liveness, which is beyond the prover; the other
refinements, that of `ArrayValues` among them; algorithms and tensors.
`ClientGraph`, `FunctionGraph` and what extends them have recursive operators over graphs and expressions, which
the prover does not take. Recursive functions of naturals can be reasoned about, by
least elements as in `MemoryProofs`; those of sequences and expressions,
and the folds of the library, cannot.

## 7. Not modelled

* *Code that cannot be compiled when used*: `erase` and the copies of maps
  (`IvyUnorderedMapImpl.h:472-578`, `:18-54`), the gradient and the complex
  overload of `Sqrt` (`IvyMathBaseArithmetic.h:124`, `:133`), `is_differentiable`
  and `conjugate` of tensors, move assignment of views.
* *Numerics*: rounding, the series of the Faddeeva function.
* *Autodiff*: logical operators, `Abs`, `Phase`; `eval_fcn` on pointers; copies
  and moves of functions; assignment of client managers; swapping shapes;
  transfers of tensors.
* *Memory*: `copy(T*, n)` and conversions of pointers between types; the paths of
  `copy_data` and of transfers that run kernels on arrays in device memory; what
  threads do to one array at the same time (only ownership is synchronised).
* *Containers*: the chain of const iterators, which gets the same calls; the
  branches that stage nodes of a chain in another memory space, which do the same
  in more steps; inserting a vector into itself.
* *Dispatch*: the queries of the device (constants here), kernels with index
  guards of their own.
* *Streams*: `elapsed_time`, the translation of flags and priorities, streams of
  a build without CUDA, which do nothing.
* Output iterators, `accumulate`, hashes, `minmax` of two values: expressions and
  plain loops. Traits, aliases and macros have no state. Tests and drivers are
  used for what they say of the library.
