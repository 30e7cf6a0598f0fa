-------------------------------- MODULE Tensor --------------------------------
(***************************************************************************)
(* IvyTensor with elements of a plain type: a shape and a unique pointer   *)
(* to one block of elements.  Every operation on the tensor is a handler:  *)
(* construction, copies and moves, assignment of one value to all          *)
(* elements, access to an element and reshape.  The shape and the block    *)
(* are kept apart by the code and have to be kept in step by it.           *)
(***************************************************************************)
EXTENDS TensorShape, TLC

CONSTANTS Tensors,   \* tensor objects of the user
          Blocks,    \* addresses of blocks of elements
          Values,    \* values of an element
          Dims,      \* extents tensors are constructed with
          NewDims,   \* arguments of reshape
          Null,      \* the null pointer
          MaxOps     \* bound: operations the user applies

DimsAssumption ==
  /\ \A d \in Dims : d \in Seq(Nat \ {0})
  /\ \A d \in NewDims : d \in Seq((Nat \ {0}) \cup {Wildcard})

VARIABLES shape,      \* shape_ of the live tensors
          data,       \* data_: a block or Null
          modified,   \* is_modified_
          heap,       \* the elements of the allocated blocks
          ops         \* operations applied so far

vars == <<shape, data, modified, heap, ops>>

Live == DOMAIN shape

Step == ops < MaxOps /\ ops' = ops + 1

Fresh == Blocks \ DOMAIN heap

Without(f, x) == [y \in DOMAIN f \ {x} |-> f[y]]

Freed(h, b) == IF b = Null THEN h ELSE Without(h, b)

\* A moved-from tensor has no elements to index.
Indexable(s) == s.dims # << >> /\ Len(s.dims) = s.rank

-----------------------------------------------------------------------------
(* make_unique<dtype_t>(num_elements(), ..., v) assigned to data_ of t: a  *)
(* block of n elements, none for n = 0; the block h of the tensor is freed *)
(* by the move assignment.                                                 *)
BuildData(t, n, v, h) ==
  IF n = 0 THEN data' = (t :> Null) @@ data /\ heap' = h
  ELSE \E b \in Fresh : /\ data' = (t :> b) @@ data
                        /\ heap' = (b :> [i \in 0 .. (n - 1) |-> v]) @@ h

\* Mutant: the pointer is copied, not what it points to.
CopyDataShallow(t, u) ==
  /\ data' = (t :> data[u]) @@ data
  /\ modified' = (t :> modified[u]) @@ modified
  /\ UNCHANGED heap

\* copy_data: transfer writes a deep copy over data_; what data_ held before
\* is neither read nor freed.
CopyData(t, u) ==
  /\ IF data[u] = Null THEN data' = (t :> Null) @@ data /\ heap' = heap
     ELSE \E b \in Fresh : /\ data' = (t :> b) @@ data
                           /\ heap' = (b :> heap[data[u]]) @@ heap
  /\ modified' = (t :> modified[u]) @@ modified

Init == /\ shape = [t \in {} |-> NoShape]
        /\ data = [t \in {} |-> Null]
        /\ modified = [t \in {} |-> TRUE]
        /\ heap = [b \in {} |-> << >>]
        /\ ops = 0

Construct(t) ==
  /\ Step /\ t \notin Live
  /\ \E d \in Dims, v \in Values :
       /\ shape' = (t :> Shape(d)) @@ shape
       /\ BuildData(t, NumElements(d), v, heap)
  /\ modified' = (t :> TRUE) @@ modified

Default(t) ==
  /\ Step /\ t \notin Live
  /\ shape' = (t :> NoShape) @@ shape
  /\ data' = (t :> Null) @@ data
  /\ modified' = (t :> TRUE) @@ modified
  /\ UNCHANGED heap

\* IvyTensor(IvyTensor const&) and operator=(IvyTensor const&): the same
\* work, on a new object or over an old one.
Copy(t, u) ==
  /\ Step /\ u \in Live
  /\ shape' = (t :> shape[u]) @@ shape
  /\ CopyData(t, u)

MoveConstruct(t, u) ==
  /\ Step /\ t \notin Live /\ u \in Live
  /\ shape' = (t :> shape[u]) @@ (u :> MovedFrom(shape[u])) @@ shape
  /\ data' = (t :> data[u]) @@ (u :> Null) @@ data
  /\ modified' = (t :> TRUE) @@ modified
  /\ UNCHANGED heap

\* Mutant: the two tensors swap their blocks.
MoveAssignSwapped(t, u) ==
  /\ Step /\ {t, u} \subseteq Live /\ t # u
  /\ shape' = [shape EXCEPT ![t] = shape[u], ![u] = shape[t]]
  /\ data' = [data EXCEPT ![t] = data[u], ![u] = data[t]]
  /\ modified' = [modified EXCEPT ![t] = modified[u]]
  /\ UNCHANGED heap

MoveAssign(t, u) ==
  /\ Step /\ {t, u} \subseteq Live /\ t # u
  /\ shape' = [shape EXCEPT ![t] = shape[u], ![u] = MovedFrom(shape[u])]
  /\ data' = [data EXCEPT ![t] = data[u], ![u] = Null]
  /\ heap' = Freed(heap, data[t])
  /\ modified' = [modified EXCEPT ![t] = modified[u]]

\* operator=(T const&): one value for all elements.
Fill(t) ==
  /\ Step /\ t \in Live
  /\ \E v \in Values : BuildData(t, shape[t].nel, v, Freed(heap, data[t]))
  /\ modified' = [modified EXCEPT ![t] = TRUE]
  /\ UNCHANGED shape

\* at(indices) = v and operator[], with indices the caller has to keep in
\* range; negative ones count from the back.
Write(t) ==
  /\ Step /\ t \in Live /\ Indexable(shape[t])
  /\ \E indices \in IndexTuples(shape[t].dims, TRUE), v \in Values :
       heap' = [heap EXCEPT ![data[t]][AbsIndexSigned(shape[t], indices)] = v]
  /\ modified' = [modified EXCEPT ![t] = TRUE]
  /\ UNCHANGED <<shape, data>>

\* reshape does not touch the elements nor the modified flag.
Reshape(t) ==
  /\ Step /\ t \in Live /\ Indexable(shape[t])
  /\ \E d \in NewDims : /\ MayReshape(shape[t], d)
                        /\ shape' = [shape EXCEPT ![t] = Reshaped(@, d)]
  /\ UNCHANGED <<data, modified, heap>>

ReshapeLike(t, u) ==
  /\ Step /\ {t, u} \subseteq Live
  /\ Indexable(shape[t]) /\ Indexable(shape[u]) /\ shape[t].nel = shape[u].nel
  /\ shape' = [shape EXCEPT ![t] = ReshapedLike(@, shape[u])]
  /\ UNCHANGED <<data, modified, heap>>

\* IvyMath::reshape: a copy, reshaped.
ReshapedCopy(t, u) ==
  /\ Step /\ t \notin Live /\ u \in Live /\ Indexable(shape[u])
  /\ \E d \in NewDims : /\ MayReshape(shape[u], d)
                        /\ shape' = (t :> Reshaped(shape[u], d)) @@ shape
  /\ CopyData(t, u)

Destroy(t) ==
  /\ Step /\ t \in Live
  /\ shape' = Without(shape, t)
  /\ data' = Without(data, t)
  /\ modified' = Without(modified, t)
  /\ heap' = Freed(heap, data[t])

SetModified(t, flag) ==
  /\ Step /\ t \in Live
  /\ modified' = [modified EXCEPT ![t] = flag]
  /\ UNCHANGED <<shape, data, heap>>

Next ==
  \E t \in Tensors :
    \/ Construct(t) \/ Default(t) \/ Fill(t) \/ Write(t) \/ Reshape(t) \/ Destroy(t)
    \/ \E flag \in BOOLEAN : SetModified(t, flag)
    \/ \E u \in Tensors : \/ Copy(t, u) \/ MoveConstruct(t, u) \/ MoveAssign(t, u)
                          \/ ReshapeLike(t, u) \/ ReshapedCopy(t, u)

Spec == Init /\ [][Next]_vars
=============================================================================
