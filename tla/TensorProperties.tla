--------------------------- MODULE TensorProperties ---------------------------
(***************************************************************************)
(* What makes tensors correct: the cached number of elements, the block of *)
(* elements and the index arithmetic agree after every sequence of         *)
(* operations, and a tensor behaves as a sequence of values of its own.    *)
(***************************************************************************)
EXTENDS Tensor, FiniteSetsExt

\* Types of all state.
TypeOK ==
  /\ shape \in [Live -> [rank : Nat, dims : Seq(Nat), nel : Nat]]
  /\ data \in [Live -> Blocks \cup {Null}]
  /\ modified \in [Live -> BOOLEAN]
  /\ Live \subseteq Tensors /\ DOMAIN heap \subseteq Blocks
  /\ \A b \in DOMAIN heap : \A i \in DOMAIN heap[b] : heap[b][i] \in Values
  /\ ops \in 0 .. MaxOps

Whole == {t \in Live : Indexable(shape[t])}

\* num_elements() of a tensor that was not moved from is the product of its
\* extents, and its block has that many elements: no index that the shape
\* admits leaves the block (IvyTensor::operator[], at).
DataFillsShape ==
  \A t \in Whole : /\ shape[t].nel = Product(shape[t].dims)
                   /\ data[t] # Null
                   /\ DOMAIN heap[data[t]] = 0 .. (shape[t].nel - 1)

\* A block belongs to one tensor and is allocated: copies are deep, moves
\* leave nothing behind (copy_data, IvyTensor(IvyTensor&&)).
BlocksAreOwnedOnce ==
  \A t \in Live : data[t] # Null =>
    /\ data[t] \in DOMAIN heap
    /\ \A u \in Live \ {t} : data[u] # data[t]

-----------------------------------------------------------------------------
(* The index arithmetic, on the shapes that are reached.                   *)
Precedes(ix, iy) ==
  \E k \in DOMAIN ix : ix[k] < iy[k] /\ \A j \in 1 .. (k - 1) : ix[j] = iy[j]

\* get_abs_index numbers the elements without gaps in lexicographic order of
\* their indices; an index from the back names the same element; an
\* incomplete index names the first element of its block.
IndicesAreRowMajor ==
  \A t \in Whole :
    LET s   == shape[t]
        all == IndexTuples(s.dims, FALSE)
    IN /\ {AbsIndex(s, ix) : ix \in all} = 0 .. (s.nel - 1)
       /\ \A ix, iy \in all : Precedes(ix, iy) => AbsIndex(s, ix) < AbsIndex(s, iy)
       /\ \A ix \in all : \A back \in SUBSET DOMAIN ix :
            AbsIndexSigned(s, [k \in DOMAIN ix |-> IF k \in back THEN ix[k] - s.dims[k]
                                                   ELSE ix[k]]) = AbsIndex(s, ix)
       /\ \A ix \in all : \A k \in 1 .. s.rank :
            (\A j \in (k + 1) .. s.rank : ix[j] = 0)
              => AbsIndex(s, SubSeq(ix, 1, k)) = AbsIndex(s, ix)

Orders(s) == {p \in [Axes(s) -> Axes(s)] : Range(p) = Axes(s)}

Permuted(s, p) == Shape([k \in Axes(s) |-> s.dims[p[k]]])

\* get_reordered_index_map shows every element once and at the permuted
\* indices, and reordering twice is reordering by the composed order.
ReorderingTransposes ==
  \A t \in Whole :
    LET s == shape[t]
        map == [p \in Orders(s) |-> ReorderedIndexMap(s, p)]
        Twice(p, q) == LET second == ReorderedIndexMap(Permuted(s, p), q)
                       IN [i \in 0 .. (s.nel - 1) |-> map[p][second[i]]]
    IN /\ \A p \in Orders(s) : Range(map[p]) = 0 .. (s.nel - 1)
       /\ \A p \in Orders(s) :
         LET new == Permuted(s, p)
             At(ix) == AbsIndex(new, [k \in Axes(s) |-> ix[p[k]]])
         IN /\ \A ix \in IndexTuples(s.dims, FALSE) : map[p][At(ix)] = AbsIndex(s, ix)
            /\ \A q \in Orders(s) : map[[k \in Axes(s) |-> p[q[k]]]] = Twice(p, q)

\* The slices along some of the axes divide the elements of the tensor evenly
\* among the positions on those axes (get_slice_shape).
SlicesPartition ==
  \A t \in Whole : \A axes \in SUBSET Axes(shape[t]) :
    axes # Axes(shape[t]) =>
      LET slice == SliceShape(shape[t], axes)
      IN /\ slice.rank = shape[t].rank - Cardinality(axes)
         /\ slice.nel * Cardinality(IndexTuples(DimsOf(shape[t], SelectSeq([k \in Axes(shape[t]) |-> k], LAMBDA k : k \in axes)), FALSE))
              = shape[t].nel

-----------------------------------------------------------------------------
(* Contractions of two tensors.                                            *)

\* Lists of one or two pairs of axes of equal extent, no axis twice.
AxisPairs(s1, s2) ==
  LET one == {p \in Axes(s1) \X Axes(s2) : s1.dims[p[1]] = s2.dims[p[2]]}
  IN {<<p>> : p \in one}
     \cup {pq \in one \X one : pq[1][1] # pq[2][1] /\ pq[1][2] # pq[2][2]}

Agree(ix, iy, pairs) == \A k \in DOMAIN pairs : ix[pairs[k][1]] = iy[pairs[k][2]]

IndicesOn(open, ix) == [k \in DOMAIN open |-> ix[open[k]]]

\* Pairs of elements that meet in element e of the product of the matrices
\* [nel1, inner] and [nel2, inner] that the two maps make of the tensors.
Meeting(c, inner, e) ==
  {<<c.reord1[(e \div c.nel2) * inner + k], c.reord2[(e % c.nel2) * inner + k]>> :
     k \in 0 .. (inner - 1)}

\* Element e of the result sums over exactly the pairs of elements whose
\* indices agree on the contracted axes and are those of e on the others,
\* the axes of s1 before those of s2, in order (get_contraction_shape).
ContractionMultiplies ==
  \A t, u \in Whole : \A pairs \in AxisPairs(shape[t], shape[u]) :
    LET s1 == shape[t]
        s2 == shape[u]
        c  == Contraction(s1, s2, pairs)
        inner == s1.nel \div c.nel1
        meeting == [e \in 0 .. (c.shape.nel - 1) |-> Meeting(c, inner, e)]
        open1 == AxesWithout(s1, Range(Firsts(pairs)))
        open2 == AxesWithout(s2, Range(Seconds(pairs)))
    IN c.shape.rank > 0 =>
         /\ c.shape.nel = c.nel1 * c.nel2
         /\ \A e \in DOMAIN meeting : Cardinality(meeting[e]) = inner
         /\ \A ix \in IndexTuples(s1.dims, FALSE), iy \in IndexTuples(s2.dims, FALSE) :
              Agree(ix, iy, pairs) =>
                <<AbsIndex(s1, ix), AbsIndex(s2, iy)>> \in
                  meeting[AbsIndex(c.shape, IndicesOn(open1, ix) \o IndicesOn(open2, iy))]

-----------------------------------------------------------------------------
(* The tensor as a sequence of values.                                     *)
Contents(t) ==
  IF data[t] = Null THEN << >>
  ELSE [k \in 1 .. Cardinality(DOMAIN heap[data[t]]) |-> heap[data[t]][k - 1]]

Abstract == INSTANCE TensorValues WITH
  contents    <- [t \in Live |-> Contents(t)],
  MaxElements <- Max({NumElements(d) : d \in Dims})

\* A tensor is a sequence of values of its own: no write shows in a copy, a
\* move empties the source, reshape changes nothing.
ActsLikeValues == Abstract!Spec

\* A tensor whose elements change in place is flagged for recomputation; one
\* that takes another's elements takes over its flag or is flagged; reshaping
\* changes neither (operator[], operator=, reshape).
FlagsChanges ==
  \A t \in Live \cap DOMAIN shape' :
    /\ Contents(t)' \notin {Contents(t), << >>}
         => modified'[t] \/ \E u \in Live \ {t} : Contents(t)' = Contents(u)
                                               /\ modified'[t] = modified[u]
    /\ shape'[t].dims # shape[t].dims /\ data'[t] = data[t] => modified'[t] = modified[t]

ChangesAreFlagged == [][FlagsChanges]_vars

-----------------------------------------------------------------------------
(* What the comments say and the code does not do.                         *)

\* "Cached number of elements" (IvyTensorShape.hh, nel): the cache agrees with
\* the extents it was computed from.  A move empties the extents only.
CacheIsCurrent == \A t \in Live : shape[t].nel = NumElements(shape[t].dims)

\* "Get the total number of elements, i.e., product of the elements of the
\* 'dims' vector" (IvyTensorShape.hh, num_elements): the contraction of all
\* axes leaves nel1 * nel2 = 1 element, but a shape without axes has none.
ContractionCounts ==
  \A t, u \in Whole : \A pairs \in AxisPairs(shape[t], shape[u]) :
    LET c == Contraction(shape[t], shape[u], pairs)
    IN c.shape.nel = Product(c.shape.dims)

\* "Destructor releasing managed resources according to ownership policy"
\* (IvyUnifiedPtr.hh): every allocated block is the data of a tensor.  A copy
\* assignment overwrites data_ without releasing it.
BlocksAreHeld == DOMAIN heap \subseteq {data[t] : t \in Live}
=============================================================================
