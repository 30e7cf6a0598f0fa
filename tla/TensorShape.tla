----------------------------- MODULE TensorShape -----------------------------
(***************************************************************************)
(* IvyTensorShape: the rank, the extents and the cached number of elements *)
(* of a tensor, and the index arithmetic on them.  A shape is a record     *)
(* [rank, dims, nel]; axes are numbered from 1, indices and elements from  *)
(* 0.  What the code only reports (__PRINT_ERROR__) and then goes on with  *)
(* is computed here as well: the guards are the caller's.                  *)
(***************************************************************************)
EXTENDS Integers, Sequences, FiniteSets, SequencesExt

Product(dims) ==
  LET product[k \in 0 .. Len(dims)] == IF k = 0 THEN 1 ELSE product[k - 1] * dims[k]
  IN product[Len(dims)]

NumElements(dims) == IF dims = << >> THEN 0 ELSE Product(dims)

Shape(dims) == [rank |-> Len(dims), dims |-> dims, nel |-> NumElements(dims)]

NoShape == [rank |-> 0, dims |-> << >>, nel |-> 0]

\* A shape that was moved from keeps rank_ and nel.
MovedFrom(s) == [s EXCEPT !.dims = << >>]

-----------------------------------------------------------------------------

(* get_abs_index.  Fewer indices than axes give the first element of the   *)
(* block they select.                                                      *)
AbsIndex(s, indices) ==
  LET nel_tmp[k \in 0 .. Len(indices)] ==
        IF k = 0 THEN s.nel ELSE nel_tmp[k - 1] \div s.dims[k]
      res[k \in 0 .. Len(indices)] ==
        IF k = 0 THEN 0 ELSE res[k - 1] + nel_tmp[k] * indices[k]
  IN res[Len(indices)]

\* The index tuples of the given extents; signed ones may count from the back.
IndexTuples(dims, signed) ==
  LET Allowed(k) == (IF signed THEN -dims[k] ELSE 0) .. (dims[k] - 1)
  IN {ix \in [DOMAIN dims -> UNION {Allowed(k) : k \in DOMAIN dims}] :
        \A k \in DOMAIN dims : ix[k] \in Allowed(k)}

\* while (idx<0) idx += *it_dim
FromBack(idx, dim) == IF idx < 0 THEN idx % dim ELSE idx

AbsIndexSigned(s, indices) ==
  AbsIndex(s, [k \in 1 .. Len(indices) |-> FromBack(indices[k], s.dims[k])])

-----------------------------------------------------------------------------
(* reshape.                                                                *)
Wildcard == -1

\* What the code accepts without a message.
MayReshape(s, newDims) ==
  LET wild == {k \in DOMAIN newDims : newDims[k] = Wildcard}
      rest == Product(SelectSeq(newDims, LAMBDA d : d # Wildcard))
  IN /\ \A k \in DOMAIN newDims \ wild : newDims[k] > 0
     /\ IF wild = {} THEN rest = s.nel
        ELSE Cardinality(wild) = 1 /\ s.nel % rest = 0

\* The wildcard is stored as 0; only the first 0 is filled in afterwards.
Inferred(s, newDims) ==
  LET rest    == Product(SelectSeq(newDims, LAMBDA d : d # Wildcard))
      isFirst == SelectInSeq(newDims, LAMBDA d : d = Wildcard)
  IN [k \in DOMAIN newDims |-> IF newDims[k] # Wildcard THEN newDims[k]
                               ELSE IF k = isFirst THEN s.nel \div rest ELSE 0]

Reshaped(s, newDims) ==
  [s EXCEPT !.rank = Len(newDims), !.dims = Inferred(s, newDims)]

ReshapedLike(s, t) == [s EXCEPT !.rank = t.rank, !.dims = t.dims]

-----------------------------------------------------------------------------
(* get_reordered_index_map: axis iax of the reordered tensor is axis       *)
(* reordAx[iax] of s; the result leads from an element of the reordered    *)
(* tensor to the element of s it shows.                                    *)
AxisOf(reordAx, axis) == CHOOSE iax \in DOMAIN reordAx : reordAx[iax] = axis

ReorderedIndexMap(s, reordAx) ==
  LET dims == [iax \in 1 .. s.rank |-> s.dims[reordAx[iax]]]
      nels[iax \in 0 .. s.rank] ==
        IF iax = 0 THEN s.nel ELSE nels[iax - 1] \div dims[iax]
      idxs(i) == [axis \in 1 .. s.rank |->
                    LET iax == AxisOf(reordAx, axis)
                    IN (i \div nels[iax]) % dims[iax]]
  IN [i \in 0 .. (s.nel - 1) |-> AbsIndex(s, idxs(i))]

-----------------------------------------------------------------------------
(* get_slice_shape and get_contraction_shape.                              *)
Axes(s) == 1 .. s.rank

AxesWithout(s, axes) == SelectSeq([k \in Axes(s) |-> k], LAMBDA k : k \notin axes)

DimsOf(s, axes) == [k \in DOMAIN axes |-> s.dims[axes[k]]]

SliceShape(s, axes) == Shape(DimsOf(s, AxesWithout(s, axes)))

Firsts(pairs)  == [k \in DOMAIN pairs |-> pairs[k][1]]
Seconds(pairs) == [k \in DOMAIN pairs |-> pairs[k][2]]

\* Mutant: the contracted axes of s2 come first in its reordering.
ContractionFirst(s1, s2, pairs) ==
  LET open1 == AxesWithout(s1, Range(Firsts(pairs)))
      open2 == AxesWithout(s2, Range(Seconds(pairs)))
  IN [shape  |-> Shape(DimsOf(s1, open1) \o DimsOf(s2, open2)),
      nel1   |-> Product(DimsOf(s1, open1)),
      nel2   |-> Product(DimsOf(s2, open2)),
      reord1 |-> ReorderedIndexMap(s1, open1 \o Firsts(pairs)),
      reord2 |-> ReorderedIndexMap(s2, Seconds(pairs) \o open2)]

\* The code multiplies the uncontracted extents up from 1.
Contraction(s1, s2, pairs) ==
  LET open1 == AxesWithout(s1, Range(Firsts(pairs)))
      open2 == AxesWithout(s2, Range(Seconds(pairs)))
  IN [shape  |-> Shape(DimsOf(s1, open1) \o DimsOf(s2, open2)),
      nel1   |-> Product(DimsOf(s1, open1)),
      nel2   |-> Product(DimsOf(s2, open2)),
      reord1 |-> ReorderedIndexMap(s1, open1 \o Firsts(pairs)),
      reord2 |-> ReorderedIndexMap(s2, open2 \o Seconds(pairs))]
=============================================================================
