----------------------------- MODULE MCFunctions -----------------------------
(***************************************************************************)
(* Autodiff functions for TLC, over the field of 13 elements, where 5 is a *)
(* square root of -1 and exponentials are powers of 2: functions of        *)
(* two operations of all kinds, functions of three of few kinds, and the   *)
(* evaluators on values of different domains, which turn by powers of 6.   *)
(* Tensors: the index arithmetic on the shapes of four and six elements,   *)
(* and three small tensors under all operations.                           *)
(* A behaviour is about one of them.                                       *)
(***************************************************************************)
EXTENDS FunctionGraphProperties, FiniteSets, Functions

CONSTANTS Tensors, Blocks, Null

VARIABLES used, left, right, call, result,
          shape, data, modified, heap, ops

Units == 1 .. 12

\* Both signs, zero, and pairs that tell x from y.
ThePoints == {[x |-> 9, y |-> 5], [x |-> 0, y |-> 11]}

Evaluators == INSTANCE ComplexValues WITH
  Turn <- 6, Pi <- 6, Parts <- -1 .. 2, Norms <- 0 .. 2, Angles <- -2 .. 2,
  x <- left, y <- right

ASSUME Evaluators!TurnAssumption

\* -1 is the wildcard of reshape.
Shapes == INSTANCE TensorProperties WITH
  Values <- {0}, MaxOps <- 3, Dims <- {<<4>>, <<6>>, <<2, 3>>},
  NewDims <- {<<-1>>, <<2, -1>>, <<3, 1, -1>>, <<1, 2, 3>>, <<2, 1, 2>>, <<-1, 3, -1>>, <<2, 2>>}

Elements == INSTANCE TensorProperties WITH
  Values <- {0, 1}, MaxOps <- 5, Dims <- {<<2>>, <<2, 1>>}, NewDims <- {<<-1, 2>>, <<2>>}

ASSUME Shapes!DimsAssumption /\ Elements!DimsAssumption

tensors == <<shape, data, modified, heap, ops>>
values == <<left, right, call, result>>
everything == <<vars, used, values, tensors>>

Nothing == Evaluators!Number(0)
NoFunction == fcn = Constant(0) /\ built = 0 /\ gradients = 0
NoValues == left = Nothing /\ right = Nothing /\ call = "none" /\ result = Nothing

InitFunctions ==
  /\ Elements!Init
  /\ \/ /\ used \in {"all", "few"} /\ Init
        /\ used = "few" => fcn.op # "Constant"
        /\ NoValues
     \/ used = "values" /\ Evaluators!Init /\ NoFunction
     \/ used \in {"shapes", "elements"} /\ NoFunction /\ NoValues

NextFunctions ==
  /\ UNCHANGED used
  /\ \/ used = "all" /\ Next /\ built' <= 2 /\ UNCHANGED <<values, tensors>>
     \/ /\ used = "few"
        /\ Calls({"Exp"}, {"Multiply", "Divide"}, {Variable(n) : n \in Variables})
        /\ UNCHANGED <<values, tensors>>
     \/ used = "values" /\ Evaluators!Next /\ UNCHANGED <<vars, tensors>>
     \/ /\ used = "shapes"
        /\ Shapes!Next /\ Cardinality(DOMAIN shape') <= 2
        /\ UNCHANGED <<vars, values>>
     \/ used = "elements" /\ Elements!Next /\ UNCHANGED <<vars, values>>

SpecFunctions == InitFunctions /\ [][NextFunctions]_everything

\* The index arithmetic looks at the shapes alone; every operation finds a
\* fresh block, so the rest of the state does not restrict the shapes.  The
\* names of tensors and of blocks are interchangeable.
Counted(f) == [v \in Range(f) |-> Cardinality({t \in DOMAIN f : f[t] = v})]

Tensorial ==
  IF used = "shapes" THEN Counted(shape)
  ELSE <<Counted([t \in DOMAIN shape |->
                    <<shape[t], modified[t],
                      IF data[t] \in DOMAIN heap THEN heap[data[t]] ELSE << >>>>]),
         Cardinality(DOMAIN heap), Cardinality(Range(data))>>

Seen == <<used, vars, values, Tensorial, ops>>
-----------------------------------------------------------------------------
\* The gradient of a function is its derivative, where no operation of one
\* operand is applied to a function; what an operation of one operand puts
\* into a gradient is its derivative, whatever it is applied to; and where the
\* derivative of a function of two operations is defined, so is its gradient.
GradientsAreDerivatives ==
  TypeOK /\ NestedBinaryGradient /\ EvaluatorsDerive /\ (used = "all" => GradientDefined)

\* Overloads for different domains return the same number, the complex ones
\* are the functions they are named for, and all comparisons are those of one
\* preorder.
EvaluatorsAgree ==
  /\ used = "values" => Evaluators!TypeOK
  /\ Evaluators!DomainsAgree /\ Evaluators!FunctionsAgree /\ Evaluators!OrderCoherent

\* get_abs_index counts the elements in lexicographic order of the indices, a
\* reordered tensor shows each element at its permuted indices, slices divide
\* a tensor evenly, and an element of a contraction sums over the pairs that
\* agree on the contracted axes, in order.
IndicesAgree ==
  used = "shapes" =>
    /\ Shapes!IndicesAreRowMajor /\ Shapes!ReorderingTransposes
    /\ Shapes!SlicesPartition /\ Shapes!ContractionMultiplies

\* The block of a tensor is its own and has an element for each index.
TensorsOwnTheirData ==
  /\ IF used = "shapes" THEN Shapes!TypeOK ELSE Elements!TypeOK
  /\ Elements!DataFillsShape /\ Elements!BlocksAreOwnedOnce

\* A tensor is a sequence of values of its own, elements that change in place
\* are flagged, and reshaping flags nothing.
TensorsActLikeValues ==
  /\ Elements!Abstract!Init
  /\ [][used = "elements" => [Elements!Abstract!Next]_(Elements!Abstract!vars)]_everything
  /\ [][Elements!FlagsChanges]_everything
=============================================================================
