----------------------- MODULE FunctionGraphProperties -----------------------
(***************************************************************************)
(* What the gradient of a function should be: the derivative of the value  *)
(* the function itself computes.                                           *)
(***************************************************************************)
EXTENDS FunctionGraph

CONSTANTS Points    \* values of the variables the functions are compared at

\* The variables at a point, moving along one of them.
At(pt, n) == [m \in Variables |-> IF m = n THEN Moving(pt[m]) ELSE Steady(pt[m])]

Known1D == {"Negate", "MultInverse", "Exp", "Log", "Log10", "Sin", "Cos", "Tan", "Sec",
            "Csc", "Cot", "SinH", "CosH", "Erf", "Erfc", "Faddeeva", "ErfFast",
            "ErfcFast", "FaddeevaFast"}
Known2D == {"Add", "Subtract", "Multiply", "Divide", "Pow"}

RECURSIVE WellFormed(_)
WellFormed(e) ==
  /\ \/ e.args = <<>> /\ e.op \in Variables \cup {"Constant"}
     \/ Len(e.args) = 1 /\ e.op \in Known1D
     \/ Len(e.args) = 2 /\ e.op \in Known2D
  /\ e.val \in Field
  /\ \A i \in 1 .. Len(e.args) : WellFormed(e.args[i])

\* Every node has an evaluator and the operands it expects, those of
\* gradients included.
TypeOK ==
  /\ built \in 0 .. MaxBuilt
  /\ gradients \in 0 .. MaxGradients
  /\ WellFormed(fcn)

\* What the code computes for the gradient along n, and what it should be.
Computed(e, n, pt)   == Value(Gradient(e, Variable(n)), At(pt, n))[1]
Derivative(e, n, pt) == Value(e, At(pt, n))[2]

AgreesAt(e, n, pt) ==
  LET d == Derivative(e, n, pt)
  IN  d # NaN => Computed(e, n, pt) \in {NaN, d}

-----------------------------------------------------------------------------
\* No function of one operand is applied to a function.
RECURSIVE Flat(_)
Flat(e) ==
  /\ Is1D(e) => ~ IsFunction(e.args[1])
  /\ \A i \in 1 .. Len(e.args) : Flat(e.args[i])

\* Sums, differences, products, quotients and powers of functions, however
\* nested, have the gradient their own evaluation has as derivative
\* (IvyRegularFunction_2D::gradient, and the gradients of gradients it makes).
NestedBinaryGradient ==
  IsFunction(fcn) /\ Flat(fcn) =>
    \A n \in Variables, pt \in Points : AgreesAt(fcn, n, pt)

\* What the evaluator of one operand puts into a gradient is the derivative
\* of its operation where the operand is, be the operand a leaf or a function
\* of the leaves (Evaluator::gradient of every function).  Nothing is said of
\* what the operand itself contributes to the gradient.
EvaluatorsDerive ==
  IsFunction(fcn) /\ Is1D(fcn) =>
    \A pt \in Points :
      LET operand == fcn.args[1]
          at      == [m \in Variables |-> Steady(pt[m])]
          x       == Value(operand, at)[1]
          d       == Eval1D(fcn.op, Moving(x))[2]
      IN  x # NaN /\ d # NaN => Value(Gradient1D(fcn.op, operand), at)[1] \in {NaN, d}

\* Where every function of a tree has a derivative and no power is involved,
\* its gradient is defined as well: it divides by nothing else.
RECURSIVE UsesPow(_)
UsesPow(e) == e.op = "Pow" \/ \E i \in 1 .. Len(e.args) : UsesPow(e.args[i])

GradientDefined ==
  IsFunction(fcn) /\ ~ UsesPow(fcn) =>
    \A n \in Variables, pt \in Points :
      Derivative(fcn, n, pt) # NaN => Computed(fcn, n, pt) # NaN

-----------------------------------------------------------------------------
\* The gradient of any function is its derivative: the chain rule for
\* functions of one operand as well ("Function gradient implementation",
\* IvyFunction.h:100).
ChainRule ==
  IsFunction(fcn) => \A n \in Variables, pt \in Points : AgreesAt(fcn, n, pt)

\* run_tests_autodiff.cc sets cplx*cplx*cplx and Pow(cplx, 3) and their
\* gradients side by side: where one has a gradient, so has the other.
Cube(x) == Multiply(Multiply(x, x), x)

CubesAgree ==
  \A n \in Variables, pt \in Points :
    LET x == Variable(n)
    IN  fcn = Pow(x, Constant(3)) => Computed(fcn, n, pt) = Computed(Cube(x), n, pt)

=============================================================================
