---------------------------- MODULE FunctionGraph ----------------------------
(***************************************************************************)
(* Functions of the autodiff module (autodiff/basic_nodes/IvyFunction.h    *)
(* and autodiff/arithmetic/): nodes that hold the operands they were built *)
(* from, evaluate themselves from the values of the operands, and build    *)
(* new functions for their gradients.                                      *)
(*                                                                         *)
(* A node is a record: the operation, the operands, and the value of a     *)
(* constant.  A function never changes the operands it was built with, so  *)
(* a node is the expression it stands for; whether a cached output is up   *)
(* to date is the matter of ClientGraph.  <Op>Eval is Evaluator::eval over *)
(* dual numbers (see PrimeField) and <Op>Gradient is Evaluator::gradient,  *)
(* which returns a node.  The real and the complex overloads of an         *)
(* operation build the same gradient; where their eval differ the complex  *)
(* formula is the one taken, the real one being the function of the C++    *)
(* library it specialises to.                                              *)
(***************************************************************************)
EXTENDS PrimeField

CONSTANTS TwoOverSqrtPi, LogTen,   \* constants of IvyMathConstOps.h, as units
          Variables,               \* the names of the variable leaves
          Literals,                \* values of the constant leaves in use
          Unaries, Binaries,       \* the operations in use
          MaxBuilt,                \* bound: functions built on the way to one
          MaxGradients             \* bound: gradients taken on the way to one

VARIABLES fcn,        \* the function a client holds
          built,      \* how many functions it is made of
          gradients   \* how often a gradient was taken on the way

vars == <<fcn, built, gradients>>

-----------------------------------------------------------------------------
(* Nodes.                                                                  *)
Variable(n)      == [op |-> n, args |-> <<>>, val |-> 0]
Constant(c)      == [op |-> "Constant", args |-> <<>>, val |-> c % P]
Function1D(f, x) == [op |-> f, args |-> <<x>>, val |-> 0]
Function2D(f, x, y) == [op |-> f, args |-> <<x, y>>, val |-> 0]

IsFunction(e) == e.args # <<>>
Is1D(e)       == Len(e.args) = 1

Negate(x)      == Function1D("Negate", x)
MultInverse(x) == Function1D("MultInverse", x)
Exp(x)         == Function1D("Exp", x)
Log(x)         == Function1D("Log", x)
Add(x, y)      == Function2D("Add", x, y)
Subtract(x, y) == Function2D("Subtract", x, y)
Multiply(x, y) == Function2D("Multiply", x, y)
Divide(x, y)   == Function2D("Divide", x, y)
Pow(x, y)      == Function2D("Pow", x, y)

-----------------------------------------------------------------------------
(* Evaluators of one operand.                                              *)
NegateEval(x)     == Minus(x)
NegateGradient(x) == Constant(-1)

MultInverseEval(x)     == Inverted(x)
MultInverseGradient(x) == Negate(MultInverse(Multiply(x, x)))

ExpEval(x)     == Exponential(x)
ExpGradient(x) == Exp(x)

LogEval(x)     == Logarithm(x)
LogGradient(x) == MultInverse(x)

Log10Eval(x)     == Over(LogEval(x), Steady(LogTen))
Log10Gradient(x) == Divide(MultInverse(x), Constant(LogTen))

SinEval(x) ==
  LET e == ExpEval(Times(Steady(ImUnit), x))
  IN  Over(Less(e, MultInverseEval(e)), Steady(2 * ImUnit))
SinGradient(x) == Function1D("Cos", x)

CosEval(x) ==
  LET e == ExpEval(Times(Steady(ImUnit), x))
  IN  Over(Sum(e, MultInverseEval(e)), Steady(2))
CosGradient(x) == Negate(Function1D("Sin", x))

TanEval(x)     == Over(SinEval(x), CosEval(x))
TanGradient(x) == LET r == Function1D("Sec", x) IN Multiply(r, r)

SecEval(x)     == MultInverseEval(CosEval(x))
SecGradient(x) == Multiply(Function1D("Sec", x), Function1D("Tan", x))

CscEval(x)     == MultInverseEval(SinEval(x))
CscGradient(x) == Multiply(Negate(Function1D("Csc", x)), Function1D("Cot", x))

CotEval(x)     == Over(CosEval(x), SinEval(x))
CotGradient(x) == LET r == Function1D("Csc", x) IN Multiply(Negate(r), r)

SinHEval(x) ==
  LET e == ExpEval(x) IN Over(Less(e, MultInverseEval(e)), Steady(2))
SinHGradient(x) == Function1D("CosH", x)

CosHEval(x) ==
  LET e == ExpEval(x) IN Over(Sum(e, MultInverseEval(e)), Steady(2))
CosHGradient(x) == Function1D("SinH", x)

\* IvyCerf::erf and erfc: by w(iz) in the right half plane, by w(-iz) in the
\* left one.
RightHalf(z) == Signed(z[1]) >= 0

Faded(z) ==
  LET iz == Times(Steady(ImUnit), IF RightHalf(z) THEN z ELSE Minus(z))
  IN  Times(ExpEval(Minus(Times(z, z))), W(iz, TwoOverSqrtPi))

ErfEval(z) ==
  IF ~ Defined(z) THEN Undefined
  ELSE IF RightHalf(z) THEN Less(Steady(1), Faded(z)) ELSE Less(Faded(z), Steady(1))
ErfGradient(x) == Multiply(Exp(Multiply(Negate(x), x)), Constant(TwoOverSqrtPi))

ErfcEval(z) ==
  IF ~ Defined(z) THEN Undefined
  ELSE IF RightHalf(z) THEN Faded(z) ELSE Less(Steady(2), Faded(z))
ErfcGradient(x) ==
  Multiply(Negate(Exp(Multiply(Negate(x), x))), Constant(TwoOverSqrtPi))

FaddeevaEval(z) == W(z, TwoOverSqrtPi)
FaddeevaGradient(x) ==
  Subtract(Constant(ImUnit * TwoOverSqrtPi),
           Multiply(Multiply(Constant(2), x), Function1D("Faddeeva", x)))

\* The Fast evaluators differ in how many terms they sum: not told apart.
ErfFastEval(z)          == ErfEval(z)
ErfFastGradient(x)      == Multiply(Exp(Multiply(Negate(x), x)), Constant(TwoOverSqrtPi))
ErfcFastEval(z)         == ErfcEval(z)
ErfcFastGradient(x)     ==
  Multiply(Negate(Exp(Multiply(Negate(x), x))), Constant(TwoOverSqrtPi))
FaddeevaFastEval(z)     == FaddeevaEval(z)
FaddeevaFastGradient(x) ==
  Subtract(Constant(ImUnit * TwoOverSqrtPi),
           Multiply(Multiply(Constant(2), x), Function1D("FaddeevaFast", x)))

-----------------------------------------------------------------------------
(* Evaluators of two operands; ivar is the operand derived by.             *)
AddEval(x, y)           == Sum(x, y)
AddGradient(ivar, x, y) == Constant(1)

SubtractEval(x, y)           == Less(x, y)
SubtractGradient(ivar, x, y) == IF ivar = 0 THEN Constant(1) ELSE Constant(-1)

MultiplyEval(x, y)           == Times(x, y)
MultiplyGradient(ivar, x, y) ==
  IF ivar = 0 THEN Multiply(Constant(1), y) ELSE Multiply(Constant(1), x)

DivideEval(x, y)           == Times(x, MultInverseEval(y))
DivideGradientPlus(ivar, x, y) ==   \* mutant: x not negated
  IF ivar = 0 THEN Divide(Constant(1), y) ELSE Divide(x, Multiply(y, y))
DivideGradient(ivar, x, y) ==
  IF ivar = 0 THEN Divide(Constant(1), y)
  ELSE Divide(Negate(x), Multiply(y, y))

PowEval(x, y)           == ToThe(x, y)
PowGradient(ivar, x, y) ==
  IF ivar = 0 THEN Multiply(y, Pow(x, Subtract(y, Constant(1))))
  ELSE Multiply(Log(x), Pow(x, y))

-----------------------------------------------------------------------------
(* Dispatch on the evaluator of a node.                                    *)
Eval1D(f, x) ==
  CASE f = "Negate" -> NegateEval(x)     [] f = "MultInverse" -> MultInverseEval(x)
    [] f = "Exp" -> ExpEval(x)           [] f = "Log" -> LogEval(x)
    [] f = "Log10" -> Log10Eval(x)       [] f = "Sin" -> SinEval(x)
    [] f = "Cos" -> CosEval(x)           [] f = "Tan" -> TanEval(x)
    [] f = "Sec" -> SecEval(x)           [] f = "Csc" -> CscEval(x)
    [] f = "Cot" -> CotEval(x)           [] f = "SinH" -> SinHEval(x)
    [] f = "CosH" -> CosHEval(x)         [] f = "Erf" -> ErfEval(x)
    [] f = "Erfc" -> ErfcEval(x)         [] f = "Faddeeva" -> FaddeevaEval(x)
    [] f = "ErfFast" -> ErfFastEval(x)   [] f = "ErfcFast" -> ErfcFastEval(x)
    [] f = "FaddeevaFast" -> FaddeevaFastEval(x)

Gradient1D(f, x) ==
  CASE f = "Negate" -> NegateGradient(x)     [] f = "MultInverse" -> MultInverseGradient(x)
    [] f = "Exp" -> ExpGradient(x)           [] f = "Log" -> LogGradient(x)
    [] f = "Log10" -> Log10Gradient(x)       [] f = "Sin" -> SinGradient(x)
    [] f = "Cos" -> CosGradient(x)           [] f = "Tan" -> TanGradient(x)
    [] f = "Sec" -> SecGradient(x)           [] f = "Csc" -> CscGradient(x)
    [] f = "Cot" -> CotGradient(x)           [] f = "SinH" -> SinHGradient(x)
    [] f = "CosH" -> CosHGradient(x)         [] f = "Erf" -> ErfGradient(x)
    [] f = "Erfc" -> ErfcGradient(x)         [] f = "Faddeeva" -> FaddeevaGradient(x)
    [] f = "ErfFast" -> ErfFastGradient(x)   [] f = "ErfcFast" -> ErfcFastGradient(x)
    [] f = "FaddeevaFast" -> FaddeevaFastGradient(x)

Eval2D(f, x, y) ==
  CASE f = "Add" -> AddEval(x, y)           [] f = "Subtract" -> SubtractEval(x, y)
    [] f = "Multiply" -> MultiplyEval(x, y) [] f = "Divide" -> DivideEval(x, y)
    [] f = "Pow" -> PowEval(x, y)

Gradient2D(f, ivar, x, y) ==
  CASE f = "Add" -> AddGradient(ivar, x, y)
    [] f = "Subtract" -> SubtractGradient(ivar, x, y)
    [] f = "Multiply" -> MultiplyGradient(ivar, x, y)
    [] f = "Divide" -> DivideGradient(ivar, x, y)
    [] f = "Pow" -> PowGradient(ivar, x, y)

-----------------------------------------------------------------------------
(* IvyRegularFunction_1D and IvyRegularFunction_2D.                        *)

\* value(): the operands are evaluated first.  at gives each variable its
\* value and its direction.
RECURSIVE Value(_, _)
Value(e, at) ==
  IF ~ IsFunction(e) THEN IF e.op = "Constant" THEN Steady(e.val) ELSE at[e.op]
  ELSE IF Is1D(e) THEN Eval1D(e.op, Value(e.args[1], at))
  ELSE Eval2D(e.op, Value(e.args[1], at), Value(e.args[2], at))

RECURSIVE DependsOn(_, _)
DependsOn(e, v) == e = v \/ \E i \in 1 .. Len(e.args) : DependsOn(e.args[i], v)

\* function_gradient<T>::get of a node that is no function, and of any node
\* when the domain argument is not the domain of T: one or zero.
ZeroOrOne(e, v) == Constant(IF DependsOn(e, v) THEN 1 ELSE 0)

\* IvyRegularFunction_1D::gradient asks function_gradient<T, Evaluator>: the
\* evaluator stands in the place of the domain, so the specialisation for
\* functions never matches and the operand contributes one or zero.
OperandGradient1D(e, v) == ZeroOrOne(e, v)

RECURSIVE Gradient(_, _)
Gradient(e, v) ==
  LET along(x) == IF IsFunction(x) THEN Gradient(x, v) ELSE ZeroOrOne(x, v)
      x == e.args[1]
      y == e.args[2]
  IN  IF Is1D(e) THEN Multiply(Gradient1D(e.op, x), OperandGradient1D(x, v))
      ELSE Add(Multiply(Gradient2D(e.op, 0, x, y), along(x)),
               Multiply(Gradient2D(e.op, 1, x, y), along(y)))

-----------------------------------------------------------------------------
(* A client builds a function out of leaves and the functions it holds, and*)
(* may go on with the gradient of what it holds.                           *)
Leaves == {Variable(n) : n \in Variables} \cup {Constant(c) : c \in Literals}

Init ==
  /\ fcn \in Leaves
  /\ built = 0
  /\ gradients = 0

Build(e) ==
  /\ built < MaxBuilt
  /\ fcn' = e
  /\ built' = built + 1
  /\ UNCHANGED gradients

Apply1D(f)         == Build(Function1D(f, fcn))
Apply2DLeft(f, x)  == Build(Function2D(f, x, fcn))
Apply2DRight(f, y) == Build(Function2D(f, fcn, y))

Differentiate(n) ==
  /\ gradients < MaxGradients
  /\ IsFunction(fcn)
  /\ fcn' = Gradient(fcn, Variable(n))
  /\ gradients' = gradients + 1
  /\ UNCHANGED built

\* The calls with some of the operations, and some of the leaves.
Calls(unaries, binaries, leaves) ==
  \/ \E f \in unaries : Apply1D(f)
  \/ \E f \in binaries, x \in leaves : Apply2DLeft(f, x)
  \/ \E f \in binaries, y \in leaves \cup {fcn} : Apply2DRight(f, y)
  \/ \E n \in Variables : Differentiate(n)

Next == Calls(Unaries, Binaries, Leaves)

Spec == Init /\ [][Next]_vars

=============================================================================
