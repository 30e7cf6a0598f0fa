---------------------------- MODULE ComplexValues ----------------------------
(***************************************************************************)
(* The evaluators of autodiff/arithmetic/ on values of different domains:  *)
(* plain numbers ("arithmetic"), constants and variables ("real") and      *)
(* complex variables.  Every operation has an overload for each pair of    *)
(* domains, written out part by part in IvyMathBaseArithmetic.h.           *)
(*                                                                         *)
(* A value is a record with a real and an imaginary part in the field of   *)
(* PrimeField; the exponential of a real number is Base^n, and the point   *)
(* of the unit circle at an angle is Turn^n: any two homomorphisms serve.  *)
(* The model makes one call per step and keeps what it returned.           *)
(***************************************************************************)
EXTENDS PrimeField

CONSTANTS Turn,        \* the unit of the unit circle
          Pi,          \* half a turn: Turn^Pi = -1
          Parts,       \* real and imaginary parts in use, as integers
          Norms,       \* n such that Base^n is in use as a norm
          Angles       \* angles in use

VARIABLES x, y,    \* operands
          call,    \* the operation called last
          result   \* what it returned

vars == <<x, y, call, result>>

TurnAssumption ==
  /\ Turn \in Field \ {0} /\ NatPower[Pi][Turn] = P - 1
  /\ Norms \subseteq Nat /\ Angles \subseteq -Pi .. Pi

-----------------------------------------------------------------------------
Complex(re, im) == [dom |-> "complex", re |-> re % P, im |-> im % P]
Real(re)        == [dom |-> "real", re |-> re % P, im |-> 0]
Number(re)      == [dom |-> "arithmetic", re |-> re % P, im |-> 0]

IsComplex(a) == a.dom = "complex"
\* What a function of real or plain operands returns.
Plain(a, b, re) == IF a.dom = b.dom THEN [dom |-> a.dom, re |-> re % P, im |-> 0] ELSE Real(re)

\* By Fermat exponents count modulo P - 1.
ToPower(a, n) == NatPower[n % (P - 1)][a]
Half(n)       == n * Recip[2]

ExpReal(n) == ToPower(Base, n)
Cos(n)     == Half(ToPower(Turn, n) + ToPower(Turn, -n))
Sin(n)     == Half((ToPower(Turn, n) - ToPower(Turn, -n)) * Recip[ImUnit])
CosH(n)    == Half(ExpReal(n) + ExpReal(-n))
SinH(n)    == Half(ExpReal(n) - ExpReal(-n))

\* norm() and phase() of the values that have them here, by their logarithm
\* and angle.
Polars == {[ln |-> n, phase |-> a] : n \in Norms, a \in Angles}

FromPolar(p) == Complex(ExpReal(p.ln) * Cos(p.phase), ExpReal(p.ln) * Sin(p.phase))

Polar(z) ==
  IF IsComplex(z) THEN CHOOSE p \in Polars : FromPolar(p) = z
  ELSE CHOOSE p \in {[ln |-> n, phase |-> a] : n \in Norms, a \in {0, Pi}} :
         /\ p.phase = 0 <=> Signed(z.re) >= 0
         /\ z.re = (IF p.phase = 0 THEN ExpReal(p.ln) ELSE (-ExpReal(p.ln)) % P)

HasPolar(z) ==
  IF IsComplex(z) THEN \E p \in Polars : FromPolar(p) = z
  ELSE \E n \in Norms : z.re \in {ExpReal(n), (-ExpReal(n)) % P}

-----------------------------------------------------------------------------
(* One operand.                                                            *)
IsRealEval(a)    == IsComplex(a) => a.im = 0
NegateEval(a)    == IF IsComplex(a) THEN Complex(-a.re, -a.im) ELSE [a EXCEPT !.re = (-a.re) % P]
ConjugateEval(a) == IF IsComplex(a) THEN [a EXCEPT !.im = (-a.im) % P] ELSE a

Norm2(a) == (a.re * a.re + a.im * a.im) % P

\* set_absval_phase(1/r, -phi): cos and sin of phi are re/r and im/r.
MultInverseEval(a) ==
  IF IsComplex(a) THEN Complex(a.re * Recip[Norm2(a)], -a.im * Recip[Norm2(a)])
  ELSE [a EXCEPT !.re = Recip[a.re]]

ExpEval(a) ==
  IF IsComplex(a)
    THEN LET r == ExpReal(Signed(a.re))
         IN  Complex(r * Cos(Signed(a.im)), r * Sin(Signed(a.im)))
  ELSE [a EXCEPT !.re = ExpReal(Signed(a.re))]

LogEval(a) == Complex(Polar(a).ln, Polar(a).phase)

-----------------------------------------------------------------------------
(* Two operands.                                                           *)
AddEval(a, b) ==
  CASE IsComplex(a) /\ IsComplex(b)     -> Complex(a.re + b.re, a.im + b.im)
    [] IsComplex(a) /\ ~ IsComplex(b)   -> Complex(a.re + b.re, a.im)
    [] ~ IsComplex(a) /\ IsComplex(b)   -> Complex(a.re + b.re, b.im)
    [] ~ IsComplex(a) /\ ~ IsComplex(b) -> Plain(a, b, a.re + b.re)

\* The overload for two plain numbers adds them.
SubtractEval(a, b) ==
  CASE IsComplex(a) /\ IsComplex(b)     -> Complex(a.re - b.re, a.im - b.im)
    [] IsComplex(a) /\ ~ IsComplex(b)   -> Complex(a.re - b.re, a.im)
    [] ~ IsComplex(a) /\ IsComplex(b)   -> Complex(a.re - b.re, -b.im)
    [] ~ IsComplex(a) /\ ~ IsComplex(b) ->
         IF a.dom = "arithmetic" /\ b.dom = "arithmetic" THEN Number(a.re + b.re)
         ELSE Plain(a, b, a.re - b.re)

MultiplyEval(a, b) ==
  CASE IsComplex(a) /\ IsComplex(b)     -> Complex(a.re * b.re - a.im * b.im,
                                                   a.re * b.im + a.im * b.re)
    [] IsComplex(a) /\ ~ IsComplex(b)   -> Complex(a.re * b.re, a.im * b.re)
    [] ~ IsComplex(a) /\ IsComplex(b)   -> Complex(a.re * b.re, a.re * b.im)
    [] ~ IsComplex(a) /\ ~ IsComplex(b) -> Plain(a, b, a.re * b.re)

DivideEval(a, b) ==
  CASE IsComplex(b)                     -> MultiplyEval(a, MultInverseEval(b))
    [] IsComplex(a) /\ ~ IsComplex(b)   -> Complex(a.re * Recip[b.re], a.im * Recip[b.re])
    [] ~ IsComplex(a) /\ ~ IsComplex(b) -> Plain(a, b, a.re * Recip[b.re])

\* Sines of complex numbers by the exponential, hyperbolic ones by parts.
SinEval(a) ==
  LET e == ExpEval(Complex(-a.im, a.re))
  IN  DivideEval(SubtractEval(e, MultInverseEval(e)), Complex(0, 2))

CosEval(a) ==
  LET e == ExpEval(Complex(-a.im, a.re))
  IN  DivideEval(AddEval(e, MultInverseEval(e)), Number(2))

SinHEval(a) ==
  Complex(SinH(Signed(a.re)) * Cos(Signed(a.im)), CosH(Signed(a.re)) * Sin(Signed(a.im)))

CosHEval(a) ==
  Complex(CosH(Signed(a.re)) * Cos(Signed(a.im)), SinH(Signed(a.re)) * Sin(Signed(a.im)))

PowEvalByNorm(a, b) ==   \* mutant: norm by the real part of the exponent only
  LET p == Polar(a)
      norm  == ToPower(ExpReal(p.ln), Signed(b.re))
      phase == p.phase * Signed(b.re) + p.ln * Signed(b.im)
  IN  Complex(norm * Cos(phase), norm * Sin(phase))

\* Powers with a complex operand: by norm and phase of the base.
PowEval(a, b) ==
  LET xn == Polar(a).ln
      xp == Polar(a).phase
      yr == Signed(b.re)
      yi == Signed(b.im)
      norm  == IF IsComplex(b) THEN ToPower(ExpReal(xn), yr) * ExpReal(-xp * yi)
               ELSE ToPower(ExpReal(xn), yr)
      phase == IF IsComplex(b) THEN xp * yr + yi * xn ELSE xp * yr
  IN  Complex(norm * Cos(phase), norm * Sin(phase))

-----------------------------------------------------------------------------
(* Comparisons: of complex values only the real parts are ordered.         *)

EqualEval(a, b) ==
  CASE IsComplex(a) /\ IsComplex(b)     -> a.re = b.re /\ a.im = b.im
    [] IsComplex(a) /\ ~ IsComplex(b)   -> a.re = b.re /\ IsRealEval(a)
    [] ~ IsComplex(a) /\ IsComplex(b)   -> b.re = a.re /\ IsRealEval(b)
    [] ~ IsComplex(a) /\ ~ IsComplex(b) -> a.re = b.re

GreaterThanEval(a, b)    == Signed(a.re) > Signed(b.re)
LessThanEval(a, b)       == Signed(a.re) < Signed(b.re)
GreaterOrEqualEval(a, b) == Signed(a.re) >= Signed(b.re)
LessOrEqualEval(a, b)    == Signed(a.re) <= Signed(b.re)

-----------------------------------------------------------------------------
Values == {Number(n) : n \in Parts} \cup {Real(n) : n \in Parts}
            \cup {Complex(n, m) : n, m \in Parts}
            \cup {FromPolar(p) : p \in Polars}

Init ==
  /\ x \in Values
  /\ y \in Values
  /\ call = "none"
  /\ result = x

Returns(f, z) == call' = f /\ result' = z /\ UNCHANGED <<x, y>>

Small(a) == Signed(a.re) \in Parts /\ Signed(a.im) \in Parts

Add         == Returns("Add", AddEval(x, y))
Subtract    == Returns("Subtract", SubtractEval(x, y))
Multiply    == Returns("Multiply", MultiplyEval(x, y))
Divide      == Norm2(y) # 0 /\ Returns("Divide", DivideEval(x, y))
MultInverse == Norm2(x) # 0 /\ Returns("MultInverse", MultInverseEval(x))
Negate      == Returns("Negate", NegateEval(x))
Conjugate   == Returns("Conjugate", ConjugateEval(x))
Exp         == Small(x) /\ Returns("Exp", ExpEval(x))
Log         == IsComplex(x) /\ HasPolar(x) /\ Returns("Log", LogEval(x))
Sine        == IsComplex(x) /\ Small(x) /\ Returns("Sin", SinEval(x))
Cosine      == IsComplex(x) /\ Small(x) /\ Returns("Cos", CosEval(x))
SineH       == IsComplex(x) /\ Small(x) /\ Returns("SinH", SinHEval(x))
CosineH     == IsComplex(x) /\ Small(x) /\ Returns("CosH", CosHEval(x))
Pow         == /\ IsComplex(x) \/ IsComplex(y)
               /\ HasPolar(x) /\ Small(y)
               /\ Returns("Pow", PowEval(x, y))

Next ==
  /\ call = "none"
  /\ \/ Add \/ Subtract \/ Multiply \/ Divide \/ MultInverse \/ Negate \/ Conjugate
     \/ Exp \/ Log \/ Sine \/ Cosine \/ SineH \/ CosineH \/ Pow

Spec == Init /\ [][Next]_vars

-----------------------------------------------------------------------------
\* The number a value stands for: re + i im, with the i of the field.
Number1(a) == (a.re + ImUnit * a.im) % P

\* e^(re + i im), for integers re and im.
E(re, im) == (ExpReal(re) * ToPower(Turn, im)) % P

\* Operands are those in use, and only complex results have imaginary parts.
TypeOK ==
  /\ x \in Values /\ y \in Values
  /\ result.dom \in {"arithmetic", "real", "complex"}
  /\ result.re \in Field /\ result.im \in Field
  /\ ~ IsComplex(result) => result.im = 0

\* Whatever domains the operands have, an operation returns the number that
\* the operation on the numbers they stand for gives (all overloads of Add,
\* Subtract, Multiply, Divide, MultInverse and Negate; subtraction of plain
\* numbers apart).
Quotient(a, b) == (Number1(a) * NatPower[P - 2][Number1(b)]) % P

DomainsAgree ==
  LET n == Number1(result)
      a == Number1(x)
      b == Number1(y)
  IN  CASE call = "Add"         -> n = (a + b) % P
        [] call = "Subtract"    -> \/ x.dom = "arithmetic" /\ y.dom = "arithmetic"
                                   \/ n = (a - b) % P
        [] call = "Multiply"    -> n = (a * b) % P
        [] call = "Divide"      -> n = Quotient(x, y)
        [] call = "MultInverse" -> (n * a) % P = 1
        [] call = "Negate"      -> n = (-a) % P
        [] call = "Conjugate"   -> (n * a) % P = Norm2(x)
        [] OTHER -> TRUE

\* The complex overloads of Exp, Log, Sin, Cos, SinH, CosH and Pow, written
\* by parts, by the exponential or by norm and phase, are the functions they
\* are named for.
FunctionsAgree ==
  LET n  == Number1(result)
      re == Signed(x.re)
      im == Signed(x.im)
  IN  CASE call = "Exp"  -> n = E(re, im)
        [] call = "Log"  -> E(Signed(result.re), Signed(result.im)) = Number1(x)
        [] call = "Sin"  -> n = (Sin(re) * CosH(im) + ImUnit * Cos(re) * SinH(im)) % P
        [] call = "Cos"  -> n = (Cos(re) * CosH(im) - ImUnit * Sin(re) * SinH(im)) % P
        [] call = "SinH" -> (2 * n) % P = (E(re, im) - E(-re, -im)) % P
        [] call = "CosH" -> (2 * n) % P = (E(re, im) + E(-re, -im)) % P
        [] call = "Pow"  ->
             LET ln == Polar(x).ln  ph == Polar(x).phase
                 yr == Signed(y.re) yi == Signed(y.im)
             IN  n = E(ln * yr - ph * yi, ln * yi + ph * yr)
        [] OTHER -> TRUE

\* Equality is that of the numbers over all pairs of domains, and the four
\* orders are those of one total preorder that equality refines.
OrderCoherent ==
  /\ EqualEval(x, y) <=> x.re = y.re /\ x.im = y.im
  /\ EqualEval(x, y) => GreaterOrEqualEval(x, y) /\ LessOrEqualEval(x, y)
  /\ GreaterThanEval(x, y) <=> ~ LessOrEqualEval(x, y)
  /\ LessThanEval(x, y) <=> ~ GreaterOrEqualEval(x, y)
  /\ GreaterThanEval(x, y) <=> LessThanEval(y, x)
  /\ GreaterOrEqualEval(x, y) \/ LessOrEqualEval(x, y)

\* "SUBTRACTION" (IvyMathBaseArithmetic.h:725): Subtract returns the
\* difference, of plain numbers as well.
SubtractSubtracts ==
  call = "Subtract" => Number1(result) = (Number1(x) - Number1(y)) % P

=============================================================================
