------------------------------ MODULE PrimeField ------------------------------
(***************************************************************************)
(* The numbers the autodiff modules compute with.                          *)
(*                                                                         *)
(* A formula is an identity of real or complex analysis or it is not; what *)
(* tells the two apart is not floating point but algebra.  So a number is  *)
(* an element of the field of the integers modulo P, with a square root    *)
(* ImUnit of -1, and NaN is one more value that every operation            *)
(* propagates.  Exp is any function with Exp(-a) Exp(a) = 1, W any         *)
(* function at all: their rules of differentiation are all that is used.   *)
(*                                                                         *)
(* A dual number <<v, d>> is a value with its derivative along some        *)
(* direction.  A program evaluated over dual numbers returns its own value *)
(* first and the derivative of that value second, whatever formulas it     *)
(* uses: that second part is the reference the gradients are held against. *)
(***************************************************************************)
EXTENDS Integers, Sequences

CONSTANTS P,          \* a prime, 1 modulo 4
          ImUnit,     \* its square is -1
          Base,       \* Exp(a) is Base^a for a in 0 .. P \div 2
          LogDomain   \* where Log is defined: half the units for the reals,
                      \* all of them for the complex plane

Field == 0 .. (P - 1)
NaN   == -P * P * P * P   \* no sum of products of the field

ASSUME FieldAssumption ==
  /\ P \in Nat /\ P > 2
  /\ \A a \in Field \ {0} : \E b \in Field : (a * b) % P = 1
  /\ ImUnit \in Field /\ (ImUnit * ImUnit) % P = P - 1
  /\ Base \in Field \ {0}
  /\ LogDomain \subseteq Field \ {0}

-----------------------------------------------------------------------------
Recip == [a \in Field \ {0} |-> CHOOSE b \in Field : (a * b) % P = 1]

\* The power a^n for a natural n, and the integer a field element stands for
\* as an exponent: -(P \div 2) .. P \div 2.
NatPower[n \in 0 .. P] == [a \in Field |-> IF n = 0 THEN 1 ELSE (a * NatPower[n - 1][a]) % P]

Signed(a) == IF a <= P \div 2 THEN a ELSE a - P

Power(a, n) == IF n >= 0 THEN NatPower[n][a] ELSE Recip[NatPower[-n][a]]

ExpTable == [a \in Field |-> Power(Base, Signed(a))]
LogTable == [a \in Field |-> (3 * a + 1) % P]
WTable   == [a \in Field |-> (a * a * a + 2 * a + 4) % P]

-----------------------------------------------------------------------------
(* Dual numbers.                                                           *)
Undefined  == <<NaN, NaN>>
Steady(v)  == <<v % P, 0>>
Moving(v)  == <<v % P, 1>>
Defined(a) == a[1] # NaN

One(f(_), a)       == IF Defined(a) THEN f(a) ELSE Undefined
Both(f(_, _), a, b) == IF Defined(a) /\ Defined(b) THEN f(a, b) ELSE Undefined

Minus(a)    == One(LAMBDA u : <<(-u[1]) % P, (-u[2]) % P>>, a)
Sum(a, b)   == Both(LAMBDA u, w : <<(u[1] + w[1]) % P, (u[2] + w[2]) % P>>, a, b)
Less(a, b)  == Sum(a, Minus(b))
Times(a, b) == Both(LAMBDA u, w : <<(u[1] * w[1]) % P, (u[1] * w[2] + u[2] * w[1]) % P>>, a, b)

Inverted(a) ==
  One(LAMBDA u : IF u[1] = 0 THEN Undefined
                 ELSE LET r == Recip[u[1]] IN <<r, (-r * r * u[2]) % P>>, a)

Over(a, b) == Times(a, Inverted(b))

\* exp, log, the Faddeeva function w (w' = -2 z w + 2 i / sqrt(pi)) and pow.
Exponential(a) == One(LAMBDA u : <<ExpTable[u[1]], (ExpTable[u[1]] * u[2]) % P>>, a)

Logarithm(a) ==
  One(LAMBDA u : IF u[1] \in LogDomain THEN <<LogTable[u[1]], (Recip[u[1]] * u[2]) % P>>
                 ELSE Undefined, a)

W(a, twoOverSqrtPi) ==
  One(LAMBDA u : <<WTable[u[1]], ((-2 * u[1] * WTable[u[1]] + ImUnit * twoOverSqrtPi) * u[2]) % P>>, a)

\* x^y has a derivative along x alone wherever x^(y-1) exists; along y it
\* needs log(x).  The one exponent whose predecessor would wrap is left out.
ToThe(a, b) ==
  LET n == Signed(b[1])
      p(u, m) == IF u = 0 /\ m < 0 THEN NaN ELSE Power(u, m)
      along(u) == IF u[2] = 0 \/ n = 0 THEN 0
                  ELSE IF p(u[1], n - 1) = NaN THEN NaN
                  ELSE n * p(u[1], n - 1) * u[2]
      across(u, w) == IF w[2] = 0 THEN 0
                      ELSE IF u[1] \notin LogDomain THEN NaN
                      ELSE LogTable[u[1]] * p(u[1], n) * w[2]
      f(u, w) ==
        IF n <= -(P \div 2) THEN Undefined
        ELSE IF NaN \in {p(u[1], n), along(u), across(u, w)} THEN Undefined
        ELSE <<p(u[1], n), (along(u) + across(u, w)) % P>>
  IN  Both(f, a, b)

=============================================================================
