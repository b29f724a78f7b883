----------------------------- MODULE Cyclotomic -----------------------------
(***************************************************************************)
(* Exact complex arithmetic for the transforms, in place of the rounded    *)
(* std::complex: integer combinations of 1, z, z^2, ..., where z is the    *)
(* primitive Order-th root of unity exp(2 pi i / Order).  z^(Order/2) = -1 *)
(* and z^(Order/4) is the imaginary unit.  A number is the function that   *)
(* gives the coefficient of each power.                                    *)
(***************************************************************************)
EXTENDS Integers

CONSTANT Order

ASSUME OrderAssumption == Order \in Nat \ {0} /\ Order % 4 = 0

Powers == 0..(Order \div 2 - 1)

Zero == [p \in Powers |-> 0]
Plus(x, y)  == [p \in Powers |-> x[p] + y[p]]
Minus(x, y) == [p \in Powers |-> x[p] - y[p]]

\* x * z^e, for any integer e.
Turned(x, e) ==
  [p \in Powers |-> LET q == (p - e) % Order
                    IN  IF q \in Powers THEN x[q] ELSE -x[q - Order \div 2]]

Conjugate(x) == [p \in Powers |-> IF p = 0 THEN x[0] ELSE -x[Order \div 2 - p]]

\* (x + conj x) / 2; the coefficients of x are even.
RealPart(x) == [p \in Powers |-> Plus(x, Conjugate(x))[p] \div 2]

\* x / n; the coefficients of x are multiples of n.
Over(x, n) == [p \in Powers |-> x[p] \div n]

\* f[0] + ... + f[n - 1].
Total(f, n) ==
  LET sum[k \in Nat] == IF k = 0 THEN Zero ELSE Plus(sum[k - 1], f[k - 1])
  IN  sum[n]
=============================================================================
