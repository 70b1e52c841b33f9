-------------------------------- MODULE Math --------------------------------
(***************************************************************************)
(* The integer functions of math.cpp.  Angles are in degrees, sines are    *)
(* scaled by 1000.                                                         *)
(*                                                                         *)
(* An operator named Op_Bug is Op with a plausible bug; the specification  *)
(* uses none of them, they show which properties would notice.             *)
(***************************************************************************)
EXTENDS Integers

(* Division and remainder of C, which truncate toward zero *)
Quot(a, b) == IF a >= 0 THEN a \div b ELSE -((-a) \div b)
Rem(a, b) == a - b * Quot(a, b)

(* Angles answered before they are normalised; 1 / 2 is 0 in C. *)
Special == [angle \in {0, 30, 45, 60, 90} |->
  CASE angle = 0 -> 0 [] angle = 90 -> 1000 [] angle = 30 -> Quot(1, 2)
    [] angle = 60 -> 866 [] angle = 45 -> 707]

Normal(angle) == IF Rem(angle, 360) < 0 THEN Rem(angle, 360) + 360 ELSE Rem(angle, 360)

Bhaskara_Denominator(x) == Quot(4 * x * (180 - x) * 1000, 45000 - x * (180 - x))

Bhaskara(x) == Quot(4 * x * (180 - x) * 1000, 40500 - x * (180 - x))

(* The sign does not change the truncated quotient. *)
math_sin(angle) ==
  LET n == Normal(angle)
  IN  IF angle \in DOMAIN Special THEN Special[angle]
      ELSE IF n >= 180 THEN -Bhaskara(n - 180) ELSE Bhaskara(n)

math_cos(angle) == math_sin(angle + 90)

=============================================================================
