--------------------------------- MODULE Float ---------------------------------
(***************************************************************************)
(* The floating-point numbers that cross the native seam: f64 and f32, and *)
(* what "as f64", "as f32", "*" and "/" do to a value that they cannot     *)
(* hold.  A number is a fraction; a float is a fraction whose numerator    *)
(* has at most p bits over, or times, a power of two.  What becomes of a   *)
(* number beyond the range of the exponents (a subnormal one, infinity) is *)
(* left out: nothing is said of a number that is not Covered.              *)
(***************************************************************************)
EXTENDS Integers

CONSTANTS
  ExpBelow, ExpAbove   \* a float's last bit is worth 2^-ExpBelow to 2^ExpAbove:
                       \* 149 and 104, for f32, whose range is the narrower one
ASSUME ExponentAssumption == {ExpBelow, ExpAbove} \subseteq Nat

Frac(n, d) == [num |-> n, den |-> d]

Whole(n) == Frac(n, 1)

(* NaN and the infinities, which the binding treats alike. *)
NonFinite == Frac(0, 0)

IsFinite(q) == q.den # 0
IsWhole(q) == IsFinite(q) /\ q.num % q.den = 0

Magnitude(n) == IF n < 0 THEN -n ELSE n

(* f64::trunc: towards zero. *)
Trunc(q) == IF q.num < 0 THEN -((-q.num) \div q.den) ELSE q.num \div q.den

SameNumber(q, r) == IsFinite(q) /\ IsFinite(r) /\ q.num * r.den = r.num * q.den

Times(q, n) == Frac(q.num * n, q.den)
Over(q, n) == Frac(q.num, q.den * n)

(* 2^n *)
Pow2[n \in Nat] == IF n = 0 THEN 1 ELSE 2 * Pow2[n - 1]

(* The fraction q / 2^e. *)
Scaled(q, e) == IF e >= 0 THEN Over(q, Pow2[e]) ELSE Times(q, Pow2[-e])

(* The nearest whole number, the even one of two that are equally near. *)
NearestEven(q) ==
  LET low == q.num \div q.den
      rest == 2 * (q.num % q.den)
  IN IF rest > q.den \/ (rest = q.den /\ low % 2 = 1) THEN low + 1 ELSE low

(* The exponent that gives a positive q a significand of p bits. *)
Exponents == -ExpBelow..ExpAbove
Fits(q, p, e) ==
  LET s == Scaled(q, e)
  IN Pow2[p - 1] * s.den <= s.num /\ s.num < Pow2[p] * s.den
Exponent(q, p) == CHOOSE e \in Exponents : Fits(q, p, e)

Sign(q) == IF q.num < 0 THEN -1 ELSE 1

(* Whether q lies in the range of the floats, neither too small nor too     *)
(* large for a significand of p bits.                                       *)
Covered(q, p) == q.num = 0 \/ \E e \in Exponents : Fits(Times(q, Sign(q)), p, e)

(* q rounded to a significand of p bits. *)
Round(q, p) ==
  IF ~IsFinite(q) \/ q.num = 0 THEN q
  ELSE LET sign == Sign(q)
           e == Exponent(Times(q, sign), p)
       IN Scaled(Whole(sign * NearestEven(Scaled(Times(q, sign), e))), -e)
=============================================================================
