----------------------------- MODULE MCConversion -----------------------------
(***************************************************************************)
(* Conversion with a precision of 5 bits: every float up to twice I64Max,  *)
(* halves where f64 has them, and every bigint up to just beyond 64 bits.  *)
(***************************************************************************)
EXTENDS Conversion

MCNumbers ==
  {NonFinite}
    \cup {Whole(n) : n \in {i \in -515..515 :
            \E e \in 0..5 : i % 2 ^ e = 0 /\ Magnitude(i) < 2 ^ (5 + e)}}
    \cup {Frac(n, 2) : n \in {i \in -31..31 : i % 2 = 1}}

MCBigInts == -259..259
=============================================================================
