------------------------------- MODULE Points -------------------------------
(***************************************************************************)
(* Arithmetic the two score calculators share: a criterion counts up to a  *)
(* cap, and the sum is clamped.                                            *)
(***************************************************************************)
EXTENDS Integers

\* Math.Min(n / cap, 1.0), in units of 1 / cap.
Capped(n, cap) == IF n < cap THEN n ELSE cap

\* Math.Clamp
Clamp(s, low, high) == IF s < low THEN low ELSE IF s > high THEN high ELSE s
=============================================================================
