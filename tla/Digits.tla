------------------------------- MODULE Digits -------------------------------
(***************************************************************************)
(* Numbers written in a base, a byte being a digit.                        *)
(***************************************************************************)
EXTENDS Integers

Power(base) ==
  LET power[n \in Nat] == IF n = 0 THEN 1 ELSE base * power[n - 1]
  IN  power

(* The digit of n that counts base ^ i, negative numbers in complement.    *)
Digit(n, base, i) == (n \div Power(base)[i]) % base
=============================================================================
