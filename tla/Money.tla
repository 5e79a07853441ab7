------------------------------- MODULE Money -------------------------------
(***************************************************************************)
(* Fixed-point amounts as db/money.py stores them: cash, prices and share  *)
(* quantities are whole numbers of 1/Scale (Scale is 10^8 in the code).    *)
(* Arithmetic between two writes is exact; a value is rounded half up when *)
(* it is quantized or stored.                                              *)
(***************************************************************************)
EXTENDS Integers

CONSTANT Scale

ASSUME ScaleAssumption == Scale \in Nat \ {0}

\* The nearest whole number to n / d, halves up: q and to_e8, for n >= 0.
RoundHalfUp(n, d) == (2 * n + d) \div (2 * d)

\* quantity * price, exactly, in units of 1 / Scale^2.
Value(quantity, price) == quantity * price
=============================================================================
