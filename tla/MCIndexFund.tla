---------------------------- MODULE MCIndexFund ----------------------------
(* Instances of IndexFund for TLC. *)
EXTENDS IndexFund

\* No quote, and quotes that divide the balance exactly, with the quantity
\* rounded down and with the quantity rounded up.
Quotes == {0, 3, 4, 7, 9, 10, 16, 23}
=============================================================================
