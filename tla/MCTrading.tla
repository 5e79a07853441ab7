----------------------------- MODULE MCTrading -----------------------------
(* Instances of Trading for TLC. *)
EXTENDS Trading, TLC

\* One account that is traded: a purchase that the starting balance pays once,
\* and a sale that cannot pay the fee when the balance is low.
OneUserBodies == {[user |-> "agent", amount |-> -2], [user |-> "agent", amount |-> 1]}

\* An account that is traded and a passive index account.
TwoUsers == {"agent", "indexer"}

ClientSymmetry == Permutations(Clients)
=============================================================================
