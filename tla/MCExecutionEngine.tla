------------------------- MODULE MCExecutionEngine -------------------------
(* Instances of ExecutionEngine for TLC. *)
EXTENDS ExecutionEngine

OneSector == (1 :> "tech") @@ (2 :> "tech")

\* One position at a time, at most three quarters of the portfolio, a quarter
\* in cash; and two positions, a half each, without a reserve.
Strict == [positions |-> 1, cap |-> 3, reserve |-> 1, sector |-> 3]
Loose == [positions |-> 2, cap |-> 2, reserve |-> 0, sector |-> 3]
AgentPolicies == {Strict, Loose}

TwoForOne == {[shares |-> 2, for |-> 1]}
=============================================================================
