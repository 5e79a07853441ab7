-------------------------- MODULE MCDecisionBatch --------------------------
(* Instances of DecisionBatch for TLC, for one initial state or the other:   *)
(* a series of batches of one agent, after which none is created; or the     *)
(* last batch of a series whose others a reset has deleted, with several     *)
(* agents, and another that may be created at any time.                      *)
EXTENDS DecisionBatch

CONSTANT Several    \* the agents of the last batch

LastOfSeries ==
    /\ rows = Empty /\ trades = {} /\ audits = Empty /\ cycles = {}
    /\ agents = Several
    /\ next = [batch |-> MaxBatches, cycle |-> 1]
    /\ workers = [b \in Batches |-> Off]
    /\ up = TRUE /\ clock = MaxTime /\ latest = -Cooldown
    /\ count = [crashes |-> 0, resets |-> 0, faults |-> 0]

SeriesSpec ==
    /\ Init \/ LastOfSeries
    /\ [][Next]_vars
    /\ WF_vars(Restart) /\ \A b \in Batches : WF_vars(WorkerStep(b))
=============================================================================
