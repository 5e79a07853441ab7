------------------------------ MODULE MCServer ------------------------------
(* What the server does beside the orders of the book, side by side: its     *)
(* threads and tasks, the arithmetic of an account that trades, and the      *)
(* seeding of the accounts, the index account among them.  A behaviour is    *)
(* one of one part, while the others rest, so the state space is the sum of  *)
(* theirs.                                                                   *)
EXTENDS Scheduler, WebRuntime, DisplayQuotes, ExecutionEngine, IndexFund

VARIABLE part

vars == <<part, schedulerVars, webVars, quoteVars, engineVars, fundVars>>

OneSector == (1 :> "tech") @@ (2 :> "tech")

\* One position at a time, at most three quarters of the portfolio, a quarter
\* in cash; and two positions, a half each, without a reserve.
Strict == [positions |-> 1, cap |-> 3, reserve |-> 1, sector |-> 3]
Loose == [positions |-> 2, cap |-> 2, reserve |-> 0, sector |-> 3]
AgentPolicies == {Strict, Loose}

TwoForOne == {[shares |-> 2, for |-> 1]}

\* No quote, and quotes that divide the balance exactly, with the quantity
\* rounded down and with the quantity rounded up.
FundQuotes == {0, 3, 4, 7, 9, 10, 16, 23}

Init ==
    /\ part \in {"scheduler", "web", "quotes", "engine", "fund"}
    /\ SchedulerInit /\ WebInit /\ QuoteInit /\ EngineInit /\ FundInit
    /\ part # "engine" => policy = NoPolicy /\ \A t \in Tickers : quotes[t] = 0

Next ==
    \/ part = "scheduler" /\ SchedulerNext
                          /\ UNCHANGED <<part, webVars, quoteVars, engineVars, fundVars>>
    \/ part = "web" /\ WebNext /\ UNCHANGED <<part, schedulerVars, quoteVars, engineVars, fundVars>>
    \/ part = "quotes" /\ QuoteNext /\ UNCHANGED <<part, schedulerVars, webVars, engineVars, fundVars>>
    \/ part = "engine" /\ EngineNext /\ UNCHANGED <<part, schedulerVars, webVars, quoteVars, fundVars>>
    \/ part = "fund" /\ FundNext /\ UNCHANGED <<part, schedulerVars, webVars, quoteVars, engineVars>>

\* The fairness of SchedulerFairSpec, WebSpec and QuoteSpec, of the part that runs.
Fairness ==
    /\ WF_schedulerVars(part = "scheduler" /\ LoopStep)
    /\ WF_schedulerVars(part = "scheduler" /\ Tick)
    /\ WF_schedulerVars(part = "scheduler" /\ StopReturns)
    /\ \A t \in Refreshers : WF_schedulerVars(part = "scheduler" /\ CycleStep(t))
    /\ \A t \in Operations : WF_schedulerVars(part = "scheduler" /\ OperationStep(t))
    /\ \A t \in Tasks : WF_webVars(part = "web" /\ TaskStep(t))
    /\ \A r \in Readers \cup {Background} : WF_quoteVars(part = "quotes" /\ ReaderStep(r))

Spec == Init /\ [][Next]_vars /\ Fairness
=============================================================================
