----------------------------- MODULE Scheduler -----------------------------
(***************************************************************************)
(* MarketRefreshScheduler: the thread that refreshes the market data once  *)
(* per interval, the threads of operator-triggered refreshes, and the      *)
(* portfolio operations (a rebuild, a reset) that must not run at the same *)
(* time.  They meet at the run lock; the flag _cycle_pending, protected by *)
(* the trigger lock, coalesces the triggers.                               *)
(*                                                                         *)
(* Time is what the loop compares: how long ago the last refresh began, up *)
(* to the interval, and how long the loop still sleeps.                    *)
(***************************************************************************)
EXTENDS Integers

CONSTANTS Loop,        \* the thread of the scheduler
          Manuals,     \* threads of triggered refreshes
          Operations,  \* threads of portfolio operations
          Nobody,
          Interval,
          MaxOperations  \* bound on portfolio operations

Refreshers == {Loop} \cup Manuals
Threads == Refreshers \cup Operations

ASSUME ThreadsAssumption ==
    /\ Loop \notin Manuals /\ Refreshers \cap Operations = {} /\ Nobody \notin Threads
ASSUME IntervalAssumption == Interval \in Nat \ {0} /\ MaxOperations \in Nat

Never == Interval + 1

VARIABLES pc, runLock,
          pending,    \* _cycle_pending
          stopped,    \* _stop_event
          age,        \* time since _last_run_time, Never for None
          timer,      \* what is left of the sleep of the loop
          caller,     \* what the runtime did last: start, stop, or still in stop
          operations  \* counter of the bound

schedulerVars == <<pc, runLock, pending, stopped, age, timer, caller, operations>>

SchedulerInit ==
    /\ pc = [t \in Threads |-> "off"]
    /\ runLock = Nobody
    /\ pending = FALSE /\ stopped = FALSE
    /\ age = Never /\ timer = 0
    /\ caller = "stopped"
    /\ operations = 0

Goto(t, label) == pc' = [pc EXCEPT ![t] = label]

\* cycle_required
Due == age >= Interval
-----------------------------------------------------------------------------
(* start and stop *)

\* A thread that is still alive is taken for a scheduler that runs.
Start ==
    /\ caller = "stopped"
    /\ caller' = "started"
    /\ IF pc[Loop] # "off" THEN UNCHANGED <<pc, stopped>>
       ELSE stopped' = FALSE /\ Goto(Loop, "check")
    /\ UNCHANGED <<runLock, pending, age, timer, operations>>

Stop ==
    /\ caller = "started"
    /\ caller' = "stopping"
    /\ stopped' = TRUE
    /\ UNCHANGED <<pc, runLock, pending, age, timer, operations>>

\* The thread is waited for ten seconds, which only a refresh outlasts.
StopReturns ==
    /\ caller = "stopping"
    /\ pc[Loop] \in {"off", "cycle"}
    /\ caller' = "stopped"
    /\ UNCHANGED <<pc, runLock, pending, stopped, age, timer, operations>>
-----------------------------------------------------------------------------
(* trigger and trigger_if_required *)

Trigger(t) ==
    /\ t \in Manuals /\ pc[t] = "off"
    /\ ~pending /\ runLock = Nobody
    /\ pending' = TRUE
    /\ Goto(t, "acquire")
    /\ UNCHANGED <<runLock, stopped, age, timer, caller, operations>>
-----------------------------------------------------------------------------
(* _scheduler_loop *)

Sleep ==
    /\ Goto(Loop, "sleep")
    /\ timer' = IF age = Never THEN Interval ELSE Interval - age

CheckDue ==
    /\ pc[Loop] = "check"
    /\ \/ stopped /\ Goto(Loop, "off") /\ UNCHANGED timer
       \/ ~stopped /\ Due /\ Goto(Loop, "acquire") /\ UNCHANGED timer
       \/ ~stopped /\ ~Due /\ Sleep
    /\ UNCHANGED <<runLock, pending, stopped, age, caller, operations>>

\* Mutant of WakeUp: the event is waited for without a timeout.
WaitForStop ==
    /\ pc[Loop] = "sleep"
    /\ stopped
    /\ Goto(Loop, "check")
    /\ UNCHANGED <<runLock, pending, stopped, age, timer, caller, operations>>

WakeUp ==
    /\ pc[Loop] = "sleep"
    /\ timer = 0 \/ stopped
    /\ Goto(Loop, "check")
    /\ UNCHANGED <<runLock, pending, stopped, age, timer, caller, operations>>
-----------------------------------------------------------------------------
(* _run_cycle *)

\* Back to the caller: the loop goes to sleep, another thread ends.
Return(t) == IF t = Loop THEN Sleep ELSE Goto(t, "off") /\ UNCHANGED timer

BeginCycle(t) ==
    /\ pc[t] = "acquire"
    /\ runLock = Nobody
    /\ runLock' = t
    /\ age' = 0
    /\ Goto(t, "cycle")
    /\ UNCHANGED <<pending, stopped, timer, caller, operations>>

CannotBegin(t) ==
    /\ pc[t] = "acquire"
    /\ runLock # Nobody
    /\ Goto(t, "skip")
    /\ UNCHANGED <<runLock, pending, stopped, age, timer, caller, operations>>

\* Mutant of SkipCycle: the early return forgets the flag.
SkipOnly(t) ==
    /\ pc[t] = "skip"
    /\ Return(t)
    /\ UNCHANGED <<runLock, pending, stopped, age, caller, operations>>

SkipCycle(t) ==
    /\ pc[t] = "skip"
    /\ pending' = FALSE
    /\ Return(t)
    /\ UNCHANGED <<runLock, stopped, age, caller, operations>>

Finally == pending' = FALSE /\ runLock' = Nobody

\* The refresh succeeds, or fails with an exception that is caught.
EndCycle(t) ==
    /\ pc[t] = "cycle"
    /\ Finally
    /\ Return(t)
    /\ UNCHANGED <<stopped, age, caller, operations>>

\* A database error is none of those: it ends the thread.
CycleRaises(t) ==
    /\ pc[t] = "cycle"
    /\ Finally
    /\ Goto(t, "off")
    /\ UNCHANGED <<stopped, age, timer, caller, operations>>
-----------------------------------------------------------------------------
(* exclusive_portfolio_operation *)

Ask(t) ==
    /\ t \in Operations /\ pc[t] = "off"
    /\ operations < MaxOperations
    /\ operations' = operations + 1
    /\ Goto(t, "ask")
    /\ UNCHANGED <<runLock, pending, stopped, age, timer, caller>>

BeginOperation(t) ==
    /\ pc[t] = "ask"
    /\ runLock = Nobody
    /\ runLock' = t
    /\ Goto(t, "operate")
    /\ UNCHANGED <<pending, stopped, age, timer, caller, operations>>

\* Only with a timeout: PortfolioBusyError.
GiveUp(t) ==
    /\ pc[t] = "ask"
    /\ runLock # Nobody
    /\ Goto(t, "off")
    /\ UNCHANGED <<runLock, pending, stopped, age, timer, caller, operations>>

EndOperation(t) ==
    /\ pc[t] = "operate"
    /\ runLock' = Nobody
    /\ Goto(t, "off")
    /\ UNCHANGED <<pending, stopped, age, timer, caller, operations>>
-----------------------------------------------------------------------------
Tick ==
    /\ age' = IF age < Interval THEN age + 1 ELSE age
    /\ timer' = IF timer > 0 THEN timer - 1 ELSE timer
    /\ <<age, timer>>' # <<age, timer>>
    /\ UNCHANGED <<pc, runLock, pending, stopped, caller, operations>>

LoopStep == CheckDue \/ WakeUp
CycleStep(t) ==
    BeginCycle(t) \/ CannotBegin(t) \/ SkipCycle(t) \/ EndCycle(t) \/ CycleRaises(t)
OperationStep(t) == BeginOperation(t) \/ GiveUp(t) \/ EndOperation(t)

SchedulerNext ==
    \/ Start \/ Stop \/ StopReturns
    \/ \E t \in Manuals : Trigger(t)
    \/ LoopStep
    \/ \E t \in Refreshers : CycleStep(t)
    \/ \E t \in Operations : Ask(t) \/ OperationStep(t)
    \/ Tick

SchedulerSpec == SchedulerInit /\ [][SchedulerNext]_schedulerVars

\* Threads run, refreshes end (every provider call has a timeout), time passes;
\* nobody has to start, stop or trigger anything.
SchedulerFairSpec ==
    /\ SchedulerSpec
    /\ WF_schedulerVars(LoopStep) /\ WF_schedulerVars(Tick) /\ WF_schedulerVars(StopReturns)
    /\ \A t \in Refreshers : WF_schedulerVars(CycleStep(t))
    /\ \A t \in Operations : WF_schedulerVars(OperationStep(t))
-----------------------------------------------------------------------------
Labels == {"off", "check", "sleep", "acquire", "skip", "cycle", "ask", "operate"}

\* The types of the variables.
SchedulerTypeOK ==
    /\ pc \in [Threads -> Labels]
    /\ runLock \in Threads \cup {Nobody}
    /\ {pending, stopped} \subseteq BOOLEAN
    /\ caller \in {"started", "stopping", "stopped"}
    /\ age \in 0..Never /\ timer \in 0..Interval

\* The threads that refresh the market or work on a portfolio.
Inside == {t \in Threads : pc[t] \in {"cycle", "operate"}}

\* A refresh and a portfolio operation, or two of either, never overlap; the run lock
\* is free as soon as nobody is inside; and the flag that turns triggers away is up
\* only while a triggered thread is on its way: a skipped, failed or coalesced refresh
\* leaves neither of them behind.
LocksAreKept ==
    /\ SchedulerTypeOK
    /\ Inside = (IF runLock = Nobody THEN {} ELSE {runLock})
    /\ pending => \E t \in Manuals : pc[t] # "off"

\* A loop that is alive sees a refresh again and again, whatever is triggered and
\* whichever refreshes it has to skip, and a stop ends it unless a start takes it back.
LoopRefreshesUntilStopped ==
    /\ pc[Loop] # "off" ~> (\E t \in Refreshers : pc[t] = "cycle") \/ pc[Loop] = "off"
    /\ stopped ~> pc[Loop] = "off" \/ ~stopped
=============================================================================
