--------------------------- MODULE DecisionBatch ---------------------------
(***************************************************************************)
(* The durable decision batch: DecisionBatchStore (the rows), and          *)
(* DecisionBatchRunner (a thread per batch, which dies with the process).  *)
(* A batch takes a funnel cycle, then goes through the agents one by one:  *)
(* forced sells and their audit, a decision and its audit, the trade, the  *)
(* outcome of the audit, the status of the agent.  Every one of these is a *)
(* transaction of its own; no lock is held from one to the next, so a      *)
(* reset, a new agent or a crash can come between any two.                 *)
(*                                                                         *)
(* Abstractions: an agent makes at most one forced sale and one decision   *)
(* per batch; how a decision is made and what it trades is left out; the   *)
(* funnel cycle is captured, or the latest one reused, in one step.        *)
(***************************************************************************)
EXTENDS Integers, FiniteSets, FiniteSetsExt

CONSTANTS Agents,      \* user ids, in the order the agents are loaded in
          Initial,     \* the agents there are at the start
          Cooldown,
          MaxBatches, MaxTime, MaxCrashes, MaxResets,
          MaxFaults    \* bound on batches nobody can end

ASSUME AgentsAssumption == Agents \subseteq Nat /\ Initial \subseteq Agents
ASSUME CooldownAssumption == Cooldown \in Nat
ASSUME BoundsAssumption ==
    {MaxBatches, MaxTime, MaxCrashes, MaxResets, MaxFaults} \subseteq Nat

Batches == 1..MaxBatches

VARIABLES rows,      \* decision_batches and decision_batch_agents, by batch id
          trades,    \* transactions made by a batch: agent and kind
          audits,    \* decision_audits, by batch, agent and kind
          cycles,    \* funnel_cycles: the completed ones
          agents,    \* the agents there are now
          next,      \* AUTOINCREMENT identifiers of batches and cycles
          workers,   \* the thread of every batch
          up, clock,
          latest,    \* when the latest batch was started (no such column)
          count      \* counters of the bounds

vars == <<rows, trades, audits, cycles, agents, next, workers, up, clock, latest, count>>
data == <<rows, trades, audits, cycles, agents, next>>

Off == [pc |-> "off", cycle |-> 0, left |-> {}, agent |-> 0]

Empty == [b \in {} |-> 0]

Init ==
    /\ rows = Empty /\ trades = {} /\ audits = Empty /\ cycles = {}
    /\ agents = Initial
    /\ next = [batch |-> 1, cycle |-> 1]
    /\ workers = [b \in Batches |-> Off]
    /\ up = TRUE /\ clock = 0 /\ latest = -Cooldown
    /\ count = [crashes |-> 0, resets |-> 0, faults |-> 0]

Running == {b \in DOMAIN rows : rows[b].status = "running"}
Alive == {b \in Batches : workers[b].pc # "off"}

Goto(b, label) == workers' = [workers EXCEPT ![b].pc = label]
At(b, label) == up /\ workers[b].pc = label
-----------------------------------------------------------------------------
(* DecisionBatchRunner.start *)

\* Mutant of NoneRunning: the threads are asked, not the rows.
NoneAlive == Alive = {}

NoneRunning == Running = {}

\* Mutant of CooledDown: a batch that went wrong may be repeated at once.
CooledDownIfDone(now) ==
    DOMAIN rows # {} =>
        LET row == rows[Max(DOMAIN rows)] IN
        row.status = "completed" => now >= row.at + Cooldown

CooledDown(now) == DOMAIN rows # {} => now >= rows[Max(DOMAIN rows)].at + Cooldown

\* The time of a request is read before its turn comes.
Start(now) ==
    /\ up
    /\ next.batch \in Batches
    /\ NoneRunning
    /\ CooledDown(now)
    /\ LET b == next.batch
           row == [status |-> "running", at |-> now,
                   agents |-> [a \in agents |-> "queued"]]
       IN  /\ rows' = [i \in DOMAIN rows \cup {b} |-> IF i = b THEN row ELSE rows[i]]
           /\ next' = [next EXCEPT !.batch = b + 1]
           /\ latest' = now
           /\ \/ Goto(b, "cycle") /\ UNCHANGED count
              \/ \* the thread cannot be started: the row stays
                 /\ count.faults < MaxFaults
                 /\ count' = [count EXCEPT !.faults = @ + 1]
                 /\ UNCHANGED workers
    /\ UNCHANGED <<trades, audits, cycles, agents, up, clock>>
-----------------------------------------------------------------------------
(* DecisionBatchRunner.run *)

\* A recent cycle is reused or a new one captured; the agents are loaded again.
FunnelResult(b) ==
    /\ At(b, "cycle")
    /\ \E c \in cycles \cup {next.cycle} :
          /\ cycles' = cycles \cup {c}
          /\ next' = IF c = next.cycle THEN [next EXCEPT !.cycle = c + 1] ELSE next
          /\ workers' = [workers EXCEPT ![b] =
                [pc |-> "record", cycle |-> c, left |-> agents, agent |-> 0]]
    /\ UNCHANGED <<rows, trades, audits, agents, up, clock, latest, count>>

\* record_input: the snapshot references the batch and the cycle.
RecordInput(b) ==
    /\ At(b, "record")
    /\ Goto(b, IF b \in DOMAIN rows /\ workers[b].cycle \in cycles THEN "agent" ELSE "fail")
    /\ UNCHANGED <<data, up, clock, latest, count>>

\* An UPDATE of a row that a reset deleted, or that never was, does nothing.
Mark(b, a, status) ==
    rows' = IF b \in DOMAIN rows /\ a \in DOMAIN rows[b].agents
            THEN [rows EXCEPT ![b].agents[a] = status] ELSE rows

NextAgent(b) ==
    /\ At(b, "agent")
    /\ workers[b].left # {}
    /\ LET a == Min(workers[b].left) IN
          /\ Mark(b, a, "running")
          /\ workers' = [workers EXCEPT ![b] =
                [pc |-> "risk", cycle |-> @.cycle, left |-> @.left \ {a}, agent |-> a]]
    /\ UNCHANGED <<trades, audits, cycles, agents, next, up, clock, latest, count>>

\* Mutant of Trade: the row references nothing.
TradeUnlinked(b, kind) ==
    trades' = trades \cup {[batch |-> b, agent |-> workers[b].agent, kind |-> kind]}

\* The transactions row references the funnel cycle of the batch.
Trade(b, kind) ==
    /\ workers[b].cycle \in cycles
    /\ trades' = trades \cup {[batch |-> b, agent |-> workers[b].agent, kind |-> kind]}

\* Mutant of Key: one audit per agent.
KeyOfAgent(b, kind) == <<b, workers[b].agent, "decision">>

Key(b, kind) == <<b, workers[b].agent, kind>>

Audit(key, status) ==
    audits' = [k \in DOMAIN audits \cup {key} |-> IF k = key THEN status ELSE audits[k]]

\* auto_enforce_risk_rules, and the audits of what it sold.
ForcedSell(b) ==
    /\ At(b, "risk")
    /\ \/ Trade(b, "forced") /\ Goto(b, "forced")
       \/ Goto(b, "decide") /\ UNCHANGED trades
    /\ UNCHANGED <<rows, audits, cycles, agents, next, up, clock, latest, count>>

AuditForcedSell(b) ==
    /\ At(b, "forced")
    /\ Audit(Key(b, "forced"), "executed")
    /\ Goto(b, "decide")
    /\ UNCHANGED <<rows, trades, cycles, agents, next, up, clock, latest, count>>

\* The answer of the model is audited before anything is done about it; an
\* agent without an account is skipped.
RecordDecision(b) ==
    /\ At(b, "decide")
    /\ \/ Goto(b, "mark") /\ UNCHANGED audits
       \/ Audit(Key(b, "decision"), "pending") /\ Goto(b, "execute")
       \/ Audit(Key(b, "decision"), "not_attempted") /\ Goto(b, "mark")
    /\ UNCHANGED <<rows, trades, cycles, agents, next, up, clock, latest, count>>

\* Trading.execute_decision, or a HOLD, or a rejection.
ExecuteDecision(b) ==
    /\ At(b, "execute")
    /\ \/ Trade(b, "decision") /\ Goto(b, "executed")
       \/ Goto(b, "declined") /\ UNCHANGED trades
    /\ UNCHANGED <<rows, audits, cycles, agents, next, up, clock, latest, count>>

\* The quotes of an execution reference the audit, the outcome of a decision
\* that was not executed only updates it.
CompleteAudit(b) ==
    /\ up /\ workers[b].pc \in {"executed", "declined"}
    /\ Key(b, "decision") \in DOMAIN audits \/ workers[b].pc = "declined"
    /\ audits' = [k \in DOMAIN audits |-> IF k = Key(b, "decision") THEN workers[b].pc ELSE audits[k]]
    /\ Goto(b, "mark")
    /\ UNCHANGED <<rows, trades, cycles, agents, next, up, clock, latest, count>>

MarkCompleted(b) ==
    /\ At(b, "mark")
    /\ Mark(b, workers[b].agent, "completed")
    /\ Goto(b, "agent")
    /\ UNCHANGED <<trades, audits, cycles, agents, next, up, clock, latest, count>>

\* Any exception while one agent is processed: the next agent has its turn.
Processing == {"risk", "forced", "decide", "execute", "executed", "declined", "mark"}

\* Mutant of AgentFails: the agent is tried again.
AgentRetried(b) ==
    /\ up /\ workers[b].pc \in Processing
    /\ Goto(b, "risk")
    /\ UNCHANGED <<data, up, clock, latest, count>>

AgentFails(b) ==
    /\ up /\ workers[b].pc \in Processing
    /\ Mark(b, workers[b].agent, "failed")
    /\ Goto(b, "agent")
    /\ UNCHANGED <<trades, audits, cycles, agents, next, up, clock, latest, count>>

\* An exception outside of that: no cycle, no market data, a row that cannot be
\* written, a status that cannot be published.
WorkerFails(b) ==
    /\ up /\ workers[b].pc \in Processing \cup {"cycle", "record", "agent"}
    /\ Goto(b, "fail")
    /\ UNCHANGED <<data, up, clock, latest, count>>

EndBatch(b, status) ==
    /\ rows' = IF b \in DOMAIN rows THEN [rows EXCEPT ![b].status = status] ELSE rows
    /\ workers' = [workers EXCEPT ![b] = Off]

SomeFailed(b) ==
    b \in DOMAIN rows /\ \E a \in DOMAIN rows[b].agents : rows[b].agents[a] = "failed"

Complete(b) ==
    /\ At(b, "agent")
    /\ workers[b].left = {}
    /\ EndBatch(b, IF SomeFailed(b) THEN "completed_with_errors" ELSE "completed")
    /\ UNCHANGED <<trades, audits, cycles, agents, next, up, clock, latest, count>>

\* store.fail leaves the rows of the agents alone.
Fail(b) ==
    /\ At(b, "fail")
    /\ EndBatch(b, "failed")
    /\ UNCHANGED <<trades, audits, cycles, agents, next, up, clock, latest, count>>

\* store.fail raises as well, and the thread is gone.
FailLost(b) ==
    /\ At(b, "fail")
    /\ count.faults < MaxFaults
    /\ count' = [count EXCEPT !.faults = @ + 1]
    /\ workers' = [workers EXCEPT ![b] = Off]
    /\ UNCHANGED <<data, up, clock, latest>>
-----------------------------------------------------------------------------
(* What comes in between *)

\* SimulationOperations.reset asks for the scheduler's run lock, which no batch
\* holds.
Reset ==
    /\ up
    /\ count.resets < MaxResets
    /\ count' = [count EXCEPT !.resets = @ + 1]
    /\ rows' = Empty /\ trades' = {} /\ audits' = Empty /\ cycles' = {}
    /\ UNCHANGED <<agents, next, workers, up, clock, latest>>

CreateAgent ==
    /\ up
    /\ \E a \in Agents : a > Max(agents) /\ agents' = agents \cup {a}
    /\ UNCHANGED <<rows, trades, audits, cycles, next, workers, up, clock, latest, count>>

Tick ==
    /\ clock < MaxTime
    /\ clock' = clock + 1
    /\ UNCHANGED <<data, workers, up, latest, count>>

Crash ==
    /\ up
    /\ count.crashes < MaxCrashes
    /\ count' = [count EXCEPT !.crashes = @ + 1]
    /\ up' = FALSE
    /\ workers' = [b \in Batches |-> Off]
    /\ UNCHANGED <<data, clock, latest>>

\* AppRuntime.start: recover_interrupted, before any request is served.
Recovered(row) ==
    [status |-> IF row.status = "running" THEN "interrupted" ELSE row.status,
     at     |-> row.at,
     agents |-> [a \in DOMAIN row.agents |->
                    IF row.agents[a] \in {"queued", "running"} THEN "interrupted"
                    ELSE row.agents[a]]]

Restart ==
    /\ ~up
    /\ up' = TRUE
    /\ rows' = [b \in DOMAIN rows |-> Recovered(rows[b])]
    /\ UNCHANGED <<trades, audits, cycles, agents, next, workers, clock, latest, count>>

WorkerStep(b) ==
    \/ FunnelResult(b) \/ RecordInput(b) \/ NextAgent(b)
    \/ ForcedSell(b) \/ AuditForcedSell(b) \/ RecordDecision(b) \/ ExecuteDecision(b)
    \/ CompleteAudit(b) \/ MarkCompleted(b) \/ AgentFails(b) \/ WorkerFails(b)
    \/ Complete(b) \/ Fail(b) \/ FailLost(b)

\* Nothing more will happen within the bounds.
Finished == up /\ clock = MaxTime /\ Alive = {} /\ UNCHANGED vars

Next ==
    \/ \E now \in 0..clock : Start(now)
    \/ \E b \in Batches : WorkerStep(b)
    \/ Reset \/ CreateAgent \/ Tick \/ Crash \/ Restart
    \/ Finished

Spec == Init /\ [][Next]_vars

\* A thread goes on as long as the process lives, every call it makes to a
\* provider having a timeout; a server that died is started again.
FairSpec == Spec /\ WF_vars(Restart) /\ \A b \in Batches : WF_vars(WorkerStep(b))
-----------------------------------------------------------------------------
BatchStatuses == {"running", "completed", "completed_with_errors", "failed", "interrupted"}
AgentStatuses == {"queued", "running", "completed", "failed", "interrupted"}
Labels == Processing \cup {"off", "cycle", "record", "agent", "fail"}
Kinds == {"forced", "decision"}

Row == [status : BatchStatuses, at : 0..MaxTime,
        agents : UNION {[S -> AgentStatuses] : S \in SUBSET Agents}]
Worker == [pc : Labels, cycle : Nat, left : SUBSET Agents, agent : Nat]

\* The types of the variables.
TypeOK ==
    /\ rows \in [DOMAIN rows -> Row] /\ DOMAIN rows \subseteq Batches
    /\ trades \subseteq [batch : Batches, agent : Agents, kind : Kinds]
    /\ DOMAIN audits \subseteq Batches \X Agents \X Kinds
    /\ \A k \in DOMAIN audits :
          audits[k] \in {"pending", "not_attempted", "executed", "declined"}
    /\ agents \subseteq Agents
    /\ next.batch \in 1..(MaxBatches + 1) /\ next.cycle \in Nat \ {0}
    /\ next = [batch |-> next.batch, cycle |-> next.cycle]
    /\ cycles \subseteq 1..(next.cycle - 1)
    /\ workers \in [Batches -> Worker]
    /\ \A b \in Batches : workers[b].pc \in Processing => workers[b].agent \in Agents
    /\ up \in BOOLEAN /\ clock \in 0..MaxTime /\ latest \in Int
    /\ count \in [crashes : 0..MaxCrashes, resets : 0..MaxResets, faults : 0..MaxFaults]

\* At most one batch is running as far as anybody can see, and while nothing prevents
\* the last write of a thread, the batch that blocks a new one has a thread that works
\* on it.
OneRunningRow ==
    /\ TypeOK
    /\ Cardinality(Running) <= 1
    /\ up /\ count.faults = 0 => Running \subseteq Alive

\* A batch that is reported complete has an outcome for every one of its agents, and
\* mentions errors exactly when an agent failed; at any moment of a running batch the
\* agents before some point have an outcome, those after it have none.
Outcomes == {"completed", "failed"}

OneByOne(row) ==
    \A a, c \in DOMAIN row.agents :
        a < c => row.agents[a] \in Outcomes \/ row.agents[c] = "queued"

OutcomesAreComplete ==
    \A b \in DOMAIN rows :
        LET outcomes == {rows[b].agents[a] : a \in DOMAIN rows[b].agents} IN
        /\ rows[b].status \in {"completed", "completed_with_errors"} => outcomes \subseteq Outcomes
        /\ rows[b].status = "completed" => "failed" \notin outcomes
        /\ rows[b].status = "completed_with_errors" => "failed" \in outcomes
        /\ rows[b].status = "running" => OneByOne(rows[b])

\* An agent is reported completed only with an audit that says of every trade,
\* and of no other, that it was executed.
Traded(b, a, kind) == [batch |-> b, agent |-> a, kind |-> kind] \in trades
Audited(b, a, kind) == <<b, a, kind>> \in DOMAIN audits /\ audits[<<b, a, kind>>] = "executed"

Accounted(b, a, kind) == Traded(b, a, kind) <=> Audited(b, a, kind)

TradesAreAudited ==
    \A b \in DOMAIN rows : \A a \in DOMAIN rows[b].agents :
        rows[b].agents[a] = "completed" => \A kind \in Kinds : Accounted(b, a, kind)

\* What a batch reports as complete is complete: its agents, and the audits of theirs.
CompletedIsComplete == OutcomesAreComplete /\ TradesAreAudited

\* No transaction outlives the cycle it was decided on: a worker that a reset
\* overtook does not trade in the new simulation.
NoTradeOutlivesReset ==
    \A t \in trades : t.batch \in DOMAIN rows

\* How a batch or an agent ended is never rewritten, not by a worker that goes on after
\* a reset, not by the recovery after a crash; and from the start of a batch to that of
\* the next there is at least the cooldown, crashes or not, as long as a reset does not
\* delete the first.
Final ==
    \A b \in DOMAIN rows \cap DOMAIN rows' :
        /\ rows[b].status # "running" => rows'[b].status = rows[b].status
        /\ \A a \in DOMAIN rows[b].agents :
              rows[b].agents[a] \notin {"queued", "running"}
                  => rows'[b].agents[a] = rows[b].agents[a]

Spaced == DOMAIN rows # {} /\ next'.batch # next.batch => latest' >= latest + Cooldown

BatchesAreSettled == [][Final /\ Spaced]_vars

\* Identifiers are used once, and nothing refers to one that was not given out yet;
\* the latest batch, if it was not deleted, knows when it started.
IdentifiersAreFresh ==
    /\ \A b \in DOMAIN rows \cup Alive : b < next.batch
    /\ \A t \in trades : t.batch < next.batch
    /\ \A k \in DOMAIN audits : k[1] < next.batch
    /\ \A b \in Batches : workers[b].cycle < next.cycle
    /\ DOMAIN rows # {} => next.batch - 1 \in DOMAIN rows /\ rows[next.batch - 1].at = latest

\* A thread works only while the process lives, on a batch that nobody else ends; it
\* has a cycle only together with its batch.
WorkersAreSound ==
    /\ ~up => Alive = {}
    /\ \A b \in Alive :
          /\ b \in DOMAIN rows => rows[b].status = "running"
          /\ workers[b].pc \in Processing \cup {"agent"} /\ workers[b].cycle \in cycles
                 => b \in DOMAIN rows

\* The agents a thread has not come to yet, and what it did for them: nothing.
Ahead(b) == IF workers[b].pc \in {"cycle", "record"} THEN Agents ELSE workers[b].left

NothingDone(b, a, kind) == ~Traded(b, a, kind) /\ <<b, a, kind>> \notin DOMAIN audits

\* What it did for the agent it is at, step by step.
Progress(b, a) ==
    LET at == workers[b].pc IN
    /\ at = "risk" => NothingDone(b, a, "forced")
    /\ at = "forced" => Traded(b, a, "forced")
    /\ at \in Processing \ {"risk", "forced"} => Accounted(b, a, "forced")
    /\ at \in {"risk", "forced", "decide"} => NothingDone(b, a, "decision")
    /\ at \in {"execute", "declined"} => ~Traded(b, a, "decision") /\ ~Audited(b, a, "decision")
    /\ at = "executed" => Traded(b, a, "decision")
    /\ at = "mark" => Accounted(b, a, "decision")

\* A thread and the row of its batch agree on who was served, who is and who waits,
\* the waiting ones being the last in the order.
InStep(b) ==
    LET w == workers[b] row == rows[b] IN
    /\ w.pc = "cycle" => DOMAIN row.agents \subseteq agents
    /\ w.pc = "record" => DOMAIN row.agents \subseteq w.left
    /\ w.pc \in {"cycle", "record"} => \A a \in DOMAIN row.agents : row.agents[a] = "queued"
    /\ w.pc \in Processing \cup {"agent"} =>
          \A a \in DOMAIN row.agents :
              \/ a \in w.left /\ row.agents[a] = "queued"
              \/ a \notin w.left /\ w.pc \in Processing /\ a = w.agent /\ row.agents[a] = "running"
              \/ /\ a \notin w.left /\ row.agents[a] \in Outcomes
                 /\ w.pc \in Processing => a < w.agent
                 /\ \A c \in w.left : a < c
    /\ w.pc \in Processing => \A c \in w.left : w.agent < c
    /\ w.pc # "fail" => \A a \in Ahead(b), kind \in Kinds : NothingDone(b, a, kind)
    /\ w.pc \in Processing => Progress(b, w.agent)

\* The inductive strengthening of the invariants and of BatchesAreSettled.
BatchInv ==
    /\ OneRunningRow /\ CompletedIsComplete /\ NoTradeOutlivesReset
    /\ IdentifiersAreFresh /\ WorkersAreSound
    /\ \A b \in Alive : b \in DOMAIN rows => InStep(b)

\* Every batch comes to an end or is deleted, unless the write that ends it is
\* lost.
EveryBatchEnds ==
    \A b \in Batches : b \in Running ~> b \notin Running \/ count.faults > 0
=============================================================================
