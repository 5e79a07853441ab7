----------------------------- MODULE Retention -----------------------------
(***************************************************************************)
(* What is deleted when it gets old and what is kept for ever: prune of    *)
(* adapters/sqlite/maintenance.py, run by every funnel cycle and by the    *)
(* maintenance script, against the decision batches that write the         *)
(* evidence of a trade (audit, committee steps, quotes) step by step, the  *)
(* reset that deletes trades, and crashes in between.                      *)
(*                                                                         *)
(* Abstractions: time is a number of days, and what one decision writes is *)
(* written within a day; the id of an audit is also that of its trade and  *)
(* quotes; the cached rows (news, briefs, prices, analyses) are the days   *)
(* they are of.                                                            *)
(***************************************************************************)
EXTENDS Integers, FiniteSets

CONSTANTS Agents, Committee,
          Window,      \* RetentionPolicy: the days that are kept
          LastDay, MaxBatches, MaxDecisions, MaxBatchFaults

ASSUME RetentionAssumption ==
    /\ Committee \subseteq Agents /\ Window \in Nat \ {0}
    /\ {LastDay, MaxBatches, MaxDecisions, MaxBatchFaults} \subseteq Nat

VARIABLES stored,     \* the tables
          worker,     \* the thread of the batch: its step, batch, agents left, decision
          day,
          keptCount   \* counters of the bounds

retentionVars == <<stored, worker, day, keptCount>>

NoMember == <<0, 0>>
Idle == [pc |-> "idle", batch |-> 0, left |-> {}, id |-> 0]

RetentionInit ==
    /\ stored = [batches |-> {}, members |-> {}, audits |-> {}, steps |-> {},
                 quotes |-> {}, trades |-> {}, cached |-> {}]
    /\ worker = Idle /\ day = 0
    /\ keptCount = [batches |-> 0, decisions |-> 0, faults |-> 0]

CountKept(field, bound) == keptCount[field] < bound /\ keptCount' = [keptCount EXCEPT ![field] = @ + 1]
-----------------------------------------------------------------------------
(* prune: one transaction, each DELETE on what the ones before it left *)

Old(row) == row.at < day - Window

\* The audits with a quote of a trade.
TradedIn(quotes) == {q.audit : q \in {r \in quotes : r.trade # 0}} \ {0}

\* NULL equals nothing: what has no row in a batch belongs to no audit.
HasTrade(member, audits, traded) ==
    member # NoMember /\ \E a \in audits : a.member = member /\ a.id \in traded

\* Mutant of BatchKept: the age of the batch decides alone.
BatchKeptIfYoung(b, audits, traded) == b.status = "running" \/ ~Old(b)

BatchKept(b, audits, traded) ==
    \/ b.status = "running" \/ ~Old(b)
    \/ \E a \in audits : a.member[1] = b.id /\ a.id \in traded

\* ON DELETE SET NULL and ON DELETE CASCADE of the schema.
Unlinked(rows, members) ==
    {IF r.member \in members THEN r ELSE [r EXCEPT !.member = NoMember] : r \in rows}

Pruned(s) ==
    LET quotes == {q \in s.quotes : q.trade # 0 \/ ~Old(q)}
        traded == TradedIn(quotes)
        audits == {a \in s.audits : a.id \in traded \/ ~Old(a)}
        steps == {r \in s.steps : ~Old(r) \/ HasTrade(r.member, audits, traded)}
        batches == {b \in s.batches : BatchKept(b, audits, traded)}
        members == {m \in s.members : \E b \in batches : b.id = m[1]}
    IN  [batches |-> batches, members |-> members, trades |-> s.trades,
         audits |-> Unlinked(audits, members), steps |-> Unlinked(steps, members),
         quotes |-> {IF \E a \in audits : a.id = q.audit THEN q
                     ELSE [q EXCEPT !.audit = 0] : q \in quotes},
         cached |-> {d \in s.cached : d >= day - Window}]

\* By every funnel cycle and by the maintenance script.
Prune ==
    /\ stored' = Pruned(stored)
    /\ UNCHANGED <<worker, day, keptCount>>
-----------------------------------------------------------------------------
(* The writers of the evidence *)

\* With the cached rows of its funnel cycle.  An agent created from now on takes part
\* without a row in the batch.
StartBatch ==
    /\ worker.pc = "idle" /\ CountKept("batches", MaxBatches)
    /\ \E members \in SUBSET Agents \ {{}} :
          stored' = [stored EXCEPT
              !.batches = @ \cup {[id |-> keptCount'.batches, status |-> "running", at |-> day]},
              !.members = @ \cup {<<keptCount'.batches, a>> : a \in members},
              !.cached = @ \cup {day}]
    /\ worker' = [pc |-> "next", batch |-> keptCount'.batches, left |-> Agents, id |-> 0]
    /\ UNCHANGED day

\* record_committee_step and record_decision: the row of the batch is looked up.
RecordDecision ==
    /\ worker.pc = "next" /\ CountKept("decisions", MaxDecisions)
    /\ \E a \in worker.left :
          LET own == <<worker.batch, a>>
              member == IF own \in stored.members THEN own ELSE NoMember
          IN  /\ stored' = [stored EXCEPT
                    !.audits = @ \cup {[id |-> keptCount'.decisions, member |-> member, at |-> day]},
                    !.steps = IF a \in Committee THEN @ \cup {[member |-> member, agent |-> a, at |-> day]}
                              ELSE @]
              /\ worker' = [worker EXCEPT !.pc = "decided", !.left = @ \ {a}, !.id = keptCount'.decisions]
    /\ UNCHANGED day

\* The history fields of a trade: the row in the batch of its decision, and whether
\* its quote was linked.
Trade ==
    /\ worker.pc = "decided" /\ worker' = [worker EXCEPT !.pc = "traded"]
    /\ stored' = [stored EXCEPT !.trades = @ \cup
          {[id |-> worker.id, linked |-> FALSE,
            member |-> IF \E a \in stored.audits : a.id = worker.id
                       THEN (CHOOSE a \in stored.audits : a.id = worker.id).member ELSE NoMember]}]
    /\ UNCHANGED <<day, keptCount>>

\* complete: a quote of every ticker that was asked for, the traded one and another.
\* A trade that is gone cannot be read, an audit that is gone not be referenced.
Complete ==
    LET traded == worker.pc = "traded"
        refused == \/ ~\E a \in stored.audits : a.id = worker.id
                   \/ traded /\ ~\E t \in stored.trades : t.id = worker.id
        Quote(trade) == [audit |-> worker.id, trade |-> trade, at |-> day]
    IN  /\ worker.pc \in {"decided", "traded"}
        /\ worker' = [worker EXCEPT !.pc = "next", !.id = 0]
        /\ IF refused THEN UNCHANGED stored
           ELSE stored' = [stored EXCEPT
                  !.quotes = @ \cup {Quote(0)} \cup (IF traded THEN {Quote(worker.id)} ELSE {}),
                  !.trades = {IF t.id = worker.id THEN [t EXCEPT !.linked = TRUE] ELSE t : t \in @}]
        /\ UNCHANGED <<day, keptCount>>

Finish(b, status) == IF b.status = "running" THEN [b EXCEPT !.status = status, !.at = day] ELSE b

CompleteBatch ==
    /\ worker.pc = "next" /\ worker' = Idle
    /\ stored' = [stored EXCEPT !.batches =
          {IF b.id = worker.batch THEN Finish(b, "completed") ELSE b : b \in @}]
    /\ UNCHANGED <<day, keptCount>>

StopAtOnce ==
    /\ worker.pc # "idle" /\ CountKept("faults", MaxBatchFaults)
    /\ worker' = [Idle EXCEPT !.pc = "down"]
    /\ UNCHANGED <<stored, day>>

RecoverInterrupted ==
    /\ worker.pc = "down" /\ worker' = Idle
    /\ stored' = [stored EXCEPT !.batches = {Finish(b, "interrupted") : b \in @}]
    /\ UNCHANGED <<day, keptCount>>

\* reset_mutable_simulation_state: the quotes stay and lose what they referenced.
ResetSimulation ==
    /\ worker.pc # "down" /\ CountKept("faults", MaxBatchFaults)
    /\ stored' = [stored EXCEPT
          !.batches = {}, !.members = {}, !.audits = {}, !.steps = {}, !.trades = {},
          !.cached = {}, !.quotes = {[q EXCEPT !.audit = 0, !.trade = 0] : q \in @}]
    /\ UNCHANGED <<worker, day>>

NextMorning ==
    /\ worker.pc \notin {"decided", "traded"} /\ day < LastDay /\ day' = day + 1
    /\ UNCHANGED <<stored, worker, keptCount>>

RetentionNext ==
    \/ Prune \/ StartBatch \/ RecordDecision \/ Trade \/ Complete \/ CompleteBatch
    \/ StopAtOnce \/ RecoverInterrupted \/ ResetSimulation \/ NextMorning

RetentionSpec == RetentionInit /\ [][RetentionNext]_retentionVars
-----------------------------------------------------------------------------
HasEvidence(t) ==
    /\ \E q \in stored.quotes : q.trade = t.id /\ q.audit = t.id
    /\ \E a \in stored.audits : a.id = t.id /\ a.member = t.member
    /\ t.member # NoMember =>
          /\ t.member \in stored.members
          /\ \E b \in stored.batches : b.id = t.member[1]
          /\ t.member[2] \in Committee => \E s \in stored.steps : s.member = t.member

OnlyEvidenceIsOld(left) ==
    LET IsTrade(id) == \E t \in stored.trades : t.id = id IN
    /\ \A a \in left.audits : Old(a) => IsTrade(a.id)
    /\ \A q \in left.quotes : Old(q) => IsTrade(q.trade)
    /\ \A s \in left.steps : Old(s) => \E t \in stored.trades : t.member = s.member
    /\ \A b \in left.batches :
          Old(b) /\ b.status # "running" => \E t \in stored.trades : t.member[1] = b.id

\* "Remove expired operational data without deleting financial ledger evidence": for
\* ever after a trade whose quote was linked, there are its quote, its audit, and if the
\* agent had a row in the batch, the batch with the market data it was shown and the
\* steps of its committee.  And what a prune leaves of what is old is evidence of a
\* trade or of a batch that runs.
EvidenceIsKept ==
    /\ \A t \in stored.trades : t.linked => HasEvidence(t)
    /\ OnlyEvidenceIsOld(Pruned(stored))

Members == (Nat \ {0}) \X Agents

RetentionTypeOK ==
    /\ stored \in [batches : SUBSET [id : Nat \ {0}, status : {"running", "completed", "interrupted"}, at : Nat],
                   members : SUBSET Members,
                   audits : SUBSET [id : Nat \ {0}, member : Members \cup {NoMember}, at : Nat],
                   steps : SUBSET [member : Members \cup {NoMember}, agent : Agents, at : Nat],
                   quotes : SUBSET [audit : Nat, trade : Nat, at : Nat],
                   trades : SUBSET [id : Nat \ {0}, linked : BOOLEAN, member : Members \cup {NoMember}],
                   cached : SUBSET Nat]
    /\ worker \in [pc : {"idle", "next", "decided", "traded", "down"}, batch : Nat,
                   left : SUBSET Agents, id : Nat]
    /\ day \in Nat /\ keptCount \in [batches : Nat, decisions : Nat, faults : Nat]

\* Identifiers are used once, and a quote names a trade together with its audit.
RowsInOrder ==
    /\ \A r \in stored.audits \cup stored.trades : r.id <= keptCount.decisions
    /\ \A a, c \in stored.audits : a.id = c.id => a = c
    /\ \A q \in stored.quotes : q.trade # 0 =>
          q.audit = q.trade /\ \E t \in stored.trades : t.id = q.trade /\ t.linked

\* The decision at work is of today and of a batch that runs, so no prune takes what its
\* trade will be evidence for.
DecisionAtWork ==
    /\ worker.pc \notin {"idle", "down"} => \A m \in stored.members : m[1] = worker.batch =>
          \E b \in stored.batches : b.id = worker.batch /\ b.status = "running"
    /\ worker.pc \in {"decided", "traded"} =>
          /\ worker.id \in 1..keptCount.decisions
          /\ \A a \in stored.audits : a.id = worker.id =>
                /\ a.at = day
                /\ a.member # NoMember =>
                      /\ a.member \in stored.members /\ a.member[1] = worker.batch
                      /\ a.member[2] \in Committee =>
                            \E s \in stored.steps : s.member = a.member /\ s.at = day
                /\ \A t \in stored.trades : t.id = worker.id => t.member = a.member
    /\ worker.pc = "decided" => \A t \in stored.trades : t.id # worker.id

\* The inductive invariant.
RetentionInv ==
    /\ RetentionTypeOK /\ RowsInOrder /\ DecisionAtWork
    /\ \A t \in stored.trades : t.linked => HasEvidence(t)
=============================================================================
