------------------------ MODULE DecisionBatchProofs ------------------------
(***************************************************************************)
(* What a decision batch promises, for any agents, any number of batches,  *)
(* crashes and resets: one batch runs at a time, no trade outlives a       *)
(* reset, what is reported complete is complete, and what ended stays as   *)
(* it ended.                                                               *)
(*                                                                         *)
(* The induction is on BatchInv: the thread of a batch and its rows walk   *)
(* in step as long as the rows are there, and identifiers are never used   *)
(* twice, so that nothing a thread does after a reset meets a new batch.   *)
(***************************************************************************)
EXTENDS DecisionBatch, FiniteSetTheorems, WellFoundedInduction, TLAPS

(* Rows and workers *)

\* A row, field by field.
LEMMA RowFields ==
    /\ \A row \in Row :
          /\ row.status \in BatchStatuses /\ row.at \in 0..MaxTime
          /\ DOMAIN row.agents \in SUBSET Agents
          /\ row.agents \in [DOMAIN row.agents -> AgentStatuses]
          /\ row = [status |-> row.status, at |-> row.at, agents |-> row.agents]
    /\ \A status \in BatchStatuses, at \in 0..MaxTime, S \in SUBSET Agents :
          \A f \in [S -> AgentStatuses] : [status |-> status, at |-> at, agents |-> f] \in Row
<1>1. ASSUME NEW row \in Row
      PROVE  /\ DOMAIN row.agents \in SUBSET Agents
             /\ row.agents \in [DOMAIN row.agents -> AgentStatuses]
  <2>1. PICK S \in SUBSET Agents : row.agents \in [S -> AgentStatuses]
    BY DEF Row
  <2> QED
    BY <2>1
<1>2. \A row \in Row :
         /\ row.status \in BatchStatuses /\ row.at \in 0..MaxTime
         /\ row = [status |-> row.status, at |-> row.at, agents |-> row.agents]
  BY DEF Row
<1>3. \A status \in BatchStatuses, at \in 0..MaxTime, S \in SUBSET Agents :
         \A f \in [S -> AgentStatuses] : [status |-> status, at |-> at, agents |-> f] \in Row
  BY DEF Row
<1> QED
  BY <1>1, <1>2, <1>3

\* A status is written for one agent of one batch, if that row is there.
LEMMA MarkFacts ==
    ASSUME TypeOK, NEW b \in Batches, NEW a, NEW status \in AgentStatuses, Mark(b, a, status)
    PROVE  /\ DOMAIN rows' = DOMAIN rows
           /\ rows' \in [DOMAIN rows -> Row]
           /\ \A c \in DOMAIN rows :
                 /\ rows'[c].status = rows[c].status /\ rows'[c].at = rows[c].at
                 /\ DOMAIN rows'[c].agents = DOMAIN rows[c].agents
                 /\ c # b => rows'[c] = rows[c]
                 /\ \A x \in DOMAIN rows[c].agents :
                       rows'[c].agents[x] =
                          IF c = b /\ x = a THEN status ELSE rows[c].agents[x]
<1>1. rows \in [DOMAIN rows -> Row]
  BY DEF TypeOK
<1>2. CASE b \in DOMAIN rows /\ a \in DOMAIN rows[b].agents
  <2>1. rows' = [rows EXCEPT ![b].agents[a] = status]
    BY <1>2 DEF Mark
  <2> DEFINE old == rows[b]
             marked == [old.agents EXCEPT ![a] = status]
             new == [status |-> old.status, at |-> old.at, agents |-> marked]
  <2>2. old \in Row
    BY <1>1, <1>2
  <2>3. /\ old.status \in BatchStatuses /\ old.at \in 0..MaxTime
        /\ DOMAIN old.agents \in SUBSET Agents
        /\ old.agents \in [DOMAIN old.agents -> AgentStatuses]
        /\ old = [status |-> old.status, at |-> old.at, agents |-> old.agents]
    BY <2>2, RowFields
  <2>4. marked \in [DOMAIN old.agents -> AgentStatuses]
    BY <2>3
  <2>5. new \in Row
    BY <2>3, <2>4, RowFields
  <2>6. rows' = [rows EXCEPT ![b] = new]
    <3>1. rows' = [rows EXCEPT ![b] = [old EXCEPT !.agents = marked]]
      BY <2>1
    <3>2. [old EXCEPT !.agents = marked] = new
      <4> HIDE DEF marked, old
      <4> QED
        BY <2>3
    <3> QED
      BY <3>1, <3>2
  <2>7. rows' \in [DOMAIN rows -> Row] /\ DOMAIN rows' = DOMAIN rows
    BY <1>1, <2>5, <2>6
  <2>8. rows'[b] = new /\ \A c \in DOMAIN rows : c # b => rows'[c] = rows[c]
    BY <1>1, <1>2, <2>6
  <2>9. /\ DOMAIN marked = DOMAIN old.agents
        /\ \A x \in DOMAIN old.agents : marked[x] = IF x = a THEN status ELSE old.agents[x]
    BY <2>3
  <2>10. /\ new.status = old.status /\ new.at = old.at /\ new.agents = marked
    OBVIOUS
  <2> HIDE DEF old, marked, new
  <2> QED
    BY <2>7, <2>8, <2>9, <2>10 DEF old
<1>3. CASE ~(b \in DOMAIN rows /\ a \in DOMAIN rows[b].agents)
  BY <1>1, <1>3 DEF Mark
<1> QED
  BY <1>2, <1>3

\* The worker of one batch changes and no other.
LEMMA WorkerChanges ==
    ASSUME TypeOK, NEW b \in Batches, NEW w \in Worker,
           workers' = [workers EXCEPT ![b] = w]
    PROVE  /\ workers' \in [Batches -> Worker] /\ workers'[b] = w
           /\ \A c \in Batches : c # b => workers'[c] = workers[c]
BY DEF TypeOK

\* Where a worker goes, it keeps its cycle, its agents and the one it is at.
LEMMA GotoFacts ==
    ASSUME TypeOK, NEW b \in Batches, NEW label \in Labels, Goto(b, label)
    PROVE  /\ workers' \in [Batches -> Worker] /\ workers'[b].pc = label
           /\ workers'[b].cycle = workers[b].cycle /\ workers'[b].left = workers[b].left
           /\ workers'[b].agent = workers[b].agent
           /\ \A c \in Batches : c # b => workers'[c] = workers[c]
<1> DEFINE old == workers[b]
           w == [pc |-> label, cycle |-> old.cycle, left |-> old.left, agent |-> old.agent]
<1>1. old \in Worker /\ workers \in [Batches -> Worker]
  BY DEF TypeOK
<1>2. w \in Worker
  BY <1>1 DEF Worker
<1>3. [old EXCEPT !.pc = label] = w
  BY <1>1 DEF Worker
<1>4. workers' = [workers EXCEPT ![b] = w]
  BY <1>1, <1>3 DEF Goto
<1> HIDE DEF old
<1> QED
  BY <1>2, <1>4, WorkerChanges DEF old

\* The first of some agents.
LEMMA MinFacts ==
    ASSUME NEW S \in SUBSET Nat, S # {}
    PROVE  Min(S) \in S /\ \A a \in S : Min(S) <= a
<1> DEFINE R == OpToRel(<, Nat)
<1>1. IsWellFoundedOn(R, Nat)
  BY NatLessThanWellFounded, Zenon
<1>2. \A x, y \in Nat : x < y => <<x, y>> \in R
  BY DEF OpToRel
<1> HIDE DEF R
<1>3. PICK x \in S : \A y \in S : <<y, x>> \notin R
  BY <1>1, WFMin, Zenon
<1>4. \A y \in S : x <= y
  <2>1. \A i, j \in Nat : ~(j < i) => i <= j
    OBVIOUS
  <2> QED
    BY <1>2, <1>3, <2>1
<1> QED
  BY <1>4 DEF Min

\* The last of some numbers, when it is there.
LEMMA MaxFacts ==
    ASSUME NEW S \in SUBSET Int, NEW m \in S, \A x \in S : x <= m
    PROVE  Max(S) = m
<1>1. \A x \in S : m >= x
  OBVIOUS
<1>2. Max(S) \in S /\ \A x \in S : Max(S) >= x
  BY <1>1 DEF Max
<1>3. Max(S) \in Int /\ m \in Int /\ Max(S) >= m /\ Max(S) <= m
  BY <1>2
<1> QED
  BY <1>3
-----------------------------------------------------------------------------
(* What a step of a thread may change *)

\* The rows of its own batch, and of those only the statuses.
LEMMA RowsStep ==
    ASSUME TypeOK, NEW b \in Batches, WorkerStep(b)
    PROVE  /\ DOMAIN rows' = DOMAIN rows
           /\ rows' \in [DOMAIN rows -> Row]
           /\ \A c \in DOMAIN rows :
                 /\ rows'[c].at = rows[c].at
                 /\ DOMAIN rows'[c].agents = DOMAIN rows[c].agents
                 /\ c # b => rows'[c] = rows[c]
<1>1. rows \in [DOMAIN rows -> Row]
  BY DEF TypeOK
<1>2. CASE rows' = rows
  BY <1>1, <1>2
<1>3. CASE NextAgent(b) \/ MarkCompleted(b) \/ AgentFails(b)
  <2>1. PICK status \in {"running", "completed", "failed"}, a \in {Min(workers[b].left), workers[b].agent} :
           Mark(b, a, status)
    <3>1. ASSUME NextAgent(b) PROVE Mark(b, Min(workers[b].left), "running")
      BY <3>1 DEF NextAgent
    <3>2. ASSUME MarkCompleted(b) PROVE Mark(b, workers[b].agent, "completed")
      BY <3>2 DEF MarkCompleted
    <3>3. ASSUME AgentFails(b) PROVE Mark(b, workers[b].agent, "failed")
      BY <3>3 DEF AgentFails
    <3> QED
      BY <1>3, <3>1, <3>2, <3>3
  <2>2. status \in AgentStatuses
    BY DEF AgentStatuses
  <2> QED
    BY <2>1, <2>2, MarkFacts
<1>4. CASE Complete(b) \/ Fail(b)
  <2>1. PICK status \in {"completed", "completed_with_errors", "failed"} : EndBatch(b, status)
    BY <1>4 DEF Complete, Fail
  <2>2. CASE b \in DOMAIN rows
    <3> DEFINE old == rows[b]
               new == [status |-> status, at |-> old.at, agents |-> old.agents]
    <3>1. old \in Row
      BY <1>1, <2>2
    <3>2. [old EXCEPT !.status = status] = new /\ new \in Row
      <4>1. /\ old = [status |-> old.status, at |-> old.at, agents |-> old.agents]
            /\ old.at \in 0..MaxTime /\ DOMAIN old.agents \in SUBSET Agents
            /\ old.agents \in [DOMAIN old.agents -> AgentStatuses]
            /\ status \in BatchStatuses
        BY <3>1, RowFields DEF BatchStatuses
      <4> HIDE DEF old
      <4>2. [old EXCEPT !.status = status] = new
        BY <4>1
      <4>3. new \in Row
        BY <4>1, RowFields
      <4> QED
        BY <4>2, <4>3
    <3>3. rows' = [rows EXCEPT ![b] = new]
      BY <2>1, <2>2, <3>2 DEF EndBatch
    <3>4. /\ rows'[b] = new /\ new.at = old.at /\ new.agents = old.agents
          /\ \A c \in DOMAIN rows : c # b => rows'[c] = rows[c]
          /\ rows' \in [DOMAIN rows -> Row] /\ DOMAIN rows' = DOMAIN rows
      BY <1>1, <2>2, <3>2, <3>3
    <3> HIDE DEF new, old
    <3> QED
      BY <3>4 DEF old
  <2>3. CASE b \notin DOMAIN rows
    BY <2>1, <2>3, <1>2 DEF EndBatch
  <2> QED
    BY <2>2, <2>3
<1>5. rows' = rows \/ NextAgent(b) \/ MarkCompleted(b) \/ AgentFails(b) \/ Complete(b) \/ Fail(b)
  BY DEF WorkerStep, FunnelResult, RecordInput, ForcedSell, AuditForcedSell, RecordDecision,
         ExecuteDecision, CompleteAudit, WorkerFails, FailLost, data
<1> QED
  BY <1>2, <1>3, <1>4, <1>5

\* Its own place.
LEMMA WorkersStep ==
    ASSUME TypeOK, NEW b \in Batches, WorkerStep(b)
    PROVE  /\ workers' \in [Batches -> Worker]
           /\ \A c \in Batches : c # b => workers'[c] = workers[c]
           /\ workers'[b].pc \in Processing => workers'[b].agent \in Agents
           /\ workers[b].pc # "off" /\ up
           /\ workers'[b].cycle \in {0, workers[b].cycle} \cup cycles'
<1>1. /\ workers \in [Batches -> Worker] /\ next.cycle \in Nat /\ agents \in SUBSET Agents
      /\ workers[b].left \in SUBSET Agents /\ workers[b].cycle \in Nat
      /\ (workers[b].pc \in Processing => workers[b].agent \in Agents)
      /\ Agents \in SUBSET Nat /\ cycles \in SUBSET Nat
  BY AgentsAssumption DEF TypeOK, Worker
<1>2. workers[b].pc # "off" /\ up
  BY DEF WorkerStep, At, FunnelResult, RecordInput, NextAgent, ForcedSell, AuditForcedSell,
         RecordDecision, ExecuteDecision, CompleteAudit, MarkCompleted, AgentFails, WorkerFails,
         Complete, Fail, FailLost, Processing
<1>3. CASE FunnelResult(b)
  <2>1. PICK c \in cycles' : workers' = [workers EXCEPT ![b] =
           [pc |-> "record", cycle |-> c, left |-> agents, agent |-> 0]]
    BY <1>3 DEF FunnelResult
  <2>2. c \in Nat
    BY <1>1, <1>3, <2>1 DEF FunnelResult
  <2>3. [pc |-> "record", cycle |-> c, left |-> agents, agent |-> 0] \in Worker
    BY <1>1, <2>2 DEF Worker, Labels
  <2> QED
    BY <1>2, <2>1, <2>3, WorkerChanges DEF Processing
<1>4. CASE NextAgent(b)
  <2> DEFINE old == workers[b]
             a == Min(old.left)
             new == [pc |-> "risk", cycle |-> old.cycle, left |-> old.left \ {a}, agent |-> a]
  <2>1. a \in old.left
    BY <1>1, <1>4, MinFacts DEF NextAgent
  <2>2. a \in Agents /\ new \in Worker
    BY <1>1, <2>1 DEF Worker, Labels, Processing
  <2>3. workers' = [workers EXCEPT ![b] = new]
    BY <1>1, <1>4 DEF NextAgent
  <2> QED
    BY <1>2, <2>2, <2>3, WorkerChanges
<1>5. CASE \E label \in Labels : /\ Goto(b, label)
                                 /\ label \in Processing => workers[b].pc \in Processing
  BY <1>1, <1>2, <1>5, GotoFacts
<1>6. CASE workers' = [workers EXCEPT ![b] = Off]
  <2>1. Off \in Worker /\ Off.pc \notin Processing /\ Off.cycle = 0
    BY DEF Off, Worker, Labels, Processing
  <2> QED
    BY <1>2, <1>6, <2>1, WorkerChanges
<1>7. ASSUME RecordInput(b) \/ ForcedSell(b) \/ AuditForcedSell(b) \/ RecordDecision(b)
             \/ ExecuteDecision(b) \/ CompleteAudit(b) \/ MarkCompleted(b) \/ AgentFails(b)
             \/ WorkerFails(b)
      PROVE  \E label \in Labels : /\ Goto(b, label)
                                   /\ label \in Processing => workers[b].pc \in Processing
  <2>1. CASE RecordInput(b) \/ MarkCompleted(b) \/ AgentFails(b) \/ WorkerFails(b)
    <3>1. \E label \in {"agent", "fail"} : Goto(b, label)
      BY <2>1 DEF RecordInput, MarkCompleted, AgentFails, WorkerFails
    <3> QED
      BY <3>1 DEF Labels, Processing
  <2>2. CASE ForcedSell(b) \/ AuditForcedSell(b) \/ RecordDecision(b) \/ ExecuteDecision(b)
             \/ CompleteAudit(b)
    <3>1. workers[b].pc \in Processing
      BY <2>2 DEF ForcedSell, AuditForcedSell, RecordDecision, ExecuteDecision, CompleteAudit,
                  At, Processing
    <3>2. \E label \in {"forced", "decide", "execute", "mark", "executed", "declined"} : Goto(b, label)
      BY <2>2 DEF ForcedSell, AuditForcedSell, RecordDecision, ExecuteDecision, CompleteAudit
    <3> QED
      BY <3>1, <3>2 DEF Labels, Processing
  <2> QED
    BY <1>7, <2>1, <2>2
<1>8. ASSUME Complete(b) \/ Fail(b) \/ FailLost(b) PROVE workers' = [workers EXCEPT ![b] = Off]
  BY <1>8 DEF Complete, Fail, FailLost, EndBatch
<1> QED
  BY <1>3, <1>4, <1>5, <1>6, <1>7, <1>8 DEF WorkerStep

\* Trades, audits and cycles: what is added is its own, and nothing is taken away.
LEMMA DataStep ==
    ASSUME TypeOK, NEW b \in Batches, WorkerStep(b)
    PROVE  /\ trades \subseteq trades' /\ DOMAIN audits \subseteq DOMAIN audits'
           /\ trades' \subseteq [batch : Batches, agent : Agents, kind : Kinds]
           /\ \A t \in trades' : t \in trades \/ (t.batch = b /\ workers[b].pc \in Processing
                                                  /\ workers[b].cycle \in cycles)
           /\ DOMAIN audits' \subseteq Batches \X Agents \X Kinds
           /\ \A k \in DOMAIN audits' :
                 /\ audits'[k] \in {"pending", "not_attempted", "executed", "declined"}
                 /\ k[1] # b => k \in DOMAIN audits /\ audits'[k] = audits[k]
<1>1. /\ workers[b].pc \in Processing => workers[b].agent \in Agents
      /\ trades \subseteq [batch : Batches, agent : Agents, kind : Kinds]
      /\ DOMAIN audits \subseteq Batches \X Agents \X Kinds
      /\ \A k \in DOMAIN audits : audits[k] \in {"pending", "not_attempted", "executed", "declined"}
  BY DEF TypeOK
<1>2. ASSUME NEW kind \in Kinds, Trade(b, kind), workers[b].pc \in Processing
      PROVE  /\ trades \subseteq trades'
             /\ trades' \subseteq [batch : Batches, agent : Agents, kind : Kinds]
             /\ \A t \in trades' : t \in trades \/ (t.batch = b /\ workers[b].pc \in Processing
                                                    /\ workers[b].cycle \in cycles)
  <2> DEFINE new == [batch |-> b, agent |-> workers[b].agent, kind |-> kind]
  <2>1. trades' = trades \cup {new} /\ workers[b].cycle \in cycles
    BY <1>2 DEF Trade
  <2>2. new \in [batch : Batches, agent : Agents, kind : Kinds] /\ new.batch = b
    BY <1>1, <1>2
  <2> HIDE DEF new
  <2> QED
    BY <1>1, <1>2, <2>1, <2>2
<1>3. ASSUME NEW kind \in Kinds, NEW status \in {"pending", "not_attempted", "executed", "declined"},
             Audit(Key(b, kind), status), workers[b].pc \in Processing
      PROVE  /\ DOMAIN audits \subseteq DOMAIN audits'
             /\ DOMAIN audits' \subseteq Batches \X Agents \X Kinds
             /\ \A k \in DOMAIN audits' :
                   /\ audits'[k] \in {"pending", "not_attempted", "executed", "declined"}
                   /\ k[1] # b => k \in DOMAIN audits /\ audits'[k] = audits[k]
  <2> DEFINE key == Key(b, kind)
  <2>1. key \in Batches \X Agents \X Kinds /\ key[1] = b
    BY <1>1, <1>3 DEF Key
  <2>2. audits' = [k \in DOMAIN audits \cup {key} |-> IF k = key THEN status ELSE audits[k]]
    BY <1>3 DEF Audit
  <2> HIDE DEF key
  <2> QED
    BY <1>1, <1>3, <2>1, <2>2
<1>4. ASSUME CompleteAudit(b)
      PROVE  /\ DOMAIN audits' = DOMAIN audits
             /\ \A k \in DOMAIN audits :
                   /\ audits'[k] \in {"pending", "not_attempted", "executed", "declined"}
                   /\ k[1] # b => audits'[k] = audits[k]
  <2> DEFINE key == Key(b, "decision")
  <2>1. key[1] = b
    BY DEF Key
  <2>2. audits' = [k \in DOMAIN audits |-> IF k = key THEN workers[b].pc ELSE audits[k]]
    BY <1>4 DEF CompleteAudit
  <2>3. workers[b].pc \in {"executed", "declined"}
    BY <1>4 DEF CompleteAudit
  <2> HIDE DEF key
  <2> QED
    BY <1>1, <2>1, <2>2, <2>3
<1>5. CASE trades' = trades /\ audits' = audits
  BY <1>1, <1>5
<1>6. CASE ForcedSell(b) \/ ExecuteDecision(b)
  <2>1. audits' = audits /\ workers[b].pc \in Processing
    BY <1>6 DEF ForcedSell, ExecuteDecision, At, Processing
  <2>2. trades' = trades \/ \E kind \in Kinds : Trade(b, kind)
    BY <1>6 DEF ForcedSell, ExecuteDecision, Kinds
  <2> QED
    BY <1>1, <1>2, <2>1, <2>2
<1>7. CASE AuditForcedSell(b) \/ RecordDecision(b) \/ CompleteAudit(b)
  <2>1. trades' = trades /\ workers[b].pc \in Processing
    BY <1>7 DEF AuditForcedSell, RecordDecision, CompleteAudit, At, Processing
  <2>2. CASE CompleteAudit(b)
    BY <1>1, <1>4, <2>1, <2>2
  <2>3. CASE audits' = audits
    BY <1>1, <2>1, <2>3
  <2>4. CASE AuditForcedSell(b) \/ (RecordDecision(b) /\ audits' # audits)
    <3>1. \E kind \in Kinds, status \in {"pending", "not_attempted", "executed"} :
             Audit(Key(b, kind), status)
      BY <2>4 DEF AuditForcedSell, RecordDecision, Kinds
    <3> QED
      BY <1>1, <1>3, <2>1, <3>1
  <2> QED
    BY <1>7, <2>2, <2>3, <2>4
<1>8. \/ trades' = trades /\ audits' = audits
      \/ ForcedSell(b) \/ ExecuteDecision(b)
      \/ AuditForcedSell(b) \/ RecordDecision(b) \/ CompleteAudit(b)
  BY DEF WorkerStep, FunnelResult, RecordInput, NextAgent, MarkCompleted, AgentFails, WorkerFails,
         Complete, Fail, FailLost, data
<1> QED
  BY <1>5, <1>6, <1>7, <1>8

\* The rest: a cycle may be captured, the end of the batch may be lost.
LEMMA OtherStep ==
    ASSUME TypeOK, NEW b \in Batches, WorkerStep(b)
    PROVE  /\ agents' = agents /\ up' = up /\ clock' = clock /\ latest' = latest
           /\ next'.batch = next.batch /\ next'.cycle \in Nat \ {0} /\ next'.cycle >= next.cycle
           /\ next' = [batch |-> next'.batch, cycle |-> next'.cycle]
           /\ cycles \subseteq cycles' /\ cycles' \subseteq 1..(next'.cycle - 1)
           /\ \A c \in cycles' : c \in cycles \/ (c = next.cycle /\ FunnelResult(b))
           /\ count' \in [crashes : 0..MaxCrashes, resets : 0..MaxResets, faults : 0..MaxFaults]
           /\ count'.faults = count.faults \/ (count'.faults > count.faults /\ FailLost(b))
<1>1. /\ next.cycle \in Nat \ {0} /\ cycles \subseteq 1..(next.cycle - 1)
      /\ next = [batch |-> next.batch, cycle |-> next.cycle]
      /\ count \in [crashes : 0..MaxCrashes, resets : 0..MaxResets, faults : 0..MaxFaults]
  BY DEF TypeOK
<1>2. agents' = agents /\ up' = up /\ clock' = clock /\ latest' = latest
  BY DEF WorkerStep, FunnelResult, RecordInput, NextAgent, ForcedSell, AuditForcedSell,
         RecordDecision, ExecuteDecision, CompleteAudit, MarkCompleted, AgentFails, WorkerFails,
         Complete, Fail, FailLost, data
<1>3. CASE FunnelResult(b)
  <2>1. PICK c \in cycles \cup {next.cycle} :
           /\ cycles' = cycles \cup {c}
           /\ next' = IF c = next.cycle THEN [next EXCEPT !.cycle = c + 1] ELSE next
    BY <1>3 DEF FunnelResult
  <2>2. count' = count
    BY <1>3 DEF FunnelResult
  <2>3. CASE c = next.cycle
    <3>1. next' = [batch |-> next.batch, cycle |-> next.cycle + 1]
      BY <1>1, <2>1, <2>3
    <3> QED
      BY <1>1, <1>2, <1>3, <2>1, <2>2, <2>3, <3>1
  <2>4. CASE c # next.cycle
    BY <1>1, <1>2, <1>3, <2>1, <2>2, <2>4
  <2> QED
    BY <2>3, <2>4
<1>4. CASE FailLost(b)
  <2>1. next' = next /\ cycles' = cycles
    BY <1>4 DEF FailLost, data
  <2>2. count.faults < MaxFaults /\ count' = [count EXCEPT !.faults = count.faults + 1]
    BY <1>4 DEF FailLost
  <2>3. MaxFaults \in Nat
    BY BoundsAssumption
  <2> QED
    BY <1>1, <1>2, <1>4, <2>1, <2>2, <2>3
<1>5. CASE next' = next /\ cycles' = cycles /\ count' = count
  BY <1>1, <1>2, <1>5
<1>6. (next' = next /\ cycles' = cycles /\ count' = count) \/ FunnelResult(b) \/ FailLost(b)
  BY DEF WorkerStep, RecordInput, NextAgent, ForcedSell, AuditForcedSell,
         RecordDecision, ExecuteDecision, CompleteAudit, MarkCompleted, AgentFails, WorkerFails,
         Complete, Fail, data
<1> QED
  BY <1>3, <1>4, <1>5, <1>6

\* So a step of a thread keeps the types.
LEMMA WorkerTypes ==
    ASSUME TypeOK, NEW b \in Batches, WorkerStep(b)
    PROVE  TypeOK'
<1>1. rows' \in [DOMAIN rows' -> Row] /\ DOMAIN rows' \subseteq Batches
  BY RowsStep DEF TypeOK
<1>2. /\ workers' \in [Batches -> Worker]
      /\ \A c \in Batches : workers'[c].pc \in Processing => workers'[c].agent \in Agents
  BY WorkersStep DEF TypeOK
<1>3. /\ trades' \subseteq [batch : Batches, agent : Agents, kind : Kinds]
      /\ DOMAIN audits' \subseteq Batches \X Agents \X Kinds
      /\ \A k \in DOMAIN audits' :
            audits'[k] \in {"pending", "not_attempted", "executed", "declined"}
  BY DataStep
<1>4. /\ agents' = agents /\ up' = up /\ clock' = clock /\ latest' = latest
      /\ next'.batch = next.batch /\ next'.cycle \in Nat \ {0}
      /\ next' = [batch |-> next'.batch, cycle |-> next'.cycle]
      /\ cycles' \subseteq 1..(next'.cycle - 1)
      /\ count' \in [crashes : 0..MaxCrashes, resets : 0..MaxResets, faults : 0..MaxFaults]
  BY OtherStep
<1> QED
  BY <1>1, <1>2, <1>3, <1>4 DEF TypeOK
-----------------------------------------------------------------------------
(* A step of a thread: one running row, no trade after a reset *)

\* The status of a batch changes only when its thread ends it.
LEMMA StatusStep ==
    ASSUME TypeOK, NEW b \in Batches, WorkerStep(b)
    PROVE  /\ \A c \in DOMAIN rows :
                 \/ rows'[c].status = rows[c].status
                 \/ c = b /\ rows'[c].status # "running" /\ workers'[b].pc = "off"
           /\ workers'[b].pc = "off" =>
                 \/ count'.faults > count.faults
                 \/ b \in DOMAIN rows => rows'[b].status # "running"
<1>1. rows \in [DOMAIN rows -> Row] /\ workers \in [Batches -> Worker]
  BY DEF TypeOK
<1>2. CASE Complete(b) \/ Fail(b)
  <2>1. PICK status \in {"completed", "completed_with_errors", "failed"} : EndBatch(b, status)
    BY <1>2 DEF Complete, Fail
  <2>2. workers'[b].pc = "off"
    BY <1>1, <2>1 DEF EndBatch, Off
  <2>3. b \in DOMAIN rows => rows'[b].status = status
    <3>1. b \in DOMAIN rows => rows[b] = [status |-> rows[b].status, at |-> rows[b].at,
                                          agents |-> rows[b].agents]
      BY <1>1, RowFields
    <3> QED
      BY <1>1, <2>1, <3>1 DEF EndBatch
  <2>4. \A c \in DOMAIN rows : c # b => rows'[c] = rows[c]
    BY RowsStep
  <2> QED
    BY <2>2, <2>3, <2>4
<1>3. CASE FailLost(b)
  <2>1. rows' = rows /\ count'.faults > count.faults
    BY <1>3 DEF FailLost, data, TypeOK
  <2> QED
    BY <2>1
<1>4. CASE NextAgent(b) \/ MarkCompleted(b) \/ AgentFails(b)
  <2>1. \E a, status : status \in AgentStatuses /\ Mark(b, a, status)
    <3>1. ASSUME NextAgent(b) PROVE Mark(b, Min(workers[b].left), "running")
      BY <3>1 DEF NextAgent
    <3>2. ASSUME MarkCompleted(b) PROVE Mark(b, workers[b].agent, "completed")
      BY <3>2 DEF MarkCompleted
    <3>3. ASSUME AgentFails(b) PROVE Mark(b, workers[b].agent, "failed")
      BY <3>3 DEF AgentFails
    <3>4. {"running", "completed", "failed"} \subseteq AgentStatuses
      BY DEF AgentStatuses
    <3> QED
      BY <1>4, <3>1, <3>2, <3>3, <3>4
  <2>2. \A c \in DOMAIN rows : rows'[c].status = rows[c].status
    BY <2>1, MarkFacts
  <2>3. workers'[b].pc # "off"
    <3>1. CASE NextAgent(b)
      BY <1>1, <3>1 DEF NextAgent
    <3>2. CASE MarkCompleted(b) \/ AgentFails(b)
      <4>1. Goto(b, "agent") /\ "agent" \in Labels
        BY <3>2 DEF MarkCompleted, AgentFails, Labels
      <4> QED
        BY <4>1, GotoFacts
    <3> QED
      BY <1>4, <3>1, <3>2
  <2> QED
    BY <2>2, <2>3
<1>5. CASE FunnelResult(b) \/ RecordInput(b) \/ ForcedSell(b) \/ AuditForcedSell(b)
           \/ RecordDecision(b) \/ ExecuteDecision(b) \/ CompleteAudit(b) \/ WorkerFails(b)
  <2>1. rows' = rows
    BY <1>5 DEF FunnelResult, RecordInput, ForcedSell, AuditForcedSell, RecordDecision,
                ExecuteDecision, CompleteAudit, WorkerFails, data
  <2>2. workers'[b].pc # "off"
    <3>1. CASE FunnelResult(b)
      BY <1>1, <3>1 DEF FunnelResult
    <3>2. CASE ~FunnelResult(b)
      <4>1. PICK label \in {"agent", "fail", "forced", "decide", "execute", "mark", "executed",
                            "declined"} : Goto(b, label)
        <5>1. CASE RecordInput(b)
          BY <5>1 DEF RecordInput
        <5>2. CASE ForcedSell(b) \/ AuditForcedSell(b) \/ RecordDecision(b)
          BY <5>2 DEF ForcedSell, AuditForcedSell, RecordDecision
        <5>3. CASE ExecuteDecision(b) \/ CompleteAudit(b) \/ WorkerFails(b)
          BY <5>3 DEF ExecuteDecision, CompleteAudit, WorkerFails
        <5> QED
          BY <1>5, <3>2, <5>1, <5>2, <5>3
      <4>2. label \in Labels
        BY DEF Labels, Processing
      <4> QED
        BY <4>1, <4>2, GotoFacts
    <3> QED
      BY <3>1, <3>2
  <2> QED
    BY <2>1, <2>2
<1> QED
  BY <1>2, <1>3, <1>4, <1>5 DEF WorkerStep

\* A thread that goes through the agents has a cycle, and had a row when it began.
LEMMA PlaceStep ==
    ASSUME TypeOK, NEW b \in Batches, WorkerStep(b),
           workers'[b].pc \in Processing \cup {"agent"}
    PROVE  /\ workers'[b].cycle = workers[b].cycle /\ cycles' = cycles
           /\ workers[b].pc \in Processing \cup {"agent"} \/ b \in DOMAIN rows
<1>1. workers \in [Batches -> Worker]
  BY DEF TypeOK
<1>2. ~FunnelResult(b) /\ ~Complete(b) /\ ~Fail(b) /\ ~FailLost(b) /\ ~WorkerFails(b)
  <2>1. FunnelResult(b) => workers'[b].pc = "record"
    BY <1>1 DEF FunnelResult
  <2>2. Complete(b) \/ Fail(b) \/ FailLost(b) => workers'[b].pc = "off"
    BY <1>1 DEF Complete, Fail, FailLost, EndBatch, Off
  <2>3. WorkerFails(b) => workers'[b].pc = "fail"
    BY GotoFacts DEF WorkerFails, Labels
  <2> QED
    BY <2>1, <2>2, <2>3 DEF Processing
<1>3. CASE NextAgent(b)
  BY <1>1, <1>3 DEF NextAgent, At
<1>4. CASE RecordInput(b)
  <2>1. Goto(b, "agent") \/ Goto(b, "fail")
    BY <1>4 DEF RecordInput
  <2>2. {"agent", "fail"} \subseteq Labels /\ "fail" \notin Processing \cup {"agent"}
    BY DEF Labels, Processing
  <2>3. b \in DOMAIN rows
    <3>1. Goto(b, IF b \in DOMAIN rows /\ workers[b].cycle \in cycles THEN "agent" ELSE "fail")
      BY <1>4 DEF RecordInput
    <3>2. ASSUME b \notin DOMAIN rows PROVE FALSE
      <4>1. Goto(b, "fail")
        BY <3>1, <3>2
      <4> QED
        BY <4>1, <2>2, GotoFacts
    <3> QED
      BY <3>2
  <2> QED
    BY <1>4, <2>1, <2>2, <2>3, GotoFacts DEF RecordInput, data
<1>5. CASE ForcedSell(b) \/ AuditForcedSell(b) \/ RecordDecision(b) \/ ExecuteDecision(b)
           \/ CompleteAudit(b) \/ MarkCompleted(b) \/ AgentFails(b)
  <2>1. workers[b].pc \in Processing /\ cycles' = cycles
    BY <1>5 DEF ForcedSell, AuditForcedSell, RecordDecision, ExecuteDecision, CompleteAudit,
                MarkCompleted, AgentFails, At, Processing
  <2>2. \E label \in {"forced", "decide", "execute", "mark", "executed", "declined", "agent"} :
           Goto(b, label)
    <3>1. CASE ForcedSell(b) \/ AuditForcedSell(b) \/ RecordDecision(b)
      BY <3>1 DEF ForcedSell, AuditForcedSell, RecordDecision
    <3>2. CASE ExecuteDecision(b) \/ CompleteAudit(b) \/ MarkCompleted(b) \/ AgentFails(b)
      BY <3>2 DEF ExecuteDecision, CompleteAudit, MarkCompleted, AgentFails
    <3> QED
      BY <1>5, <3>1, <3>2
  <2>3. {"forced", "decide", "execute", "mark", "executed", "declined", "agent"} \subseteq Labels
    BY DEF Labels, Processing
  <2> QED
    BY <2>1, <2>2, <2>3, GotoFacts
<1> QED
  BY <1>2, <1>3, <1>4, <1>5 DEF WorkerStep

\* Batches are finitely many.
LEMMA BatchesFinite ==
    /\ IsFiniteSet(Batches) /\ Batches \in SUBSET Nat
    /\ \A S \in SUBSET Batches : IsFiniteSet(S)
<1>1. 1 \in Int /\ MaxBatches \in Int
  BY BoundsAssumption
<1>2. IsFiniteSet(Batches)
  BY <1>1, FS_Interval DEF Batches
<1>3. Batches \in SUBSET Nat
  BY DEF Batches
<1>4. ASSUME NEW S \in SUBSET Batches PROVE IsFiniteSet(S)
  BY <1>2, FS_Subset
<1> QED
  BY <1>2, <1>3, <1>4

\* Fewer running batches are not more than one.
LEMMA FewerRunning ==
    ASSUME TypeOK, Cardinality(Running) <= 1, Running' \subseteq Running
    PROVE  Cardinality(Running') <= 1
<1>1. Running \in SUBSET Batches /\ Running' \in SUBSET Running /\ Running' \in SUBSET Batches
  BY DEF Running, TypeOK
<1>2. IsFiniteSet(Running) /\ IsFiniteSet(Running')
  BY <1>1, BatchesFinite
<1>3. Cardinality(Running') <= Cardinality(Running)
  BY <1>1, <1>2, FS_Subset
<1>4. Cardinality(Running) \in Nat /\ Cardinality(Running') \in Nat
  BY <1>2, FS_CardinalityType
<1> QED
  BY <1>3, <1>4

\* A step of a thread keeps the invariants that do not look into a row.
LEMMA WorkerKeepsBatches ==
    ASSUME BatchInv, NEW b \in Batches, WorkerStep(b)
    PROVE  OneRunningRow' /\ NoTradeOutlivesReset' /\ IdentifiersAreFresh' /\ WorkersAreSound'
<1>1. TypeOK /\ OneRunningRow /\ NoTradeOutlivesReset /\ IdentifiersAreFresh /\ WorkersAreSound
  BY DEF BatchInv, OneRunningRow
<1>2. /\ DOMAIN rows' = DOMAIN rows
      /\ \A c \in DOMAIN rows : rows'[c].at = rows[c].at
      /\ \A c \in DOMAIN rows :
            \/ rows'[c].status = rows[c].status
            \/ c = b /\ rows'[c].status # "running" /\ workers'[b].pc = "off"
  BY <1>1, RowsStep, StatusStep
<1>3. /\ \A c \in Batches : c # b => workers'[c] = workers[c]
      /\ workers' \in [Batches -> Worker]
      /\ workers[b].pc # "off" /\ up /\ b \in Alive
      /\ workers'[b].cycle \in {0, workers[b].cycle} \cup cycles'
  BY <1>1, WorkersStep DEF Alive
<1>4. /\ up' = up /\ latest' = latest /\ next'.batch = next.batch /\ next'.cycle >= next.cycle
      /\ cycles \subseteq cycles' /\ cycles' \subseteq 1..(next'.cycle - 1)
      /\ next'.cycle \in Nat \ {0} /\ next.cycle \in Nat
      /\ \A c \in cycles' : c \in cycles \/ c = next.cycle
      /\ count'.faults = count.faults \/ count'.faults > count.faults
  BY <1>1, OtherStep DEF TypeOK
<1>5. /\ \A t \in trades' : t \in trades \/ (t.batch = b /\ workers[b].pc \in Processing
                                                /\ workers[b].cycle \in cycles)
      /\ \A k \in DOMAIN audits' : k[1] # b => k \in DOMAIN audits
  BY <1>1, DataStep
<1>6. Alive' \subseteq Alive /\ Running' \subseteq Running
  BY <1>2, <1>3 DEF Alive, Running
<1>7. b \in DOMAIN rows => rows[b].status = "running"
  BY <1>1, <1>3 DEF WorkersAreSound
<1>8. OneRunningRow'
  <2>1. TypeOK'
    BY <1>1, WorkerTypes
  <2>2. Cardinality(Running') <= 1
    BY <1>1, <1>6, FewerRunning DEF OneRunningRow
  <2>3. ASSUME count'.faults = 0, NEW c \in Running' PROVE c \in Alive'
    <3>1. count.faults = 0
      BY <1>4, <2>3, <1>1, <2>1 DEF TypeOK
    <3>2. c \in Running /\ c \in Alive /\ c \in Batches
      BY <1>1, <1>3, <1>6, <2>3, <3>1 DEF OneRunningRow, Alive
    <3>3. CASE c # b
      BY <1>3, <3>2, <3>3 DEF Alive
    <3>4. CASE c = b
      <4>1. ASSUME workers'[b].pc = "off" PROVE FALSE
        <5>1. count'.faults > count.faults \/ (b \in DOMAIN rows => rows'[b].status # "running")
          BY <1>1, <4>1, StatusStep
        <5>2. ~(count'.faults > count.faults)
          BY <2>3, <3>1
        <5> QED
          BY <1>2, <2>3, <3>4, <5>1, <5>2 DEF Running
      <4> QED
        BY <3>2, <3>4, <4>1 DEF Alive
    <3> QED
      BY <3>3, <3>4
  <2> QED
    BY <2>1, <2>2, <2>3 DEF OneRunningRow
<1>9. NoTradeOutlivesReset'
  <2>1. workers[b].pc \in Processing /\ workers[b].cycle \in cycles => b \in DOMAIN rows
    BY <1>1, <1>3 DEF WorkersAreSound
  <2> QED
    BY <1>1, <1>2, <1>5, <2>1 DEF NoTradeOutlivesReset
<1>10. IdentifiersAreFresh'
  <2>1. b < next.batch
    BY <1>1, <1>3 DEF IdentifiersAreFresh
  <2>2. \A c \in DOMAIN rows' \cup Alive' : c < next'.batch
    BY <1>1, <1>2, <1>4, <1>6 DEF IdentifiersAreFresh
  <2>3. \A t \in trades' : t.batch < next'.batch
    BY <1>1, <1>4, <1>5, <2>1 DEF IdentifiersAreFresh
  <2>4. \A k \in DOMAIN audits' : k[1] < next'.batch
    BY <1>1, <1>4, <1>5, <2>1 DEF IdentifiersAreFresh
  <2>5. \A c \in Batches : workers'[c].cycle < next'.cycle
    <3>1. \A c \in Batches : workers[c].cycle \in Nat /\ workers[c].cycle < next.cycle
      BY <1>1 DEF IdentifiersAreFresh, TypeOK, Worker
    <3>2. \A c \in Batches : workers[c].cycle < next'.cycle
      BY <1>4, <3>1
    <3>3. workers'[b].cycle < next'.cycle
      <4>1. \A c \in cycles' \cup {0} : c < next'.cycle
        BY <1>4
      <4> QED
        BY <1>3, <3>2, <4>1
    <3> QED
      BY <1>3, <3>2, <3>3
  <2>6. DOMAIN rows' # {} => next'.batch - 1 \in DOMAIN rows' /\ rows'[next'.batch - 1].at = latest'
    BY <1>1, <1>2, <1>4 DEF IdentifiersAreFresh
  <2> QED
    BY <2>2, <2>3, <2>4, <2>5, <2>6 DEF IdentifiersAreFresh
<1>11. WorkersAreSound'
  <2>1. ~up' => Alive' = {}
    BY <1>3, <1>4
  <2>2. ASSUME NEW c \in Alive', c # b
        PROVE  /\ c \in DOMAIN rows' => rows'[c].status = "running"
               /\ workers'[c].pc \in Processing \cup {"agent"} /\ workers'[c].cycle \in cycles'
                      => c \in DOMAIN rows'
    <3>1. c \in Alive /\ c \in Batches /\ workers'[c] = workers[c]
      BY <1>3, <1>6, <2>2 DEF Alive
    <3>2. workers[c].cycle # next.cycle
      BY <1>1, <1>4, <3>1 DEF IdentifiersAreFresh, TypeOK, Worker
    <3> QED
      BY <1>1, <1>2, <1>4, <2>2, <3>1, <3>2 DEF WorkersAreSound
  <2>3. ASSUME b \in Alive'
        PROVE  /\ b \in DOMAIN rows' => rows'[b].status = "running"
               /\ workers'[b].pc \in Processing \cup {"agent"} /\ workers'[b].cycle \in cycles'
                      => b \in DOMAIN rows'
    <3>1. workers'[b].pc # "off"
      BY <2>3 DEF Alive
    <3>2. b \in DOMAIN rows' => rows'[b].status = "running"
      BY <1>2, <1>7, <3>1
    <3>3. ASSUME workers'[b].pc \in Processing \cup {"agent"}, workers'[b].cycle \in cycles'
          PROVE  b \in DOMAIN rows'
      <4>1. /\ workers'[b].cycle = workers[b].cycle /\ cycles' = cycles
            /\ workers[b].pc \in Processing \cup {"agent"} \/ b \in DOMAIN rows
        BY <1>1, <3>3, PlaceStep
      <4> QED
        BY <1>1, <1>2, <1>3, <3>3, <4>1 DEF WorkersAreSound
    <3> QED
      BY <3>2, <3>3
  <2> QED
    BY <2>1, <2>2, <2>3 DEF WorkersAreSound
<1> QED
  BY <1>8, <1>9, <1>10, <1>11
-----------------------------------------------------------------------------
(* A step of a thread: its row, agent by agent *)

\* CompletedIsComplete, for one row.
RowFine(b) ==
    LET row == rows[b] IN
    /\ row.status \in {"completed", "completed_with_errors"}
           => \A a \in DOMAIN row.agents : row.agents[a] \in Outcomes
    /\ row.status = "completed" => \A a \in DOMAIN row.agents : row.agents[a] # "failed"
    /\ row.status = "completed_with_errors" => \E a \in DOMAIN row.agents : row.agents[a] = "failed"
    /\ row.status = "running" => OneByOne(row)
    /\ \A a \in DOMAIN row.agents :
          row.agents[a] = "completed" => \A kind \in Kinds : Accounted(b, a, kind)

\* What holds for every row, before and after a step.
LEMMA EachRowFine ==
    /\ CompletedIsComplete => \A b \in DOMAIN rows : RowFine(b)
    /\ (\A b \in DOMAIN rows' : RowFine(b)') => CompletedIsComplete'
<1>1. CompletedIsComplete => \A b \in DOMAIN rows : RowFine(b)
  BY DEF CompletedIsComplete, OutcomesAreComplete, TradesAreAudited, RowFine
<1>2. (\A b \in DOMAIN rows' : RowFine(b)') => CompletedIsComplete'
  BY DEF CompletedIsComplete, OutcomesAreComplete, TradesAreAudited, RowFine
<1> QED
  BY <1>1, <1>2

\* What a batch did for an agent is the same before and after.
Same(b, a, kind) ==
    /\ Traded(b, a, kind)' <=> Traded(b, a, kind)
    /\ <<b, a, kind>> \in DOMAIN audits' <=> <<b, a, kind>> \in DOMAIN audits
    /\ <<b, a, kind>> \in DOMAIN audits => audits'[<<b, a, kind>>] = audits[<<b, a, kind>>]

\* Then what is said about it stays.
LEMMA SameSays ==
    ASSUME NEW b, NEW a, NEW kind, Same(b, a, kind)
    PROVE  /\ Audited(b, a, kind)' <=> Audited(b, a, kind)
           /\ Accounted(b, a, kind)' <=> Accounted(b, a, kind)
           /\ NothingDone(b, a, kind)' <=> NothingDone(b, a, kind)
<1>1. Traded(b, a, kind)' <=> Traded(b, a, kind)
  BY DEF Same
<1>2. Audited(b, a, kind)' <=> Audited(b, a, kind)
  BY DEF Same, Audited
<1>3. Accounted(b, a, kind)' <=> Accounted(b, a, kind)
  BY <1>1, <1>2 DEF Accounted
<1>4. NothingDone(b, a, kind)' <=> NothingDone(b, a, kind)
  BY <1>1 DEF Same, NothingDone
<1> QED
  BY <1>2, <1>3, <1>4

\* A thread does something only for the agent it is at, in its own batch.
LEMMA OnlyItsAgent ==
    ASSUME TypeOK, NEW b \in Batches, WorkerStep(b), NEW c, NEW a, NEW kind,
           c # b \/ a # workers[b].agent
    PROVE  Same(c, a, kind)
<1> DEFINE k == <<c, a, kind>>
           t == [batch |-> c, agent |-> a, kind |-> kind]
<1>1. \A other : t # [batch |-> b, agent |-> workers[b].agent, kind |-> other]
  OBVIOUS
<1>2. \A other : k # Key(b, other)
  BY DEF Key
<1>3. t \in trades' <=> t \in trades
  <2>1. CASE trades' = trades
    BY <2>1
  <2>2. ASSUME NEW other, Trade(b, other) PROVE t \in trades' <=> t \in trades
    BY <1>1, <2>2 DEF Trade
  <2>3. trades' = trades \/ \E other : Trade(b, other)
    BY DEF WorkerStep, FunnelResult, RecordInput, NextAgent, ForcedSell, AuditForcedSell,
           RecordDecision, ExecuteDecision, CompleteAudit, MarkCompleted, AgentFails, WorkerFails,
           Complete, Fail, FailLost, data
  <2> QED
    BY <2>1, <2>2, <2>3
<1>4. /\ k \in DOMAIN audits' <=> k \in DOMAIN audits
      /\ k \in DOMAIN audits => audits'[k] = audits[k]
  <2>1. CASE audits' = audits
    BY <2>1
  <2>2. ASSUME NEW other, NEW status, Audit(Key(b, other), status)
        PROVE  /\ k \in DOMAIN audits' <=> k \in DOMAIN audits
               /\ k \in DOMAIN audits => audits'[k] = audits[k]
    <3> HIDE DEF k
    <3>1. k # Key(b, other)
      BY <1>2
    <3> QED
      BY <2>2, <3>1 DEF Audit
  <2>3. CASE CompleteAudit(b)
    <3> HIDE DEF k
    <3>1. k # Key(b, "decision")
      BY <1>2
    <3> QED
      BY <2>3, <3>1 DEF CompleteAudit
  <2>4. audits' = audits \/ CompleteAudit(b) \/ \E other, status : Audit(Key(b, other), status)
    BY DEF WorkerStep, FunnelResult, RecordInput, NextAgent, ForcedSell, AuditForcedSell,
           RecordDecision, ExecuteDecision, CompleteAudit, MarkCompleted, AgentFails, WorkerFails,
           Complete, Fail, FailLost, data
  <2> QED
    BY <2>1, <2>2, <2>3, <2>4
<1> QED
  BY <1>3, <1>4 DEF Same, Traded

\* What is known of a row and its thread depends on these, and on what the batch did.
LEMMA SameRow ==
    ASSUME NEW b, rows'[b] = rows[b], \A a, kind : Same(b, a, kind)
    PROVE  /\ RowFine(b) => RowFine(b)'
           /\ workers'[b] = workers[b] /\ agents \subseteq agents' /\ InStep(b) => InStep(b)'
<1>1. \A a, kind : /\ Traded(b, a, kind)' <=> Traded(b, a, kind)
                   /\ Audited(b, a, kind)' <=> Audited(b, a, kind)
                   /\ Accounted(b, a, kind)' <=> Accounted(b, a, kind)
                   /\ NothingDone(b, a, kind)' <=> NothingDone(b, a, kind)
  BY SameSays DEF Same
<1>2. RowFine(b) => RowFine(b)'
  BY <1>1 DEF RowFine, OneByOne
<1>3. ASSUME workers'[b] = workers[b], agents \subseteq agents', InStep(b) PROVE InStep(b)'
  <2>1. Ahead(b)' = Ahead(b)
    BY <1>3 DEF Ahead
  <2>2. workers[b].pc \in Processing => Progress(b, workers[b].agent)'
    BY <1>1, <1>3 DEF InStep, Progress
  <2> QED
    BY <1>1, <1>3, <2>1, <2>2 DEF InStep
<1> QED
  BY <1>2, <1>3

\* What the induction gives about a thread whose batch is still there.
LEMMA OwnRow ==
    ASSUME BatchInv, NEW b \in Batches, WorkerStep(b), b \in DOMAIN rows
    PROVE  /\ TypeOK /\ InStep(b) /\ RowFine(b) /\ rows[b].status = "running" /\ OneByOne(rows[b])
           /\ rows[b] \in Row /\ workers[b] \in Worker
           /\ DOMAIN rows[b].agents \in SUBSET Nat /\ DOMAIN rows[b].agents \in SUBSET Agents
           /\ workers[b].left \in SUBSET Nat /\ workers[b].left \in SUBSET Agents
           /\ workers[b].pc \in Processing => workers[b].agent \in Agents /\ workers[b].agent \in Nat
<1>1. TypeOK
  BY DEF BatchInv, OneRunningRow
<1>2. b \in Alive
  BY <1>1, WorkersStep DEF Alive
<1>3. InStep(b) /\ rows[b].status = "running"
  BY <1>2 DEF BatchInv, WorkersAreSound
<1>4. RowFine(b)
  BY EachRowFine DEF BatchInv
<1>5. OneByOne(rows[b])
  BY <1>3, <1>4 DEF RowFine
<1>6. rows[b] \in Row /\ workers[b] \in Worker
  BY <1>1 DEF TypeOK
<1>7. DOMAIN rows[b].agents \in SUBSET Agents /\ workers[b].left \in SUBSET Agents
  BY <1>6, RowFields DEF Worker
<1> QED
  BY <1>1, <1>3, <1>4, <1>5, <1>6, <1>7, AgentsAssumption DEF TypeOK

\* The agent a thread is at waits no longer and has no outcome yet.
LEMMA AgentIsRunning ==
    ASSUME BatchInv, NEW b \in Batches, WorkerStep(b), b \in DOMAIN rows,
           workers[b].pc \in Processing
    PROVE  /\ workers[b].agent \notin workers[b].left
           /\ workers[b].agent \in DOMAIN rows[b].agents
                 => rows[b].agents[workers[b].agent] = "running"
<1>1. /\ InStep(b) /\ workers[b].agent \in Nat
      /\ \A c \in workers[b].left : c \in Nat
  BY OwnRow
<1>2. \A c \in workers[b].left : workers[b].agent < c
  BY <1>1 DEF InStep
<1>3. workers[b].agent \notin workers[b].left
  BY <1>1, <1>2
<1>4. ~(workers[b].agent < workers[b].agent)
  BY <1>1
<1> QED
  BY <1>1, <1>3, <1>4 DEF InStep

\* What a batch did for the others stays as it was.
LEMMA OthersSame ==
    ASSUME BatchInv, NEW b \in Batches, WorkerStep(b), b \in DOMAIN rows
    PROVE  /\ \A a, kind : a # workers[b].agent =>
                 /\ Accounted(b, a, kind)' <=> Accounted(b, a, kind)
                 /\ NothingDone(b, a, kind)' <=> NothingDone(b, a, kind)
           /\ workers[b].pc \notin Processing =>
                 \A a, kind : /\ Accounted(b, a, kind)' <=> Accounted(b, a, kind)
                              /\ NothingDone(b, a, kind)' <=> NothingDone(b, a, kind)
<1>1. TypeOK
  BY OwnRow
<1>2. ASSUME NEW a, NEW kind, a # workers[b].agent
      PROVE  /\ Accounted(b, a, kind)' <=> Accounted(b, a, kind)
             /\ NothingDone(b, a, kind)' <=> NothingDone(b, a, kind)
  BY <1>1, <1>2, OnlyItsAgent, SameSays
<1>3. ASSUME NEW a, NEW kind, workers[b].pc \notin Processing
      PROVE  /\ Accounted(b, a, kind)' <=> Accounted(b, a, kind)
             /\ NothingDone(b, a, kind)' <=> NothingDone(b, a, kind)
  <2>1. trades' = trades /\ audits' = audits
    BY <1>3 DEF WorkerStep, FunnelResult, RecordInput, NextAgent, ForcedSell, AuditForcedSell,
       RecordDecision, ExecuteDecision, CompleteAudit, MarkCompleted, AgentFails, WorkerFails,
       Complete, Fail, FailLost, data, At, Processing
  <2> QED
    BY <2>1 DEF Accounted, NothingDone, Traded, Audited
<1> QED
  BY <1>2, <1>3

\* From one step to the next with the same agent: only its progress matters.
LEMMA ProcessingStep ==
    ASSUME BatchInv, NEW b \in Batches, WorkerStep(b), b \in DOMAIN rows,
           workers[b].pc \in Processing, rows' = rows,
           NEW label \in Processing, Goto(b, label),
           NEW a, a = workers[b].agent, Progress(b, a)'
    PROVE  RowFine(b)' /\ InStep(b)'
<1>1. TypeOK /\ InStep(b) /\ RowFine(b)
  BY OwnRow
<1>2. /\ workers'[b].pc = label /\ workers'[b].left = workers[b].left
      /\ workers'[b].agent = workers[b].agent
  BY <1>1, GotoFacts DEF Labels
<1>3. {"cycle", "record", "fail", "off", "agent"} \cap Processing = {}
  BY DEF Processing
<1>4. RowFine(b)'
  <2>1. \A c \in DOMAIN rows[b].agents : rows[b].agents[c] = "completed" => c # workers[b].agent
    BY AgentIsRunning
  <2> QED
    BY <1>1, <2>1, OthersSame DEF RowFine, OneByOne
<1>5. \A c \in workers[b].left, kind \in Kinds : NothingDone(b, c, kind)'
  <2>1. \A c \in workers[b].left : c # workers[b].agent
    BY AgentIsRunning
  <2>2. \A c \in workers[b].left, kind \in Kinds : NothingDone(b, c, kind)
    BY <1>1, <1>3 DEF InStep, Ahead
  <2> QED
    BY <2>1, <2>2, OthersSame
<1>6. InStep(b)'
  <2>1. workers'[b].pc \in Processing => Progress(b, workers[b].agent)'
    BY <1>2 DEF Progress
  <2> QED
    BY <1>1, <1>2, <1>3, <1>5, <2>1 DEF InStep, Ahead
<1> QED
  BY <1>4, <1>6

\* A trade is one more of its kind.
LEMMA TradeFacts ==
    ASSUME NEW b, NEW a, a = workers[b].agent, NEW kind, Trade(b, kind)
    PROVE  /\ Traded(b, a, kind)'
           /\ \A other : other # kind => (Traded(b, a, other)' <=> Traded(b, a, other))
<1> DEFINE t(k) == [batch |-> b, agent |-> a, kind |-> k]
<1>1. trades' = trades \cup {t(kind)}
  BY DEF Trade
<1>2. \A other : other # kind => t(other) # t(kind)
  <2>1. ASSUME NEW other, other # kind PROVE t(other).kind # t(kind).kind
    BY <2>1
  <2> QED
    BY <2>1
<1>3. /\ t(kind) \in trades'
      /\ \A other : other # kind => (t(other) \in trades' <=> t(other) \in trades)
  <2> HIDE DEF t
  <2> QED
    BY <1>1, <1>2
<1> QED
  BY <1>3 DEF Traded

\* An audit says what it says about one kind of trade.
LEMMA AuditFacts ==
    ASSUME NEW b, NEW a, a = workers[b].agent, NEW kind, NEW status, Audit(Key(b, kind), status)
    PROVE  /\ <<b, a, kind>> \in DOMAIN audits'
           /\ Audited(b, a, kind)' <=> status = "executed"
           /\ \A other : other # kind =>
                 /\ Audited(b, a, other)' <=> Audited(b, a, other)
                 /\ <<b, a, other>> \in DOMAIN audits' <=> <<b, a, other>> \in DOMAIN audits
<1> DEFINE k(x) == <<b, a, x>>
<1>1. k(kind) = Key(b, kind) /\ \A other : other # kind => k(other) # k(kind)
  BY DEF Key
<1>2. /\ k(kind) \in DOMAIN audits' /\ audits'[k(kind)] = status
      /\ \A other : other # kind =>
            /\ k(other) \in DOMAIN audits' <=> k(other) \in DOMAIN audits
            /\ k(other) \in DOMAIN audits => audits'[k(other)] = audits[k(other)]
  <2> HIDE DEF k
  <2> QED
    BY <1>1 DEF Audit
<1> QED
  BY <1>2 DEF Audited

\* One agent, step by step: forced sales and their audit, a decision, its trade and
\* its audit.
LEMMA AgentSteps ==
    ASSUME BatchInv, NEW b \in Batches, b \in DOMAIN rows, WorkerStep(b),
           ForcedSell(b) \/ AuditForcedSell(b) \/ RecordDecision(b) \/ ExecuteDecision(b)
               \/ CompleteAudit(b)
    PROVE  RowFine(b)' /\ InStep(b)'
<1> SUFFICES ASSUME NEW a, a = workers[b].agent PROVE RowFine(b)' /\ InStep(b)'
  OBVIOUS
<1>1. TypeOK /\ InStep(b)
  BY OwnRow
<1>2. workers[b].pc \in Processing /\ rows' = rows
  BY DEF ForcedSell, AuditForcedSell, RecordDecision, ExecuteDecision, CompleteAudit, At, Processing
<1>3. Progress(b, a)
  BY <1>1, <1>2 DEF InStep
<1>4. Processing \subseteq Labels /\ "forced" # "decision"
  BY DEF Labels
<1>5. SUFFICES \E label \in Processing : Goto(b, label) /\ Progress(b, a)'
  BY <1>2, ProcessingStep
<1>6. CASE ForcedSell(b)
  <2>1. NothingDone(b, a, "forced") /\ NothingDone(b, a, "decision") /\ audits' = audits
    BY <1>3, <1>6 DEF ForcedSell, At, Progress
  <2>2. CASE Trade(b, "forced") /\ Goto(b, "forced")
    <3>1. workers'[b].pc = "forced"
      BY <1>1, <1>4, <2>2, GotoFacts DEF Processing
    <3>2. Traded(b, a, "forced")' /\ NothingDone(b, a, "decision")'
      BY <1>4, <2>1, <2>2, TradeFacts DEF NothingDone
    <3> QED
      BY <2>2, <3>1, <3>2 DEF Progress, Processing
  <2>3. CASE Goto(b, "decide") /\ trades' = trades
    <3>1. workers'[b].pc = "decide"
      BY <1>1, <1>4, <2>3, GotoFacts DEF Processing
    <3>2. Accounted(b, a, "forced")' /\ NothingDone(b, a, "decision")'
      BY <2>1, <2>3 DEF NothingDone, Accounted, Traded, Audited
    <3> QED
      BY <2>3, <3>1, <3>2 DEF Progress, Processing
  <2> QED
    BY <1>6, <2>2, <2>3 DEF ForcedSell
<1>7. CASE AuditForcedSell(b)
  <2>1. /\ Traded(b, a, "forced") /\ NothingDone(b, a, "decision") /\ trades' = trades
        /\ Audit(Key(b, "forced"), "executed") /\ Goto(b, "decide")
    BY <1>3, <1>7 DEF AuditForcedSell, At, Progress
  <2>2. workers'[b].pc = "decide"
    BY <1>1, <1>4, <2>1, GotoFacts DEF Processing
  <2>3. Traded(b, a, "forced")' /\ (Traded(b, a, "decision")' <=> Traded(b, a, "decision"))
    BY <2>1 DEF Traded
  <2>4. /\ Audited(b, a, "forced")'
        /\ <<b, a, "decision">> \in DOMAIN audits' <=> <<b, a, "decision">> \in DOMAIN audits
    BY <1>4, <2>1, AuditFacts
  <2>5. Accounted(b, a, "forced")' /\ NothingDone(b, a, "decision")'
    BY <2>1, <2>3, <2>4 DEF NothingDone, Accounted
  <2> QED
    BY <2>1, <2>2, <2>5 DEF Progress, Processing
<1>8. CASE RecordDecision(b)
  <2>1. /\ Accounted(b, a, "forced") /\ NothingDone(b, a, "decision") /\ trades' = trades
    BY <1>3, <1>8 DEF RecordDecision, At, Progress, Processing
  <2>2. \A kind : Traded(b, a, kind)' <=> Traded(b, a, kind)
    BY <2>1 DEF Traded
  <2>3. CASE Goto(b, "mark") /\ audits' = audits
    <3>1. workers'[b].pc = "mark"
      BY <1>1, <1>4, <2>3, GotoFacts DEF Processing
    <3>2. Accounted(b, a, "forced")' /\ Accounted(b, a, "decision")'
      BY <2>1, <2>2, <2>3 DEF NothingDone, Accounted, Audited
    <3> QED
      BY <2>3, <3>1, <3>2 DEF Progress, Processing
  <2>4. ASSUME NEW status \in {"pending", "not_attempted"}, NEW label \in {"execute", "mark"},
               Audit(Key(b, "decision"), status), Goto(b, label)
        PROVE  \E l \in Processing : Goto(b, l) /\ Progress(b, a)'
    <3>1. workers'[b].pc = label
      BY <1>1, <1>4, <2>4, GotoFacts DEF Processing
    <3>2. ~Audited(b, a, "decision")' /\ (Audited(b, a, "forced")' <=> Audited(b, a, "forced"))
      BY <1>4, <2>4, AuditFacts
    <3>3. /\ Accounted(b, a, "forced")' /\ ~Traded(b, a, "decision")'
          /\ Accounted(b, a, "decision")'
      BY <2>1, <2>2, <3>2 DEF NothingDone, Accounted
    <3> QED
      BY <2>4, <3>1, <3>2, <3>3 DEF Progress, Processing
  <2> QED
    BY <1>8, <2>3, <2>4 DEF RecordDecision
<1>9. CASE ExecuteDecision(b)
  <2>1. /\ Accounted(b, a, "forced") /\ ~Traded(b, a, "decision") /\ ~Audited(b, a, "decision")
        /\ audits' = audits
    BY <1>3, <1>9 DEF ExecuteDecision, At, Progress, Processing
  <2>2. \A kind : Audited(b, a, kind)' <=> Audited(b, a, kind)
    BY <2>1 DEF Audited
  <2>3. CASE Trade(b, "decision") /\ Goto(b, "executed")
    <3>1. workers'[b].pc = "executed"
      BY <1>1, <1>4, <2>3, GotoFacts DEF Processing
    <3>2. Traded(b, a, "decision")' /\ (Traded(b, a, "forced")' <=> Traded(b, a, "forced"))
      BY <1>4, <2>3, TradeFacts DEF Traded
    <3>3. Accounted(b, a, "forced")'
      BY <2>1, <2>2, <3>2 DEF Accounted
    <3> QED
      BY <2>3, <3>1, <3>2, <3>3 DEF Progress, Processing
  <2>4. CASE Goto(b, "declined") /\ trades' = trades
    <3>1. workers'[b].pc = "declined"
      BY <1>1, <1>4, <2>4, GotoFacts DEF Processing
    <3>2. \A kind : Traded(b, a, kind)' <=> Traded(b, a, kind)
      BY <2>4 DEF Traded
    <3>3. Accounted(b, a, "forced")' /\ ~Traded(b, a, "decision")' /\ ~Audited(b, a, "decision")'
      BY <2>1, <2>2, <3>2 DEF Accounted
    <3> QED
      BY <2>4, <3>1, <3>3 DEF Progress, Processing
  <2> QED
    BY <1>9, <2>3, <2>4 DEF ExecuteDecision
<1>10. CASE CompleteAudit(b)
  <2> DEFINE k(kind) == <<b, a, kind>>
  <2>1. /\ Accounted(b, a, "forced") /\ trades' = trades /\ Goto(b, "mark")
        /\ workers[b].pc \in {"executed", "declined"}
        /\ workers[b].pc = "executed" => Traded(b, a, "decision") /\ k("decision") \in DOMAIN audits
        /\ workers[b].pc = "declined" => ~Traded(b, a, "decision") /\ ~Audited(b, a, "decision")
    BY <1>3, <1>10 DEF CompleteAudit, Progress, Processing, Key
  <2>2. workers'[b].pc = "mark"
    BY <1>1, <1>4, <2>1, GotoFacts DEF Processing
  <2>3. \A kind : Traded(b, a, kind)' <=> Traded(b, a, kind)
    BY <2>1 DEF Traded
  <2>4. audits' = [x \in DOMAIN audits |-> IF x = k("decision") THEN workers[b].pc ELSE audits[x]]
    BY <1>10 DEF CompleteAudit, Key
  <2>5. k("forced") # k("decision")
    OBVIOUS
  <2>6. /\ k("forced") \in DOMAIN audits' <=> k("forced") \in DOMAIN audits
        /\ k("forced") \in DOMAIN audits => audits'[k("forced")] = audits[k("forced")]
        /\ k("decision") \in DOMAIN audits' <=> k("decision") \in DOMAIN audits
        /\ k("decision") \in DOMAIN audits => audits'[k("decision")] = workers[b].pc
    <3> HIDE DEF k
    <3> QED
      BY <2>4, <2>5
  <2>7. /\ Audited(b, a, "forced")' <=> Audited(b, a, "forced")
        /\ Audited(b, a, "decision")' <=> k("decision") \in DOMAIN audits /\ workers[b].pc = "executed"
    BY <2>6 DEF Audited
  <2>8. Accounted(b, a, "forced")' /\ Accounted(b, a, "decision")'
    BY <2>1, <2>3, <2>7 DEF Accounted
  <2> QED
    BY <2>1, <2>2, <2>8 DEF Progress, Processing
<1> QED
  BY <1>6, <1>7, <1>8, <1>9, <1>10

\* When those who wait come last, the outcomes come in order.
LEMMA InOrder ==
    ASSUME NEW f, NEW left \in SUBSET Nat, DOMAIN f \in SUBSET Nat,
           NEW busy \in BOOLEAN, NEW agent,
           busy => agent \in Nat /\ \A c \in left : agent < c,
           \A a \in DOMAIN f :
              \/ a \in left /\ f[a] = "queued"
              \/ a \notin left /\ busy /\ a = agent
              \/ /\ a \notin left /\ f[a] \in Outcomes
                 /\ busy => a < agent
                 /\ \A c \in left : a < c
    PROVE  \A a, c \in DOMAIN f : a < c => f[a] \in Outcomes \/ f[c] = "queued"
<1> SUFFICES ASSUME NEW a \in DOMAIN f, NEW c \in DOMAIN f, a < c, f[a] \notin Outcomes,
                    f[c] # "queued"
             PROVE  FALSE
  OBVIOUS
<1>1. a \in Nat /\ c \in Nat /\ ~(c < a) /\ ~(c = a)
  OBVIOUS
<1>2. c \notin left
  OBVIOUS
<1>3. CASE a \in left
  BY <1>1, <1>2, <1>3
<1>4. CASE busy /\ a = agent
  BY <1>1, <1>2, <1>4
<1> QED
  BY <1>3, <1>4

\* A status that is written while the thread goes on keeps the row in order; it is
\* enough to look at the agents one by one.
LEMMA MarkedStep ==
    ASSUME BatchInv, NEW b \in Batches, WorkerStep(b), b \in DOMAIN rows,
           NEW a, NEW status \in AgentStatuses, Mark(b, a, status),
           workers'[b].pc \in Processing \cup {"agent"},
           workers'[b].left \in SUBSET workers[b].left,
           workers'[b].pc \in Processing =>
               workers'[b].agent \in Nat /\ \A c \in workers'[b].left : workers'[b].agent < c,
           \A x \in DOMAIN rows[b].agents :
              LET now == IF x = a THEN status ELSE rows[b].agents[x] IN
              \/ x \in workers'[b].left /\ now = "queued"
              \/ /\ x \notin workers'[b].left /\ workers'[b].pc \in Processing
                 /\ x = workers'[b].agent /\ now = "running"
              \/ /\ x \notin workers'[b].left /\ now \in Outcomes
                 /\ workers'[b].pc \in Processing => x < workers'[b].agent
                 /\ \A c \in workers'[b].left : x < c,
           \A c \in workers'[b].left, kind \in Kinds : NothingDone(b, c, kind)',
           \A kind \in Kinds : status = "completed" => Accounted(b, a, kind)',
           NEW p, p = workers'[b].agent, workers'[b].pc \in Processing => Progress(b, p)'
    PROVE  RowFine(b)' /\ InStep(b)'
<1>1. TypeOK /\ RowFine(b) /\ rows[b].status = "running"
      /\ DOMAIN rows[b].agents \in SUBSET Nat /\ workers[b].left \in SUBSET Nat
  BY OwnRow
<1> DEFINE f == rows'[b].agents
           new == workers'[b]
           busy == workers'[b].pc \in Processing
<1>2. /\ DOMAIN f = DOMAIN rows[b].agents /\ rows'[b].status = "running"
      /\ \A x \in DOMAIN rows[b].agents : f[x] = IF x = a THEN status ELSE rows[b].agents[x]
  BY <1>1, MarkFacts
<1>3. \A x \in DOMAIN f :
         \/ x \in new.left /\ f[x] = "queued"
         \/ x \notin new.left /\ busy /\ x = new.agent /\ f[x] = "running"
         \/ /\ x \notin new.left /\ f[x] \in Outcomes
            /\ busy => x < new.agent
            /\ \A c \in new.left : x < c
  BY <1>2
<1>4. \A x, c \in DOMAIN f : x < c => f[x] \in Outcomes \/ f[c] = "queued"
  <2>1. /\ new.left \in SUBSET Nat /\ DOMAIN f \in SUBSET Nat /\ busy \in BOOLEAN
        /\ busy => new.agent \in Nat /\ \A c \in new.left : new.agent < c
        /\ \A x \in DOMAIN f :
              \/ x \in new.left /\ f[x] = "queued"
              \/ x \notin new.left /\ busy /\ x = new.agent
              \/ /\ x \notin new.left /\ f[x] \in Outcomes
                 /\ busy => x < new.agent
                 /\ \A c \in new.left : x < c
    BY <1>1, <1>2, <1>3
  <2> HIDE DEF f, new, busy
  <2> QED
    BY <2>1, InOrder
<1>5. \A x \in DOMAIN f : f[x] = "completed" => \A kind \in Kinds : Accounted(b, x, kind)'
  <2>1. ASSUME NEW x \in DOMAIN f, f[x] = "completed", x # a, NEW kind \in Kinds
        PROVE  Accounted(b, x, kind)'
    <3>1. rows[b].agents[x] = "completed" /\ Accounted(b, x, kind)
      BY <1>1, <1>2, <2>1 DEF RowFine
    <3>2. CASE workers[b].pc \in Processing
      <4>1. x # workers[b].agent
        BY <1>2, <2>1, <3>1, <3>2, AgentIsRunning
      <4> QED
        BY <3>1, <4>1, OthersSame
    <3>3. CASE workers[b].pc \notin Processing
      BY <3>1, <3>3, OthersSame
    <3> QED
      BY <3>2, <3>3
  <2> QED
    BY <1>2, <2>1
<1>6. RowFine(b)'
  BY <1>2, <1>4, <1>5 DEF RowFine, OneByOne
<1>7. {"cycle", "record", "fail", "off"} \cap (Processing \cup {"agent"}) = {}
  BY DEF Processing
<1>8. InStep(b)'
  <2>1. workers'[b].pc \in Processing => Progress(b, workers[b].agent)'
    BY DEF Progress
  <2> QED
    BY <1>2, <1>3, <1>7, <2>1 DEF InStep, Ahead
<1> QED
  BY <1>6, <1>8

\* The next agent is the first of those who wait.
LEMMA NextAgentStep ==
    ASSUME BatchInv, NEW b \in Batches, WorkerStep(b), b \in DOMAIN rows, NextAgent(b)
    PROVE  RowFine(b)' /\ InStep(b)'
<1>1. /\ TypeOK /\ InStep(b) /\ workers[b].left \in SUBSET Nat
      /\ DOMAIN rows[b].agents \in SUBSET Nat
  BY OwnRow
<1>2. workers[b].pc = "agent" /\ workers[b].left # {} /\ "agent" \notin Processing
  BY DEF NextAgent, At, Processing
<1> SUFFICES ASSUME NEW a, a = Min(workers[b].left) PROVE RowFine(b)' /\ InStep(b)'
  OBVIOUS
<1>3. a \in workers[b].left /\ a \in Nat /\ \A c \in workers[b].left : a <= c
  BY <1>1, <1>2, MinFacts
<1>4. PICK status \in AgentStatuses : Mark(b, a, status) /\ status = "running"
  BY DEF NextAgent, AgentStatuses
<1>5. /\ workers'[b].pc = "risk" /\ workers'[b].agent = a
      /\ workers'[b].left = workers[b].left \ {a}
  BY <1>1 DEF NextAgent, TypeOK
<1>6. \A c \in workers'[b].left : a < c
  <2>1. ASSUME NEW c \in workers'[b].left PROVE a < c
    <3>1. c \in Nat /\ a <= c /\ a # c
      BY <1>1, <1>3, <1>5, <2>1
    <3> QED
      BY <1>3, <3>1
  <2> QED
    BY <2>1
<1>7. \A c \in workers[b].left, kind \in Kinds : NothingDone(b, c, kind)'
  <2>1. \A c \in workers[b].left, kind \in Kinds : NothingDone(b, c, kind)
    BY <1>1, <1>2 DEF InStep, Ahead
  <2> QED
    BY <1>2, <2>1, OthersSame
<1>8. Progress(b, a)'
  <2>1. NothingDone(b, a, "forced")' /\ NothingDone(b, a, "decision")'
    BY <1>3, <1>7 DEF Kinds
  <2> QED
    BY <1>5, <2>1 DEF Progress
<1>9. ASSUME NEW x \in DOMAIN rows[b].agents
      PROVE  LET now == IF x = a THEN status ELSE rows[b].agents[x] IN
             \/ x \in workers'[b].left /\ now = "queued"
             \/ /\ x \notin workers'[b].left /\ workers'[b].pc \in Processing
                /\ x = workers'[b].agent /\ now = "running"
             \/ /\ x \notin workers'[b].left /\ now \in Outcomes
                /\ workers'[b].pc \in Processing => x < workers'[b].agent
                /\ \A c \in workers'[b].left : x < c
  <2>1. CASE x = a
    BY <1>4, <1>5, <2>1 DEF Processing
  <2>2. CASE x # a
    BY <1>1, <1>2, <1>3, <1>5, <2>2 DEF InStep
  <2> QED
    BY <2>1, <2>2
<1> QED
  <2>1. workers'[b].pc \in Processing
    BY <1>5 DEF Processing
  <2>2. workers'[b].left \in SUBSET workers[b].left
    BY <1>5
  <2>3. \A c \in workers'[b].left, kind \in Kinds : NothingDone(b, c, kind)'
    BY <1>7, <2>2
  <2>4. status # "completed"
    BY <1>4
  <2> QED
    BY <1>3, <1>4, <1>5, <1>6, <1>8, <1>9, <2>1, <2>2, <2>3, <2>4, MarkedStep DEF Progress

\* An agent that was served, or for whom something went wrong, has its outcome.
LEMMA OutcomeStep ==
    ASSUME BatchInv, NEW b \in Batches, WorkerStep(b), b \in DOMAIN rows,
           MarkCompleted(b) \/ AgentFails(b)
    PROVE  RowFine(b)' /\ InStep(b)'
<1>1. /\ TypeOK /\ InStep(b) /\ workers[b].left \in SUBSET Nat
      /\ DOMAIN rows[b].agents \in SUBSET Nat
  BY OwnRow
<1>2. workers[b].pc \in Processing /\ "agent" \notin Processing
  BY DEF MarkCompleted, AgentFails, At, Processing
<1> SUFFICES ASSUME NEW a, a = workers[b].agent PROVE RowFine(b)' /\ InStep(b)'
  OBVIOUS
<1>3. a \in Nat /\ a \notin workers[b].left /\ \A c \in workers[b].left : a < c
  BY <1>1, <1>2, OwnRow, AgentIsRunning DEF InStep
<1>4. PICK status \in {"completed", "failed"} :
         Mark(b, a, status) /\ (status = "completed" => MarkCompleted(b))
  <2>1. CASE MarkCompleted(b)
    BY <2>1 DEF MarkCompleted
  <2>2. CASE AgentFails(b)
    BY <2>2 DEF AgentFails
  <2> QED
    BY <2>1, <2>2
<1>5. status \in AgentStatuses /\ status \in Outcomes
  BY DEF AgentStatuses, Outcomes
<1>6. workers'[b].pc = "agent" /\ workers'[b].left = workers[b].left
  <2>1. Goto(b, "agent") /\ "agent" \in Labels
    BY DEF MarkCompleted, AgentFails, Labels
  <2> QED
    BY <1>1, <2>1, GotoFacts
<1>7. \A c \in workers[b].left, kind \in Kinds : NothingDone(b, c, kind)'
  <2>1. \A c \in workers[b].left, kind \in Kinds : NothingDone(b, c, kind)
    BY <1>1, <1>2 DEF InStep, Ahead, Processing
  <2> QED
    BY <1>3, <2>1, OthersSame
<1>8. ASSUME status = "completed", NEW kind \in Kinds PROVE Accounted(b, a, kind)'
  <2>1. MarkCompleted(b)
    BY <1>4, <1>8
  <2>2. Accounted(b, a, "forced") /\ Accounted(b, a, "decision")
    BY <1>1, <1>2, <2>1 DEF InStep, Progress, MarkCompleted, At, Processing
  <2>3. trades' = trades /\ audits' = audits /\ Accounted(b, a, kind)
    BY <2>1, <2>2 DEF MarkCompleted, Kinds
  <2> QED
    BY <2>3 DEF Accounted, Traded, Audited
<1>9. ASSUME NEW x \in DOMAIN rows[b].agents
      PROVE  LET now == IF x = a THEN status ELSE rows[b].agents[x] IN
             \/ x \in workers'[b].left /\ now = "queued"
             \/ /\ x \notin workers'[b].left /\ workers'[b].pc \in Processing
                /\ x = workers'[b].agent /\ now = "running"
             \/ /\ x \notin workers'[b].left /\ now \in Outcomes
                /\ workers'[b].pc \in Processing => x < workers'[b].agent
                /\ \A c \in workers'[b].left : x < c
  <2>1. CASE x = a
    BY <1>2, <1>3, <1>5, <1>6, <2>1
  <2>2. CASE x # a
    BY <1>1, <1>2, <1>6, <2>2 DEF InStep
  <2> QED
    BY <2>1, <2>2
<1> QED
  <2>1. /\ workers'[b].pc \in Processing \cup {"agent"} /\ workers'[b].pc \notin Processing
        /\ workers'[b].left \in SUBSET workers[b].left
    BY <1>2, <1>6
  <2>2. \A c \in workers'[b].left, kind \in Kinds : NothingDone(b, c, kind)'
    BY <1>6, <1>7
  <2> QED
    BY <1>4, <1>5, <1>8, <1>9, <2>1, <2>2, MarkedStep

\* Before the first agent and after the last.
LEMMA EndsOfBatch ==
    ASSUME BatchInv, NEW b \in Batches, WorkerStep(b), b \in DOMAIN rows,
           FunnelResult(b) \/ RecordInput(b) \/ WorkerFails(b) \/ Complete(b) \/ Fail(b)
               \/ FailLost(b)
    PROVE  RowFine(b)' /\ (workers'[b].pc # "off" => InStep(b)')
<1>1. /\ TypeOK /\ InStep(b) /\ RowFine(b) /\ rows[b] \in Row /\ rows \in [DOMAIN rows -> Row]
      /\ workers[b] \in Worker /\ workers \in [Batches -> Worker]
  BY OwnRow DEF TypeOK
<1>2. trades' = trades /\ audits' = audits
  BY DEF FunnelResult, RecordInput, WorkerFails, Complete, Fail, FailLost, data
<1>3. \A a, kind : Same(b, a, kind)
  BY <1>2 DEF Same, Traded
<1>4. \A a, kind : /\ Accounted(b, a, kind)' <=> Accounted(b, a, kind)
                   /\ NothingDone(b, a, kind)' <=> NothingDone(b, a, kind)
  BY <1>3, SameSays
<1>5. ASSUME rows' = rows PROVE RowFine(b)'
  BY <1>1, <1>3, <1>5, SameRow
<1>6. CASE FunnelResult(b)
  <2>1. /\ workers[b].pc = "cycle" /\ rows' = rows /\ agents' = agents
        /\ workers'[b].pc = "record" /\ workers'[b].left = agents
    BY <1>1, <1>6 DEF FunnelResult, At
  <2>2. /\ DOMAIN rows[b].agents \subseteq agents
        /\ \A a \in DOMAIN rows[b].agents : rows[b].agents[a] = "queued"
        /\ \A a \in Agents, kind \in Kinds : NothingDone(b, a, kind)'
    BY <1>1, <1>4, <2>1 DEF InStep, Ahead
  <2>3. InStep(b)'
    BY <2>1, <2>2 DEF InStep, Ahead, Processing
  <2> QED
    BY <1>5, <2>1, <2>3
<1>7. CASE RecordInput(b)
  <2>1. /\ workers[b].pc = "record" /\ rows' = rows
        /\ Goto(b, "agent") \/ Goto(b, "fail")
    BY <1>7 DEF RecordInput, At, data
  <2>2. workers'[b].pc \in {"agent", "fail"} /\ workers'[b].left = workers[b].left
    <3>1. {"agent", "fail"} \subseteq Labels
      BY DEF Labels
    <3> QED
      BY <1>1, <2>1, <3>1, GotoFacts
  <2>3. /\ DOMAIN rows[b].agents \subseteq workers[b].left
        /\ \A a \in DOMAIN rows[b].agents : rows[b].agents[a] = "queued"
        /\ workers[b].left \subseteq Agents
        /\ \A a \in Agents, kind \in Kinds : NothingDone(b, a, kind)'
    BY <1>1, <1>4, <2>1 DEF InStep, Ahead, Worker
  <2>4. InStep(b)'
    BY <2>1, <2>2, <2>3 DEF InStep, Ahead, Processing
  <2> QED
    BY <1>5, <2>1, <2>4
<1>8. CASE WorkerFails(b)
  <2>1. workers'[b].pc = "fail" /\ rows' = rows
    BY <1>1, <1>8, GotoFacts DEF WorkerFails, data, Labels
  <2>2. InStep(b)'
    BY <2>1 DEF InStep, Processing
  <2> QED
    BY <1>5, <2>1, <2>2
<1>9. CASE FailLost(b)
  <2>1. workers'[b].pc = "off" /\ rows' = rows
    BY <1>1, <1>9 DEF FailLost, Off, data
  <2> QED
    BY <1>5, <2>1
<1>10. CASE Complete(b) \/ Fail(b)
  <2>1. PICK status \in {"completed", "completed_with_errors", "failed"} :
           /\ EndBatch(b, status)
           /\ Complete(b) => status = IF SomeFailed(b) THEN "completed_with_errors" ELSE "completed"
           /\ ~Complete(b) => status = "failed"
    <3>1. CASE Complete(b)
      BY <3>1 DEF Complete
    <3>2. CASE ~Complete(b)
      BY <1>10, <3>2 DEF Fail
    <3> QED
      BY <3>1, <3>2
  <2>2. workers'[b].pc = "off"
    BY <1>1, <2>1 DEF EndBatch, Off
  <2>3. rows'[b].status = status /\ rows'[b].agents = rows[b].agents
    <3>1. rows[b] = [status |-> rows[b].status, at |-> rows[b].at, agents |-> rows[b].agents]
      BY <1>1, RowFields
    <3> QED
      BY <1>1, <2>1, <3>1 DEF EndBatch
  <2>4. Complete(b) => \A a \in DOMAIN rows[b].agents : rows[b].agents[a] \in Outcomes
    <3>1. Complete(b) => workers[b].pc = "agent" /\ workers[b].left = {}
      BY DEF Complete, At
    <3> QED
      BY <1>1, <3>1 DEF InStep, Processing
  <2>5. /\ Complete(b) <=> status # "failed"
        /\ Complete(b) => (SomeFailed(b) <=> \E a \in DOMAIN rows[b].agents : rows[b].agents[a] = "failed")
    BY <2>1 DEF SomeFailed
  <2>6. RowFine(b)'
    BY <1>1, <1>4, <2>1, <2>3, <2>4, <2>5 DEF RowFine
  <2> QED
    BY <2>2, <2>6
<1> QED
  BY <1>6, <1>7, <1>8, <1>9, <1>10

\* A step of a thread keeps all of the invariant.
LEMMA WorkerKeeps ==
    ASSUME BatchInv, NEW b \in Batches, WorkerStep(b)
    PROVE  BatchInv'
<1>1. TypeOK /\ \A c \in DOMAIN rows : RowFine(c)
  BY EachRowFine DEF BatchInv, OneRunningRow
<1>2. OneRunningRow' /\ NoTradeOutlivesReset' /\ IdentifiersAreFresh' /\ WorkersAreSound'
  BY WorkerKeepsBatches
<1>3. /\ DOMAIN rows' = DOMAIN rows /\ agents' = agents
      /\ \A c \in DOMAIN rows : c # b => rows'[c] = rows[c]
      /\ \A c \in Batches : c # b => workers'[c] = workers[c]
  BY <1>1, RowsStep, WorkersStep, OtherStep
<1>4. b \in DOMAIN rows => RowFine(b)' /\ (workers'[b].pc # "off" => InStep(b)')
  BY AgentSteps, NextAgentStep, OutcomeStep, EndsOfBatch DEF WorkerStep
<1>5. ASSUME NEW c \in DOMAIN rows, c # b
      PROVE  /\ RowFine(c)'
             /\ c \in Alive' => InStep(c)'
  <2>1. rows'[c] = rows[c] /\ RowFine(c) /\ \A a, kind : Same(c, a, kind)
    BY <1>1, <1>3, <1>5, OnlyItsAgent
  <2>2. RowFine(c)'
    BY <2>1, SameRow
  <2>3. ASSUME c \in Alive' PROVE InStep(c)'
    <3>1. c \in Batches /\ workers'[c] = workers[c] /\ workers[c].pc # "off"
      BY <1>3, <1>5, <2>3 DEF Alive
    <3>2. InStep(c)
      BY <1>5, <3>1 DEF BatchInv, Alive
    <3> QED
      BY <1>3, <2>1, <3>1, <3>2, SameRow
  <2> QED
    BY <2>2, <2>3
<1>6. CompletedIsComplete'
  <2>1. \A c \in DOMAIN rows' : RowFine(c)'
    BY <1>3, <1>4, <1>5
  <2> QED
    BY <2>1, EachRowFine
<1>7. \A c \in Alive' : c \in DOMAIN rows' => InStep(c)'
  <2>1. \A c \in Alive' : c \in Batches /\ workers'[c].pc # "off"
    BY DEF Alive
  <2> QED
    BY <1>3, <1>4, <1>5, <2>1
<1> QED
  BY <1>2, <1>6, <1>7 DEF BatchInv
-----------------------------------------------------------------------------
(* What comes in between, and how it all begins *)

\* Nothing in the database changes: what is complete stays complete.
LEMMA DatabaseUntouched ==
    ASSUME BatchInv, rows' = rows, trades' = trades, audits' = audits
    PROVE  /\ CompletedIsComplete' /\ NoTradeOutlivesReset'
           /\ Cardinality(Running') <= 1
           /\ \A b : workers'[b] = workers[b] /\ agents \subseteq agents' /\ InStep(b) => InStep(b)'
<1>1. \A b, a, kind : Same(b, a, kind)
  BY DEF Same, Traded
<1>2. \A b \in DOMAIN rows : RowFine(b)
  BY EachRowFine DEF BatchInv
<1>3. \A b \in DOMAIN rows' : RowFine(b)'
  BY <1>1, <1>2, SameRow
<1>4. CompletedIsComplete'
  BY <1>3, EachRowFine
<1>5. NoTradeOutlivesReset'
  BY DEF BatchInv, NoTradeOutlivesReset
<1>6. Cardinality(Running') <= 1
  BY DEF BatchInv, OneRunningRow, Running
<1>7. \A b : workers'[b] = workers[b] /\ agents \subseteq agents' /\ InStep(b) => InStep(b)'
  BY <1>1, SameRow
<1> QED
  BY <1>4, <1>5, <1>6, <1>7

\* Time passes, an agent is added, or nothing happens.
LEMMA QuietStep ==
    ASSUME BatchInv, TypeOK', agents \subseteq agents', count'.faults = count.faults,
           UNCHANGED <<rows, trades, audits, cycles, next, workers, up, latest>>
    PROVE  BatchInv'
<1>1. /\ OneRunningRow /\ IdentifiersAreFresh /\ WorkersAreSound
      /\ \A b \in Alive : b \in DOMAIN rows => InStep(b)
  BY DEF BatchInv
<1>2. Alive' = Alive /\ Running' = Running
  BY DEF Alive, Running
<1>3. OneRunningRow'
  BY <1>1, <1>2, DatabaseUntouched DEF OneRunningRow
<1>4. IdentifiersAreFresh'
  BY <1>1, <1>2 DEF IdentifiersAreFresh
<1>5. WorkersAreSound'
  BY <1>1, <1>2 DEF WorkersAreSound
<1>6. \A b \in Alive' : b \in DOMAIN rows' => InStep(b)'
  BY <1>1, <1>2, DatabaseUntouched
<1> QED
  BY <1>3, <1>4, <1>5, <1>6, DatabaseUntouched DEF BatchInv

\* The process dies, and the threads with it.
LEMMA CrashKeeps == BatchInv /\ Crash => BatchInv'
<1> SUFFICES ASSUME BatchInv, Crash PROVE BatchInv'
  OBVIOUS
<1>1. /\ OneRunningRow /\ TypeOK /\ IdentifiersAreFresh /\ WorkersAreSound
  BY DEF BatchInv, OneRunningRow
<1>2. /\ UNCHANGED <<rows, trades, audits, cycles, agents, next, clock, latest>>
      /\ up' = FALSE /\ workers' = [b \in Batches |-> Off]
      /\ count' = [count EXCEPT !.crashes = count.crashes + 1] /\ count.crashes < MaxCrashes
  BY DEF Crash, data
<1>3. Alive' = {}
  BY <1>2 DEF Alive, Off
<1>4. TypeOK'
  <2>1. Off \in Worker /\ Off.pc \notin Processing
    BY DEF Off, Worker, Labels, Processing
  <2>2. workers' \in [Batches -> Worker] /\ \A b \in Batches : workers'[b].pc \notin Processing
    BY <1>2, <2>1
  <2>3. count' \in [crashes : 0..MaxCrashes, resets : 0..MaxResets, faults : 0..MaxFaults]
    BY <1>1, <1>2, BoundsAssumption DEF TypeOK
  <2> QED
    BY <1>1, <1>2, <2>2, <2>3 DEF TypeOK
<1>5. OneRunningRow'
  BY <1>2, <1>4, DatabaseUntouched DEF OneRunningRow
<1>6. IdentifiersAreFresh'
  <2>1. next.cycle \in Nat \ {0} /\ Off.cycle = 0
    BY <1>1 DEF TypeOK, Off
  <2>2. \A b \in Batches : workers'[b].cycle < next'.cycle
    BY <1>2, <2>1
  <2> QED
    BY <1>1, <1>2, <1>3, <2>2 DEF IdentifiersAreFresh
<1>7. WorkersAreSound'
  BY <1>3 DEF WorkersAreSound
<1> QED
  BY <1>2, <1>3, <1>5, <1>6, <1>7, DatabaseUntouched DEF BatchInv

\* A reset deletes all that is promised about.
LEMMA ResetKeeps == BatchInv /\ Reset => BatchInv'
<1> SUFFICES ASSUME BatchInv, Reset PROVE BatchInv'
  OBVIOUS
<1>1. OneRunningRow /\ TypeOK /\ IdentifiersAreFresh /\ WorkersAreSound
  BY DEF BatchInv, OneRunningRow
<1>2. /\ UNCHANGED <<agents, next, workers, up, clock, latest>>
      /\ rows' = Empty /\ trades' = {} /\ audits' = Empty /\ cycles' = {} /\ up
      /\ count' = [count EXCEPT !.resets = count.resets + 1] /\ count.resets < MaxResets
  BY DEF Reset
<1>3. DOMAIN rows' = {} /\ DOMAIN audits' = {} /\ Alive' = Alive
  BY <1>2 DEF Empty, Alive
<1>4. Running' = {}
  BY <1>3 DEF Running
<1>5. TypeOK'
  <2>1. count' \in [crashes : 0..MaxCrashes, resets : 0..MaxResets, faults : 0..MaxFaults]
    BY <1>1, <1>2, BoundsAssumption DEF TypeOK
  <2>2. rows' \in [DOMAIN rows' -> Row]
    BY <1>2 DEF Empty
  <2>3. cycles' \subseteq 1..(next'.cycle - 1)
    BY <1>2
  <2> QED
    BY <1>1, <1>2, <1>3, <2>1, <2>2, <2>3 DEF TypeOK
<1>6. OneRunningRow'
  <2>1. Cardinality(Running') = 0
    BY <1>4, FS_EmptySet
  <2> QED
    BY <1>4, <1>5, <2>1 DEF OneRunningRow
<1>7. CompletedIsComplete' /\ NoTradeOutlivesReset'
  BY <1>2, <1>3, EachRowFine DEF NoTradeOutlivesReset
<1>8. IdentifiersAreFresh'
  BY <1>1, <1>2, <1>3 DEF IdentifiersAreFresh
<1>9. WorkersAreSound'
  BY <1>1, <1>2, <1>3 DEF WorkersAreSound
<1> QED
  BY <1>3, <1>6, <1>7, <1>8, <1>9 DEF BatchInv

\* What the recovery makes of a row.
LEMMA RecoveredFacts ==
    ASSUME TypeOK, NEW b \in DOMAIN rows
    PROVE  LET row == rows[b] new == Recovered(rows[b]) IN
           /\ new \in Row /\ new.at = row.at /\ DOMAIN new.agents = DOMAIN row.agents
           /\ new.status = IF row.status = "running" THEN "interrupted" ELSE row.status
           /\ \A a \in DOMAIN row.agents :
                 new.agents[a] = IF row.agents[a] \in {"queued", "running"} THEN "interrupted"
                                 ELSE row.agents[a]
<1> DEFINE row == rows[b]
           f == [a \in DOMAIN row.agents |->
                    IF row.agents[a] \in {"queued", "running"} THEN "interrupted" ELSE row.agents[a]]
           status == IF row.status = "running" THEN "interrupted" ELSE row.status
<1>1. row \in Row
  BY DEF TypeOK
<1>2. /\ row.status \in BatchStatuses /\ row.at \in 0..MaxTime
      /\ DOMAIN row.agents \in SUBSET Agents /\ row.agents \in [DOMAIN row.agents -> AgentStatuses]
  BY <1>1, RowFields
<1>3. f \in [DOMAIN row.agents -> AgentStatuses]
  BY <1>2 DEF AgentStatuses
<1>4. status \in BatchStatuses
  BY <1>2 DEF BatchStatuses
<1>5. Recovered(row) = [status |-> status, at |-> row.at, agents |-> f]
  BY DEF Recovered
<1>6. Recovered(row) \in Row
  <2> HIDE DEF row, f, status
  <2> QED
    BY <1>2, <1>3, <1>4, <1>5, RowFields
<1>7. Recovered(row).at = row.at /\ Recovered(row).status = status /\ Recovered(row).agents = f
  BY <1>5
<1> QED
  BY <1>6, <1>7

\* The recovery ends what was running and leaves alone what had ended.
LEMMA RestartKeeps == BatchInv /\ Restart => BatchInv'
<1> SUFFICES ASSUME BatchInv, Restart PROVE BatchInv'
  OBVIOUS
<1>1. OneRunningRow /\ TypeOK /\ IdentifiersAreFresh /\ WorkersAreSound /\ NoTradeOutlivesReset
  BY DEF BatchInv, OneRunningRow
<1>2. /\ UNCHANGED <<trades, audits, cycles, agents, next, workers, clock, latest, count>>
      /\ ~up /\ up' = TRUE /\ rows' = [b \in DOMAIN rows |-> Recovered(rows[b])]
  BY DEF Restart
<1>3. Alive = {} /\ Alive' = {}
  BY <1>1, <1>2 DEF WorkersAreSound, Alive
<1>4. /\ DOMAIN rows' = DOMAIN rows /\ rows' \in [DOMAIN rows -> Row]
      /\ \A b \in DOMAIN rows :
            /\ rows'[b].status = IF rows[b].status = "running" THEN "interrupted" ELSE rows[b].status
            /\ rows'[b].at = rows[b].at /\ DOMAIN rows'[b].agents = DOMAIN rows[b].agents
            /\ \A a \in DOMAIN rows[b].agents : rows'[b].agents[a] =
                  IF rows[b].agents[a] \in {"queued", "running"} THEN "interrupted"
                  ELSE rows[b].agents[a]
  BY <1>1, <1>2, RecoveredFacts
<1>5. Running' = {}
  BY <1>4 DEF Running
<1>6. TypeOK'
  BY <1>1, <1>2, <1>4 DEF TypeOK
<1>7. OneRunningRow'
  <2>1. Cardinality(Running') = 0
    BY <1>5, FS_EmptySet
  <2> QED
    BY <1>5, <1>6, <2>1 DEF OneRunningRow
<1>8. ASSUME NEW b \in DOMAIN rows' PROVE RowFine(b)'
  <2>1. RowFine(b)
    BY <1>4, <1>8, EachRowFine DEF BatchInv
  <2>2. \A a, kind : Accounted(b, a, kind)' <=> Accounted(b, a, kind)
    BY <1>2 DEF Accounted, Traded, Audited
  <2> QED
    BY <1>4, <1>8, <2>1, <2>2 DEF RowFine, Outcomes
<1>9. CompletedIsComplete' /\ NoTradeOutlivesReset'
  BY <1>1, <1>2, <1>4, <1>8, EachRowFine DEF NoTradeOutlivesReset
<1>10. IdentifiersAreFresh'
  BY <1>1, <1>2, <1>3, <1>4 DEF IdentifiersAreFresh
<1>11. WorkersAreSound'
  BY <1>3 DEF WorkersAreSound
<1> QED
  BY <1>3, <1>7, <1>9, <1>10, <1>11 DEF BatchInv

\* A new batch has a number nobody ever used, so that nothing is known of it.
LEMMA StartKeeps ==
    ASSUME BatchInv, NEW now \in 0..clock, Start(now)
    PROVE  BatchInv'
<1> SUFFICES ASSUME NEW b, b = next.batch PROVE BatchInv'
  OBVIOUS
<1> DEFINE row == [status |-> "running", at |-> now, agents |-> [a \in agents |-> "queued"]]
<1>1. OneRunningRow /\ TypeOK /\ IdentifiersAreFresh /\ WorkersAreSound /\ NoTradeOutlivesReset
  BY DEF BatchInv, OneRunningRow
<1>2. /\ UNCHANGED <<trades, audits, cycles, agents, up, clock>>
      /\ up /\ b \in Batches /\ b \in Nat /\ Running = {}
      /\ rows' = [i \in DOMAIN rows \cup {b} |-> IF i = b THEN row ELSE rows[i]]
      /\ next' = [next EXCEPT !.batch = b + 1] /\ latest' = now
      /\ \/ Goto(b, "cycle") /\ count' = count
         \/ /\ count.faults < MaxFaults /\ count' = [count EXCEPT !.faults = count.faults + 1]
            /\ workers' = workers
  BY DEF Start, NoneRunning, Batches
<1>3. /\ \A c \in DOMAIN rows \cup Alive : c < b /\ c # b
      /\ \A t \in trades : t.batch # b
      /\ \A k \in DOMAIN audits : k[1] # b
  <2>1. /\ DOMAIN rows \cup Alive \subseteq Nat
        /\ \A t \in trades : t.batch \in Nat
        /\ \A k \in DOMAIN audits : k[1] \in Nat
    BY <1>1, BatchesFinite DEF TypeOK, Alive
  <2>2. \A i \in Nat : i < b => i # b
    BY <1>2
  <2> QED
    BY <1>1, <2>1, <2>2 DEF IdentifiersAreFresh
<1>4. row \in Row /\ row.status = "running" /\ row.at = now
      /\ row.agents = [a \in agents |-> "queued"]
  <2>1. agents \in SUBSET Agents /\ [a \in agents |-> "queued"] \in [agents -> AgentStatuses]
    BY <1>1 DEF TypeOK, AgentStatuses
  <2>2. now \in 0..MaxTime /\ "running" \in BatchStatuses
    BY <1>1, BoundsAssumption DEF TypeOK, BatchStatuses
  <2> QED
    BY <2>1, <2>2, RowFields
<1> HIDE DEF row
<1>5. /\ DOMAIN rows' = DOMAIN rows \cup {b} /\ rows'[b] = row
      /\ \A c \in DOMAIN rows : c # b /\ rows'[c] = rows[c]
      /\ rows' \in [DOMAIN rows' -> Row]
  BY <1>1, <1>2, <1>3, <1>4 DEF TypeOK
<1>6. /\ next' = [batch |-> b + 1, cycle |-> next.cycle]
      /\ next'.batch = b + 1 /\ next'.cycle = next.cycle
  BY <1>1, <1>2 DEF TypeOK
<1>7. /\ workers' \in [Batches -> Worker]
      /\ \A c \in Batches : c # b => workers'[c] = workers[c]
      /\ workers'[b].pc \in {"off", "cycle"} /\ workers'[b].cycle = workers[b].cycle
      /\ Goto(b, "cycle") => workers'[b].pc = "cycle"
  <2>1. CASE Goto(b, "cycle")
    BY <1>1, <1>2, <2>1, GotoFacts DEF Labels
  <2>2. CASE workers' = workers /\ ~Goto(b, "cycle")
    BY <1>1, <1>2, <1>3, <2>2 DEF TypeOK, Alive
  <2>3. CASE workers' = workers /\ Goto(b, "cycle")
    BY <1>1, <1>2, <2>3, GotoFacts DEF Labels
  <2> QED
    BY <1>2, <2>1, <2>2, <2>3
<1>8. Alive' \subseteq Alive \cup {b} /\ Running' = {b}
  <2>1. Alive' \subseteq Alive \cup {b}
    BY <1>7 DEF Alive
  <2>2. Running' = {b}
    BY <1>2, <1>4, <1>5 DEF Running
  <2> QED
    BY <2>1, <2>2
<1>9. TypeOK'
  <2>1. count' \in [crashes : 0..MaxCrashes, resets : 0..MaxResets, faults : 0..MaxFaults]
    BY <1>1, <1>2, BoundsAssumption DEF TypeOK
  <2>2. \A c \in Batches : workers'[c].pc \in Processing => workers'[c].agent \in Agents
    BY <1>1, <1>7 DEF TypeOK, Processing
  <2>3. next'.batch \in 1..(MaxBatches + 1) /\ next'.cycle \in Nat \ {0}
    BY <1>1, <1>2, <1>6, BoundsAssumption DEF TypeOK, Batches
  <2>4. DOMAIN rows' \subseteq Batches /\ latest' \in Int
    BY <1>1, <1>2, <1>5 DEF TypeOK
  <2>5. next' = [batch |-> next'.batch, cycle |-> next'.cycle]
    BY <1>6
  <2> QED
    BY <1>1, <1>2, <1>5, <1>6, <1>7, <2>1, <2>2, <2>3, <2>4, <2>5 DEF TypeOK
<1>10. OneRunningRow'
  <2>1. Cardinality(Running') = 1
    BY <1>8, FS_Singleton
  <2>2. count'.faults = 0 => b \in Alive'
    <3>1. count.faults \in Nat
      BY <1>1, BoundsAssumption DEF TypeOK
    <3>2. count'.faults = 0 => Goto(b, "cycle")
      BY <1>1, <1>2, <3>1 DEF TypeOK
    <3> QED
      BY <1>2, <1>7, <3>2 DEF Alive
  <2> QED
    BY <1>8, <1>9, <2>1, <2>2 DEF OneRunningRow
<1>11. \A c, a, kind : Same(c, a, kind)
  BY <1>2 DEF Same, Traded
<1>12. \A a, kind : NothingDone(b, a, kind)
  <2>1. ASSUME NEW a, NEW kind PROVE ~Traded(b, a, kind)
    <3>1. [batch |-> b, agent |-> a, kind |-> kind].batch = b
      OBVIOUS
    <3> QED
      BY <1>3, <3>1 DEF Traded
  <2>2. ASSUME NEW a, NEW kind PROVE <<b, a, kind>> \notin DOMAIN audits
    <3>1. <<b, a, kind>>[1] = b
      OBVIOUS
    <3> QED
      BY <1>3, <3>1
  <2> QED
    BY <2>1, <2>2 DEF NothingDone
<1>13. CompletedIsComplete'
  <2>1. ASSUME NEW c \in DOMAIN rows PROVE RowFine(c)'
    BY <1>5, <1>11, <2>1, SameRow, EachRowFine DEF BatchInv
  <2>2. RowFine(b)'
    BY <1>4, <1>5 DEF RowFine, OneByOne
  <2> QED
    BY <1>5, <2>1, <2>2, EachRowFine
<1>14. NoTradeOutlivesReset'
  BY <1>1, <1>2, <1>5 DEF NoTradeOutlivesReset
<1>15. IdentifiersAreFresh'
  <2>1. \A c \in DOMAIN rows' \cup Alive' : c < next'.batch
    <3>1. \A c \in DOMAIN rows \cup Alive \cup {b} : c \in Nat /\ (c < b \/ c = b)
      BY <1>1, <1>2, <1>3, BatchesFinite DEF TypeOK, Alive
    <3>2. \A c \in DOMAIN rows \cup Alive \cup {b} : c < b + 1
      BY <1>2, <3>1
    <3> QED
      BY <1>5, <1>6, <1>8, <3>2
  <2>2. /\ \A t \in trades' : t.batch < next'.batch
        /\ \A k \in DOMAIN audits' : k[1] < next'.batch
    <3>1. /\ \A t \in trades : t.batch \in Nat /\ t.batch < b
          /\ \A k \in DOMAIN audits : k[1] \in Nat /\ k[1] < b
      BY <1>1, BatchesFinite DEF TypeOK, IdentifiersAreFresh
    <3>2. \A i \in Nat : i < b => i < b + 1
      BY <1>2
    <3> QED
      BY <1>2, <1>6, <3>1, <3>2
  <2>3. \A c \in Batches : workers'[c].cycle < next'.cycle
    BY <1>1, <1>6, <1>7 DEF IdentifiersAreFresh
  <2>4. next'.batch - 1 = b /\ rows'[b].at = latest'
    BY <1>2, <1>4, <1>5, <1>6
  <2> QED
    BY <1>5, <2>1, <2>2, <2>3, <2>4 DEF IdentifiersAreFresh
<1>16. WorkersAreSound'
  <2>1. ASSUME NEW c \in Alive', c # b
        PROVE  /\ c \in DOMAIN rows' => rows'[c].status = "running"
               /\ workers'[c].pc \in Processing \cup {"agent"} /\ workers'[c].cycle \in cycles'
                      => c \in DOMAIN rows'
    <3>1. c \in Alive /\ c \in Batches /\ workers'[c] = workers[c]
      BY <1>7, <1>8, <2>1 DEF Alive
    <3> QED
      BY <1>1, <1>2, <1>5, <2>1, <3>1 DEF WorkersAreSound
  <2>2. b \in DOMAIN rows' /\ rows'[b].status = "running"
    BY <1>4, <1>5
  <2> QED
    BY <1>2, <2>1, <2>2 DEF WorkersAreSound
<1>17. ASSUME NEW c \in Alive', c \in DOMAIN rows' PROVE InStep(c)'
  <2>1. CASE c # b
    <3>1. c \in Alive /\ c \in Batches /\ workers'[c] = workers[c] /\ c \in DOMAIN rows
      BY <1>5, <1>7, <1>8, <1>17, <2>1 DEF Alive
    <3>2. InStep(c) /\ rows'[c] = rows[c] /\ agents' = agents
      BY <1>2, <1>5, <3>1 DEF BatchInv
    <3> QED
      BY <1>11, <3>1, <3>2, SameRow
  <2>2. CASE c = b
    <3>1. workers'[b].pc = "cycle"
      BY <1>7, <1>17, <2>2 DEF Alive
    <3>2. \A a, kind : NothingDone(b, a, kind)'
      BY <1>11, <1>12, SameSays
    <3>3. DOMAIN row.agents = agents /\ \A a \in agents : row.agents[a] = "queued"
      BY <1>4
    <3>4. InStep(b)'
      BY <1>2, <1>5, <3>1, <3>2, <3>3 DEF InStep, Processing
    <3> QED
      BY <2>2, <3>4
  <2> QED
    BY <2>1, <2>2
<1> QED
  BY <1>10, <1>13, <1>14, <1>15, <1>16, <1>17 DEF BatchInv

\* At first there is nothing.
LEMMA InitBatch == Init => BatchInv
<1> SUFFICES ASSUME Init PROVE BatchInv
  OBVIOUS
<1>1. /\ rows = Empty /\ trades = {} /\ audits = Empty /\ cycles = {} /\ agents = Initial
      /\ next = [batch |-> 1, cycle |-> 1] /\ workers = [b \in Batches |-> Off]
      /\ up = TRUE /\ clock = 0 /\ latest = -Cooldown
      /\ count = [crashes |-> 0, resets |-> 0, faults |-> 0]
  BY DEF Init
<1>2. DOMAIN rows = {} /\ DOMAIN audits = {} /\ Alive = {}
  BY <1>1 DEF Empty, Alive, Off
<1>3. Running = {}
  BY <1>2 DEF Running
<1>4. Off \in Worker /\ Off.pc \notin Processing /\ Off.cycle = 0
  BY DEF Off, Worker, Labels, Processing
<1>5. TypeOK
  <2>1. rows \in [DOMAIN rows -> Row]
    BY <1>1 DEF Empty
  <2>2. agents \subseteq Agents /\ clock \in 0..MaxTime /\ latest \in Int
        /\ count \in [crashes : 0..MaxCrashes, resets : 0..MaxResets, faults : 0..MaxFaults]
    BY <1>1, AgentsAssumption, BoundsAssumption, CooldownAssumption
  <2>3. next.batch \in 1..(MaxBatches + 1) /\ next.cycle \in Nat \ {0} /\ up \in BOOLEAN
        /\ next = [batch |-> next.batch, cycle |-> next.cycle]
    BY <1>1, BoundsAssumption
  <2> QED
    BY <1>1, <1>2, <1>4, <2>1, <2>2, <2>3 DEF TypeOK
<1>6. OneRunningRow
  <2>1. Cardinality(Running) = 0
    BY <1>3, FS_EmptySet
  <2> QED
    BY <1>3, <1>5, <2>1 DEF OneRunningRow
<1>7. CompletedIsComplete /\ NoTradeOutlivesReset
  BY <1>1, <1>2 DEF CompletedIsComplete, OutcomesAreComplete, TradesAreAudited, NoTradeOutlivesReset
<1>8. IdentifiersAreFresh
  BY <1>1, <1>2, <1>4 DEF IdentifiersAreFresh
<1>9. WorkersAreSound
  BY <1>2 DEF WorkersAreSound
<1> QED
  BY <1>2, <1>6, <1>7, <1>8, <1>9 DEF BatchInv

\* Every step keeps the invariant.
LEMMA StepBatch == BatchInv /\ [Next]_vars => BatchInv'
<1> SUFFICES ASSUME BatchInv, [Next]_vars PROVE BatchInv'
  OBVIOUS
<1>1. TypeOK
  BY DEF BatchInv, OneRunningRow
<1>2. ASSUME NEW now \in 0..clock, Start(now) PROVE BatchInv'
  BY <1>2, StartKeeps
<1>3. ASSUME NEW b \in Batches, WorkerStep(b) PROVE BatchInv'
  BY <1>3, WorkerKeeps
<1>4. CASE Reset \/ Crash \/ Restart
  BY <1>4, ResetKeeps, CrashKeeps, RestartKeeps
<1>5. CASE CreateAgent
  <2>1. TypeOK' /\ agents \subseteq agents' /\ count' = count
        /\ UNCHANGED <<rows, trades, audits, cycles, next, workers, up, latest>>
    BY <1>1, <1>5 DEF CreateAgent, TypeOK
  <2> QED
    BY <2>1, QuietStep
<1>6. CASE Tick
  <2>1. TypeOK'
    BY <1>1, <1>6, BoundsAssumption DEF Tick, TypeOK, data
  <2>2. agents \subseteq agents' /\ count' = count
        /\ UNCHANGED <<rows, trades, audits, cycles, next, workers, up, latest>>
    BY <1>6 DEF Tick, data
  <2> QED
    BY <2>1, <2>2, QuietStep
<1>7. CASE UNCHANGED vars
  <2>1. TypeOK' /\ agents \subseteq agents' /\ count' = count
        /\ UNCHANGED <<rows, trades, audits, cycles, next, workers, up, latest>>
    BY <1>1, <1>7 DEF vars, TypeOK
  <2> QED
    BY <2>1, QuietStep
<1> QED
  BY <1>2, <1>3, <1>4, <1>5, <1>6, <1>7 DEF Next, Finished
-----------------------------------------------------------------------------
(* The theorems *)

\* BatchInv holds in every state: the rows of a batch, its thread, its trades and
\* its audits tell one story.
THEOREM BatchInductive == Spec => []BatchInv
BY InitBatch, StepBatch, PTL DEF Spec

\* However many batches, crashes, resets and lost threads: at most one batch is
\* running in the eyes of the next request, and it is blocked for good only by a
\* thread that could not be started or could not write its end.
THEOREM OneBatchAtATime == Spec => []OneRunningRow
<1>1. BatchInv => OneRunningRow
  BY DEF BatchInv
<1> QED
  BY <1>1, BatchInductive, PTL

\* A batch or an agent that is reported completed is: its agents have their
\* outcomes, and their audits say executed of each trade, and of no other.
THEOREM CompleteMeansComplete == Spec => []CompletedIsComplete
<1>1. BatchInv => CompletedIsComplete
  BY DEF BatchInv
<1> QED
  BY <1>1, BatchInductive, PTL

\* A thread that a reset has overtaken trades no more.
THEOREM ResetIsRespected == Spec => []NoTradeOutlivesReset
<1>1. BatchInv => NoTradeOutlivesReset
  BY DEF BatchInv
<1> QED
  BY <1>1, BatchInductive, PTL

\* A thread writes no status over one that was final.
LEMMA WorkerSettles ==
    ASSUME BatchInv, NEW b \in Batches, WorkerStep(b)
    PROVE  Final
<1>1. TypeOK
  BY DEF BatchInv, OneRunningRow
<1>2. DOMAIN rows' = DOMAIN rows /\ \A c \in DOMAIN rows : c # b => rows'[c] = rows[c]
  BY <1>1, RowsStep
<1> SUFFICES ASSUME b \in DOMAIN rows
             PROVE  /\ rows[b].status = "running"
                    /\ \A a \in DOMAIN rows[b].agents :
                          rows[b].agents[a] \notin {"queued", "running"}
                              => rows'[b].agents[a] = rows[b].agents[a]
  BY <1>2 DEF Final
<1>3. rows[b].status = "running" /\ InStep(b) /\ workers[b].left \in SUBSET Nat
  BY OwnRow
<1>4. ASSUME NEW a, NEW status \in AgentStatuses, Mark(b, a, status),
             a \in DOMAIN rows[b].agents => rows[b].agents[a] \in {"queued", "running"}
      PROVE  \A x \in DOMAIN rows[b].agents :
                rows[b].agents[x] \notin {"queued", "running"} => rows'[b].agents[x] = rows[b].agents[x]
  BY <1>1, <1>4, MarkFacts
<1>5. CASE NextAgent(b)
  <2> SUFFICES ASSUME NEW a, a = Min(workers[b].left)
               PROVE  \A x \in DOMAIN rows[b].agents :
                         rows[b].agents[x] \notin {"queued", "running"}
                             => rows'[b].agents[x] = rows[b].agents[x]
    BY <1>3
  <2>1. Mark(b, a, "running") /\ "running" \in AgentStatuses /\ workers[b].pc = "agent"
        /\ workers[b].left # {}
    BY <1>5 DEF NextAgent, At, AgentStatuses
  <2>2. a \in workers[b].left
    BY <1>3, <2>1, MinFacts
  <2>3. a \in DOMAIN rows[b].agents => rows[b].agents[a] = "queued"
    BY <1>3, <2>1, <2>2 DEF InStep
  <2> QED
    BY <1>4, <2>1, <2>3
<1>6. CASE MarkCompleted(b) \/ AgentFails(b)
  <2>1. PICK status \in {"completed", "failed"} : Mark(b, workers[b].agent, status)
    BY <1>6 DEF MarkCompleted, AgentFails
  <2>2. status \in AgentStatuses /\ workers[b].pc \in Processing
    BY <1>6 DEF AgentStatuses, MarkCompleted, AgentFails, At, Processing
  <2>3. workers[b].agent \in DOMAIN rows[b].agents => rows[b].agents[workers[b].agent] = "running"
    BY <2>2, AgentIsRunning
  <2> QED
    BY <1>3, <1>4, <2>1, <2>2, <2>3
<1>7. CASE Complete(b) \/ Fail(b)
  <2>1. PICK status \in {"completed", "completed_with_errors", "failed"} : EndBatch(b, status)
    BY <1>7 DEF Complete, Fail
  <2>2. rows \in [DOMAIN rows -> Row] /\ rows[b] \in Row
    BY <1>1 DEF TypeOK
  <2>3. rows[b] = [status |-> rows[b].status, at |-> rows[b].at, agents |-> rows[b].agents]
    BY <2>2, RowFields
  <2>4. rows'[b].agents = rows[b].agents
    BY <2>1, <2>2, <2>3 DEF EndBatch
  <2> QED
    BY <1>3, <2>4
<1>8. rows' = rows \/ NextAgent(b) \/ MarkCompleted(b) \/ AgentFails(b) \/ Complete(b) \/ Fail(b)
  BY DEF WorkerStep, FunnelResult, RecordInput, ForcedSell, AuditForcedSell, RecordDecision,
         ExecuteDecision, CompleteAudit, WorkerFails, FailLost, data
<1> QED
  BY <1>3, <1>5, <1>6, <1>7, <1>8

\* The request that starts a batch has waited for the cooldown after the latest one.
LEMMA StartIsSpaced ==
    ASSUME BatchInv, NEW now \in 0..clock, Start(now)
    PROVE  Final /\ Spaced
<1>1. TypeOK /\ IdentifiersAreFresh
  BY DEF BatchInv, OneRunningRow
<1>2. \A c \in DOMAIN rows : c \in Nat /\ c < next.batch
  BY <1>1, BatchesFinite DEF IdentifiersAreFresh, TypeOK
<1>3. \A c \in DOMAIN rows : rows'[c] = rows[c]
  <2>1. \A c \in DOMAIN rows : c # next.batch
    BY <1>1, <1>2 DEF TypeOK
  <2> QED
    BY <2>1 DEF Start
<1>4. Final
  BY <1>3 DEF Final
<1>5. ASSUME DOMAIN rows # {} PROVE latest' >= latest + Cooldown
  <2>1. next.batch - 1 \in DOMAIN rows /\ rows[next.batch - 1].at = latest
    BY <1>1, <1>5 DEF IdentifiersAreFresh
  <2>2. \A c \in DOMAIN rows : c \in Int /\ c <= next.batch - 1
    BY <1>1, <1>2 DEF TypeOK
  <2>3. Max(DOMAIN rows) = next.batch - 1
    BY <2>1, <2>2, MaxFacts
  <2>4. latest' = now /\ now >= rows[Max(DOMAIN rows)].at + Cooldown
    BY <1>5 DEF Start, CooledDown
  <2> QED
    BY <2>1, <2>3, <2>4
<1> QED
  BY <1>4, <1>5 DEF Spaced

\* How a batch or an agent ended is never rewritten, and the next batch starts
\* only after the cooldown.
THEOREM EndsAreFinal == Spec => BatchesAreSettled
<1>1. BatchInv /\ [Next]_vars => [Final /\ Spaced]_vars
  <2> SUFFICES ASSUME BatchInv, Next PROVE (Final /\ Spaced) \/ UNCHANGED vars
    OBVIOUS
  <2>1. TypeOK
    BY DEF BatchInv, OneRunningRow
  <2>2. ASSUME NEW now \in 0..clock, Start(now) PROVE Final /\ Spaced
    BY <2>2, StartIsSpaced
  <2>3. ASSUME NEW b \in Batches, WorkerStep(b) PROVE Final /\ Spaced
    <3>1. next'.batch = next.batch
      BY <2>1, <2>3, OtherStep
    <3> QED
      BY <2>3, <3>1, WorkerSettles DEF Spaced
  <2>4. CASE Restart
    <3>1. \A b \in DOMAIN rows :
             /\ rows'[b].status = IF rows[b].status = "running" THEN "interrupted" ELSE rows[b].status
             /\ \A a \in DOMAIN rows[b].agents : rows'[b].agents[a] =
                   IF rows[b].agents[a] \in {"queued", "running"} THEN "interrupted"
                   ELSE rows[b].agents[a]
      BY <2>1, <2>4, RecoveredFacts DEF Restart
    <3>2. next' = next
      BY <2>4 DEF Restart
    <3> QED
      BY <3>1, <3>2 DEF Final, Spaced
  <2>5. CASE Reset
    <3>1. DOMAIN rows' = {} /\ next' = next
      BY <2>5 DEF Reset, Empty
    <3> QED
      BY <3>1 DEF Final, Spaced
  <2>6. CASE CreateAgent \/ Tick \/ Crash
    <3>1. rows' = rows /\ next' = next
      BY <2>6 DEF CreateAgent, Tick, Crash, data
    <3> QED
      BY <3>1 DEF Final, Spaced
  <2> QED
    BY <2>2, <2>3, <2>4, <2>5, <2>6 DEF Next, Finished
<1> QED
  BY <1>1, BatchInductive, PTL DEF Spec, BatchesAreSettled
=============================================================================
