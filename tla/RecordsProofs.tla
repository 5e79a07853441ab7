---------------------------- MODULE RecordsProofs ----------------------------
(***************************************************************************)
(* What is kept beyond a trade stays true, for any number of accounts,     *)
(* agents, batches, transactions, backups and days: a restore and the copy *)
(* of what it replaced are exact; no prune takes the evidence of a trade   *)
(* and none leaves anything else that is old; the chart misses no point    *)
(* but for newer ones or a rebuild; the ledger explains balances and       *)
(* holdings, through splits, dividends and reversals, corrections last;    *)
(* and a database of any version becomes one of today, wherever the        *)
(* program died before.  Each part has inductive invariants of its own     *)
(* (FilesInv, RetentionInv, ChartInv, UpgradeInv, and ActionsInv,          *)
(* BarsAreKnown and HoldingsFollow); the last section puts them together.  *)
(***************************************************************************)
EXTENDS MCRecords, FiniteSetTheorems, FunctionTheorems, WellFoundedInduction, TLAPS

(* The files of the database *)

\* The files: no set of transactions has the place of a file that is not there.
LEMMA FileFacts ==
    /\ NoFile \notin SUBSET Nat /\ NoRestore.pc = "none" /\ NoRestore.from = {}
    /\ NoRestore \in [pc : {"none", "move", "sidecars", "replace"}, from : SUBSET Nat]
  BY DEF NoFile, NoRestore

\* The initial state.
LEMMA FilesInit == FileInit => FilesInv
<1> SUFFICES ASSUME FileInit PROVE FilesInv
  OBVIOUS
<1>1. main = {} /\ Log = {} /\ wal = NoFile /\ main # NoFile /\ kept = {} /\ restore.pc = "none"
  BY FileFacts DEF FileInit, Log
<1>2. FilesTypeOK
  <2>1. fileCount \in [commits : Nat, restores : Nat, faults : Nat]
    BY DEF FileInit
  <2>2. restore \in [pc : {"none", "move", "sidecars", "replace"}, from : SUBSET Nat]
    BY FileFacts DEF FileInit
  <2>3. backups \in Seq(SUBSET Nat) /\ {main, wal} \subseteq (SUBSET Nat) \cup {NoFile}
    BY <1>1 DEF FileInit
  <2> QED
    BY <1>1, <2>1, <2>2, <2>3 DEF FileInit, FilesTypeOK
<1>3. RestoreInOrder /\ NothingIsLost
  BY <1>1 DEF FileInit, RestoreInOrder, NothingIsLost
<1> QED
  BY <1>2, <1>3 DEF FilesInv

\* Counting changes one counter.
LEMMA CountFileFacts ==
    ASSUME FilesTypeOK, NEW field \in {"commits", "restores", "faults"}, NEW bound \in Nat,
           CountFile(field, bound)
    PROVE  /\ fileCount' \in [commits : Nat, restores : Nat, faults : Nat]
           /\ fileCount'[field] = fileCount[field] + 1
           /\ \A f \in {"commits", "restores", "faults"} \ {field} : fileCount'[f] = fileCount[f]
  BY DEF CountFile, FilesTypeOK

\* The log is a set of transactions.
LEMMA LogType == FilesTypeOK => Log \in SUBSET Nat
  BY DEF FilesTypeOK, Log

\* Every backup is a set of transactions.
LEMMA BackupsType ==
    ASSUME FilesTypeOK, NEW b \in ToSet(backups)
    PROVE  b \in SUBSET Nat
  BY DEF FilesTypeOK, ToSet

\* Every step preserves the types.
LEMMA FilesTypes == FilesInv /\ FileNext => FilesTypeOK'
<1> SUFFICES ASSUME FilesInv, FileNext PROVE FilesTypeOK'
  OBVIOUS
<1>0. /\ {MaxCommits, MaxRestores, MaxFileFaults} \subseteq Nat
      /\ FilesTypeOK /\ RestoreInOrder /\ Log \in SUBSET Nat
  BY FilesAssumption, LogType DEF FilesInv
<1>1. CASE CommitToLog
  <2>1. fileCount' \in [commits : Nat, restores : Nat, faults : Nat]
    BY <1>0, <1>1, CountFileFacts DEF CommitToLog
  <2>2. fileCount'.commits \in Nat
    BY <2>1
  <2> QED
    BY <1>0, <1>1, <2>1, <2>2 DEF CommitToLog, FilesTypeOK
<1>2. CASE Checkpoint
  <2>1. main # NoFile
    BY <1>0, <1>2 DEF Checkpoint, RestoreInOrder
  <2> QED
    BY <1>0, <1>2, <2>1 DEF Checkpoint, FilesTypeOK
<1>3. CASE Backup
  <2> DEFINE all == <<main \cup Log>> \o backups
  <2>1. all \in Seq(SUBSET Nat)
    <3>1. main \cup Log \in SUBSET Nat
      BY <1>0, <1>3 DEF Backup, FilesTypeOK
    <3> QED
      BY <1>0, <3>1 DEF FilesTypeOK
  <2> HIDE DEF all
  <2>2. Rotated(all) \in Seq(SUBSET Nat)
    BY <2>1, FilesAssumption DEF Rotated
  <2>3. backups' \in Seq(SUBSET Nat)
    BY <1>3, <2>1, <2>2 DEF Backup, all
  <2> QED
    BY <1>0, <1>3, <2>3 DEF Backup, FilesTypeOK
<1>4. CASE StopServer \/ StartServer
  <2>1. /\ UNCHANGED <<kept, backups, restore, torn, fileCount>> /\ serverUp' \in BOOLEAN
        /\ UNCHANGED <<main, wal, expected>> \/ (main' = {} /\ wal' = NoFile /\ expected' = {})
    BY <1>4 DEF StopServer, StartServer
  <2>2. {main', wal'} \subseteq (SUBSET Nat) \cup {NoFile} /\ expected' \in SUBSET Nat
    BY <1>0, <2>1 DEF FilesTypeOK
  <2> QED
    BY <1>0, <2>1, <2>2 DEF FilesTypeOK
<1>5. CASE BeginRestore
  <2>1. fileCount' \in [commits : Nat, restores : Nat, faults : Nat]
    BY <1>0, <1>5, CountFileFacts DEF BeginRestore
  <2>2. PICK b \in ToSet(backups) :
           restore' = [pc |-> IF main = NoFile THEN "replace" ELSE "move", from |-> b]
    BY <1>5 DEF BeginRestore
  <2>3. restore' \in [pc : {"none", "move", "sidecars", "replace"}, from : SUBSET Nat]
    BY <1>0, <2>2, BackupsType
  <2> QED
    BY <1>0, <1>5, <2>1, <2>3 DEF BeginRestore, FilesTypeOK
<1>6. CASE MoveTarget
  <2>1. main # NoFile
    BY <1>0, <1>6 DEF MoveTarget, RestoreInOrder
  <2>2. [id |-> fileCount.restores, main |-> main, wal |-> {}]
          \in [id : Nat, main : SUBSET Nat, wal : SUBSET Nat]
    BY <1>0, <2>1 DEF FilesTypeOK
  <2> QED
    BY <1>0, <1>6, <2>2 DEF MoveTarget, FilesTypeOK
<1>7. CASE PreserveSidecars
  <2>1. kept' \subseteq [id : Nat, main : SUBSET Nat, wal : SUBSET Nat]
    BY <1>0, <1>7 DEF PreserveSidecars, Sidecar, FilesTypeOK
  <2> QED
    BY <1>0, <1>7, <2>1 DEF PreserveSidecars, Sidecar, FilesTypeOK
<1>8. CASE ReplaceTarget
  BY <1>0, <1>8, FileFacts DEF ReplaceTarget, FilesTypeOK
<1>9. CASE RestoreDies
  <2>1. fileCount' \in [commits : Nat, restores : Nat, faults : Nat]
    BY <1>0, <1>9, CountFileFacts DEF RestoreDies
  <2> QED
    BY <1>0, <1>9, <2>1, FileFacts DEF RestoreDies, FilesTypeOK
<1> QED
  BY <1>1, <1>2, <1>3, <1>4, <1>5, <1>6, <1>7, <1>8, <1>9 DEF FileNext

\* A restore stays in order, and no step loses what is still known to be somewhere.
LEMMA FilesStep == FilesInv /\ FileNext => FilesInv'
<1> SUFFICES ASSUME FilesInv, FileNext PROVE RestoreInOrder' /\ (torn' \/ NothingIsLost')
  BY FilesTypes DEF FilesInv
<1>0. /\ {MaxCommits, MaxRestores, MaxFileFaults} \subseteq Nat
      /\ FilesTypeOK /\ FilesTypeOK' /\ RestoreInOrder /\ (torn \/ NothingIsLost)
  BY FilesAssumption, FilesTypes DEF FilesInv
<1>1. CASE CommitToLog
  <2>1. fileCount'.restores = fileCount.restores /\ fileCount'.commits \in Nat
    BY <1>0, <1>1, CountFileFacts DEF CommitToLog
  <2>2. wal' # NoFile /\ Log' = Log \cup {fileCount'.commits}
    BY <1>0, <1>1, <2>1, LogType, FileFacts DEF CommitToLog, Log
  <2> QED
    BY <1>0, <1>1, <2>1, <2>2, FileFacts DEF CommitToLog, RestoreInOrder, NothingIsLost
<1>2. CASE Checkpoint
  <2>1. main # NoFile /\ main' # NoFile /\ restore.pc = "none" /\ main' = main \cup Log /\ Log' = {}
    BY <1>0, <1>2, FileFacts DEF Checkpoint, RestoreInOrder, FilesTypeOK, Log
  <2> QED
    BY <1>0, <1>2, <2>1 DEF Checkpoint, RestoreInOrder, NothingIsLost
<1>3. CASE Backup \/ StopServer
  BY <1>0, <1>3 DEF Backup, StopServer, RestoreInOrder, NothingIsLost, Log
<1>4. CASE StartServer
  BY <1>0, <1>4, FileFacts DEF StartServer, RestoreInOrder, NothingIsLost, Log
<1>5. CASE BeginRestore
  <2>1. fileCount'.restores = fileCount.restores + 1 /\ fileCount.restores \in Nat
    BY <1>0, <1>5, CountFileFacts DEF BeginRestore, FilesTypeOK
  <2>2. restore'.pc = IF main = NoFile THEN "replace" ELSE "move"
    BY <1>5 DEF BeginRestore
  <2>3. \A c \in kept : c.id \in Nat /\ c.id < fileCount'.restores /\ c.id # fileCount'.restores
    BY <1>0, <2>1 DEF FilesTypeOK, RestoreInOrder
  <2> QED
    BY <1>0, <1>5, <2>1, <2>2, <2>3, FileFacts DEF BeginRestore, RestoreInOrder, NothingIsLost, Log
<1>6. CASE MoveTarget
  <2> DEFINE copy == [id |-> fileCount.restores, main |-> main, wal |-> {}]
  <2>1. restore'.pc = "sidecars" /\ main # NoFile /\ main' = NoFile /\ Log' = Log
    BY <1>0, <1>6 DEF MoveTarget, RestoreInOrder, FilesTypeOK, Log
  <2>2. \A c \in kept : c.id \in Nat /\ c.id < fileCount.restores /\ c.id # fileCount.restores
    BY <1>0, <1>6 DEF MoveTarget, FilesTypeOK, RestoreInOrder
  <2>3. copy \in kept' /\ kept \subseteq kept' /\ copy.id = fileCount.restores /\ copy.main = main
        /\ copy.wal = {} /\ kept' = kept \cup {copy} /\ fileCount.restores \in Nat
    BY <1>0, <1>6 DEF MoveTarget, FilesTypeOK
  <2>4. RestoreInOrder'
    <3>1. ~serverUp /\ serverUp' = serverUp /\ fileCount' = fileCount
      BY <1>0, <1>6, FileFacts DEF MoveTarget, RestoreInOrder
    <3>2. \A c \in kept' : c.id <= fileCount.restores
      BY <2>2, <2>3
    <3> QED
      BY <2>1, <3>1, <3>2 DEF RestoreInOrder
  <2>5. ASSUME NothingIsLost PROVE NothingIsLost'
    <3> HIDE DEF copy
    <3>1. restore.pc = "move" /\ expected = main \cup Log
      BY <1>6, <2>1, <2>5 DEF MoveTarget, NothingIsLost
    <3> QED
      BY <1>0, <1>6, <2>1, <2>2, <2>3, <2>5, <3>1 DEF MoveTarget, NothingIsLost
  <2> QED
    BY <1>0, <1>6, <2>4, <2>5 DEF MoveTarget
<1>7. CASE PreserveSidecars
  <2> DEFINE Moved(c) == IF c.id = fileCount.restores THEN [c EXCEPT !.wal = Log] ELSE c
  <2>1. restore.pc = "sidecars" /\ restore'.pc = "replace" /\ Log' = {} /\ wal' = NoFile /\ main = NoFile
    BY <1>0, <1>7 DEF PreserveSidecars, Sidecar, RestoreInOrder, FilesTypeOK, Log
  <2>2. kept' = {Moved(c) : c \in kept}
    BY <1>7 DEF PreserveSidecars, Sidecar
  <2>3. \A c \in kept : /\ Moved(c).id = c.id /\ Moved(c).main = c.main
                        /\ Moved(c).wal = IF c.id = fileCount.restores THEN Log ELSE c.wal
    BY <1>0 DEF FilesTypeOK
  <2> HIDE DEF Moved
  <2> QED
    BY <1>0, <1>7, <2>1, <2>2, <2>3 DEF PreserveSidecars, RestoreInOrder, NothingIsLost
<1>8. CASE ReplaceTarget
  <2>1. main' # NoFile /\ restore'.pc = "none" /\ restore.pc = "replace" /\ main' = expected'
    BY <1>0, <1>8, FileFacts DEF ReplaceTarget, FilesTypeOK
  <2> QED
    BY <1>0, <1>8, <2>1 DEF ReplaceTarget, RestoreInOrder, NothingIsLost, Log
<1>9. CASE RestoreDies
  <2>1. fileCount'.restores = fileCount.restores /\ restore'.pc = "none" /\ restore' = NoRestore
    BY <1>0, <1>9, CountFileFacts, FileFacts DEF RestoreDies
  <2>2. torn' \/ (~torn /\ (restore.pc = "sidecars" => Log = {}))
    BY <1>9 DEF RestoreDies, Log
  <2> QED
    BY <1>0, <1>9, <2>1, <2>2 DEF RestoreDies, RestoreInOrder, NothingIsLost, Log
<1> QED
  BY <1>1, <1>2, <1>3, <1>4, <1>5, <1>6, <1>7, <1>8, <1>9 DEF FileNext

\* What the invariant says of a server that starts.
LEMMA FilesAreExact == FilesInv => RestoreIsExact
  BY DEF FilesInv, NothingIsLost, RestoreIsExact

-----------------------------------------------------------------------------
(* The evidence of a trade *)

\* What is true at the start.
LEMMA RetentionStarts == RetentionInit => RetentionInv
<1> SUFFICES ASSUME RetentionInit PROVE RetentionInv
  OBVIOUS
<1>1. RetentionTypeOK
  <2>1. keptCount \in [batches : Nat, decisions : Nat, faults : Nat]
    BY DEF RetentionInit
  <2>2. worker \in [pc : {"idle", "next", "decided", "traded", "down"}, batch : Nat,
                    left : SUBSET Agents, id : Nat]
    BY DEF RetentionInit, Idle
  <2> QED
    BY <2>1, <2>2 DEF RetentionInit, RetentionTypeOK
<1>2. RowsInOrder
  BY DEF RetentionInit, RowsInOrder
<1>3. DecisionAtWork
  BY DEF RetentionInit, Idle, DecisionAtWork
<1> QED
  BY <1>1, <1>2, <1>3 DEF RetentionInit, RetentionInv

\* Counting changes one counter.
LEMMA CountKeptFacts ==
    ASSUME RetentionTypeOK, NEW field \in {"batches", "decisions", "faults"}, NEW bound,
           CountKept(field, bound)
    PROVE  /\ keptCount' \in [batches : Nat, decisions : Nat, faults : Nat]
           /\ keptCount'[field] = keptCount[field] + 1
           /\ \A f \in {"batches", "decisions", "faults"} \ {field} : keptCount'[f] = keptCount[f]
  BY DEF CountKept, RetentionTypeOK

\* The evidence of a trade stays while rows are only added and batches only finished.
LEMMA EvidenceStays ==
    ASSUME NEW t, HasEvidence(t),
           stored.quotes \subseteq stored'.quotes, stored.audits \subseteq stored'.audits,
           stored.members \subseteq stored'.members, stored.steps \subseteq stored'.steps,
           \A b \in stored.batches : \E c \in stored'.batches : c.id = b.id
    PROVE  HasEvidence(t)'
  BY DEF HasEvidence

\* A batch begins.
LEMMA StartBatchKeeps == RetentionInv /\ StartBatch => RetentionInv'
<1> SUFFICES ASSUME RetentionInv, StartBatch PROVE RetentionInv'
  OBVIOUS
<1> DEFINE n == keptCount'.batches
           batch == [id |-> n, status |-> "running", at |-> day]
<1>1. RetentionTypeOK /\ n \in Nat \ {0} /\ keptCount'.decisions = keptCount.decisions
      /\ keptCount' \in [batches : Nat, decisions : Nat, faults : Nat]
  <2>1. RetentionTypeOK
    BY DEF RetentionInv
  <2>2. keptCount.batches \in Nat
    BY <2>1 DEF RetentionTypeOK
  <2> QED
    BY <2>1, <2>2, CountKeptFacts DEF StartBatch
<1>2. PICK members \in SUBSET Agents \ {{}} :
          stored' = [stored EXCEPT !.batches = @ \cup {batch},
                                   !.members = @ \cup {<<n, a>> : a \in members},
                                   !.cached = @ \cup {day}]
  BY DEF StartBatch
<1>3. /\ worker' = [pc |-> "next", batch |-> n, left |-> Agents, id |-> 0] /\ day' = day
      /\ worker.pc = "idle"
  BY DEF StartBatch
<1>4. /\ stored'.batches = stored.batches \cup {batch}
      /\ stored'.members = stored.members \cup {<<n, a>> : a \in members}
      /\ stored'.audits = stored.audits /\ stored'.steps = stored.steps
      /\ stored'.quotes = stored.quotes /\ stored'.trades = stored.trades
  BY <1>1, <1>2 DEF RetentionTypeOK
<1>5. batch.id = n /\ batch.status = "running"
      /\ batch \in [id : Nat \ {0}, status : {"running", "completed", "interrupted"}, at : Nat]
  BY <1>1 DEF RetentionTypeOK
<1>6. {<<n, a>> : a \in members} \subseteq Members
  BY <1>1, <1>2 DEF Members
<1> HIDE DEF n, batch
<1>7. RetentionTypeOK'
  BY <1>1, <1>2, <1>3, <1>5, <1>6 DEF RetentionTypeOK
<1>8. RowsInOrder'
  BY <1>1, <1>4 DEF RetentionInv, RowsInOrder
<1>9. DecisionAtWork'
  BY <1>3, <1>4, <1>5 DEF DecisionAtWork
<1>10. \A t \in stored'.trades : t.linked => HasEvidence(t)'
  BY <1>4, EvidenceStays DEF RetentionInv
<1> QED
  BY <1>7, <1>8, <1>9, <1>10 DEF RetentionInv

\* A decision is recorded, under the row of its agent in the batch if there is one.
LEMMA RecordDecisionKeeps == RetentionInv /\ RecordDecision => RetentionInv'
<1> SUFFICES ASSUME RetentionInv, RecordDecision PROVE RetentionInv'
  OBVIOUS
<1> USE DEF RetentionInv
<1> DEFINE n == keptCount'.decisions
<1>1. /\ n \in Nat \ {0} /\ n = keptCount.decisions + 1 /\ keptCount.decisions \in Nat
      /\ keptCount' \in [batches : Nat, decisions : Nat, faults : Nat]
  <2>1. keptCount.decisions \in Nat
    BY DEF RetentionTypeOK
  <2> QED
    BY <2>1, CountKeptFacts DEF RecordDecision
<1>2. PICK a \in worker.left :
          LET own == <<worker.batch, a>>
              member == IF own \in stored.members THEN own ELSE NoMember
          IN  /\ stored' = [stored EXCEPT
                    !.audits = @ \cup {[id |-> n, member |-> member, at |-> day]},
                    !.steps = IF a \in Committee THEN @ \cup {[member |-> member, agent |-> a, at |-> day]}
                              ELSE @]
              /\ worker' = [worker EXCEPT !.pc = "decided", !.left = @ \ {a}, !.id = n]
  BY DEF RecordDecision
<1> DEFINE own == <<worker.batch, a>>
           member == IF own \in stored.members THEN own ELSE NoMember
           audit == [id |-> n, member |-> member, at |-> day]
           step == [member |-> member, agent |-> a, at |-> day]
<1>3. /\ a \in Agents /\ worker.pc = "next" /\ day' = day /\ day \in Nat
      /\ member \in Members \cup {NoMember}
      /\ member # NoMember => member \in stored.members /\ member[1] = worker.batch /\ member[2] = a
  BY DEF RecordDecision, RetentionTypeOK
<1>4. /\ stored'.audits = stored.audits \cup {audit}
      /\ stored'.steps = IF a \in Committee THEN stored.steps \cup {step} ELSE stored.steps
      /\ stored'.batches = stored.batches /\ stored'.members = stored.members
      /\ stored'.quotes = stored.quotes /\ stored'.trades = stored.trades
      /\ stored'.cached = stored.cached
      /\ worker'.pc = "decided" /\ worker'.id = n /\ worker'.batch = worker.batch
  BY <1>2 DEF RetentionTypeOK
<1>5. /\ audit.id = n /\ audit.member = member /\ audit.at = day
      /\ step.member = member /\ step.at = day
      /\ audit \in [id : Nat \ {0}, member : Members \cup {NoMember}, at : Nat]
      /\ step \in [member : Members \cup {NoMember}, agent : Agents, at : Nat]
  BY <1>1, <1>3
<1> HIDE DEF member, audit, step, n
<1>6. RetentionTypeOK'
  <2>1. worker' \in [pc : {"idle", "next", "decided", "traded", "down"}, batch : Nat,
                     left : SUBSET Agents, id : Nat]
    BY <1>1, <1>2 DEF RetentionTypeOK, n
  <2>2. stored' = [stored EXCEPT !.audits = @ \cup {audit},
                                 !.steps = IF a \in Committee THEN @ \cup {step} ELSE @]
    BY <1>2 DEF audit, step, member, own
  <2> QED
    BY <1>1, <1>3, <1>5, <2>1, <2>2 DEF RetentionTypeOK
<1>7. RowsInOrder'
  <2>1. \A r \in stored.audits \cup stored.trades : r.id \in Nat /\ r.id < n
    BY <1>1 DEF RowsInOrder, RetentionTypeOK
  <2>2. \A r \in stored'.audits \cup stored'.trades : r.id <= n
    BY <1>1, <1>4, <1>5, <2>1
  <2>3. \A r, c \in stored'.audits : r.id = c.id => r = c
    BY <1>1, <1>4, <1>5, <2>1 DEF RowsInOrder
  <2> QED
    BY <1>4, <2>2, <2>3 DEF RowsInOrder, n
<1>8. DecisionAtWork'
  <2>1. \A r \in stored.audits \cup stored.trades : r.id # n
    BY <1>1 DEF RowsInOrder, RetentionTypeOK
  <2>2. n \in 1..keptCount'.decisions
    BY <1>1 DEF n
  <2>3. member # NoMember /\ a \in Committee => step \in stored'.steps
    BY <1>4
  <2>4. \A r \in stored'.audits : r.id = n => r = audit
    BY <1>4, <2>1
  <2> QED
    BY <1>3, <1>4, <1>5, <2>1, <2>2, <2>3, <2>4 DEF DecisionAtWork
<1>9. \A t \in stored'.trades : t.linked => HasEvidence(t)'
  BY <1>4, EvidenceStays
<1> QED
  BY <1>6, <1>7, <1>8, <1>9

\* What a prune keeps of each table.
KeptQuotes == {q \in stored.quotes : q.trade # 0 \/ ~Old(q)}
KeptAudits == {a \in stored.audits : a.id \in TradedIn(KeptQuotes) \/ ~Old(a)}
KeptSteps == {r \in stored.steps : ~Old(r) \/ HasTrade(r.member, KeptAudits, TradedIn(KeptQuotes))}
KeptBatches == {b \in stored.batches : BatchKept(b, KeptAudits, TradedIn(KeptQuotes))}
KeptMembers == {m \in stored.members : \E b \in KeptBatches : b.id = m[1]}

\* The tables a prune leaves.
LEMMA PrunedTables ==
    LET p == Pruned(stored) IN
    /\ p.batches = KeptBatches /\ p.members = KeptMembers /\ p.trades = stored.trades
    /\ p.audits = Unlinked(KeptAudits, KeptMembers) /\ p.steps = Unlinked(KeptSteps, KeptMembers)
    /\ p.quotes = {IF \E a \in KeptAudits : a.id = q.audit THEN q
                   ELSE [q EXCEPT !.audit = 0] : q \in KeptQuotes}
    /\ p.cached = {d \in stored.cached : d >= day - Window}
    /\ p = [batches |-> p.batches, members |-> p.members, trades |-> p.trades, audits |-> p.audits,
            steps |-> p.steps, quotes |-> p.quotes, cached |-> p.cached]
  BY DEF Pruned, KeptQuotes, KeptAudits, KeptSteps, KeptBatches, KeptMembers

\* A row that loses its member keeps the rest, one of a kept member keeps it.
LEMMA UnlinkedRows ==
    ASSUME NEW rows, NEW members, NEW r \in Unlinked(rows, members)
    PROVE  \E c \in rows : r = IF c.member \in members THEN c ELSE [c EXCEPT !.member = NoMember]
  BY DEF Unlinked

\* A row of a kept member is left as it is.
LEMMA UnlinkedKeeps ==
    ASSUME NEW rows, NEW members, NEW r \in rows, r.member \in members
    PROVE  r \in Unlinked(rows, members)
  BY DEF Unlinked

\* The audits a prune leaves are rows of before, with their member or with none.
LEMMA UnlinkedAudits ==
    ASSUME RetentionTypeOK, NEW members, NEW a \in Unlinked(KeptAudits, members)
    PROVE  /\ a \in [id : Nat \ {0}, member : Members \cup {NoMember}, at : Nat]
           /\ \E c \in KeptAudits :
                 /\ c \in stored.audits /\ c.id = a.id /\ c.at = a.at
                 /\ a = IF c.member \in members THEN c ELSE [c EXCEPT !.member = NoMember]
                 /\ c.member \notin members => a.member = NoMember
<1>1. PICK c \in KeptAudits : a = IF c.member \in members THEN c ELSE [c EXCEPT !.member = NoMember]
  BY UnlinkedRows
<1>2. c \in stored.audits /\ c \in [id : Nat \ {0}, member : Members \cup {NoMember}, at : Nat]
  BY DEF KeptAudits, RetentionTypeOK
<1> QED
  BY <1>1, <1>2

\* And the same of the steps of the committees.
LEMMA UnlinkedSteps ==
    ASSUME RetentionTypeOK, NEW members, NEW s \in Unlinked(KeptSteps, members)
    PROVE  /\ s \in [member : Members \cup {NoMember}, agent : Agents, at : Nat]
           /\ \E c \in KeptSteps :
                 /\ c \in stored.steps /\ c.at = s.at
                 /\ s = IF c.member \in members THEN c ELSE [c EXCEPT !.member = NoMember]
<1>1. PICK c \in KeptSteps : s = IF c.member \in members THEN c ELSE [c EXCEPT !.member = NoMember]
  BY UnlinkedRows
<1>2. c \in stored.steps /\ c \in [member : Members \cup {NoMember}, agent : Agents, at : Nat]
  BY DEF KeptSteps, RetentionTypeOK
<1> QED
  BY <1>1, <1>2

\* An audit that a quote of a trade names is that of a trade, with the trade's member.
LEMMA TradedIsTrade ==
    ASSUME RetentionInv, NEW a \in stored.audits, a.id \in TradedIn(KeptQuotes)
    PROVE  \E t \in stored.trades : t.id = a.id /\ t.member = a.member /\ t.linked /\ HasEvidence(t)
<1>1. PICK q \in stored.quotes : q.trade # 0 /\ q.audit = a.id
  BY DEF TradedIn, KeptQuotes
<1>2. PICK t \in stored.trades : t.id = q.trade /\ t.linked /\ q.audit = q.trade
  BY <1>1 DEF RetentionInv, RowsInOrder
<1>3. HasEvidence(t)
  BY <1>2 DEF RetentionInv
<1>4. PICK c \in stored.audits : c.id = t.id /\ c.member = t.member
  BY <1>3 DEF HasEvidence
<1>5. c = a
  BY <1>1, <1>2, <1>4 DEF RetentionInv, RowsInOrder
<1> QED
  BY <1>1, <1>2, <1>3, <1>4, <1>5

\* The member and the audit of a trade with evidence are kept.
LEMMA EvidenceIsTraded ==
    ASSUME RetentionInv, NEW t \in stored.trades, HasEvidence(t)
    PROVE  /\ t.id \in TradedIn(KeptQuotes)
           /\ \A a \in stored.audits : a.id = t.id => a \in KeptAudits
           /\ t.member # NoMember => t.member \in KeptMembers
<1>1. t.id \in Nat \ {0}
  BY DEF RetentionInv, RetentionTypeOK
<1>2. PICK q \in stored.quotes : q.trade = t.id /\ q.audit = t.id
  BY DEF HasEvidence
<1>3. q \in KeptQuotes /\ t.id \in TradedIn(KeptQuotes)
  BY <1>1, <1>2 DEF KeptQuotes, TradedIn
<1>4. \A a \in stored.audits : a.id = t.id => a \in KeptAudits
  BY <1>3 DEF KeptAudits
<1>5. ASSUME t.member # NoMember
      PROVE  t.member \in KeptMembers
  <2>1. PICK a \in stored.audits : a.id = t.id /\ a.member = t.member
    BY DEF HasEvidence
  <2>2. PICK b \in stored.batches : b.id = t.member[1]
    BY <1>5 DEF HasEvidence
  <2>3. b \in KeptBatches
    BY <1>3, <1>4, <2>1, <2>2 DEF KeptBatches, BatchKept
  <2> QED
    BY <1>5, <2>2, <2>3 DEF HasEvidence, KeptMembers
<1> QED
  BY <1>3, <1>4, <1>5

\* A prune keeps the quotes of a trade, with the audit they name.
LEMMA TradedQuotesStay ==
    ASSUME RetentionInv, NEW q \in stored.quotes, q.trade # 0
    PROVE  q \in Pruned(stored).quotes
<1>1. PICK t \in stored.trades : t.id = q.trade /\ t.linked /\ q.audit = q.trade
  BY DEF RetentionInv, RowsInOrder
<1>2. HasEvidence(t)
  BY <1>1 DEF RetentionInv
<1>3. PICK a \in stored.audits : a.id = t.id
  BY <1>2 DEF HasEvidence
<1>4. a \in KeptAudits /\ a.id = q.audit
  BY <1>1, <1>2, <1>3, EvidenceIsTraded
<1>5. q \in KeptQuotes
  BY DEF KeptQuotes
<1> QED
  BY <1>4, <1>5, PrunedTables

\* A quote that is left is one of before, or has lost an audit and is of no trade.
LEMMA PrunedQuotes ==
    ASSUME RetentionInv, NEW q \in Pruned(stored).quotes
    PROVE  /\ q \in [audit : Nat, trade : Nat, at : Nat]
           /\ q.trade # 0 => q \in stored.quotes
           /\ q.trade = 0 => ~Old(q)
<1>1. PICK c \in KeptQuotes : q = IF \E a \in KeptAudits : a.id = c.audit THEN c
                                  ELSE [c EXCEPT !.audit = 0]
  BY PrunedTables
<1>2. /\ c \in stored.quotes /\ c \in [audit : Nat, trade : Nat, at : Nat]
      /\ c.trade # 0 \/ ~Old(c)
  BY DEF KeptQuotes, RetentionInv, RetentionTypeOK
<1>3. q \in [audit : Nat, trade : Nat, at : Nat] /\ q.trade = c.trade /\ q.at = c.at
  BY <1>1, <1>2
<1>4. ASSUME q.trade # 0
      PROVE  q \in stored.quotes
  <2>1. PICK t \in stored.trades : t.id = c.trade /\ t.linked /\ c.audit = c.trade
    BY <1>2, <1>3, <1>4 DEF RetentionInv, RowsInOrder
  <2>2. HasEvidence(t)
    BY <2>1 DEF RetentionInv
  <2>3. PICK a \in stored.audits : a.id = t.id
    BY <2>2 DEF HasEvidence
  <2>4. a \in KeptAudits /\ a.id = c.audit
    BY <2>1, <2>2, <2>3, EvidenceIsTraded
  <2> QED
    BY <1>1, <1>2, <2>4
<1>5. q.trade = 0 => ~Old(q)
  BY <1>2, <1>3 DEF Old
<1> QED
  BY <1>3, <1>4, <1>5

\* A prune leaves the evidence of a trade.
LEMMA PruneKeepsEvidence ==
    ASSUME RetentionInv, Prune, NEW t \in stored.trades, HasEvidence(t)
    PROVE  HasEvidence(t)'
<1> DEFINE p == Pruned(stored)
<1>0. stored' = p /\ t.id \in Nat \ {0} /\ NoMember \notin Members
      /\ t.member \in Members \cup {NoMember}
  BY DEF Prune, RetentionInv, RetentionTypeOK, Members, NoMember
<1> HIDE DEF p
<1>1. \E q \in p.quotes : q.trade = t.id /\ q.audit = t.id
  BY <1>0, TradedQuotesStay DEF HasEvidence, p
<1>2. PICK a \in stored.audits : a.id = t.id /\ a.member = t.member
  BY DEF HasEvidence
<1>3. a \in KeptAudits /\ (t.member # NoMember => t.member \in KeptMembers)
  BY <1>2, EvidenceIsTraded
<1>4. /\ p.audits = Unlinked(KeptAudits, KeptMembers) /\ p.steps = Unlinked(KeptSteps, KeptMembers)
      /\ p.members = KeptMembers /\ p.batches = KeptBatches
  BY PrunedTables DEF p
<1>5. a \in p.audits
  <2>1. CASE t.member = NoMember
    <3>1. a \in [id : Nat \ {0}, member : Members \cup {NoMember}, at : Nat]
      BY DEF RetentionInv, RetentionTypeOK
    <3>2. [a EXCEPT !.member = NoMember] = a
      BY <2>1, <3>1, <1>2
    <3> QED
      BY <1>3, <1>4, <3>2 DEF Unlinked
  <2>2. CASE t.member # NoMember
    BY <2>2, <1>2, <1>3, <1>4, UnlinkedKeeps
  <2> QED
    BY <2>1, <2>2
<1>6. ASSUME t.member # NoMember
      PROVE  /\ t.member \in p.members
             /\ \E b \in p.batches : b.id = t.member[1]
             /\ t.member[2] \in Committee => \E s \in p.steps : s.member = t.member
  <2>1. t.member \in KeptMembers
    BY <1>3, <1>6
  <2>2. \E b \in KeptBatches : b.id = t.member[1]
    BY <2>1 DEF KeptMembers
  <2>3. ASSUME t.member[2] \in Committee
        PROVE  \E s \in p.steps : s.member = t.member
    <3>1. PICK s \in stored.steps : s.member = t.member
      BY <1>6, <2>3 DEF HasEvidence
    <3>2. HasTrade(s.member, KeptAudits, TradedIn(KeptQuotes))
      BY <1>2, <1>3, <1>6, <3>1, EvidenceIsTraded DEF HasTrade
    <3>3. s \in KeptSteps
      BY <3>2 DEF KeptSteps
    <3> QED
      BY <1>4, <2>1, <3>1, <3>3, UnlinkedKeeps
  <2> QED
    BY <1>4, <2>1, <2>2, <2>3
<1>7. /\ \E q \in stored'.quotes : q.trade = t.id /\ q.audit = t.id
      /\ \E c \in stored'.audits : c.id = t.id /\ c.member = t.member
  BY <1>0, <1>1, <1>2, <1>5
<1>8. ASSUME t.member # NoMember
      PROVE  /\ t.member \in stored'.members
             /\ \E b \in stored'.batches : b.id = t.member[1]
             /\ t.member[2] \in Committee => \E s \in stored'.steps : s.member = t.member
  BY <1>0, <1>6, <1>8
<1> QED
  BY <1>7, <1>8 DEF HasEvidence

\* What a prune leaves of what is old is evidence.
LEMMA OnlyEvidenceIsLeft == RetentionInv => OnlyEvidenceIsOld(Pruned(stored))
<1> SUFFICES ASSUME RetentionInv PROVE OnlyEvidenceIsOld(Pruned(stored))
  OBVIOUS
<1> USE DEF RetentionInv
<1> DEFINE p == Pruned(stored)
<1>0. RetentionTypeOK /\ NoMember \notin Members
  BY DEF Members, NoMember
<1>1. ASSUME NEW a \in p.audits, Old(a)
      PROVE  \E t \in stored.trades : t.id = a.id
  <2>1. a \in Unlinked(KeptAudits, KeptMembers)
    BY PrunedTables
  <2>2. PICK c \in KeptAudits : c \in stored.audits /\ c.id = a.id /\ c.at = a.at
    BY <1>0, <2>1, UnlinkedAudits
  <2>3. c.id \in TradedIn(KeptQuotes)
    BY <1>1, <2>2 DEF KeptAudits, Old
  <2> QED
    BY <2>2, <2>3, TradedIsTrade
<1>2. ASSUME NEW q \in p.quotes, Old(q)
      PROVE  \E t \in stored.trades : t.id = q.trade
  BY <1>2, PrunedQuotes DEF RowsInOrder
<1>3. ASSUME NEW s \in p.steps, Old(s)
      PROVE  \E t \in stored.trades : t.member = s.member
  <2>1. s \in Unlinked(KeptSteps, KeptMembers)
    BY PrunedTables
  <2>2. PICK c \in KeptSteps : /\ c \in stored.steps /\ c.at = s.at
                               /\ s = IF c.member \in KeptMembers THEN c ELSE [c EXCEPT !.member = NoMember]
    BY <1>0, <2>1, UnlinkedSteps
  <2>3. HasTrade(c.member, KeptAudits, TradedIn(KeptQuotes))
    BY <1>3, <2>2 DEF KeptSteps, Old
  <2>4. PICK a \in KeptAudits : a.member = c.member /\ a.id \in TradedIn(KeptQuotes)
    BY <2>3 DEF HasTrade
  <2>5. PICK t \in stored.trades : t.id = a.id /\ t.member = a.member /\ HasEvidence(t)
    BY <2>4, TradedIsTrade DEF KeptAudits
  <2>6. c.member # NoMember
    BY <2>3 DEF HasTrade
  <2>7. t.member \in KeptMembers
    BY <2>4, <2>5, <2>6, EvidenceIsTraded
  <2> QED
    BY <2>2, <2>4, <2>5, <2>7
<1>4. ASSUME NEW b \in p.batches, Old(b), b.status # "running"
      PROVE  \E t \in stored.trades : t.member[1] = b.id
  <2>1. b \in stored.batches /\ BatchKept(b, KeptAudits, TradedIn(KeptQuotes))
    BY PrunedTables DEF KeptBatches
  <2>2. PICK a \in KeptAudits : a.member[1] = b.id /\ a.id \in TradedIn(KeptQuotes)
    BY <1>4, <2>1 DEF BatchKept
  <2> QED
    BY <2>2, TradedIsTrade DEF KeptAudits
<1> QED
  BY <1>1, <1>2, <1>3, <1>4 DEF OnlyEvidenceIsOld

\* A prune preserves the invariant.
LEMMA PruneKeeps == RetentionInv /\ Prune => RetentionInv'
<1> SUFFICES ASSUME RetentionInv, Prune PROVE RetentionInv'
  OBVIOUS
<1> USE DEF RetentionInv
<1> DEFINE p == Pruned(stored)
<1>0. /\ stored' = p /\ worker' = worker /\ day' = day /\ keptCount' = keptCount
      /\ day \in Nat /\ Window \in Nat \ {0}
  BY RetentionAssumption DEF Prune, RetentionTypeOK
<1>1. /\ p.batches = KeptBatches /\ p.members = KeptMembers /\ p.trades = stored.trades
      /\ p.audits = Unlinked(KeptAudits, KeptMembers) /\ p.steps = Unlinked(KeptSteps, KeptMembers)
      /\ p.cached = {d \in stored.cached : d >= day - Window}
      /\ p = [batches |-> p.batches, members |-> p.members, trades |-> p.trades, audits |-> p.audits,
              steps |-> p.steps, quotes |-> p.quotes, cached |-> p.cached]
  BY PrunedTables
<1>2. \A q \in p.quotes : q \in [audit : Nat, trade : Nat, at : Nat] /\ (q.trade # 0 => q \in stored.quotes)
  BY PrunedQuotes
<1> HIDE DEF p
<1>3. RetentionTypeOK'
  <2>1. /\ p.batches \subseteq stored.batches /\ p.members \subseteq stored.members
        /\ p.cached \subseteq stored.cached
    BY <1>1 DEF KeptBatches, KeptMembers
  <2>2. p.audits \subseteq [id : Nat \ {0}, member : Members \cup {NoMember}, at : Nat]
    BY <1>1, UnlinkedAudits
  <2>3. p.steps \subseteq [member : Members \cup {NoMember}, agent : Agents, at : Nat]
    BY <1>1, UnlinkedSteps
  <2>4. p.quotes \subseteq [audit : Nat, trade : Nat, at : Nat]
    BY <1>2
  <2> QED
    BY <1>0, <1>1, <2>1, <2>2, <2>3, <2>4 DEF RetentionTypeOK
<1>4. \A a \in p.audits : \E c \in stored.audits :
         /\ c.id = a.id /\ c.at = a.at
         /\ a = IF c.member \in KeptMembers THEN c ELSE [c EXCEPT !.member = NoMember]
         /\ c.member \notin KeptMembers => a.member = NoMember
  BY <1>1, UnlinkedAudits
<1>5. RowsInOrder'
  <2>1. \A r \in stored'.audits \cup stored'.trades : r.id <= keptCount'.decisions
    BY <1>0, <1>1, <1>4 DEF RowsInOrder
  <2>2. ASSUME NEW a \in p.audits, NEW c \in p.audits, a.id = c.id
        PROVE  a = c
    <3>1. PICK x \in stored.audits : x.id = a.id
                 /\ a = IF x.member \in KeptMembers THEN x ELSE [x EXCEPT !.member = NoMember]
      BY <1>4
    <3>2. PICK y \in stored.audits : y.id = c.id
                 /\ c = IF y.member \in KeptMembers THEN y ELSE [y EXCEPT !.member = NoMember]
      BY <1>4
    <3>3. x = y
      BY <2>2, <3>1, <3>2 DEF RowsInOrder
    <3> QED
      BY <3>1, <3>2, <3>3
  <2>3. ASSUME NEW q \in p.quotes, q.trade # 0
        PROVE  q.audit = q.trade /\ \E t \in p.trades : t.id = q.trade /\ t.linked
    BY <1>1, <1>2, <2>3 DEF RowsInOrder
  <2> QED
    BY <1>0, <2>1, <2>2, <2>3 DEF RowsInOrder
<1>6. ASSUME worker.pc \notin {"idle", "down"}, NEW m \in stored.members, m[1] = worker.batch
      PROVE  m \in p.members /\ \E b \in p.batches : b.id = worker.batch /\ b.status = "running"
  <2>1. PICK b \in stored.batches : b.id = worker.batch /\ b.status = "running"
    BY <1>6 DEF DecisionAtWork
  <2>2. b \in KeptBatches
    BY <2>1 DEF KeptBatches, BatchKept
  <2> QED
    BY <1>1, <1>6, <2>1, <2>2 DEF KeptMembers
<1>7. ASSUME worker.pc \in {"decided", "traded"}, NEW a \in p.audits, a.id = worker.id
      PROVE  /\ a \in stored.audits /\ a.at = day
             /\ a.member # NoMember =>
                   /\ a.member \in p.members /\ a.member[1] = worker.batch
                   /\ a.member[2] \in Committee =>
                         \E s \in p.steps : s.member = a.member /\ s.at = day
  <2>1. PICK c \in stored.audits : /\ c.id = a.id /\ c.at = a.at
                                   /\ a = IF c.member \in KeptMembers THEN c ELSE [c EXCEPT !.member = NoMember]
    BY <1>4
  <2>2. /\ c.at = day
        /\ c.member # NoMember =>
              /\ c.member \in stored.members /\ c.member[1] = worker.batch
              /\ c.member[2] \in Committee =>
                    \E s \in stored.steps : s.member = c.member /\ s.at = day
    BY <1>7, <2>1 DEF DecisionAtWork
  <2>3. c.member # NoMember => c.member \in p.members
    BY <1>6, <1>7, <2>2
  <2>4. a = c
    <3>1. c \in [id : Nat \ {0}, member : Members \cup {NoMember}, at : Nat]
      BY DEF RetentionTypeOK
    <3>2. c.member = NoMember => [c EXCEPT !.member = NoMember] = c
      BY <3>1
    <3> QED
      BY <1>1, <2>1, <2>3, <3>2
  <2>5. ASSUME NEW s \in stored.steps, s.member = a.member, s.at = day, a.member # NoMember
        PROVE  s \in p.steps
    <3>1. s \in KeptSteps
      BY <1>0, <2>5 DEF KeptSteps, Old
    <3> QED
      BY <1>1, <2>3, <2>4, <2>5, <3>1, UnlinkedKeeps
  <2> QED
    BY <2>2, <2>3, <2>4, <2>5
<1>8. DecisionAtWork'
  <2>1. worker.pc \in {"decided", "traded"} => worker.id \in 1..keptCount.decisions
    BY DEF DecisionAtWork
  <2>2. ASSUME worker.pc \in {"decided", "traded"}, NEW a \in p.audits, a.id = worker.id,
               NEW t \in p.trades, t.id = worker.id
        PROVE  t.member = a.member
    BY <1>1, <1>7, <2>2 DEF DecisionAtWork
  <2>3. worker.pc = "decided" => \A t \in p.trades : t.id # worker.id
    BY <1>1 DEF DecisionAtWork
  <2>4. worker.pc \notin {"idle", "down"} => \A m \in p.members : m[1] = worker.batch =>
          \E b \in p.batches : b.id = worker.batch /\ b.status = "running"
    BY <1>1, <1>6 DEF KeptMembers
  <2> QED
    BY <1>0, <1>7, <2>1, <2>2, <2>3, <2>4 DEF DecisionAtWork
<1>9. \A t \in stored'.trades : t.linked => HasEvidence(t)'
  BY <1>0, <1>1, PruneKeepsEvidence
<1> QED
  BY <1>3, <1>5, <1>8, <1>9

\* The trade of the decision at work.
LEMMA TradeKeeps == RetentionInv /\ Trade => RetentionInv'
<1> SUFFICES ASSUME RetentionInv, Trade PROVE RetentionInv'
  OBVIOUS
<1> USE DEF RetentionInv
<1> DEFINE member == IF \E a \in stored.audits : a.id = worker.id
                     THEN (CHOOSE a \in stored.audits : a.id = worker.id).member ELSE NoMember
           trade == [id |-> worker.id, linked |-> FALSE, member |-> member]
<1>1. /\ worker.pc = "decided" /\ worker' = [worker EXCEPT !.pc = "traded"]
      /\ stored' = [stored EXCEPT !.trades = @ \cup {trade}]
      /\ day' = day /\ keptCount' = keptCount
  BY DEF Trade
<1>2. \A a \in stored.audits : a.id = worker.id => a.member = member
  <2> SUFFICES ASSUME NEW a \in stored.audits, a.id = worker.id PROVE a.member = member
    OBVIOUS
  <2>1. /\ (CHOOSE c \in stored.audits : c.id = worker.id) \in stored.audits
        /\ (CHOOSE c \in stored.audits : c.id = worker.id).id = worker.id
    OBVIOUS
  <2> QED
    BY <2>1 DEF RowsInOrder
<1>3. member \in Members \cup {NoMember}
  <2>1. CASE \E a \in stored.audits : a.id = worker.id
    BY <2>1, <1>2 DEF RetentionTypeOK
  <2> QED
    BY <2>1
<1>4. /\ worker.id \in 1..keptCount.decisions /\ keptCount.decisions \in Nat
      /\ \A t \in stored.trades : t.id # worker.id
  BY <1>1 DEF DecisionAtWork, RetentionTypeOK
<1> HIDE DEF member
<1>5. trade.id = worker.id /\ ~trade.linked /\ trade.member = member
      /\ trade \in [id : Nat \ {0}, linked : BOOLEAN, member : Members \cup {NoMember}]
  BY <1>3, <1>4
<1> HIDE DEF trade
<1>6. /\ stored'.trades = stored.trades \cup {trade} /\ stored'.audits = stored.audits
      /\ stored'.batches = stored.batches /\ stored'.members = stored.members
      /\ stored'.quotes = stored.quotes /\ stored'.steps = stored.steps
      /\ worker'.pc = "traded" /\ worker'.id = worker.id /\ worker'.batch = worker.batch
  BY <1>1 DEF RetentionTypeOK
<1>7. RetentionTypeOK'
  BY <1>1, <1>5 DEF RetentionTypeOK
<1>8. RowsInOrder'
  BY <1>1, <1>4, <1>5, <1>6 DEF RowsInOrder
<1>9. DecisionAtWork'
  BY <1>1, <1>2, <1>4, <1>5, <1>6 DEF DecisionAtWork
<1>10. \A t \in stored'.trades : t.linked => HasEvidence(t)'
  BY <1>5, <1>6, EvidenceStays
<1> QED
  BY <1>7, <1>8, <1>9, <1>10

\* The decision at work is completed: its quotes are stored and its trade is linked, all
\* of whose evidence is there by then.
LEMMA CompleteKeeps == RetentionInv /\ Complete => RetentionInv'
<1> SUFFICES ASSUME RetentionInv, Complete PROVE RetentionInv'
  OBVIOUS
<1> USE DEF RetentionInv
<1> DEFINE traded == worker.pc = "traded"
           refused == \/ ~\E a \in stored.audits : a.id = worker.id
                      \/ traded /\ ~\E t \in stored.trades : t.id = worker.id
           Quote(trade) == [audit |-> worker.id, trade |-> trade, at |-> day]
           new == {Quote(0)} \cup (IF traded THEN {Quote(worker.id)} ELSE {})
           Linked(t) == IF t.id = worker.id THEN [t EXCEPT !.linked = TRUE] ELSE t
           links == {Linked(t) : t \in stored.trades}
<1>1. /\ worker.pc \in {"decided", "traded"} /\ worker' = [worker EXCEPT !.pc = "next", !.id = 0]
      /\ day' = day /\ keptCount' = keptCount
      /\ worker'.pc = "next" /\ worker'.batch = worker.batch
      /\ worker.id \in 1..keptCount.decisions /\ keptCount.decisions \in Nat /\ day \in Nat
  BY DEF Complete, RetentionTypeOK, DecisionAtWork
<1>2. worker' \in [pc : {"idle", "next", "decided", "traded", "down"}, batch : Nat,
                   left : SUBSET Agents, id : Nat]
  BY <1>1 DEF RetentionTypeOK
<1>3. CASE refused
  <2>1. stored' = stored
    BY <1>3 DEF Complete
  <2>2. RetentionTypeOK' /\ RowsInOrder'
    BY <1>1, <1>2, <2>1 DEF RetentionTypeOK, RowsInOrder
  <2>3. DecisionAtWork'
    BY <1>1, <2>1 DEF DecisionAtWork
  <2>4. \A t \in stored'.trades : t.linked => HasEvidence(t)'
    BY <2>1, EvidenceStays
  <2> QED
    BY <2>2, <2>3, <2>4
<1>4. CASE ~refused
  <2>1. /\ stored' = [stored EXCEPT !.quotes = stored.quotes \cup new, !.trades = links]
        /\ stored'.audits = stored.audits /\ stored'.batches = stored.batches
        /\ stored'.members = stored.members /\ stored'.steps = stored.steps
        /\ stored'.quotes = stored.quotes \cup new /\ stored'.trades = links
    <3>1. stored' = [stored EXCEPT !.quotes = (stored.quotes \cup {Quote(0)})
                                                 \cup (IF traded THEN {Quote(worker.id)} ELSE {}),
                                   !.trades = links]
      BY <1>4 DEF Complete
    <3>2. (stored.quotes \cup {Quote(0)}) \cup (IF traded THEN {Quote(worker.id)} ELSE {})
             = stored.quotes \cup new
      OBVIOUS
    <3> HIDE DEF links, new, Quote
    <3> QED
      BY <3>1, <3>2 DEF RetentionTypeOK
  <2>2. \A q \in new : /\ q \in [audit : Nat, trade : Nat, at : Nat] /\ q.audit = worker.id
                       /\ q.trade # 0 => traded /\ q.trade = worker.id
    BY <1>1
  <2>3. \A t \in links : \E r \in stored.trades :
           /\ t.id = r.id /\ t.member = r.member /\ (r.linked => t.linked)
           /\ t = IF t.id = worker.id THEN [r EXCEPT !.linked = TRUE] ELSE r
           /\ t \in [id : Nat \ {0}, linked : BOOLEAN, member : Members \cup {NoMember}]
    <3>1. ASSUME NEW r \in stored.trades
          PROVE  /\ Linked(r).id = r.id /\ Linked(r).member = r.member /\ (r.linked => Linked(r).linked)
                 /\ Linked(r) = IF r.id = worker.id THEN [r EXCEPT !.linked = TRUE] ELSE r
                 /\ Linked(r) \in [id : Nat \ {0}, linked : BOOLEAN, member : Members \cup {NoMember}]
      <4>1. r \in [id : Nat \ {0}, linked : BOOLEAN, member : Members \cup {NoMember}]
        BY DEF RetentionTypeOK
      <4> QED
        BY <4>1
    <3> HIDE DEF Linked
    <3> QED
      BY <3>1
  <2>4. \A r \in stored.trades : \E t \in links :
           t.id = r.id /\ (r.linked => t.linked) /\ (r.id = worker.id => t.linked)
    <3>1. ASSUME NEW r \in stored.trades
          PROVE  /\ Linked(r).id = r.id /\ (r.linked => Linked(r).linked)
                 /\ r.id = worker.id => Linked(r).linked
      <4>1. r \in [id : Nat \ {0}, linked : BOOLEAN, member : Members \cup {NoMember}]
        BY DEF RetentionTypeOK
      <4> QED
        BY <4>1
    <3> HIDE DEF Linked
    <3> QED
      BY <3>1
  <2>5. traded => Quote(worker.id) \in new /\ Quote(worker.id).trade = worker.id
                  /\ Quote(worker.id).audit = worker.id
    OBVIOUS
  <2>6. ~traded => \A r \in stored.trades : r.id # worker.id
    BY <1>1 DEF DecisionAtWork
  <2>7. (\E a \in stored.audits : a.id = worker.id)
        /\ (traded => \E r \in stored.trades : r.id = worker.id)
    BY <1>4
  <2> HIDE DEF links, new, Quote
  <2>8. RetentionTypeOK'
    BY <1>1, <1>2, <2>1, <2>2, <2>3 DEF RetentionTypeOK
  <2>9. RowsInOrder'
    <3>1. \A r \in stored'.audits \cup stored'.trades : r.id <= keptCount'.decisions
      BY <1>1, <2>1, <2>3 DEF RowsInOrder
    <3>2. ASSUME NEW q \in stored'.quotes, q.trade # 0
          PROVE  q.audit = q.trade /\ \E t \in stored'.trades : t.id = q.trade /\ t.linked
      <4>1. CASE q \in new
        BY <4>1, <3>2, <2>1, <2>2, <2>4, <2>7
      <4>2. CASE q \in stored.quotes
        BY <4>2, <3>2, <2>1, <2>4 DEF RowsInOrder
      <4> QED
        BY <4>1, <4>2, <2>1
    <3> QED
      BY <2>1, <3>1, <3>2 DEF RowsInOrder
  <2>10. DecisionAtWork'
    BY <1>1, <2>1 DEF DecisionAtWork
  <2>11. ASSUME NEW t \in stored'.trades, t.linked
         PROVE  HasEvidence(t)'
    <3>1. PICK r \in stored.trades : /\ t.id = r.id /\ t.member = r.member
                                     /\ t = IF t.id = worker.id THEN [r EXCEPT !.linked = TRUE] ELSE r
      BY <2>1, <2>3
    <3>2. CASE t.id # worker.id
      <4>1. HasEvidence(t)
        BY <2>11, <3>1, <3>2
      <4> QED
        BY <2>1, <4>1, EvidenceStays
    <3>3. CASE t.id = worker.id
      <4>1. traded
        BY <2>6, <3>1, <3>3
      <4>2. PICK a \in stored.audits : a.id = worker.id
        BY <2>7
      <4>3. /\ a.member = r.member
            /\ a.member # NoMember =>
                  /\ a.member \in stored.members /\ a.member[1] = worker.batch
                  /\ a.member[2] \in Committee => \E s \in stored.steps : s.member = a.member
        BY <1>1, <3>1, <3>3, <4>2 DEF DecisionAtWork
      <4>4. a.member # NoMember => \E b \in stored.batches : b.id = a.member[1]
        BY <1>1, <4>3 DEF DecisionAtWork
      <4>5. \E q \in stored'.quotes : q.trade = t.id /\ q.audit = t.id
        BY <2>1, <2>5, <3>3, <4>1
      <4>6. (\E c \in stored'.audits : c.id = t.id /\ c.member = t.member)
            /\ (t.member # NoMember =>
                  /\ t.member \in stored'.members
                  /\ \E b \in stored'.batches : b.id = t.member[1]
                  /\ t.member[2] \in Committee => \E s \in stored'.steps : s.member = t.member)
        BY <2>1, <3>1, <3>3, <4>2, <4>3, <4>4
      <4> QED
        BY <4>5, <4>6 DEF HasEvidence
    <3> QED
      BY <3>2, <3>3
  <2> QED
    BY <2>8, <2>9, <2>10, <2>11
<1> QED
  BY <1>3, <1>4

\* A batch that is finished keeps its number.
LEMMA FinishedBatch ==
    ASSUME RetentionTypeOK, NEW b \in stored.batches, NEW status \in {"completed", "interrupted"}
    PROVE  /\ Finish(b, status).id = b.id
           /\ Finish(b, status) \in [id : Nat \ {0}, status : {"running", "completed", "interrupted"}, at : Nat]
<1>1. b \in [id : Nat \ {0}, status : {"running", "completed", "interrupted"}, at : Nat] /\ day \in Nat
  BY DEF RetentionTypeOK
<1> QED
  BY <1>1 DEF Finish

\* The end of a batch, by its worker or after a restart.
LEMMA FinishKeeps == RetentionInv /\ (CompleteBatch \/ RecoverInterrupted) => RetentionInv'
<1> SUFFICES ASSUME RetentionInv, CompleteBatch \/ RecoverInterrupted PROVE RetentionInv'
  OBVIOUS
<1> USE DEF RetentionInv
<1>1. PICK ended : /\ stored' = [stored EXCEPT !.batches = ended]
                   /\ \A c \in ended : c \in [id : Nat \ {0}, status : {"running", "completed", "interrupted"}, at : Nat]
                   /\ \A b \in stored.batches : \E c \in ended : c.id = b.id
  <2>1. CASE CompleteBatch
    <3> DEFINE ended == {IF b.id = worker.batch THEN Finish(b, "completed") ELSE b : b \in stored.batches}
    <3>1. stored' = [stored EXCEPT !.batches = ended]
      BY <2>1 DEF CompleteBatch
    <3>2. \A c \in ended : c \in [id : Nat \ {0}, status : {"running", "completed", "interrupted"}, at : Nat]
      BY FinishedBatch DEF RetentionTypeOK
    <3>3. \A b \in stored.batches : \E c \in ended : c.id = b.id
      BY FinishedBatch
    <3> QED
      BY <3>1, <3>2, <3>3
  <2>2. CASE RecoverInterrupted
    <3> DEFINE ended == {Finish(b, "interrupted") : b \in stored.batches}
    <3>1. stored' = [stored EXCEPT !.batches = ended]
      BY <2>2 DEF RecoverInterrupted
    <3>2. \A c \in ended : c \in [id : Nat \ {0}, status : {"running", "completed", "interrupted"}, at : Nat]
      BY FinishedBatch
    <3>3. \A b \in stored.batches : \E c \in ended : c.id = b.id
      BY FinishedBatch
    <3> QED
      BY <3>1, <3>2, <3>3
  <2> QED
    BY <2>1, <2>2
<1>2. /\ worker' = Idle /\ day' = day /\ keptCount' = keptCount
  BY DEF CompleteBatch, RecoverInterrupted
<1>3. /\ stored'.batches = ended /\ stored'.audits = stored.audits
      /\ stored'.members = stored.members /\ stored'.steps = stored.steps
      /\ stored'.quotes = stored.quotes /\ stored'.trades = stored.trades
  BY <1>1 DEF RetentionTypeOK
<1>4. RetentionTypeOK'
  BY <1>1, <1>2 DEF RetentionTypeOK, Idle
<1>5. RowsInOrder'
  BY <1>2, <1>3 DEF RowsInOrder
<1>6. DecisionAtWork'
  BY <1>2 DEF DecisionAtWork, Idle
<1>7. \A t \in stored'.trades : t.linked => HasEvidence(t)'
  BY <1>1, <1>3, EvidenceStays
<1> QED
  BY <1>4, <1>5, <1>6, <1>7

\* The server stops between two steps.
LEMMA StopKeeps == RetentionInv /\ StopAtOnce => RetentionInv'
<1> SUFFICES ASSUME RetentionInv, StopAtOnce PROVE RetentionInv'
  OBVIOUS
<1> USE DEF RetentionInv
<1>1. /\ keptCount' \in [batches : Nat, decisions : Nat, faults : Nat]
      /\ keptCount'.decisions = keptCount.decisions
  BY CountKeptFacts DEF StopAtOnce
<1>2. worker' = [Idle EXCEPT !.pc = "down"] /\ stored' = stored /\ day' = day
  BY DEF StopAtOnce
<1>3. RetentionTypeOK' /\ RowsInOrder'
  BY <1>1, <1>2 DEF RetentionTypeOK, RowsInOrder, Idle
<1>4. DecisionAtWork'
  BY <1>2 DEF DecisionAtWork, Idle
<1>5. \A t \in stored'.trades : t.linked => HasEvidence(t)'
  BY <1>2, EvidenceStays
<1> QED
  BY <1>3, <1>4, <1>5

\* A reset leaves quotes of no trade and no audit.
LEMMA ResetKeeps == RetentionInv /\ ResetSimulation => RetentionInv'
<1> SUFFICES ASSUME RetentionInv, ResetSimulation PROVE RetentionInv'
  OBVIOUS
<1> USE DEF RetentionInv
<1> DEFINE left == {[q EXCEPT !.audit = 0, !.trade = 0] : q \in stored.quotes}
<1>1. /\ keptCount' \in [batches : Nat, decisions : Nat, faults : Nat]
      /\ keptCount'.decisions = keptCount.decisions /\ keptCount.decisions \in Nat
  BY CountKeptFacts DEF ResetSimulation, RetentionTypeOK
<1>2. /\ worker' = worker /\ day' = day
      /\ stored' = [stored EXCEPT !.batches = {}, !.members = {}, !.audits = {}, !.steps = {},
                                  !.trades = {}, !.cached = {}, !.quotes = left]
  BY DEF ResetSimulation
<1>3. /\ stored'.audits = {} /\ stored'.trades = {} /\ stored'.quotes = left /\ stored'.members = {}
  BY <1>2 DEF RetentionTypeOK
<1>4. \A q \in left : q \in [audit : Nat, trade : Nat, at : Nat] /\ q.trade = 0
  <2> SUFFICES ASSUME NEW q \in stored.quotes
               PROVE  LET e == [q EXCEPT !.audit = 0, !.trade = 0] IN
                      e \in [audit : Nat, trade : Nat, at : Nat] /\ e.trade = 0
    OBVIOUS
  <2>1. q \in [audit : Nat, trade : Nat, at : Nat]
    BY DEF RetentionTypeOK
  <2> QED
    BY <2>1
<1> HIDE DEF left
<1>5. RetentionTypeOK'
  BY <1>1, <1>2, <1>4 DEF RetentionTypeOK
<1>6. RowsInOrder'
  BY <1>3, <1>4 DEF RowsInOrder
<1>7. DecisionAtWork'
  BY <1>1, <1>2, <1>3 DEF DecisionAtWork
<1> QED
  BY <1>3, <1>5, <1>6, <1>7

\* A new day begins with no decision at work.
LEMMA MorningKeeps == RetentionInv /\ NextMorning => RetentionInv'
<1> SUFFICES ASSUME RetentionInv, NextMorning PROVE RetentionInv'
  OBVIOUS
<1> USE DEF RetentionInv
<1>1. /\ worker.pc \notin {"decided", "traded"} /\ day' \in Nat
      /\ stored' = stored /\ worker' = worker /\ keptCount' = keptCount
  BY DEF NextMorning, RetentionTypeOK
<1>2. RetentionTypeOK' /\ RowsInOrder' /\ DecisionAtWork'
  BY <1>1 DEF RetentionTypeOK, RowsInOrder, DecisionAtWork
<1>3. \A t \in stored'.trades : t.linked => HasEvidence(t)'
  BY <1>1, EvidenceStays
<1> QED
  BY <1>2, <1>3

\* Nothing happens.
LEMMA RetentionRests == RetentionInv /\ UNCHANGED retentionVars => RetentionInv'
<1> SUFFICES ASSUME RetentionInv, UNCHANGED retentionVars PROVE RetentionInv'
  OBVIOUS
<1> USE DEF RetentionInv
<1>1. stored' = stored /\ worker' = worker /\ day' = day /\ keptCount' = keptCount
  BY DEF retentionVars
<1>2. RetentionTypeOK' /\ RowsInOrder' /\ DecisionAtWork'
  BY <1>1 DEF RetentionTypeOK, RowsInOrder, DecisionAtWork
<1>3. \A t \in stored'.trades : t.linked => HasEvidence(t)'
  BY <1>1, EvidenceStays
<1> QED
  BY <1>2, <1>3

\* The inductive step, and what it is for.
LEMMA RetentionStep == RetentionInv /\ [RetentionNext]_retentionVars => RetentionInv'
  BY PruneKeeps, StartBatchKeeps, RecordDecisionKeeps, TradeKeeps, CompleteKeeps, FinishKeeps,
     StopKeeps, ResetKeeps, MorningKeeps, RetentionRests DEF RetentionNext

LEMMA EvidenceFollows == RetentionInv => EvidenceIsKept
  BY OnlyEvidenceIsLeft DEF RetentionInv, EvidenceIsKept

-----------------------------------------------------------------------------
(* Numbers *)

\* A set of numbers with a member has a least one.
LEMMA LeastNumber ==
    ASSUME NEW T \in SUBSET Nat, T # {}
    PROVE  \E x \in T : \A y \in T : x <= y
<1> DEFINE R == OpToRel(<, Nat)
<1>1. IsWellFoundedOn(R, Nat)
  BY NatLessThanWellFounded, Zenon
<1>2. \A x, y \in Nat : x < y => <<x, y>> \in R
  BY DEF OpToRel
<1> HIDE DEF R
<1>3. \E x \in T : \A y \in T : <<y, x>> \notin R
  BY <1>1, WFMin, Zenon
<1>4. \A x, y \in Nat : ~(y < x) => x <= y
  OBVIOUS
<1> QED
  BY <1>2, <1>3, <1>4

\* And of numbers up to another there is a greatest.
LEMMA GreatestNumber ==
    ASSUME NEW n \in Nat, NEW T \in SUBSET (0..n), T # {}
    PROVE  \E m \in T : \A j \in T : j <= m
<1> DEFINE D == {x \in 0..n : n - x \in T}
<1>1. \A i \in T : i \in Nat /\ n - i \in D /\ n - (n - i) = i
  OBVIOUS
<1>2. D \in SUBSET Nat /\ D # {}
  <2>1. \E i \in T : n - i \in D
    BY <1>1
  <2>2. D \subseteq Nat
    OBVIOUS
  <2> HIDE DEF D
  <2> QED
    BY <2>1, <2>2
<1>3. PICK x \in D : \A y \in D : x <= y
  BY <1>2, LeastNumber
<1>4. n - x \in T /\ x \in Nat
  BY <1>2
<1>5. ASSUME NEW j \in T PROVE j <= n - x
  <2>1. n - j \in D /\ n - j \in Nat /\ j \in Nat
    BY <1>1, <1>2
  <2>2. x <= n - j
    BY <1>3, <2>1
  <2> HIDE DEF D
  <2> QED
    BY <1>4, <2>1, <2>2
<1> QED
  BY <1>4, <1>5

-----------------------------------------------------------------------------
(* The chart history *)

\* The points of an account that are newer than an instant.
Newer(rows, a, stamp) == {r \in rows : r.account = a /\ r.stamp > stamp}

\* There are as many as are counted, and more of more rows.
LEMMA NewerFacts ==
    ASSUME NEW rows, IsFiniteSet(rows), NEW more, IsFiniteSet(more), rows \subseteq more, NEW a, NEW stamp
    PROVE  /\ IsFiniteSet(Newer(rows, a, stamp))
           /\ NewerPoints(rows, a, stamp) = Cardinality(Newer(rows, a, stamp))
           /\ NewerPoints(rows, a, stamp) \in Nat /\ NewerPoints(more, a, stamp) \in Nat
           /\ NewerPoints(rows, a, stamp) <= NewerPoints(more, a, stamp)
<1>1. /\ Newer(rows, a, stamp) \in SUBSET rows /\ Newer(more, a, stamp) \in SUBSET more
      /\ Newer(rows, a, stamp) \in SUBSET Newer(more, a, stamp)
  BY DEF Newer
<1>2. /\ NewerPoints(rows, a, stamp) = Cardinality(Newer(rows, a, stamp))
      /\ NewerPoints(more, a, stamp) = Cardinality(Newer(more, a, stamp))
  BY DEF NewerPoints, Newer
<1>3. IsFiniteSet(Newer(rows, a, stamp)) /\ IsFiniteSet(Newer(more, a, stamp))
  BY <1>1, FS_Subset
<1>4. Cardinality(Newer(rows, a, stamp)) <= Cardinality(Newer(more, a, stamp))
  BY <1>1, <1>3, FS_Subset
<1>5. Cardinality(Newer(rows, a, stamp)) \in Nat /\ Cardinality(Newer(more, a, stamp)) \in Nat
  BY <1>3, FS_CardinalityType
<1> QED
  BY <1>2, <1>3, <1>4, <1>5

\* Retention leaves as many newer points as are kept where there were as many.
LEMMA EnoughStay ==
    ASSUME NEW rows \in SUBSET ChartRow, OnePoint(rows), NEW n \in Nat, \A r \in rows : r.stamp <= n,
           NEW a, NEW stamp \in Nat, NewerPoints(rows, a, stamp) >= Keep
    PROVE  NewerPoints(Newest(rows), a, stamp) >= Keep
<1> DEFINE S == Newer(rows, a, stamp)
           M == Newer(Newest(rows), a, stamp)
<1>0. Keep \in Nat /\ IsFiniteSet(rows) /\ IsFiniteSet(Newest(rows)) /\ Newest(rows) \subseteq rows
  <2>1. Newest(rows) \in SUBSET rows
    BY DEF Newest
  <2> QED
    BY <2>1, ChartAssumption, FS_Subset DEF OnePoint
<1>1. /\ IsFiniteSet(S) /\ Cardinality(S) \in Nat /\ Cardinality(S) >= Keep
  BY <1>0, NewerFacts
<1>2. /\ IsFiniteSet(M) /\ Cardinality(M) \in Nat /\ NewerPoints(Newest(rows), a, stamp) = Cardinality(M)
  BY <1>0, NewerFacts
<1>3. /\ M \subseteq S /\ \A r \in S : r.account = a /\ r.stamp \in 0..n /\ r \in rows
      /\ \A r \in S : r \in Newest(rows) => r \in M
      /\ \A r \in S : Newer(rows, r.account, r.stamp) = {y \in S : y.stamp > r.stamp}
  <2>1. \A r \in rows : r.stamp \in 0..n
    BY DEF ChartRow
  <2>2. \A r \in S : \A y \in rows : y.stamp > r.stamp => y.stamp > stamp
    <3> SUFFICES ASSUME NEW r \in S, NEW y \in rows, y.stamp > r.stamp PROVE y.stamp > stamp
      OBVIOUS
    <3>1. r.stamp \in Nat /\ y.stamp \in Nat /\ r.stamp > stamp
      BY <2>1 DEF Newer
    <3> QED
      BY <3>1, SMT
  <2> QED
    BY <1>0, <2>1, <2>2 DEF Newer
<1>4. \A r \in rows : Cardinality(Newer(rows, r.account, r.stamp)) < Keep => r \in Newest(rows)
  BY DEF Newest, Newer
<1> HIDE DEF S, M
<1>5. CASE M = S
  BY <1>1, <1>2, <1>5
<1>6. CASE M # S
  <2> DEFINE T == {r.stamp : r \in S \ M}
  <2>1. T \in SUBSET (0..n) /\ T # {}
    BY <1>3, <1>6
  <2>2. PICK m \in T : \A k \in T : k <= m
    BY <2>1, GreatestNumber
  <2>3. PICK x \in S \ M : x.stamp = m
    OBVIOUS
  <2>4. \A y \in S \ M : y.stamp <= x.stamp /\ y.stamp \in Nat /\ x.stamp \in Nat
    BY <1>3, <2>2, <2>3
  <2> DEFINE U == {y \in S : y.stamp > x.stamp}
  <2>5. U \in SUBSET M
    BY <2>4
  <2>6. Cardinality(U) <= Cardinality(M) /\ Cardinality(U) \in Nat
    BY <1>2, <2>5, FS_Subset, FS_CardinalityType
  <2>7. x \in rows /\ Newer(rows, x.account, x.stamp) = U /\ x \notin Newest(rows)
    BY <1>3, <2>3
  <2> HIDE DEF U
  <2>8. ~(Cardinality(U) < Keep)
    BY <1>4, <2>7
  <2> QED
    BY <1>0, <1>2, <2>6, <2>8
<1> QED
  BY <1>5, <1>6

\* So of what retention keeps no point is missing either.
LEMMA NewestKeeps ==
    ASSUME NEW rows \in SUBSET ChartRow, OnePoint(rows), NoneIsMissing(rows),
           NEW n \in Nat, \A r \in rows : r.stamp <= n
    PROVE  OnePoint(Newest(rows)) /\ NoneIsMissing(Newest(rows)) /\ Newest(rows) \subseteq rows
<1>1. Newest(rows) \in SUBSET rows
  BY DEF Newest
<1>2. IsFiniteSet(rows) /\ IsFiniteSet(Newest(rows)) /\ Keep \in Nat /\ \A r \in rows : r.stamp \in Nat
  BY <1>1, ChartAssumption, FS_Subset DEF OnePoint, ChartRow
<1>3. \A r \in rows : r \in Newest(rows) <=> Cardinality(Newer(rows, r.account, r.stamp)) < Keep
  BY DEF Newest, Newer
<1>4. ASSUME NEW row \in Newest(rows), NEW a \in row.users
      PROVE  \/ \E r \in Newest(rows) : r.account = a /\ r.stamp = row.stamp
             \/ row.stamp <= rebuilt[a]
             \/ NewerPoints(Newest(rows), a, row.stamp) >= Keep
  <2>1. CASE \E r \in rows : r.account = a /\ r.stamp = row.stamp
    <3>1. PICK r \in rows : r.account = a /\ r.stamp = row.stamp
      BY <2>1
    <3>2. CASE r \in Newest(rows)
      BY <3>1, <3>2
    <3>3. CASE r \notin Newest(rows)
      <4>1. /\ ~(Cardinality(Newer(rows, a, row.stamp)) < Keep)
            /\ NewerPoints(rows, a, row.stamp) = Cardinality(Newer(rows, a, row.stamp))
            /\ NewerPoints(rows, a, row.stamp) \in Nat
        BY <1>2, <1>3, <3>1, <3>3, NewerFacts
      <4>2. NewerPoints(rows, a, row.stamp) >= Keep
        BY <1>2, <4>1
      <4> QED
        BY <1>1, <1>2, <4>2, EnoughStay
    <3> QED
      BY <3>2, <3>3
  <2>2. CASE row.stamp <= rebuilt[a]
    BY <2>2
  <2>3. CASE NewerPoints(rows, a, row.stamp) >= Keep
    BY <1>1, <1>2, <2>3, EnoughStay
  <2> QED
    BY <1>1, <2>1, <2>2, <2>3 DEF NoneIsMissing
<1>5. NoneIsMissing(Newest(rows))
  BY <1>4 DEF NoneIsMissing
<1> QED
  BY <1>1, <1>2, <1>5 DEF OnePoint

\* A valuation is of one new instant, and has a point of all it was made of.
LEMMA NewInstant ==
    ASSUME ChartInv, NEW v \in {Daily} \cup Others, Valued(v) = valuer[v].users,
           NEW onDay \in Nat, NEW stamp \in Nat, \A row \in chart : row.stamp # stamp
    PROVE  LET new == Stamped(valuer[v].rows, onDay, stamp)
               rows == chart \cup new IN
           /\ rows \in SUBSET ChartRow /\ OnePoint(rows) /\ NoneIsMissing(rows)
           /\ \A r \in new : /\ r.stamp = stamp /\ r.by = v
                             /\ v = Daily => r.simulation = simulation /\ r.fallback \cap r.asked = {}
<1> DEFINE old == valuer[v].rows
           new == Stamped(old, onDay, stamp)
           rows == chart \cup new
           S(r) == [account |-> r.account, by |-> r.by, users |-> r.users, simulation |-> r.simulation, 
                    asked |-> r.asked, fallback |-> r.fallback, day |-> onDay, stamp |-> stamp]
<1>0. /\ old \subseteq ValuedRow /\ chart \subseteq ChartRow /\ IsFiniteSet(old) /\ OnePoint(chart)
      /\ NoneIsMissing(chart) /\ Keep \in Nat
      /\ \A r, s \in old : r.account = s.account => r = s
      /\ \A r \in old : r.by = v /\ r.users = valuer[v].users
      /\ v = Daily => \A r \in old : r.simulation = simulation /\ r.fallback \cap r.asked = {}
  BY ChartAssumption DEF ChartInv, ChartTypeOK, Valuation, ValuationsInOrder, InOrder, DailyAtWork
<1>1. new = {S(r) : r \in old}
  BY DEF Stamped
<1>2. \A r \in old : /\ S(r) \in ChartRow /\ S(r).account = r.account /\ S(r).stamp = stamp
                     /\ S(r).by = r.by /\ S(r).users = r.users /\ S(r).simulation = r.simulation
                     /\ S(r).fallback = r.fallback /\ S(r).asked = r.asked
  BY <1>0 DEF ValuedRow, ChartRow
<1>3. valuer[v].users = {r.account : r \in old}
  BY DEF Valued
<1> HIDE DEF S, old
<1>4. new \subseteq ChartRow /\ \A r \in new : \E s \in old : r = S(s)
  BY <1>1, <1>2
<1>5. IsFiniteSet(new)
  <2> DEFINE f == [r \in old |-> S(r)]
  <2>1. f \in [old -> new]
    BY <1>1
  <2>2. \A x, y \in old : f[x] = f[y] => x = y
    BY <1>0, <1>2
  <2>3. \A t \in new : \E r \in old : f[r] = t
    BY <1>1
  <2> HIDE DEF f, new
  <2>4. f \in Bijection(old, new)
    BY <2>1, <2>2, <2>3, Fun_IsBij
  <2> QED
    BY <1>0, <2>4, FS_Bijection DEF ExistsBijection
<1>6. \A r \in new : /\ r.stamp = stamp /\ r.by = v
                     /\ v = Daily => r.simulation = simulation /\ r.fallback \cap r.asked = {}
  BY <1>0, <1>2, <1>4
<1>7. \A r, s \in new : r.account = s.account => r = s
  BY <1>0, <1>2, <1>4
<1>8. \A row \in new : \A a \in row.users : \E r \in new : r.account = a /\ r.stamp = row.stamp
  BY <1>0, <1>1, <1>2, <1>3, <1>4
<1> HIDE DEF new
<1>9. OnePoint(rows)
  <2>1. IsFiniteSet(rows)
    BY <1>0, <1>5, FS_Union DEF OnePoint
  <2>2. \A r, s \in rows : r.account = s.account /\ r.stamp = s.stamp => r = s
    BY <1>0, <1>6, <1>7 DEF OnePoint
  <2> QED
    BY <2>1, <2>2 DEF OnePoint
<1>10. NoneIsMissing(rows)
  <2>1. ASSUME NEW row \in chart, NEW a \in row.users
        PROVE  \/ \E r \in rows : r.account = a /\ r.stamp = row.stamp
               \/ row.stamp <= rebuilt[a]
               \/ NewerPoints(rows, a, row.stamp) >= Keep
    <3>1. /\ NewerPoints(chart, a, row.stamp) <= NewerPoints(rows, a, row.stamp)
          /\ NewerPoints(chart, a, row.stamp) \in Nat /\ NewerPoints(rows, a, row.stamp) \in Nat
      BY <1>0, <1>9, NewerFacts DEF OnePoint
    <3>2. NewerPoints(chart, a, row.stamp) >= Keep => NewerPoints(rows, a, row.stamp) >= Keep
      BY <1>0, <3>1
    <3> QED
      BY <1>0, <3>2 DEF NoneIsMissing
  <2>2. \A row \in new : \A a \in row.users : \E r \in rows : r.account = a /\ r.stamp = row.stamp
    BY <1>8
  <2> QED
    BY <2>1, <2>2 DEF NoneIsMissing
<1> QED
  BY <1>0, <1>4, <1>6, <1>9, <1>10 DEF new, old

\* What is true at the start.
LEMMA ChartStarts == ChartInit => ChartInv
<1> SUFFICES ASSUME ChartInit PROVE ChartInv
  OBVIOUS
<1>1. /\ NoValuation \in Valuation
      /\ NoValuation.pc = "idle" /\ NoValuation.rows = {}
  BY DEF NoValuation, Valuation
<1>2. \A v \in {Daily} \cup Others : valuer[v] = NoValuation
  BY DEF ChartInit
<1>3. chart = {} /\ IsFiniteSet({})
  BY FS_EmptySet DEF ChartInit
<1>4. ChartTypeOK
  BY <1>1 DEF ChartInit, ChartTypeOK
<1>5. ValuationsInOrder
  BY <1>1, <1>2, <1>3 DEF ValuationsInOrder, InOrder
<1>6. DailyAtWork
  BY <1>1, <1>2 DEF DailyAtWork
<1> QED
  BY <1>3, <1>4, <1>5, <1>6 DEF ChartInv, OnePoint, NoneIsMissing

\* Trades, new agents and the calendar leave valuations and chart alone.
LEMMA ChartRests ==
    ASSUME ChartInv,
           NextDay \/ NewAgent \/ (\E a \in Accounts, asset \in Assets : OpenOrClose(a, asset))
           \/ UNCHANGED chartVars
    PROVE  ChartInv'
<1>1. /\ chart' = chart /\ valuer' = valuer /\ stamps' = stamps /\ simulation' = simulation
      /\ rebuilt' = rebuilt
  BY DEF NextDay, NewAgent, OpenOrClose, chartVars
<1> DEFINE Typed == /\ users' \subseteq Accounts /\ positions' \in [Accounts -> SUBSET Assets]
                    /\ today' \in Nat /\ chartEvents' \in Nat
<1>2. Typed
  <2>1. CASE NextDay
    BY <2>1 DEF NextDay, ChartInv, ChartTypeOK
  <2>2. CASE NewAgent
    BY <2>2 DEF NewAgent, ChartEvent, ChartInv, ChartTypeOK
  <2>3. ASSUME NEW a \in Accounts, NEW asset \in Assets, OpenOrClose(a, asset)
        PROVE  Typed
    BY <2>3 DEF OpenOrClose, ChartEvent, ChartInv, ChartTypeOK
  <2>4. CASE UNCHANGED chartVars
    BY <2>4 DEF chartVars, ChartInv, ChartTypeOK
  <2> QED
    BY <2>1, <2>2, <2>3, <2>4
<1>3. ChartTypeOK'
  BY <1>1, <1>2 DEF ChartInv, ChartTypeOK
<1>4. ValuationsInOrder' /\ DailyAtWork' /\ OnePoint(chart)' /\ NoneIsMissing(chart)'
  BY <1>1 DEF ChartInv, ValuationsInOrder, DailyAtWork, OnePoint, NoneIsMissing, NewerPoints
<1> QED
  BY <1>1, <1>3, <1>4 DEF ChartInv

\* A reset empties the chart while no daily valuation is under way.
LEMMA WipeKeeps == ChartInv /\ WipeSimulation => ChartInv'
<1> SUFFICES ASSUME ChartInv, WipeSimulation PROVE ChartInv'
  OBVIOUS
<1>1. /\ chart' = {} /\ valuer' = valuer /\ stamps' = stamps /\ today' = today
      /\ valuer[Daily].pc = "idle" /\ valuer[Daily].rows = {}
  BY DEF WipeSimulation, ChartInv, DailyAtWork
<1>2. ChartTypeOK'
  BY <1>1 DEF WipeSimulation, ChartEvent, ChartInv, ChartTypeOK
<1>3. ValuationsInOrder' /\ DailyAtWork'
  BY <1>1 DEF ChartInv, ValuationsInOrder, DailyAtWork
<1>4. OnePoint(chart)' /\ NoneIsMissing(chart)'
  BY <1>1, FS_EmptySet DEF OnePoint, NoneIsMissing
<1> QED
  BY <1>1, <1>2, <1>3, <1>4 DEF ChartInv

\* A rebuild deletes the points of one account, all of them up to now.
LEMMA RebuildKeeps ==
    ASSUME ChartInv, NEW u \in Accounts, RebuildAgent(u)
    PROVE  ChartInv'
<1>0. /\ ChartTypeOK /\ OnePoint(chart) /\ NoneIsMissing(chart) /\ stamps \in Nat /\ Keep \in Nat
      /\ \A row \in chart : row.stamp <= stamps
      /\ valuer[Daily].pc = "idle" /\ valuer[Daily].rows = {}
  BY ChartAssumption DEF ChartInv, ChartTypeOK, DailyAtWork, RebuildAgent
<1>1. /\ chart' = {row \in chart : row.account # u} /\ rebuilt' = [rebuilt EXCEPT ![u] = stamps]
      /\ valuer' = valuer /\ users' = users /\ today' = today /\ stamps' = stamps
      /\ simulation' = simulation /\ chart' \subseteq chart
      /\ \E bought \in SUBSET Assets : positions' = [positions EXCEPT ![u] = bought]
      /\ chartEvents' = chartEvents + 1
  BY DEF RebuildAgent, ChartEvent
<1>2. ChartTypeOK'
  <2>1. positions' \in [Accounts -> SUBSET Assets]
    BY <1>0, <1>1 DEF ChartTypeOK
  <2>2. rebuilt' \in [Accounts -> Nat]
    BY <1>0, <1>1 DEF ChartTypeOK
  <2> QED
    BY <1>0, <1>1, <2>1, <2>2 DEF ChartTypeOK
<1>3. ValuationsInOrder' /\ DailyAtWork'
  BY <1>0, <1>1 DEF ChartInv, ValuationsInOrder, DailyAtWork
<1>4. OnePoint(chart)'
  BY <1>0, <1>1, FS_Subset DEF OnePoint
<1>5. ASSUME NEW row \in chart', NEW a \in row.users
      PROVE  \/ \E r \in chart' : r.account = a /\ r.stamp = row.stamp
             \/ row.stamp <= rebuilt'[a]
             \/ NewerPoints(chart', a, row.stamp) >= Keep
  <2>1. a \in Accounts /\ row \in chart
    BY <1>0, <1>1 DEF ChartTypeOK, ChartRow
  <2>2. CASE a = u
    <3>1. rebuilt'[a] = stamps
      BY <1>0, <1>1, <2>1, <2>2 DEF ChartTypeOK
    <3> QED
      BY <1>0, <2>1, <3>1
  <2>3. CASE a # u
    <3>1. rebuilt'[a] = rebuilt[a]
      BY <1>0, <1>1, <2>1, <2>3 DEF ChartTypeOK
    <3>2. {r \in chart' : r.account = a /\ r.stamp > row.stamp} = {r \in chart : r.account = a /\ r.stamp > row.stamp}
      BY <1>1, <2>3
    <3>3. NewerPoints(chart', a, row.stamp) = NewerPoints(chart, a, row.stamp)
      BY <3>2 DEF NewerPoints
    <3>4. (\E r \in chart : r.account = a /\ r.stamp = row.stamp)
          => \E r \in chart' : r.account = a /\ r.stamp = row.stamp
      BY <1>1, <2>3
    <3> QED
      BY <1>0, <2>1, <3>1, <3>3, <3>4 DEF NoneIsMissing
  <2> QED
    BY <2>2, <2>3
<1>6. NoneIsMissing(chart)'
  BY <1>5 DEF NoneIsMissing, NewerPoints
<1> QED
  BY <1>0, <1>1, <1>2, <1>3, <1>4, <1>6 DEF ChartInv

\* A valuation begins, the daily one at an instant that is not in the chart.
LEMMA BeginKeeps ==
    ASSUME ChartInv, NEW v \in {Daily} \cup Others, BeginValuation(v)
    PROVE  ChartInv'
<1> DEFINE begun == [NoValuation EXCEPT !.pc = "fetch", !.day = today, !.stamp = stamps', !.asked = HeldAssets]
<1>0. ChartTypeOK /\ ValuationsInOrder /\ DailyAtWork /\ stamps \in Nat /\ today \in Nat
  BY DEF ChartInv, ChartTypeOK
<1>1. /\ valuer' = [valuer EXCEPT ![v] = begun] /\ chart' = chart /\ simulation' = simulation
      /\ users' = users /\ rebuilt' = rebuilt
      /\ positions' = positions /\ today' = today /\ chartEvents' = chartEvents
      /\ stamps' = IF v = Daily THEN stamps + 1 ELSE stamps
  BY DEF BeginValuation
<1>2. /\ begun \in Valuation
      /\ begun.pc = "fetch" /\ begun.rows = {} /\ begun.users = {} /\ begun.stamp = stamps' /\ stamps' \in Nat
  <2>1. HeldAssets \in SUBSET Assets
    BY <1>0 DEF HeldAssets, ChartTypeOK
  <2>2. stamps' \in Nat
    BY <1>0, <1>1
  <2>3. /\ NoValuation \in Valuation
        /\ NoValuation.rows = {} /\ NoValuation.users = {}
    BY DEF NoValuation, Valuation
  <2> QED
    BY <1>0, <2>1, <2>2, <2>3 DEF Valuation
<1> HIDE DEF begun
<1>3. \A w \in {Daily} \cup Others : valuer'[w] = IF w = v THEN begun ELSE valuer[w]
  BY <1>0, <1>1 DEF ChartTypeOK
<1>4. ChartTypeOK'
  BY <1>0, <1>1, <1>2 DEF ChartTypeOK
<1>5. ValuationsInOrder'
  <2>1. InOrder(begun, v)
    BY <1>2, FS_EmptySet DEF InOrder
  <2> QED
    BY <1>0, <1>3, <2>1 DEF ValuationsInOrder
<1>6. \A row \in chart : row.stamp \in Nat /\ row.stamp <= stamps
  BY <1>0 DEF ChartInv, ChartTypeOK, ChartRow
<1>7. DailyAtWork'
  <2>1. CASE v = Daily
    <3>1. valuer'[Daily] = begun /\ stamps' = stamps + 1
      BY <1>1, <1>3, <2>1
    <3>2. \A row \in chart' : row.stamp # stamps'
      BY <1>0, <1>1, <1>6, <3>1
    <3> QED
      BY <1>2, <3>1, <3>2 DEF DailyAtWork
  <2>2. CASE v # Daily
    <3>1. valuer'[Daily] = valuer[Daily] /\ stamps' = stamps
      BY <1>1, <1>3, <2>2
    <3> QED
      BY <1>0, <1>1, <3>1 DEF DailyAtWork
  <2> QED
    BY <2>1, <2>2
<1>8. OnePoint(chart)' /\ NoneIsMissing(chart)'
  BY <1>1 DEF ChartInv, OnePoint, NoneIsMissing, NewerPoints
<1> QED
  BY <1>0, <1>1, <1>4, <1>5, <1>6, <1>7, <1>8 DEF ChartInv

\* The quotes of all that was asked for, or the end of the valuation.
LEMMA QuotesKeep ==
    ASSUME ChartInv, NEW v \in {Daily} \cup Others, QuotesArrive(v)
    PROVE  ChartInv'
<1>0. ChartTypeOK /\ ValuationsInOrder /\ DailyAtWork /\ valuer[v].pc = "fetch"
  BY DEF ChartInv, QuotesArrive
<1>1. PICK answered \in SUBSET valuer[v].asked :
          valuer' = [valuer EXCEPT ![v] =
              IF valuer[v].asked \ answered # {} THEN NoValuation
              ELSE [valuer[v] EXCEPT !.pc = "value", !.quoted = answered, !.users = users]]
  BY DEF QuotesArrive
<1> DEFINE next == IF valuer[v].asked \ answered # {} THEN NoValuation
                   ELSE [valuer[v] EXCEPT !.pc = "value", !.quoted = answered, !.users = users]
<1>2. /\ chart' = chart /\ simulation' = simulation /\ stamps' = stamps
      /\ users' = users /\ rebuilt' = rebuilt
      /\ positions' = positions /\ today' = today /\ chartEvents' = chartEvents
  BY DEF QuotesArrive
<1>3. /\ next \in Valuation
      /\ \/ next.pc = "idle" /\ next.rows = {}
         \/ /\ next.pc = "value" /\ next.quoted = next.asked
            /\ next.rows = {} /\ next.users = users /\ next.stamp = valuer[v].stamp
  <2>1. valuer[v] \in Valuation
    BY <1>0 DEF ChartTypeOK
  <2>2. CASE valuer[v].asked \ answered # {}
    BY <2>2 DEF NoValuation, Valuation
  <2>3. CASE valuer[v].asked = answered
    <3>1. users \subseteq Accounts /\ valuer[v].rows = {}
      BY <1>0 DEF ChartTypeOK, ValuationsInOrder, InOrder
    <3> QED
      BY <2>1, <2>3, <3>1 DEF Valuation
  <2> QED
    BY <2>2, <2>3
<1>4. \A w \in {Daily} \cup Others : valuer'[w] = IF w = v THEN next ELSE valuer[w]
  BY <1>0, <1>1 DEF ChartTypeOK
<1>5. valuer' = [valuer EXCEPT ![v] = next]
  BY <1>1
<1> HIDE DEF next
<1>6. ChartTypeOK'
  BY <1>0, <1>2, <1>3, <1>5 DEF ChartTypeOK
<1>7. ValuationsInOrder'
  <2>1. InOrder(next, v)
    BY <1>3, FS_EmptySet DEF InOrder
  <2> QED
    BY <1>0, <1>4, <2>1 DEF ValuationsInOrder
<1>8. DailyAtWork'
  <2>1. CASE v = Daily
    <3>1. valuer'[Daily] = next
      BY <1>4, <2>1
    <3> QED
      BY <1>0, <1>2, <1>3, <2>1, <3>1 DEF DailyAtWork
  <2>2. CASE v # Daily
    BY <1>0, <1>2, <1>4, <2>2 DEF DailyAtWork
  <2> QED
    BY <2>1, <2>2
<1>9. OnePoint(chart)' /\ NoneIsMissing(chart)'
  BY <1>2 DEF ChartInv, OnePoint, NoneIsMissing, NewerPoints
<1> QED
  BY <1>2, <1>6, <1>7, <1>8, <1>9 DEF ChartInv

\* An account is valued: what has no quote was not asked for.
LEMMA ValueKeeps ==
    ASSUME ChartInv, NEW v \in {Daily} \cup Others, NEW a \in Accounts, ValueAccount(v, a)
    PROVE  ChartInv'
<1> DEFINE row == [account |-> a, by |-> v, users |-> valuer[v].users, simulation |-> simulation,
                   asked |-> valuer[v].asked, fallback |-> positions[a] \ valuer[v].quoted]
           next == [valuer[v] EXCEPT !.rows = valuer[v].rows \cup {row}]
<1>0. ChartTypeOK /\ ValuationsInOrder /\ DailyAtWork /\ valuer[v].pc = "value" /\ a \notin Valued(v)
      /\ valuer[v] \in Valuation
  BY DEF ChartInv, ChartTypeOK, ValueAccount
<1>1. /\ valuer' = [valuer EXCEPT ![v].rows = valuer[v].rows \cup {row}]
      /\ chart' = chart /\ simulation' = simulation /\ stamps' = stamps
      /\ users' = users /\ rebuilt' = rebuilt
      /\ positions' = positions /\ today' = today /\ chartEvents' = chartEvents
  BY DEF ValueAccount
<1>2. /\ row \in ValuedRow /\ row.account = a /\ row.by = v /\ row.simulation = simulation /\ row.users = valuer[v].users
      /\ row.fallback = positions[a] \ valuer[v].quoted /\ row.asked = valuer[v].asked
  BY <1>0 DEF ChartTypeOK, Valuation, ValuedRow
<1>3. \A r \in valuer[v].rows : r.account # a
  BY <1>0 DEF Valued
<1> HIDE DEF row
<1>4. /\ next \in Valuation
      /\ next.rows = valuer[v].rows \cup {row} /\ next.pc = "value" /\ next.stamp = valuer[v].stamp
      /\ next.quoted = valuer[v].quoted /\ next.asked = valuer[v].asked /\ next.users = valuer[v].users
  BY <1>0, <1>2 DEF Valuation
<1>5. valuer' = [valuer EXCEPT ![v] = next]
  BY <1>0, <1>1 DEF ChartTypeOK
<1>6. \A w \in {Daily} \cup Others : valuer'[w] = IF w = v THEN next ELSE valuer[w]
  BY <1>0, <1>5 DEF ChartTypeOK
<1> HIDE DEF next
<1>7. ChartTypeOK'
  BY <1>0, <1>1, <1>4, <1>5 DEF ChartTypeOK
<1>8. ValuationsInOrder'
  <2>1. IsFiniteSet(next.rows)
    BY <1>0, <1>4, FS_AddElement DEF ValuationsInOrder, InOrder
  <2>2. \A r, s \in next.rows : r.account = s.account => r = s
    BY <1>0, <1>2, <1>3, <1>4 DEF ValuationsInOrder, InOrder
  <2>3. \A r \in next.rows : r.by = v /\ r.users = next.users
    BY <1>0, <1>2, <1>4 DEF ValuationsInOrder, InOrder
  <2>4. InOrder(next, v)
    BY <1>4, <2>1, <2>2, <2>3 DEF InOrder
  <2> QED
    BY <1>0, <1>6, <2>4 DEF ValuationsInOrder
<1>9. DailyAtWork'
  <2>1. CASE v = Daily
    <3>1. valuer'[Daily] = next
      BY <1>6, <2>1
    <3>2. row.fallback \cap row.asked = {}
      BY <1>0, <1>2, <2>1 DEF DailyAtWork
    <3>3. \A r \in next.rows : r.simulation = simulation /\ r.fallback \cap r.asked = {}
      BY <1>0, <1>2, <1>4, <2>1, <3>2 DEF DailyAtWork
    <3> QED
      BY <1>0, <1>1, <1>4, <2>1, <3>1, <3>3 DEF DailyAtWork
  <2>2. CASE v # Daily
    BY <1>0, <1>1, <1>6, <2>2 DEF DailyAtWork
  <2> QED
    BY <2>1, <2>2
<1>10. OnePoint(chart)' /\ NoneIsMissing(chart)'
  BY <1>1 DEF ChartInv, OnePoint, NoneIsMissing, NewerPoints
<1> QED
  BY <1>1, <1>7, <1>8, <1>9, <1>10 DEF ChartInv

\* A valuation is stored, and the oldest points of each account go.
LEMMA RetainKeeps ==
    ASSUME ChartInv, NEW v \in {Daily} \cup Others, Retain(v)
    PROVE  ChartInv'
<1>0. /\ ChartTypeOK /\ ValuationsInOrder /\ DailyAtWork
      /\ OnePoint(chart) /\ NoneIsMissing(chart)
      /\ valuer[v].pc = "value" /\ Valued(v) = valuer[v].users
      /\ valuer[v] \in Valuation
      /\ stamps \in Nat /\ today \in Nat
      /\ \A row \in chart :
            /\ row.stamp <= stamps /\ row.stamp \in Nat
            /\ row.by = Daily => row.simulation = simulation /\ row.fallback \cap row.asked = {}
  BY DEF ChartInv, ChartTypeOK, Retain, ChartRow
<1>1. /\ valuer' = [valuer EXCEPT ![v] = NoValuation]
      /\ users' = users /\ rebuilt' = rebuilt
      /\ positions' = positions /\ today' = today /\ simulation' = simulation /\ chartEvents' = chartEvents
  BY DEF Retain
<1>2. /\ NoValuation \in Valuation
      /\ NoValuation.pc = "idle" /\ NoValuation.rows = {}
  BY DEF NoValuation, Valuation
<1>3. \A w \in {Daily} \cup Others : valuer'[w] = IF w = v THEN NoValuation ELSE valuer[w]
  BY <1>0, <1>1 DEF ChartTypeOK
<1>4. ValuationsInOrder'
  <2>1. InOrder(NoValuation, v)
    BY <1>2, FS_EmptySet DEF InOrder
  <2> QED
    BY <1>0, <1>3, <2>1 DEF ValuationsInOrder
<1>5. \/ chart' = chart /\ stamps' = stamps
      \/ \E onDay \in Nat, stamp \in Nat :
            /\ chart' = Newest(chart \cup Stamped(valuer[v].rows, onDay, stamp))
            /\ \A row \in chart : row.stamp # stamp
            /\ stamp <= stamps' /\ stamps <= stamps' /\ stamps' \in Nat
            /\ IF v = Daily THEN stamps' = stamps ELSE stamp = stamps + 1
  <2>1. CASE v = Daily
    <3>1. /\ valuer[v].day \in Nat /\ valuer[v].stamp \in Nat /\ valuer[v].stamp <= stamps
          /\ \A row \in chart : row.stamp # valuer[v].stamp
      BY <1>0, <2>1 DEF DailyAtWork, Valuation
    <3>2. /\ stamps' = stamps
          /\ \/ chart' = chart
             \/ chart' = Newest(chart \cup Stamped(valuer[v].rows, valuer[v].day, valuer[v].stamp))
      BY <2>1 DEF Retain
    <3> DEFINE Stores(onDay, stamp) ==
            /\ chart' = Newest(chart \cup Stamped(valuer[v].rows, onDay, stamp))
            /\ \A row \in chart : row.stamp # stamp
            /\ stamp <= stamps' /\ stamps <= stamps' /\ stamps' \in Nat
            /\ IF v = Daily THEN stamps' = stamps ELSE stamp = stamps + 1
    <3>3. chart' = chart \/ Stores(valuer[v].day, valuer[v].stamp)
      BY <1>0, <2>1, <3>1, <3>2
    <3> HIDE DEF Stores
    <3>4. chart' = chart \/ \E onDay \in Nat, stamp \in Nat : Stores(onDay, stamp)
      BY <3>1, <3>3
    <3> QED
      BY <3>2, <3>4 DEF Stores
  <2>2. CASE v # Daily
    <3>1. stamps' = stamps + 1 /\ chart' = Newest(chart \cup Stamped(valuer[v].rows, today, stamps'))
      BY <2>2 DEF Retain
    <3>2. stamps + 1 \in Nat /\ \A row \in chart : row.stamp # stamps + 1
      BY <1>0
    <3>3. stamps + 1 <= stamps' /\ stamps <= stamps' /\ stamps' \in Nat
      BY <1>0, <3>1
    <3> QED
      BY <1>0, <2>2, <3>1, <3>2, <3>3
  <2> QED
    BY <2>1, <2>2
<1>6. CASE chart' = chart /\ stamps' = stamps
  <2>1. ChartTypeOK' /\ OnePoint(chart)' /\ NoneIsMissing(chart)'
    BY <1>0, <1>1, <1>2, <1>6 DEF ChartTypeOK, OnePoint, NoneIsMissing, NewerPoints
  <2>2. DailyAtWork'
    BY <1>0, <1>1, <1>2, <1>3, <1>6 DEF DailyAtWork
  <2> QED
    BY <1>0, <1>1, <1>4, <1>6, <2>1, <2>2 DEF ChartInv
<1>7. ASSUME NEW onDay \in Nat, NEW stamp \in Nat,
             chart' = Newest(chart \cup Stamped(valuer[v].rows, onDay, stamp)),
             \A row \in chart : row.stamp # stamp,
             stamp <= stamps', stamps <= stamps', stamps' \in Nat,
             IF v = Daily THEN stamps' = stamps ELSE stamp = stamps + 1
      PROVE  ChartInv'
  <2> DEFINE new == Stamped(valuer[v].rows, onDay, stamp)
             rows == chart \cup new
  <2>1. /\ rows \in SUBSET ChartRow /\ OnePoint(rows) /\ NoneIsMissing(rows)
        /\ \A r \in new : /\ r.stamp = stamp /\ r.by = v
                          /\ v = Daily => r.simulation = simulation /\ r.fallback \cap r.asked = {}
    BY <1>0, <1>7, NewInstant
  <2> HIDE DEF new
  <2>2. chart' \subseteq rows /\ OnePoint(chart') /\ NoneIsMissing(chart')
    <3>1. \A row \in rows : row.stamp <= stamps'
      BY <1>0, <1>7, <2>1
    <3> QED
      BY <1>7, <2>1, <3>1, NewestKeeps DEF new
  <2>3. ChartTypeOK'
    BY <1>0, <1>1, <1>2, <1>7, <2>1, <2>2 DEF ChartTypeOK
  <2>4. \A row \in chart' :
            /\ row.stamp <= stamps'
            /\ row.by = Daily => row.simulation = simulation' /\ row.fallback \cap row.asked = {}
    <3> SUFFICES ASSUME NEW row \in chart'
                 PROVE  /\ row.stamp <= stamps'
                        /\ row.by = Daily =>
                              row.simulation = simulation /\ row.fallback \cap row.asked = {}
      BY <1>1
    <3>1. CASE row \in chart
      BY <1>0, <1>7, <3>1
    <3>2. CASE row \in new
      BY <1>7, <2>1, <3>2
    <3> QED
      BY <2>2, <3>1, <3>2
  <2>5. DailyAtWork'
    <3>1. CASE v = Daily
      BY <1>2, <1>3, <3>1 DEF DailyAtWork
    <3>2. CASE v # Daily
      <4>1. valuer'[Daily] = valuer[Daily] /\ stamp = stamps + 1
            /\ valuer[Daily].stamp \in Nat
        BY <1>0, <1>3, <1>7, <3>2 DEF ChartTypeOK, Valuation
      <4>2. valuer[Daily].pc # "idle" => /\ valuer[Daily].stamp <= stamps'
                                         /\ \A row \in chart' : row.stamp # valuer[Daily].stamp
        <5> SUFFICES ASSUME valuer[Daily].pc # "idle"
                     PROVE  /\ valuer[Daily].stamp <= stamps'
                            /\ \A row \in chart' : row.stamp # valuer[Daily].stamp
          OBVIOUS
        <5>1. valuer[Daily].stamp <= stamps /\ \A row \in chart : row.stamp # valuer[Daily].stamp
          BY <1>0 DEF DailyAtWork
        <5>2. \A row \in new : row.stamp # valuer[Daily].stamp
          BY <1>0, <2>1, <4>1, <5>1
        <5>3. valuer[Daily].stamp <= stamps'
          BY <1>0, <1>7, <4>1, <5>1
        <5> QED
          BY <2>2, <5>1, <5>2, <5>3
      <4> QED
        BY <1>0, <1>1, <4>1, <4>2 DEF DailyAtWork
    <3> QED
      BY <3>1, <3>2
  <2> QED
    BY <1>1, <1>4, <2>2, <2>3, <2>4, <2>5 DEF ChartInv, OnePoint, NoneIsMissing, NewerPoints
<1> QED
  BY <1>5, <1>6, <1>7

\* The inductive step, and what it is for.
LEMMA ChartStep == ChartInv /\ [ChartNext]_chartVars => ChartInv'
  BY ChartRests, WipeKeeps, RebuildKeeps, BeginKeeps, QuotesKeep, ValueKeeps, RetainKeeps DEF ChartNext

LEMMA ChartFollows == ChartInv => ChartIsSound
  BY DEF ChartInv, ChartIsSound

-----------------------------------------------------------------------------
(* Corporate actions *)

\* A sequence is one over its own elements.
LEMMA SeqOfItself ==
    ASSUME NEW S, NEW s \in Seq(S)
    PROVE  /\ s \in Seq(ToSet(s)) /\ DOMAIN s = 1..Len(s) /\ Len(s) \in Nat
           /\ \A i \in 1..Len(s) : s[i] \in S
<1>1. DOMAIN s = 1..Len(s) /\ Len(s) \in Nat /\ s \in [1..Len(s) -> S]
  OBVIOUS
<1>2. s \in [1..Len(s) -> ToSet(s)]
  BY <1>1 DEF ToSet
<1> QED
  BY <1>1, <1>2

\* The ledger and its rows.
LEMMA LedgerFacts ==
    ASSUME ActionsTypeOK
    PROVE  /\ ledger \in Seq(ToSet(ledger)) /\ DOMAIN ledger = 1..Len(ledger) /\ Len(ledger) \in Nat
           /\ \A u \in Users : Rows(u) \subseteq 1..Len(ledger)
  BY SeqOfItself DEF ActionsTypeOK, Rows

\* The rows of a user are none that were deleted.
LEMMA RowsAreEntries ==
    ASSUME ActionsTypeOK, NEW u \in Users
    PROVE  \A i \in Rows(u) : ledger[i].at \in Nat /\ ledger[i] # Gone
<1>1. Gone.user = Nobody
  BY DEF Gone, Row
<1> QED
  BY <1>1, UsersAreFinite DEF ActionsTypeOK, Rows, Entry

\* What is appended comes after what was there.
LEMMA Concatenation ==
    ASSUME NEW S, NEW s \in Seq(S), NEW t \in Seq(S)
    PROVE  /\ s \o t \in Seq(ToSet(s \o t)) /\ Len(s \o t) = Len(s) + Len(t)
           /\ \A i \in 1..Len(s) : (s \o t)[i] = s[i]
           /\ \A i \in 1..Len(t) : (s \o t)[Len(s) + i] = t[i]
<1>1. s \o t \in Seq(S) /\ Len(s \o t) = Len(s) + Len(t) /\ Len(s) \in Nat /\ Len(t) \in Nat
  OBVIOUS
<1>2. \A i \in 1..Len(s) : (s \o t)[i] = s[i]
  OBVIOUS
<1>3. \A i \in 1..Len(t) : (s \o t)[Len(s) + i] = t[i]
  OBVIOUS
<1>4. s \o t \in Seq(ToSet(s \o t))
  BY <1>1, SeqOfItself
<1> QED
  BY <1>1, <1>2, <1>3, <1>4

\* The rows of a user who gets none stay, and with them the balance after each.
LEMMA RowsStay ==
    ASSUME ActionsTypeOK, ActionsTypeOK', NEW u \in Users,
           Len(ledger) <= Len(ledger'), \A i \in 1..Len(ledger) : ledger'[i] = ledger[i]
    PROVE  /\ Rows(u) = {i \in Rows(u)' : i <= Len(ledger)}
           /\ \A n \in 0..Len(ledger) : \A x : IsBalance(u, n, x)' <=> IsBalance(u, n, x)
           /\ StampsInOrder(u)' => StampsInOrder(u)
<1>0. /\ DOMAIN ledger = 1..Len(ledger) /\ Len(ledger) \in Nat
      /\ DOMAIN ledger' = 1..Len(ledger') /\ Len(ledger') \in Nat
  BY SeqOfItself DEF ActionsTypeOK
<1>1. Rows(u) = {i \in Rows(u)' : i <= Len(ledger)}
  BY <1>0 DEF Rows
<1>2. /\ Rows(u) \subseteq Rows(u)' /\ Rows(u)' \subseteq Nat
      /\ \A i \in Rows(u) : i \in 1..Len(ledger) /\ ledger'[i] = ledger[i]
      /\ \A i \in Rows(u)' : i \in Rows(u) \/ i > Len(ledger)
  BY <1>0, <1>1 DEF Rows
<1>3. ASSUME NEW n \in 0..Len(ledger), NEW x
      PROVE  IsBalance(u, n, x)' <=> IsBalance(u, n, x)
  <2>1. (\A i \in Rows(u)' : i > n) <=> (\A i \in Rows(u) : i > n)
    BY <1>0, <1>2
  <2>2. \A i \in Rows(u)' : i <= n => i \in Rows(u)
    BY <1>0, <1>2
  <2>3. \A i : (\A j \in Rows(u)' : j <= i \/ j > n) <=> (\A j \in Rows(u) : j <= i \/ j > n)
    BY <1>0, <1>2
  <2>4. (\A i \in Rows(u)' : i <= n /\ (\A j \in Rows(u)' : j <= i \/ j > n) => x = ledger'[i].after)
        <=> (\A i \in Rows(u) : i <= n /\ (\A j \in Rows(u) : j <= i \/ j > n) => x = ledger[i].after)
    BY <1>2, <2>2, <2>3
  <2> QED
    BY <2>1, <2>4 DEF IsBalance
<1>4. StampsInOrder(u)' => StampsInOrder(u)
  BY <1>2 DEF StampsInOrder
<1> QED
  BY <1>1, <1>3, <1>4

\* What a step adds to the ledger: of each user nothing, with the balance as it was, or one
\* row that leads from the old balance to the new.
Booked(u) ==
    \/ cash'[u] = cash[u] /\ \A i \in (Len(ledger) + 1)..Len(ledger') : ledger'[i].user # u
    \/ \E k \in (Len(ledger) + 1)..Len(ledger') :
          /\ \A i \in (Len(ledger) + 1)..Len(ledger') : ledger'[i].user = u <=> i = k
          /\ ledger'[k].before = cash[u] /\ ledger'[k].after = cash'[u]
          /\ cash'[u] = cash[u] + ledger'[k].total

\* Rows that are booked so continue the ones before them.
LEMMA BookedRowsFollow ==
    ASSUME ActionsTypeOK, ActionsTypeOK', BalancesFollow, count' = count, repairs' = repairs,
           Len(ledger) <= Len(ledger'), \A i \in 1..Len(ledger) : ledger'[i] = ledger[i],
           \A u \in Users : Booked(u)
    PROVE  BalancesFollow'
<1>0. /\ DOMAIN ledger = 1..Len(ledger) /\ Len(ledger) \in Nat
      /\ DOMAIN ledger' = 1..Len(ledger') /\ Len(ledger') \in Nat
  BY SeqOfItself DEF ActionsTypeOK
<1> SUFFICES ASSUME NEW u \in Users
             PROVE  /\ count.drifts = 0 /\ (StampsInOrder(u)' \/ repairs = {}) =>
                          IsBalance(u, Len(ledger), cash[u])'
                    /\ \A i \in Rows(u)' :
                          /\ count.drifts = 0 /\ repairs = {} => IsBalance(u, i - 1, ledger[i].before)'
                          /\ ledger'[i].after = ledger'[i].before + ledger'[i].total
  BY DEF BalancesFollow
<1>1. /\ Rows(u) = {i \in Rows(u)' : i <= Len(ledger)}
      /\ \A n \in 0..Len(ledger) : \A x : IsBalance(u, n, x)' <=> IsBalance(u, n, x)
      /\ StampsInOrder(u)' => StampsInOrder(u)
  BY RowsStay
<1>2. /\ Rows(u)' \subseteq 1..Len(ledger') /\ Rows(u) \subseteq 1..Len(ledger)
      /\ \A i \in Rows(u)' : ledger'[i].user = u
      /\ \A i \in 1..Len(ledger') : ledger'[i].user = u => i \in Rows(u)'
  BY <1>0 DEF Rows
<1>3. count.drifts = 0 /\ (StampsInOrder(u)' \/ repairs = {}) => IsBalance(u, Len(ledger), cash[u])
  BY <1>1 DEF BalancesFollow
<1>4. ASSUME NEW i \in Rows(u)', i <= Len(ledger)
      PROVE  /\ count.drifts = 0 /\ repairs = {} => IsBalance(u, i - 1, ledger[i].before)'
             /\ ledger'[i].after = ledger'[i].before + ledger'[i].total
  <2>1. i \in Rows(u) /\ i \in 1..Len(ledger) /\ ledger'[i] = ledger[i] /\ i - 1 \in 0..Len(ledger)
    BY <1>0, <1>1, <1>2, <1>4
  <2>2. IsBalance(u, i - 1, ledger[i].before)' <=> IsBalance(u, i - 1, ledger[i].before)
    <3>1. IsBalance(u, i - 1, ledger[i].before)' <=> (\A x : x = ledger[i].before => IsBalance(u, i - 1, x)')
      BY <2>1 DEF IsBalance
    <3> QED
      BY <1>1, <2>1, <3>1
  <2> QED
    BY <2>1, <2>2 DEF BalancesFollow
<1>5. CASE cash'[u] = cash[u] /\ \A i \in (Len(ledger) + 1)..Len(ledger') : ledger'[i].user # u
  <2>1. \A i \in Rows(u)' : i <= Len(ledger)
    BY <1>0, <1>2, <1>5
  <2>2. Rows(u)' = Rows(u)
    BY <1>1, <2>1
  <2>3. IsBalance(u, Len(ledger), cash[u])' <=> IsBalance(u, Len(ledger), cash[u])
    BY <1>0, <1>2, <1>5, <2>1, <2>2 DEF IsBalance
  <2> QED
    BY <1>3, <1>4, <2>1, <2>3
<1>6. ASSUME NEW k \in (Len(ledger) + 1)..Len(ledger'),
             \A i \in (Len(ledger) + 1)..Len(ledger') : ledger'[i].user = u <=> i = k,
             ledger'[k].before = cash[u], ledger'[k].after = cash'[u],
             cash'[u] = cash[u] + ledger'[k].total
      PROVE  /\ IsBalance(u, Len(ledger), cash[u])'
             /\ \A i \in Rows(u)' :
                   /\ count.drifts = 0 /\ repairs = {} => IsBalance(u, i - 1, ledger[i].before)'
                   /\ ledger'[i].after = ledger'[i].before + ledger'[i].total
  <2>1. k \in Rows(u)' /\ \A i \in Rows(u)' : i <= Len(ledger) \/ i = k
    BY <1>0, <1>2, <1>6
  <2>2. \A i \in Rows(u)' : i <= k
    BY <1>0, <1>2, <2>1
  <2>3. IsBalance(u, Len(ledger), cash[u])'
    BY <1>0, <1>2, <1>6, <2>1, <2>2 DEF IsBalance
  <2>4. ASSUME count.drifts = 0, repairs = {}
        PROVE  IsBalance(u, k - 1, ledger[k].before)'
    <3>1. IsBalance(u, Len(ledger), cash[u])
      BY <1>3, <2>4
    <3>2. \A i \in Rows(u)' : i <= k - 1 <=> i \in Rows(u)
      BY <1>0, <1>1, <1>2, <2>1
    <3>3. \A j \in Rows(u)' : j > k - 1 <=> j \notin Rows(u)
      BY <1>0, <1>1, <1>2, <2>1
    <3> QED
      BY <1>0, <1>1, <1>2, <1>6, <3>1, <3>2, <3>3 DEF IsBalance
  <2> QED
    BY <1>4, <1>6, <2>1, <2>3, <2>4
<1> QED
  BY <1>5, <1>6 DEF Booked

\* A posting books one row.
LEMMA PostBooks ==
    ASSUME ActionsTypeOK, NEW u \in Users, NEW kind, NEW quantity, NEW total, NEW stamp \in Nat,
           Post(u, kind, quantity, total, stamp)
    PROVE  /\ cash' = [w \in Users |-> cash'[w]] /\ ledger' \in Seq(ToSet(ledger'))
           /\ \A i \in DOMAIN ledger' : Entry(ledger'[i])
           /\ Len(ledger') = Len(ledger) + 1 /\ \A i \in 1..Len(ledger) : ledger'[i] = ledger[i]
           /\ ledger'[Len(ledger) + 1].kind = kind /\ ledger'[Len(ledger) + 1].user = u
           /\ ledger'[Len(ledger) + 1].quantity = quantity /\ ledger'[Len(ledger) + 1].at = stamp
           /\ \A w \in Users : Booked(w)
<1> DEFINE row == Row(u, kind, quantity, total, cash[u], stamp)
           S == ToSet(ledger) \cup {row}
<1>0. ledger \in Seq(ToSet(ledger)) /\ DOMAIN ledger = 1..Len(ledger) /\ Len(ledger) \in Nat
  BY LedgerFacts
<1>1. /\ row.user = u /\ row.kind = kind /\ row.at = stamp /\ row.before = cash[u]
      /\ row.total = total /\ row.after = cash[u] + total /\ row.quantity = quantity
  BY DEF Row
<1>2. cash' = [cash EXCEPT ![u] = cash[u] + total] /\ ledger' = Append(ledger, row)
  BY DEF Post
<1> HIDE DEF row
<1>3. ledger \in Seq(S) /\ <<row>> \in Seq(S) /\ Append(ledger, row) = ledger \o <<row>>
  BY <1>0
<1>4. /\ ledger' \in Seq(ToSet(ledger')) /\ Len(ledger') = Len(ledger) + 1
      /\ \A i \in 1..Len(ledger) : ledger'[i] = ledger[i]
  <2> DEFINE one == <<row>>
  <2>1. Len(one) = 1 /\ one \in Seq(S) /\ ledger' = ledger \o one
    BY <1>2, <1>3
  <2> HIDE DEF S, one
  <2>2. /\ ledger \o one \in Seq(ToSet(ledger \o one)) /\ Len(ledger \o one) = Len(ledger) + Len(one)
        /\ \A i \in 1..Len(ledger) : (ledger \o one)[i] = ledger[i]
    BY <1>3, <2>1, Concatenation
  <2> QED
    BY <2>1, <2>2
<1>5. ledger'[Len(ledger) + 1] = row
  BY <1>0, <1>2
<1>6. DOMAIN ledger' = 1..(Len(ledger) + 1)
  BY <1>4, SeqOfItself
<1>7. \A w \in Users : cash'[w] = IF w = u THEN cash[u] + total ELSE cash[w]
  BY <1>2 DEF ActionsTypeOK
<1>8. cash' = [w \in Users |-> cash'[w]]
  BY <1>2 DEF ActionsTypeOK
<1>9. (Len(ledger) + 1)..Len(ledger') = {Len(ledger) + 1}
  BY <1>0, <1>4
<1>10. \A w \in Users : Booked(w)
  BY <1>1, <1>5, <1>7, <1>9 DEF Booked
<1>11. \A i \in DOMAIN ledger' : Entry(ledger'[i])
  BY <1>0, <1>1, <1>4, <1>5, <1>6 DEF ActionsTypeOK, Entry
<1> QED
  BY <1>1, <1>4, <1>5, <1>8, <1>10, <1>11

\* A fault is counted.
LEMMA FaultFacts ==
    ASSUME ActionsTypeOK, NEW kind \in {"crashes", "drifts", "resets"}, Fault(kind)
    PROVE  /\ count' \in [crashes : Nat, drifts : Nat, resets : Nat]
           /\ count'[kind] = count[kind] + 1
           /\ \A k \in {"crashes", "drifts", "resets"} \ {kind} : count'[k] = count[k]
  BY DEF Fault, ActionsTypeOK

\* The threads go from label to label and remember numbers.
LEMMA GotoFacts ==
    ASSUME ActionsTypeOK, NEW t \in {"scan", "gate", "refresh"}, NEW label, NEW read \in Nat,
           Goto(t, label, read)
    PROVE  threads' = [r \in {"scan", "gate", "refresh"} |-> threads'[r]]
           /\ threads'["scan"].read \in Nat
  BY DEF Goto, ActionsTypeOK

\* The records of dividends stay in order while no row of theirs is added.
LEMMA DividendsRest ==
    ASSUME ActionsTypeOK, ActionsTypeOK', DividendsPaidOnce,
           actions \subseteq actions', reversals' = reversals,
           Len(ledger) <= Len(ledger'), \A i \in 1..Len(ledger) : ledger'[i] = ledger[i],
           \A i \in (Len(ledger) + 1)..Len(ledger') :
               ledger'[i].kind \notin {"DIVIDEND", "DIVIDEND_REVERSAL"}
    PROVE  DividendsPaidOnce'
<1>0. /\ DOMAIN ledger = 1..Len(ledger) /\ Len(ledger) \in Nat
      /\ DOMAIN ledger' = 1..Len(ledger') /\ Len(ledger') \in Nat
  BY SeqOfItself DEF ActionsTypeOK
<1>1. \A kind \in {"DIVIDEND", "DIVIDEND_REVERSAL"} :
         /\ {i \in DOMAIN ledger' : ledger'[i].kind = kind} = {i \in DOMAIN ledger : ledger[i].kind = kind}
         /\ \A i \in {i \in DOMAIN ledger : ledger[i].kind = kind} : ledger'[i] = ledger[i]
  BY <1>0
<1> QED
  BY <1>1 DEF DividendsPaidOnce

\* A trade.
LEMMA TradesKeep ==
    ASSUME ActionsInv, NEW u \in Users, Buy(u) \/ Sell(u)
    PROVE  ActionsInv'
<1>0. ActionsTypeOK /\ BalancesFollow /\ DividendsPaidOnce /\ Len(ledger) \in Nat /\ now \in Nat
  BY LedgerFacts DEF ActionsInv, ActionsTypeOK
<1>1. \E kind, quantity, total : kind \in {"BUY", "SELL"} /\ Post(u, kind, quantity, total, now)
  BY DEF Buy, Sell
<1>2. PICK kind, quantity, total :
         kind \in {"BUY", "SELL"} /\ Post(u, kind, quantity, total, now)
  BY <1>1
<1>3. /\ cash' = [w \in Users |-> cash'[w]] /\ ledger' \in Seq(ToSet(ledger'))
      /\ \A i \in DOMAIN ledger' : Entry(ledger'[i])
      /\ Len(ledger') = Len(ledger) + 1 /\ \A i \in 1..Len(ledger) : ledger'[i] = ledger[i]
      /\ ledger'[Len(ledger) + 1].kind = kind
      /\ \A w \in Users : Booked(w)
  BY <1>0, <1>2, PostBooks
<1>4. /\ actions' = actions /\ reversals' = reversals /\ repairs' = repairs
      /\ threads' = threads /\ now' = now /\ count' = count
  BY DEF Buy, Sell, records
<1>5. ActionsTypeOK'
  BY <1>0, <1>3, <1>4 DEF ActionsTypeOK
<1>6. BalancesFollow'
  BY <1>0, <1>3, <1>4, <1>5, BookedRowsFollow
<1>7. \A i \in (Len(ledger) + 1)..Len(ledger') :
         ledger'[i].kind \notin {"DIVIDEND", "DIVIDEND_REVERSAL"}
  <2>1. \A i \in (Len(ledger) + 1)..Len(ledger') : i = Len(ledger) + 1
    BY <1>0, <1>3
  <2> QED
    BY <1>2, <1>3, <2>1
<1>8. DividendsPaidOnce'
  BY <1>0, <1>3, <1>4, <1>5, <1>7, DividendsRest
<1> QED
  BY <1>5, <1>6, <1>8 DEF ActionsInv

\* The quiet steps: they touch neither balances nor the ledger nor the records.
LEMMA QuietKeeps ==
    ASSUME ActionsInv, ActionsTypeOK', cash' = cash, ledger' = ledger,
           actions \subseteq actions', reversals' = reversals, repairs' = repairs,
           count'.drifts = count.drifts
    PROVE  ActionsInv'
<1>1. \A u \in Users : Rows(u)' = Rows(u) /\ (StampsInOrder(u)' <=> StampsInOrder(u))
  BY DEF Rows, StampsInOrder
<1>2. \A u \in Users : \A n, x : IsBalance(u, n, x)' <=> IsBalance(u, n, x)
  BY DEF Rows, IsBalance
<1>3. \A u \in Users : IsBalance(u, Len(ledger), cash[u])' <=> IsBalance(u, Len(ledger), cash[u])
  BY DEF Rows, IsBalance
<1>4. \A u \in Users : \A i \in Rows(u) :
         IsBalance(u, i - 1, ledger[i].before)' <=> IsBalance(u, i - 1, ledger[i].before)
  BY DEF Rows, IsBalance
<1>5. BalancesFollow'
  BY <1>1, <1>3, <1>4 DEF ActionsInv, BalancesFollow
<1>6. DividendsPaidOnce'
  BY DEF ActionsInv, DividendsPaidOnce
<1> QED
  BY <1>5, <1>6 DEF ActionsInv

\* The scans, the split, the price history, the calendar and a crash.
LEMMA QuietSteps ==
    ASSUME ActionsInv,
           \/ ScanSplits \/ ConfirmSplit \/ FetchHistory \/ StoreHistory \/ ScanDividends \/ Tick \/ Crash
           \/ \E t \in {"scan", "gate"} : ApplySplit(t) \/ AdjustHistory(t)
           \/ UNCHANGED actionVars
    PROVE  ActionsInv' /\ ledger' = ledger /\ reversals' = reversals /\ repairs' = repairs
<1>0. ActionsTypeOK /\ now \in Nat
  BY DEF ActionsInv, ActionsTypeOK
<1>1. /\ cash' = cash /\ ledger' = ledger /\ reversals' = reversals /\ repairs' = repairs
      /\ actions \subseteq actions'
  BY DEF ScanSplits, ConfirmSplit, FetchHistory, StoreHistory, ScanDividends, Tick, Crash, ApplySplit,
         AdjustHistory, actionVars, accounts, records
<1>2. now' \in Nat
  BY <1>0 DEF ScanSplits, ConfirmSplit, FetchHistory, StoreHistory, ScanDividends, Tick, Crash, ApplySplit,
         AdjustHistory, actionVars
<1>3. count' \in [crashes : Nat, drifts : Nat, resets : Nat] /\ count'.drifts = count.drifts
  <2>1. CASE Crash
    BY <1>0, <2>1, FaultFacts DEF Crash
  <2>2. CASE count' = count
    BY <1>0, <2>2 DEF ActionsTypeOK
  <2>3. Crash \/ count' = count
    BY DEF ScanSplits, ConfirmSplit, FetchHistory, StoreHistory, ScanDividends, Tick, ApplySplit,
           AdjustHistory, actionVars
  <2> QED
    BY <2>1, <2>2, <2>3
<1>4. threads' = [r \in {"scan", "gate", "refresh"} |-> threads'[r]] /\ threads'["scan"].read \in Nat
  <2>1. CASE threads' = threads
    BY <1>0, <2>1 DEF ActionsTypeOK
  <2>2. CASE Crash
    BY <1>0, <2>2 DEF Crash, ActionsTypeOK
  <2>3. CASE ScanSplits
    <3>1. Goto("scan", "split", 0) \/ Goto("scan", "dividends", 0)
      BY <2>3 DEF ScanSplits
    <3> QED
      BY <1>0, <3>1, GotoFacts
  <2>4. CASE ConfirmSplit
    <3>1. Goto("gate", "split", 0)
      BY <2>4 DEF ConfirmSplit
    <3> QED
      BY <1>0, <3>1, GotoFacts
  <2>5. CASE FetchHistory
    <3>1. \E read \in {0, 1} : Goto("refresh", "store", read)
      BY <2>5 DEF FetchHistory
    <3> QED
      BY <1>0, <3>1, GotoFacts
  <2>6. CASE StoreHistory
    <3>1. Goto("refresh", "idle", 0)
      BY <2>6 DEF StoreHistory
    <3> QED
      BY <1>0, <3>1, GotoFacts
  <2>7. CASE ScanDividends
    <3>1. Goto("scan", "pay", now) \/ Goto("scan", "idle", 0)
      BY <2>7 DEF ScanDividends
    <3> QED
      BY <1>0, <3>1, GotoFacts
  <2>8. ASSUME NEW t \in {"scan", "gate"}, ApplySplit(t) \/ AdjustHistory(t)
        PROVE  threads' = [r \in {"scan", "gate", "refresh"} |-> threads'[r]] /\ threads'["scan"].read \in Nat
    <3>1. Goto(t, "adjust", 0) \/ Goto(t, AfterSplit(t), 0)
      BY <2>8 DEF ApplySplit, AdjustHistory
    <3> QED
      BY <1>0, <3>1, GotoFacts
  <2>9. CASE Tick \/ UNCHANGED actionVars
    BY <2>1, <2>9 DEF Tick, actionVars
  <2> QED
    BY <2>2, <2>3, <2>4, <2>5, <2>6, <2>7, <2>8, <2>9
<1>5. ActionsTypeOK'
  BY <1>0, <1>1, <1>2, <1>3, <1>4 DEF ActionsTypeOK
<1> QED
  BY <1>1, <1>3, <1>5, QuietKeeps

\* The latest row of a user is the last one if the rows are stamped in their order.
LEMMA LatestIsLast ==
    ASSUME ActionsTypeOK, NEW u \in Users, StampsInOrder(u), Rows(u) # {}
    PROVE  LatestRow(u) \in Rows(u) /\ \A j \in Rows(u) : j <= LatestRow(u)
<1>0. /\ DOMAIN ledger = 1..Len(ledger) /\ Len(ledger) \in Nat /\ Rows(u) \in SUBSET (1..Len(ledger))
      /\ \A i \in Rows(u) : i \in Nat /\ ledger[i].at \in Nat
  BY LedgerFacts, RowsAreEntries
<1>1. PICK m \in Rows(u) : \A j \in Rows(u) : j <= m
  BY <1>0, GreatestNumber
<1> DEFINE Latest(i) == \A j \in Rows(u) :
               ledger[j].at < ledger[i].at \/ (ledger[j].at = ledger[i].at /\ j <= i)
<1>2. Latest(m)
  <2> SUFFICES ASSUME NEW j \in Rows(u)
               PROVE  ledger[j].at < ledger[m].at \/ (ledger[j].at = ledger[m].at /\ j <= m)
    OBVIOUS
  <2>1. j <= m /\ (j < m => ledger[j].at <= ledger[m].at)
    BY <1>1 DEF StampsInOrder
  <2> QED
    BY <1>0, <2>1
<1>3. LatestRow(u) = CHOOSE i \in Rows(u) : Latest(i)
  BY DEF LatestRow, Rows
<1> HIDE DEF Latest
<1>4. LatestRow(u) \in Rows(u) /\ Latest(LatestRow(u))
  BY <1>1, <1>2, <1>3
<1>5. m <= LatestRow(u)
  <2> DEFINE l == LatestRow(u)
  <2>1. ledger[m].at < ledger[l].at \/ (ledger[m].at = ledger[l].at /\ m <= l)
    BY <1>1, <1>4 DEF Latest
  <2>2. l <= m /\ (l < m => ledger[l].at <= ledger[m].at)
    BY <1>1, <1>4 DEF StampsInOrder
  <2> HIDE DEF l
  <2>3. l \in Rows(u)
    BY <1>4 DEF l
  <2> QED
    BY <1>0, <2>1, <2>2, <2>3 DEF l
<1> QED
  BY <1>0, <1>1, <1>4, <1>5

\* Only out of order can there be something to repair, unless the balance was changed
\* from outside.
LEMMA RepairsNeedDisorder ==
    ASSUME ActionsInv, NEW u \in Users, Reconcile(u), count.drifts = 0
    PROVE  ~StampsInOrder(u)
<1> SUFFICES ASSUME StampsInOrder(u) PROVE FALSE
  OBVIOUS
<1>1. /\ ActionsTypeOK /\ Rows(u) # {} /\ cash[u] # ledger[LatestRow(u)].after
  BY DEF ActionsInv, Reconcile, Rows
<1>2. LatestRow(u) \in Rows(u) /\ \A j \in Rows(u) : j <= LatestRow(u)
  BY <1>1, LatestIsLast
<1>3. IsBalance(u, Len(ledger), cash[u])
  BY DEF ActionsInv, BalancesFollow
<1>4. LatestRow(u) <= Len(ledger)
  BY <1>1, <1>2, LedgerFacts
<1> QED
  BY <1>1, <1>2, <1>3, <1>4 DEF IsBalance

\* A balance that is set to what the ledger says, or changed from outside.
LEMMA CorrectionsKeep ==
    ASSUME ActionsInv, NEW u \in Users, Reconcile(u) \/ Drift(u)
    PROVE  ActionsInv'
<1>0. ActionsTypeOK /\ BalancesFollow /\ DividendsPaidOnce
  BY DEF ActionsInv
<1>1. /\ ledger' = ledger /\ actions' = actions /\ reversals' = reversals /\ threads' = threads
      /\ now' = now
      /\ \E amount : cash' = [cash EXCEPT ![u] = amount]
      /\ \A w \in Users : w # u => cash'[w] = cash[w]
      /\ count' \in [crashes : Nat, drifts : Nat, resets : Nat]
      /\ \/ count'.drifts # 0
         \/ count' = count /\ repairs' # {} /\ (count.drifts = 0 => ~StampsInOrder(u))
  <2>1. CASE Reconcile(u)
    <3>1. count.drifts = 0 => ~StampsInOrder(u)
      BY <2>1, RepairsNeedDisorder
    <3> QED
      BY <1>0, <2>1, <3>1 DEF Reconcile, ActionsTypeOK
  <2>2. CASE Drift(u)
    <3>1. count' \in [crashes : Nat, drifts : Nat, resets : Nat] /\ count'.drifts = count.drifts + 1
          /\ count.drifts \in Nat
      BY <1>0, <2>2, FaultFacts DEF Drift, ActionsTypeOK
    <3>2. count'.drifts # 0
      BY <3>1
    <3> QED
      BY <1>0, <2>2, <3>1, <3>2 DEF Drift, records, ActionsTypeOK
  <2> QED
    BY <2>1, <2>2
<1>2. cash' = [w \in Users |-> cash'[w]]
  BY <1>0, <1>1 DEF ActionsTypeOK
<1>3. ActionsTypeOK'
  BY <1>0, <1>1, <1>2 DEF ActionsTypeOK
<1>4. \A w \in Users : Rows(w)' = Rows(w) /\ (StampsInOrder(w)' <=> StampsInOrder(w))
  BY <1>1 DEF Rows, StampsInOrder
<1>5. \A w \in Users : w # u =>
         (IsBalance(w, Len(ledger), cash[w])' <=> IsBalance(w, Len(ledger), cash[w]))
  BY <1>1 DEF Rows, IsBalance
<1>6. \A w \in Users : \A i \in Rows(w) : ledger[i].after = ledger[i].before + ledger[i].total
  BY <1>0 DEF BalancesFollow
<1>7. BalancesFollow'
  <2>1. CASE count'.drifts # 0
    BY <1>1, <1>4, <1>6, <2>1 DEF BalancesFollow
  <2>2. CASE count' = count /\ repairs' # {} /\ (count.drifts = 0 => ~StampsInOrder(u))
    BY <1>0, <1>1, <1>4, <1>5, <1>6, <2>2 DEF BalancesFollow
  <2> QED
    BY <1>1, <2>1, <2>2
<1>8. DividendsPaidOnce'
  BY <1>0, <1>1 DEF DividendsPaidOnce
<1> QED
  BY <1>3, <1>7, <1>8 DEF ActionsInv

\* What is left of the ledger when accounts are cleared: of theirs nothing, or n = 1 purchase
\* from the starting cash, and all that is of others.
Cleared(us, n) ==
    LET k == Len(ledger) + 1 IN
    /\ NotReferenced(us)
    /\ ledger' \in Seq(ToSet(ledger')) /\ Len(ledger') = Len(ledger) + n
    /\ DOMAIN ledger' = 1..(Len(ledger) + n)
    /\ \A i \in DOMAIN ledger :
          ledger'[i] = IF ledger[i].user \in us THEN Gone ELSE ledger[i]
    /\ n = 1 => \E u \in us : us = {u} /\ ledger'[k] = Row(u, "BUY", 1, -1, StartingCash, now)
    /\ cash' = [w \in Users |-> IF w \in us THEN StartingCash - n ELSE cash[w]]
    /\ shares' = [w \in Users |->
          IF w \in us THEN [quantity |-> n, opened |-> IF n = 0 THEN 0 ELSE now] ELSE shares[w]]
    /\ UNCHANGED <<records, history, threads, now, splitAt>>

\* A reset and a rebuild do that.
LEMMA ClearIsCleared ==
    ASSUME ActionsTypeOK, Reset \/ \E u \in Users : Rebuild(u)
    PROVE  \E us \in SUBSET Users : \E n \in {0, 1} : Cleared(us, n)
<1> DEFINE left(us) == [i \in DOMAIN ledger |-> IF ledger[i].user \in us THEN Gone ELSE ledger[i]]
           S == ToSet(ledger) \cup {Gone}
<1>0. /\ ledger \in Seq(ToSet(ledger)) /\ DOMAIN ledger = 1..Len(ledger) /\ Len(ledger) \in Nat
      /\ \A i \in DOMAIN ledger : ledger[i] \in ToSet(ledger)
  BY LedgerFacts DEF ToSet
<1>1. ASSUME NEW us
      PROVE  /\ left(us) \in Seq(S) /\ Len(left(us)) = Len(ledger)
             /\ \A i \in 1..Len(ledger) :
                   left(us)[i] = IF ledger[i].user \in us THEN Gone ELSE ledger[i]
  <2>1. left(us) \in [1..Len(ledger) -> S]
    BY <1>0
  <2> QED
    BY <1>0, <2>1
<1> HIDE DEF left, S
<1>2. ASSUME NEW us \in SUBSET Users, Clear(us, 0, << >>)
      PROVE  Cleared(us, 0)
  <2>1. ledger' = left(us) \o << >>
    BY <1>2 DEF Clear, left
  <2>2. ledger' = left(us)
    BY <1>1, <2>1
  <2>3. ledger' \in Seq(ToSet(ledger')) /\ DOMAIN ledger' = 1..Len(ledger') /\ Len(ledger') = Len(ledger)
    BY <1>1, <2>2, SeqOfItself
  <2>4. Len(ledger) + 0 = Len(ledger)
    BY <1>0
  <2> QED
    BY <1>0, <1>1, <1>2, <2>2, <2>3, <2>4 DEF Cleared, Clear
<1>3. ASSUME NEW u \in Users, Clear({u}, 1, <<Row(u, "BUY", 1, -1, StartingCash, now)>>)
      PROVE  Cleared({u}, 1)
  <2> DEFINE row == Row(u, "BUY", 1, -1, StartingCash, now)
             one == <<row>>
             T == S \cup {row}
  <2>1. ledger' = left({u}) \o one
    BY <1>3 DEF Clear, left
  <2>2. one \in Seq(T) /\ Len(one) = 1 /\ one[1] = row
    OBVIOUS
  <2> HIDE DEF row, one
  <2>3. /\ left({u}) \in Seq(T) /\ Len(left({u})) = Len(ledger)
        /\ \A i \in 1..Len(ledger) :
              left({u})[i] = IF ledger[i].user \in {u} THEN Gone ELSE ledger[i]
    BY <1>1
  <2> HIDE DEF T
  <2>4. PICK l \in Seq(T) :
           /\ Len(l) = Len(ledger) /\ ledger' = l \o one
           /\ \A i \in 1..Len(ledger) : l[i] = IF ledger[i].user \in {u} THEN Gone ELSE ledger[i]
    BY <2>1, <2>3
  <2>5. /\ ledger' \in Seq(ToSet(ledger')) /\ Len(ledger') = Len(ledger) + 1
        /\ \A i \in 1..Len(ledger) : ledger'[i] = IF ledger[i].user \in {u} THEN Gone ELSE ledger[i]
        /\ ledger'[Len(ledger) + 1] = row
    <3>1. /\ l \o one \in Seq(ToSet(l \o one)) /\ Len(l \o one) = Len(l) + Len(one)
          /\ \A i \in 1..Len(l) : (l \o one)[i] = l[i]
          /\ \A i \in 1..Len(one) : (l \o one)[Len(l) + i] = one[i]
      <4>1. l \in Seq(T) /\ one \in Seq(T)
        BY <2>2
      <4> QED
        BY <4>1, Concatenation
    <3> QED
      BY <1>0, <2>2, <2>4, <3>1
  <2>6. DOMAIN ledger' = 1..(Len(ledger) + 1)
    BY <2>5, SeqOfItself
  <2> QED
    BY <1>0, <1>3, <2>5, <2>6 DEF Cleared, Clear, row
<1>4. CASE Reset
  BY <1>2, <1>4 DEF Reset
<1>5. ASSUME NEW u \in Users, Rebuild(u)
      PROVE  \E us \in SUBSET Users : \E n \in {0, 1} : Cleared(us, n)
  BY <1>2, <1>3, <1>5 DEF Rebuild
<1> QED
  BY <1>4, <1>5

\* The purchase of a rebuild.
Bought(u, row) ==
    /\ row.user = u /\ row.kind = "BUY" /\ row.quantity = 1 /\ row.at = now
    /\ row.before = StartingCash /\ row.total = -1 /\ row.after = StartingCash - 1

\* The rows of accounts before and after.
LEMMA ClearedRows ==
    ASSUME ActionsTypeOK, NEW us \in SUBSET Users, NEW n \in {0, 1}, Cleared(us, n)
    PROVE  /\ \A w \in Users \ us : Rows(w)' = Rows(w) /\ \A i \in Rows(w) : ledger'[i] = ledger[i]
           /\ n = 0 => \A w \in us : Rows(w)' = {}
           /\ n = 1 => \E u \in us :
                 us = {u} /\ Rows(u)' = {Len(ledger) + 1} /\ Bought(u, ledger'[Len(ledger) + 1])
           /\ \A i \in DOMAIN ledger' : Entry(ledger'[i])
<1> DEFINE k == Len(ledger) + 1
<1>0. /\ DOMAIN ledger = 1..Len(ledger) /\ Len(ledger) \in Nat /\ now \in Nat
      /\ Gone.user = Nobody /\ Nobody \notin Users
      /\ \A i \in DOMAIN ledger : Entry(ledger[i])
  BY LedgerFacts, UsersAreFinite DEF ActionsTypeOK, Gone, Row
<1>1. /\ DOMAIN ledger' = 1..(Len(ledger) + n)
      /\ \A i \in DOMAIN ledger : ledger'[i] = IF ledger[i].user \in us THEN Gone ELSE ledger[i]
      /\ n = 1 => \E u \in us : us = {u} /\ ledger'[k] = Row(u, "BUY", 1, -1, StartingCash, now)
  BY DEF Cleared
<1>2. \A i : i \in DOMAIN ledger' <=> i \in DOMAIN ledger \/ (n = 1 /\ i = k)
  BY <1>0, <1>1
<1>3. k \notin DOMAIN ledger
  BY <1>0
<1> HIDE DEF k
<1>4. \A i \in DOMAIN ledger : /\ ledger'[i].user \notin us
                               /\ ledger[i].user \notin us => ledger'[i] = ledger[i]
                               /\ \A w \in Users : ledger'[i].user = w => ledger[i].user = w
  BY <1>0, <1>1
<1>5. CASE n = 0
  BY <1>0, <1>1, <1>2, <1>4, <1>5 DEF Rows, Entry
<1>6. CASE n = 1
  <2>1. PICK u \in us : us = {u} /\ ledger'[k] = Row(u, "BUY", 1, -1, StartingCash, now)
    BY <1>1, <1>6
  <2>2. Bought(u, ledger'[k]) /\ ledger'[k].user = u /\ ledger'[k].at = now
    BY <2>1, DaysAssumption DEF Row, Bought
  <2>3. Rows(u)' = {k}
    BY <1>2, <1>4, <1>6, <2>1, <2>2 DEF Rows
  <2>4. \A w \in Users \ us : Rows(w)' = Rows(w) /\ \A i \in Rows(w) : ledger'[i] = ledger[i]
    BY <1>2, <1>4, <1>6, <2>1, <2>2 DEF Rows
  <2>5. \A i \in DOMAIN ledger' : Entry(ledger'[i])
    BY <1>0, <1>1, <1>2, <2>1, <2>2 DEF Entry
  <2> QED
    BY <1>6, <2>1, <2>2, <2>3, <2>4, <2>5 DEF k
<1> QED
  BY <1>5, <1>6

\* Accounts are cleared, while nothing refers to a row of theirs.
LEMMA ClearKeeps ==
    ASSUME ActionsInv, NEW us \in SUBSET Users, NEW n \in {0, 1}, Cleared(us, n),
           count' \in [crashes : Nat, drifts : Nat, resets : Nat], count'.drifts = count.drifts
    PROVE  ActionsInv'
<1> DEFINE k == Len(ledger) + 1
<1>0. /\ ActionsTypeOK /\ BalancesFollow /\ DividendsPaidOnce
      /\ DOMAIN ledger = 1..Len(ledger) /\ Len(ledger) \in Nat /\ StartingCash \in Nat
      /\ \A u \in Users : Rows(u) \subseteq 1..Len(ledger)
  BY LedgerFacts, DaysAssumption DEF ActionsInv
<1>1. /\ \A w \in Users \ us : Rows(w)' = Rows(w) /\ \A i \in Rows(w) : ledger'[i] = ledger[i]
      /\ n = 0 => \A w \in us : Rows(w)' = {}
      /\ n = 1 => \E u \in us :
            us = {u} /\ Rows(u)' = {Len(ledger) + 1} /\ Bought(u, ledger'[Len(ledger) + 1])
      /\ \A i \in DOMAIN ledger' : Entry(ledger'[i])
  BY <1>0, ClearedRows
<1>2. /\ ledger' \in Seq(ToSet(ledger')) /\ Len(ledger') = Len(ledger) + n
      /\ DOMAIN ledger' = 1..(Len(ledger) + n)
      /\ \A i \in DOMAIN ledger : ledger'[i] = IF ledger[i].user \in us THEN Gone ELSE ledger[i]
      /\ cash' = [w \in Users |-> IF w \in us THEN StartingCash - n ELSE cash[w]]
      /\ actions' = actions /\ reversals' = reversals /\ repairs' = repairs
      /\ threads' = threads /\ now' = now
  BY DEF Cleared, records
<1>3. ActionsTypeOK'
  <2>1. cash' = [w \in Users |-> cash'[w]]
    BY <1>2
  <2> QED
    BY <1>0, <1>1, <1>2, <2>1 DEF ActionsTypeOK
<1>4. ASSUME NEW w \in Users
      PROVE  /\ count.drifts = 0 /\ (StampsInOrder(w)' \/ repairs = {}) => IsBalance(w, Len(ledger), cash[w])'
             /\ \A i \in Rows(w)' :
                   /\ count.drifts = 0 /\ repairs = {} => IsBalance(w, i - 1, ledger[i].before)'
                   /\ ledger'[i].after = ledger'[i].before + ledger'[i].total
  <2>1. CASE w \notin us
    <3>1. Rows(w)' = Rows(w) /\ (\A i \in Rows(w) : ledger'[i] = ledger[i]) /\ cash'[w] = cash[w]
      BY <1>1, <1>2, <2>1
    <3>2. StampsInOrder(w)' <=> StampsInOrder(w)
      BY <3>1 DEF StampsInOrder
    <3>3. \A i \in Rows(w) : i <= Len(ledger') <=> i <= Len(ledger)
      BY <1>0, <1>2
    <3>4. IsBalance(w, Len(ledger), cash[w])' <=> IsBalance(w, Len(ledger), cash[w])
      BY <1>0, <1>2, <3>1, <3>3 DEF IsBalance
    <3>5. \A i \in Rows(w) :
             IsBalance(w, i - 1, ledger[i].before)' <=> IsBalance(w, i - 1, ledger[i].before)
      BY <3>1 DEF IsBalance
    <3> QED
      BY <1>0, <3>1, <3>2, <3>4, <3>5 DEF BalancesFollow
  <2>2. CASE w \in us /\ n = 0
    <3>1. Rows(w)' = {} /\ cash'[w] = StartingCash
      BY <1>0, <1>1, <1>2, <2>2
    <3> QED
      BY <3>1 DEF IsBalance
  <2>3. CASE w \in us /\ n = 1
    <3>1. /\ Rows(w)' = {k} /\ cash'[w] = StartingCash - 1 /\ Len(ledger') = k
          /\ Bought(w, ledger'[k])
      BY <1>1, <1>2, <2>3
    <3>2. /\ ledger'[k].before = StartingCash /\ ledger'[k].total = -1
          /\ ledger'[k].after = StartingCash - 1
      BY <3>1 DEF Bought
    <3>3. ledger'[k].after = cash'[w] /\ ledger'[k].after = ledger'[k].before + ledger'[k].total
      BY <1>0, <3>1, <3>2
    <3>4. k \in Nat /\ k > k - 1 /\ ~(k <= k - 1) /\ ~(k > k)
      BY <1>0
    <3> HIDE DEF k
    <3>5. IsBalance(w, Len(ledger), cash[w])'
      BY <3>1, <3>3, <3>4 DEF IsBalance
    <3>6. \A i \in Rows(w)' : IsBalance(w, i - 1, ledger[i].before)'
      BY <3>1, <3>2, <3>4 DEF IsBalance
    <3> QED
      BY <3>1, <3>3, <3>5, <3>6
  <2> QED
    BY <2>1, <2>2, <2>3
<1>5. BalancesFollow'
  BY <1>2, <1>4 DEF BalancesFollow
<1>6. DividendsPaidOnce'
  <2> DEFINE OfKind(kind) == {i \in DOMAIN ledger : ledger[i].kind = kind}
  <2>1. ASSUME NEW i \in DOMAIN ledger', ledger'[i].kind \in {"DIVIDEND", "DIVIDEND_REVERSAL"}
        PROVE  i \in DOMAIN ledger /\ ledger'[i] = ledger[i] /\ ledger[i].user \notin us
    <3>1. i \in DOMAIN ledger \/ (n = 1 /\ i = k)
      BY <1>0, <1>2
    <3>2. ~(n = 1 /\ i = k)
      BY <1>1, <2>1 DEF Bought
    <3>3. Gone.kind = "DELETED"
      BY DEF Gone, Row
    <3> QED
      BY <1>2, <2>1, <3>1, <3>2, <3>3
  <2>2. \A i \in DOMAIN ledger : ledger[i].user \notin us => i \in DOMAIN ledger' /\ ledger'[i] = ledger[i]
    BY <1>0, <1>2
  <2>3. /\ OfKind("DIVIDEND") # {} => "dividend" \in actions
        /\ \A i, j \in OfKind("DIVIDEND") : ledger[i].user = ledger[j].user => i = j
        /\ \A r, s \in reversals : r.original = s.original => r = s
        /\ \A i \in OfKind("DIVIDEND_REVERSAL") : \E r \in reversals :
              /\ r.reversal = i /\ r.original \in OfKind("DIVIDEND")
              /\ ledger[r.original].user = ledger[i].user
    BY <1>0 DEF DividendsPaidOnce
  <2>4. OfKind("DIVIDEND")' # {} => "dividend" \in actions'
    BY <1>2, <2>1, <2>3
  <2>5. \A i, j \in OfKind("DIVIDEND")' : ledger'[i].user = ledger'[j].user => i = j
    BY <2>1, <2>3
  <2>6. ASSUME NEW i \in OfKind("DIVIDEND_REVERSAL")'
        PROVE  \E r \in reversals' : /\ r.reversal = i /\ r.original \in OfKind("DIVIDEND")'
                                     /\ ledger'[r.original].user = ledger'[i].user
    <3>1. i \in OfKind("DIVIDEND_REVERSAL") /\ ledger'[i] = ledger[i] /\ ledger[i].user \notin us
      BY <2>1
    <3>2. PICK r \in reversals : /\ r.reversal = i /\ r.original \in OfKind("DIVIDEND")
                                 /\ ledger[r.original].user = ledger[i].user
      BY <2>3, <3>1
    <3> QED
      BY <1>2, <2>2, <3>1, <3>2
  <2> QED
    BY <1>2, <2>3, <2>4, <2>5, <2>6 DEF DividendsPaidOnce
<1> QED
  BY <1>3, <1>5, <1>6 DEF ActionsInv

\* At the start there is nothing.
LEMMA ActionsStarts == ActionsInit => ActionsInv
<1> SUFFICES ASSUME ActionsInit PROVE ActionsInv
  OBVIOUS
<1>1. << >> \in Seq({}) /\ DOMAIN << >> = {} /\ Len(<< >>) = 0
  OBVIOUS
<1>2. ledger = << >> /\ ledger \in Seq(ToSet(ledger)) /\ DOMAIN ledger = {} /\ \A u \in Users : Rows(u) = {}
  BY <1>1, SeqOfItself DEF ActionsInit, Rows
<1>3. ActionsTypeOK
  BY <1>2 DEF ActionsTypeOK, ActionsInit
<1>4. BalancesFollow
  BY <1>2 DEF BalancesFollow, IsBalance, ActionsInit
<1>5. DividendsPaidOnce
  BY <1>2 DEF DividendsPaidOnce, ActionsInit
<1> QED
  BY <1>3, <1>4, <1>5 DEF ActionsInv

\* A dividend is taken back, with a record of it.
LEMMA ReverseKeeps ==
    ASSUME ActionsInv, ReverseDividend
    PROVE  /\ ActionsInv'
           /\ Len(ledger) <= Len(ledger') /\ \A i \in 1..Len(ledger) : ledger'[i] = ledger[i]
           /\ \A i \in (Len(ledger) + 1)..Len(ledger') : ledger'[i].kind = "DIVIDEND_REVERSAL"
<1>0. ActionsTypeOK /\ BalancesFollow /\ DividendsPaidOnce /\ now \in Nat /\ DOMAIN ledger = 1..Len(ledger)
      /\ Len(ledger) \in Nat
  BY LedgerFacts DEF ActionsInv, ActionsTypeOK
<1> DEFINE k == Len(ledger) + 1
           OfKind(kind) == {i \in DOMAIN ledger : ledger[i].kind = kind}
           record(i) == [original |-> i, reversal |-> k]
<1>1. \E i \in DOMAIN ledger : \E stamp \in 0..now :
         /\ ledger[i].kind = "DIVIDEND" /\ NotReversed(i)
         /\ Post(ledger[i].user, "DIVIDEND_REVERSAL", ledger[i].quantity, -ledger[i].total, stamp)
         /\ reversals' = reversals \cup {record(i)}
  BY DEF ReverseDividend
<1>2. PICK i \in DOMAIN ledger, stamp \in 0..now :
         /\ ledger[i].kind = "DIVIDEND" /\ NotReversed(i)
         /\ Post(ledger[i].user, "DIVIDEND_REVERSAL", ledger[i].quantity, -ledger[i].total, stamp)
         /\ reversals' = reversals \cup {record(i)}
  BY <1>1
<1>3. ledger[i].user \in Users /\ stamp \in Nat
  BY <1>0, <1>2 DEF ActionsTypeOK, Entry, Gone, Row
<1>4. /\ cash' = [w \in Users |-> cash'[w]] /\ ledger' \in Seq(ToSet(ledger'))
      /\ \A j \in DOMAIN ledger' : Entry(ledger'[j])
      /\ Len(ledger') = k /\ \A j \in 1..Len(ledger) : ledger'[j] = ledger[j]
      /\ ledger'[k].kind = "DIVIDEND_REVERSAL" /\ ledger'[k].user = ledger[i].user
      /\ \A w \in Users : Booked(w)
  BY <1>0, <1>2, <1>3, PostBooks
<1>5. /\ actions' = actions /\ repairs' = repairs /\ threads' = threads /\ now' = now /\ count' = count
  BY DEF ReverseDividend
<1>6. ActionsTypeOK'
  BY <1>0, <1>4, <1>5 DEF ActionsTypeOK
<1>7. BalancesFollow'
  BY <1>0, <1>4, <1>5, <1>6, BookedRowsFollow
<1>8. DOMAIN ledger' = 1..k
  BY <1>4, <1>6, SeqOfItself DEF ActionsTypeOK
<1>9. /\ OfKind("DIVIDEND")' = OfKind("DIVIDEND")
      /\ OfKind("DIVIDEND_REVERSAL")' = OfKind("DIVIDEND_REVERSAL") \cup {k}
      /\ \A j \in DOMAIN ledger : ledger'[j] = ledger[j]
  BY <1>0, <1>4, <1>8
<1>10. DividendsPaidOnce'
  <2>1. OfKind("DIVIDEND")' # {} => "dividend" \in actions'
    BY <1>0, <1>5, <1>9 DEF DividendsPaidOnce
  <2>2. \A j, l \in OfKind("DIVIDEND")' : ledger'[j].user = ledger'[l].user => j = l
    BY <1>0, <1>9 DEF DividendsPaidOnce
  <2>3. \A r, s \in reversals' : r.original = s.original => r = s
    BY <1>0, <1>2 DEF DividendsPaidOnce, NotReversed
  <2>4. ASSUME NEW j \in OfKind("DIVIDEND_REVERSAL")'
        PROVE  \E r \in reversals' : /\ r.reversal = j /\ r.original \in OfKind("DIVIDEND")'
                                     /\ ledger'[r.original].user = ledger'[j].user
    <3>1. CASE j = k
      <4>1. record(i) \in reversals' /\ record(i).reversal = j /\ record(i).original = i
        BY <1>2, <3>1
      <4>2. i \in OfKind("DIVIDEND")' /\ ledger'[i].user = ledger'[j].user
        BY <1>2, <1>4, <1>9, <3>1
      <4> QED
        BY <4>1, <4>2
    <3>2. CASE j \in OfKind("DIVIDEND_REVERSAL")
      <4>1. PICK r \in reversals : /\ r.reversal = j /\ r.original \in OfKind("DIVIDEND")
                                   /\ ledger[r.original].user = ledger[j].user
        BY <1>0, <3>2 DEF DividendsPaidOnce
      <4> QED
        BY <1>2, <1>9, <3>2, <4>1
    <3> QED
      BY <1>9, <3>1, <3>2
  <2> QED
    BY <2>1, <2>2, <2>3, <2>4 DEF DividendsPaidOnce
<1>11. Len(ledger) <= Len(ledger') /\ \A j \in (Len(ledger) + 1)..Len(ledger') : j = k
  BY <1>0, <1>4
<1> QED
  BY <1>4, <1>6, <1>7, <1>10, <1>11 DEF ActionsInv

\* A finite set, in some order.
LEMMA SetToSeqFacts ==
    ASSUME NEW S, IsFiniteSet(S)
    PROVE  /\ Cardinality(S) \in Nat
           /\ \A i \in 1..Cardinality(S) : SetToSeq(S)[i] \in S
           /\ \A x \in S : \E i \in 1..Cardinality(S) :
                 \A j \in 1..Cardinality(S) : SetToSeq(S)[j] = x <=> j = i
<1> DEFINE n == Cardinality(S)
           q == SetToSeq(S)
<1>1. n \in Nat /\ ExistsBijection(1..n, S)
  BY FS_CardinalityType
<1>2. PICK f : f \in Bijection(1..n, S)
  BY <1>1, Fun_ExistsBij
<1>3. f \in [1..n -> S] /\ IsInjective(f)
  BY <1>2 DEF Bijection, Injection, IsInjective
<1>4. q \in [1..n -> S] /\ IsInjective(q)
  BY <1>3 DEF SetToSeq
<1> HIDE DEF n, q
<1>5. q \in Injection(1..n, S)
  BY <1>4 DEF Injection, IsInjective
<1>6. IsFiniteSet(1..n) /\ Cardinality(1..n) = Cardinality(S)
  <2>1. IsFiniteSet(1..n) /\ Cardinality(1..n) = n
    BY <1>1, FS_Interval
  <2> QED
    BY <2>1 DEF n
<1>7. q \in Surjection(1..n, S)
  BY <1>5, <1>6, FS_Injection
<1>8. ASSUME NEW x \in S PROVE \E i \in 1..n : \A j \in 1..n : q[j] = x <=> j = i
  BY <1>4, <1>7, <1>8 DEF Surjection, IsInjective
<1> QED
  BY <1>1, <1>4, <1>8 DEF n, q

\* The dividend is paid: a row for everyone entitled to it, and who is not gets none.
LEMMA DividendKeeps ==
    ASSUME ActionsInv, ApplyDividend
    PROVE  /\ ActionsInv'
           /\ Len(ledger) <= Len(ledger') /\ \A i \in 1..Len(ledger) : ledger'[i] = ledger[i]
           /\ \A i \in (Len(ledger) + 1)..Len(ledger') : ledger'[i].kind = "DIVIDEND"
<1>0. ActionsTypeOK /\ BalancesFollow /\ DividendsPaidOnce /\ DOMAIN ledger = 1..Len(ledger)
      /\ Len(ledger) \in Nat /\ ledger \in Seq(ToSet(ledger)) /\ threads["scan"].read \in Nat
  BY LedgerFacts DEF ActionsInv, ActionsTypeOK
<1>1. /\ reversals' = reversals /\ repairs' = repairs /\ now' = now /\ count' = count
      /\ actions \subseteq actions' /\ Goto("scan", "idle", 0)
  BY DEF ApplyDividend
<1>2. threads' = [r \in {"scan", "gate", "refresh"} |-> threads'[r]] /\ threads'["scan"].read \in Nat
  BY <1>0, <1>1, GotoFacts
<1>3. CASE "dividend" \in actions
  <2>1. cash' = cash /\ ledger' = ledger
    BY <1>3 DEF ApplyDividend, Unclaimed
  <2>2. ActionsTypeOK'
    BY <1>0, <1>1, <1>2, <2>1 DEF ActionsTypeOK
  <2>3. Len(ledger) <= Len(ledger') /\ (Len(ledger) + 1)..Len(ledger') = {}
    BY <1>0, <2>1
  <2> QED
    BY <1>1, <2>1, <2>2, <2>3, QuietKeeps
<1>4. CASE "dividend" \notin actions
  <2> DEFINE holders == {u \in Users : Entitled(u) > 0}
             m == Cardinality(holders)
             h(i) == SetToSeq(holders)[i]
             row(u) == Row(u, "DIVIDEND", Entitled(u), Entitled(u), cash[u], threads["scan"].read)
             paid == [i \in 1..m |-> row(h(i))]
             S == ToSet(ledger) \cup {row(u) : u \in Users}
  <2>1. /\ actions' = actions \cup {"dividend"} /\ cash' = Credited(holders) /\ ledger' = ledger \o paid
    BY <1>4 DEF ApplyDividend, Unclaimed
  <2>2. /\ m \in Nat /\ \A i \in 1..m : h(i) \in holders
        /\ \A u \in holders : \E i \in 1..m : \A j \in 1..m : h(j) = u <=> j = i
    <3>1. IsFiniteSet(holders)
      BY UsersAreFinite, FS_Subset
    <3> HIDE DEF holders
    <3> QED
      BY <3>1, SetToSeqFacts
  <2>3. \A u : /\ row(u).user = u /\ row(u).kind = "DIVIDEND" /\ row(u).at = threads["scan"].read
               /\ row(u).before = cash[u] /\ row(u).total = Entitled(u)
               /\ row(u).after = cash[u] + Entitled(u)
    BY DEF Row
  <2>4. \A u \in Users : /\ u \in holders => cash'[u] = cash[u] + Entitled(u)
                         /\ u \notin holders => cash'[u] = cash[u]
    BY <2>1 DEF Credited
  <2>5. cash' = [u \in Users |-> cash'[u]]
    BY <2>1 DEF Credited
  <2>6. holders \subseteq Users
    OBVIOUS
  <2> HIDE DEF holders, row
  <2>7. paid \in Seq(S) /\ Len(paid) = m /\ \A i \in 1..m : paid[i] = row(h(i))
    BY <2>2, <2>6
  <2> HIDE DEF paid, h
  <2>8. /\ ledger' \in Seq(ToSet(ledger')) /\ Len(ledger') = Len(ledger) + m
        /\ \A i \in 1..Len(ledger) : ledger'[i] = ledger[i]
        /\ \A i \in 1..m : ledger'[Len(ledger) + i] = row(h(i))
    <3>1. ledger \in Seq(S)
      BY <1>0
    <3> HIDE DEF S, m
    <3>2. /\ ledger \o paid \in Seq(ToSet(ledger \o paid)) /\ Len(ledger \o paid) = Len(ledger) + Len(paid)
          /\ \A i \in 1..Len(ledger) : (ledger \o paid)[i] = ledger[i]
          /\ \A i \in 1..Len(paid) : (ledger \o paid)[Len(ledger) + i] = paid[i]
      BY <2>7, <3>1, Concatenation
    <3> QED
      BY <2>1, <2>7, <3>2
  <2> HIDE DEF m
  <2>9. DOMAIN ledger' = 1..(Len(ledger) + m)
    BY <2>8, SeqOfItself
  <2>10. \A i \in (Len(ledger) + 1)..Len(ledger') :
            /\ i - Len(ledger) \in 1..m
            /\ ledger'[i] = row(h(i - Len(ledger))) /\ h(i - Len(ledger)) \in holders
    <3> SUFFICES ASSUME NEW i \in (Len(ledger) + 1)..Len(ledger')
                 PROVE  /\ i - Len(ledger) \in 1..m
                        /\ ledger'[i] = row(h(i - Len(ledger))) /\ h(i - Len(ledger)) \in holders
      OBVIOUS
    <3>1. i - Len(ledger) \in 1..m /\ Len(ledger) + (i - Len(ledger)) = i
      BY <1>0, <2>2, <2>8
    <3> QED
      BY <2>2, <2>8, <3>1
  <2>11. \A i \in DOMAIN ledger' :
            Entry(ledger'[i]) /\ (i > Len(ledger) => ledger'[i].user \in Users)
    <3> SUFFICES ASSUME NEW i \in 1..(Len(ledger) + m)
                 PROVE  Entry(ledger'[i]) /\ (i > Len(ledger) => ledger'[i].user \in Users)
      BY <2>9
    <3>1. CASE i \in 1..Len(ledger)
      BY <1>0, <2>8, <3>1 DEF ActionsTypeOK
    <3>2. CASE i \in (Len(ledger) + 1)..Len(ledger')
      BY <1>0, <2>3, <2>6, <2>10, <3>2 DEF Entry
    <3> QED
      BY <1>0, <2>2, <2>8, <3>1, <3>2
  <2>12. ActionsTypeOK'
    BY <1>0, <1>1, <1>2, <2>5, <2>8, <2>11 DEF ActionsTypeOK
  <2>13. ASSUME NEW u \in Users PROVE Booked(u)
    <3>1. CASE u \notin holders
      BY <2>3, <2>4, <2>10, <3>1 DEF Booked
    <3>2. CASE u \in holders
      <4>1. PICK i \in 1..m : \A j \in 1..m : h(j) = u <=> j = i
        BY <2>2, <3>2
      <4> DEFINE k == Len(ledger) + i
      <4>2. k \in (Len(ledger) + 1)..Len(ledger') /\ k - Len(ledger) = i
        BY <1>0, <2>2, <2>8
      <4>3. ledger'[k] = row(u)
        BY <2>8, <4>1
      <4>4. ASSUME NEW j \in (Len(ledger) + 1)..Len(ledger')
            PROVE  ledger'[j].user = u <=> j = k
        <5>1. ledger'[j].user = h(j - Len(ledger)) /\ j - Len(ledger) \in 1..m
          BY <2>3, <2>10
        <5>2. j - Len(ledger) = i <=> j = k
          BY <1>0, <2>2, <2>8
        <5> QED
          BY <4>1, <5>1, <5>2
      <4> HIDE DEF k
      <4> QED
        BY <2>3, <2>4, <3>2, <4>2, <4>3, <4>4 DEF Booked
    <3> QED
      BY <3>1, <3>2
  <2>14. BalancesFollow'
    <3>1. Len(ledger) <= Len(ledger')
      BY <1>0, <2>2, <2>8
    <3> QED
      BY <1>0, <1>1, <2>8, <2>12, <2>13, <3>1, BookedRowsFollow
  <2>15. DividendsPaidOnce'
    <3> DEFINE OfKind(kind) == {i \in DOMAIN ledger : ledger[i].kind = kind}
    <3>1. OfKind("DIVIDEND") = {}
      BY <1>0, <1>4 DEF DividendsPaidOnce
    <3>2. \A i \in DOMAIN ledger' : \/ i \in DOMAIN ledger /\ ledger'[i] = ledger[i]
                                    \/ i \in (Len(ledger) + 1)..Len(ledger')
      BY <1>0, <2>2, <2>8, <2>9
    <3>3. OfKind("DIVIDEND")' \subseteq (Len(ledger) + 1)..Len(ledger')
      BY <3>1, <3>2
    <3>4. OfKind("DIVIDEND_REVERSAL")' \subseteq OfKind("DIVIDEND_REVERSAL")
      BY <2>3, <2>10, <3>2
    <3>5. OfKind("DIVIDEND_REVERSAL") = {}
      BY <1>0, <3>1 DEF DividendsPaidOnce
    <3>6. ASSUME NEW i \in OfKind("DIVIDEND")', NEW j \in OfKind("DIVIDEND")',
                 ledger'[i].user = ledger'[j].user
          PROVE  i = j
      <4>1. Booked(ledger'[i].user)
        BY <1>0, <2>11, <2>13, <3>3
      <4> QED
        BY <3>3, <3>6, <4>1 DEF Booked
    <3>7. "dividend" \in actions'
      BY <2>1
    <3> QED
      BY <1>0, <1>1, <3>4, <3>5, <3>6, <3>7 DEF DividendsPaidOnce
  <2>16. /\ Len(ledger) <= Len(ledger')
         /\ \A i \in (Len(ledger) + 1)..Len(ledger') : ledger'[i].kind = "DIVIDEND"
    BY <1>0, <2>2, <2>3, <2>8, <2>10
  <2> QED
    BY <2>8, <2>12, <2>14, <2>15, <2>16 DEF ActionsInv
<1> QED
  BY <1>3, <1>4

\* What a step may not do to the corrections: the body of CorrectionsAreSound.
CorrectionsStay ==
    /\ repairs \subseteq repairs' /\ reversals \subseteq reversals'
    /\ \A i \in Referenced : \A j \in Rows(ledger[i].user) :
          j \in DOMAIN ledger' /\ ledger'[j] = ledger[j]
    /\ repairs' # repairs /\ count.drifts = 0 => \E u \in Users : ~StampsInOrder(u)

\* Where nothing is taken from the ledger, nothing a correction names is.
LEMMA NamedRowsStay ==
    ASSUME ActionsInv, ActionsInv',
           Len(ledger) <= Len(ledger'), \A i \in 1..Len(ledger) : ledger'[i] = ledger[i]
    PROVE  \A i \in Referenced : \A j \in Rows(ledger[i].user) :
              j \in DOMAIN ledger' /\ ledger'[j] = ledger[j]
<1>1. /\ DOMAIN ledger = 1..Len(ledger) /\ Len(ledger) \in Nat
      /\ DOMAIN ledger' = 1..Len(ledger') /\ Len(ledger') \in Nat
  BY SeqOfItself DEF ActionsInv, ActionsTypeOK
<1>2. \A j \in DOMAIN ledger : j \in DOMAIN ledger' /\ ledger'[j] = ledger[j]
  BY <1>1
<1> QED
  BY <1>2 DEF Rows

\* Every step of the corporate actions keeps the invariant and the corrections.
LEMMA ActionsStep ==
    ASSUME ActionsInv, ActionsNext \/ UNCHANGED actionVars
    PROVE  ActionsInv' /\ CorrectionsStay
<1>0. ActionsTypeOK /\ Len(ledger) \in Nat
  BY LedgerFacts DEF ActionsInv
<1>1. ASSUME NEW u \in Users, Buy(u) \/ Sell(u)
      PROVE  ActionsInv' /\ CorrectionsStay
  <2>1. reversals' = reversals /\ repairs' = repairs
    BY <1>1 DEF Buy, Sell, records
  <2>2. \E kind, quantity, total : Post(u, kind, quantity, total, now)
    BY <1>1 DEF Buy, Sell
  <2>3. Len(ledger) <= Len(ledger') /\ \A i \in 1..Len(ledger) : ledger'[i] = ledger[i]
    BY <1>0, <2>2, PostBooks DEF ActionsTypeOK
  <2>4. ActionsInv'
    BY <1>1, TradesKeep
  <2> QED
    BY <2>1, <2>3, <2>4, NamedRowsStay DEF CorrectionsStay
<1>2. ASSUME NEW u \in Users, Drift(u)
      PROVE  ActionsInv' /\ CorrectionsStay
  <2>1. ActionsInv'
    BY <1>2, CorrectionsKeep
  <2>2. ledger' = ledger /\ reversals' = reversals /\ repairs' = repairs
    BY <1>2 DEF Drift, records
  <2> QED
    BY <1>0, <2>1, <2>2, NamedRowsStay DEF CorrectionsStay
<1>3. ASSUME NEW u \in Users, Reconcile(u)
      PROVE  ActionsInv' /\ CorrectionsStay
  <2>1. ActionsInv' /\ (count.drifts = 0 => ~StampsInOrder(u))
    BY <1>3, CorrectionsKeep, RepairsNeedDisorder
  <2>2. ledger' = ledger /\ reversals' = reversals /\ repairs \subseteq repairs'
    BY <1>3 DEF Reconcile
  <2> QED
    BY <1>0, <2>1, <2>2, NamedRowsStay DEF CorrectionsStay
<1>4. CASE ReverseDividend
  <2>1. repairs' = repairs /\ reversals \subseteq reversals'
    BY <1>4 DEF ReverseDividend
  <2>2. /\ ActionsInv' /\ Len(ledger) <= Len(ledger')
        /\ \A i \in 1..Len(ledger) : ledger'[i] = ledger[i]
    BY <1>4, ReverseKeeps
  <2> QED
    BY <2>1, <2>2, NamedRowsStay DEF CorrectionsStay
<1>5. CASE ApplyDividend
  <2>1. repairs' = repairs /\ reversals' = reversals
    BY <1>5 DEF ApplyDividend
  <2>2. /\ ActionsInv' /\ Len(ledger) <= Len(ledger')
        /\ \A i \in 1..Len(ledger) : ledger'[i] = ledger[i]
    BY <1>5, DividendKeeps
  <2> QED
    BY <2>1, <2>2, NamedRowsStay DEF CorrectionsStay
<1>6. CASE Reset \/ \E u \in Users : Rebuild(u)
  <2>1. count' \in [crashes : Nat, drifts : Nat, resets : Nat] /\ count'.drifts = count.drifts
    BY <1>0, <1>6, FaultFacts DEF Reset, Rebuild
  <2>2. PICK us \in SUBSET Users, n \in {0, 1} : Cleared(us, n)
    BY <1>0, <1>6, ClearIsCleared
  <2>3. ActionsInv'
    BY <2>1, <2>2, ClearKeeps
  <2>4. \A i \in Referenced : \A j \in Rows(ledger[i].user) :
           j \in DOMAIN ledger' /\ ledger'[j] = ledger[j]
    BY <1>0, <2>2, LedgerFacts DEF Cleared, NotReferenced, Rows
  <2> QED
    BY <2>2, <2>3, <2>4 DEF CorrectionsStay, Cleared, records
<1>7. CASE \/ ScanSplits \/ ConfirmSplit \/ FetchHistory \/ StoreHistory \/ ScanDividends \/ Tick \/ Crash
           \/ \E t \in {"scan", "gate"} : ApplySplit(t) \/ AdjustHistory(t)
           \/ UNCHANGED actionVars
  <2>1. ActionsInv' /\ ledger' = ledger /\ reversals' = reversals /\ repairs' = repairs
    BY <1>7, QuietSteps
  <2> QED
    BY <1>0, <2>1, NamedRowsStay DEF CorrectionsStay
<1> QED
  BY <1>1, <1>2, <1>3, <1>4, <1>5, <1>6, <1>7 DEF ActionsNext

\* The invariant says what LedgerExplainsCash asks.
LEMMA LedgerExplained == ActionsInv => LedgerExplainsCash
<1> SUFFICES ASSUME ActionsInv, count.drifts = 0, repairs = {}, NEW u \in Users
             PROVE  /\ IsBalance(u, Len(ledger), cash[u])
                    /\ \A i \in Rows(u) : /\ IsBalance(u, i - 1, ledger[i].before)
                                          /\ ledger[i].after = ledger[i].before + ledger[i].total
                    /\ \A i, j \in Rows(u) : i # j /\ ledger[i].kind = ledger[j].kind =>
                          ledger[i].kind \notin {"DIVIDEND", "DIVIDEND_REVERSAL"}
  BY DEF LedgerExplainsCash
<1>1. /\ IsBalance(u, Len(ledger), cash[u])
      /\ \A i \in Rows(u) : /\ IsBalance(u, i - 1, ledger[i].before)
                            /\ ledger[i].after = ledger[i].before + ledger[i].total
  BY DEF ActionsInv, BalancesFollow
<1>2. ASSUME NEW i \in Rows(u), NEW j \in Rows(u), i # j, ledger[i].kind = ledger[j].kind
      PROVE  ledger[i].kind \notin {"DIVIDEND", "DIVIDEND_REVERSAL"}
  <2> DEFINE OfKind(kind) == {k \in DOMAIN ledger : ledger[k].kind = kind}
  <2>1. /\ i \in OfKind(ledger[i].kind) /\ j \in OfKind(ledger[i].kind)
        /\ ledger[i].user = u /\ ledger[j].user = u
    BY <1>2 DEF Rows
  <2>2. /\ \A k, l \in OfKind("DIVIDEND") : ledger[k].user = ledger[l].user => k = l
        /\ \A r, s \in reversals : r.original = s.original => r = s
        /\ \A k \in OfKind("DIVIDEND_REVERSAL") : \E r \in reversals :
              /\ r.reversal = k /\ r.original \in OfKind("DIVIDEND")
              /\ ledger[r.original].user = ledger[k].user
    BY DEF ActionsInv, DividendsPaidOnce
  <2>3. ledger[i].kind # "DIVIDEND"
    BY <1>2, <2>1, <2>2
  <2>4. ASSUME ledger[i].kind = "DIVIDEND_REVERSAL" PROVE FALSE
    <3>1. PICK r \in reversals : /\ r.reversal = i /\ r.original \in OfKind("DIVIDEND")
                                 /\ ledger[r.original].user = u
      BY <2>1, <2>2, <2>4
    <3>2. PICK s \in reversals : /\ s.reversal = j /\ s.original \in OfKind("DIVIDEND")
                                 /\ ledger[s.original].user = u
      BY <2>1, <2>2, <2>4
    <3>3. r.original = s.original
      BY <2>2, <3>1, <3>2
    <3>4. r = s
      BY <2>2, <3>3
    <3> QED
      BY <1>2, <3>1, <3>2, <3>4
  <2> QED
    BY <2>3, <2>4
<1> QED
  BY <1>1, <1>2

\* Price bars: the refresh that stores adjusted ones and the adjustment of the old ones
\* exclude each other by the day the bars are adjusted through.
LEMMA BarsStep ==
    ASSUME ActionsTypeOK, BarsAreKnown, ActionsNext \/ UNCHANGED actionVars
    PROVE  BarsAreKnown'
<1>0. /\ now \in Nat /\ SplitDay \in Nat /\ history.through \in Int /\ history.divided \in {0, 1}
      /\ threads = [t \in {"scan", "gate", "refresh"} |-> threads[t]]
  BY DaysAssumption DEF ActionsTypeOK, BarsAreKnown
<1>1. CASE /\ history' = history /\ now' \in {now, now + 1}
           /\ threads'["refresh"] = threads["refresh"] \/ threads'["refresh"].pc = "idle"
  <2>1. now >= SplitDay => now' >= SplitDay
    BY <1>0, <1>1
  <2>2. At("refresh", "store")' => At("refresh", "store") /\ threads'["refresh"] = threads["refresh"]
    BY <1>1 DEF At
  <2> QED
    BY <1>1, <2>1, <2>2 DEF BarsAreKnown, Unadjusted
<1>2. CASE FetchHistory
  <2>1. /\ history' = history /\ now' = now
        /\ threads'["refresh"].read = IF now >= SplitDay THEN 1 ELSE 0
    BY <1>0, <1>2 DEF FetchHistory, Goto
  <2> QED
    BY <2>1 DEF BarsAreKnown, Unadjusted
<1>3. CASE StoreHistory
  <2>1. /\ history' = [divided |-> threads["refresh"].read, through |-> now]
        /\ At("refresh", "store") /\ threads'["refresh"].pc = "idle"
    BY <1>0, <1>3 DEF StoreHistory, Goto
  <2>2. threads["refresh"].read = 0 \/ (threads["refresh"].read = 1 /\ now >= SplitDay)
    BY <2>1 DEF BarsAreKnown
  <2> QED
    BY <1>0, <2>1, <2>2 DEF BarsAreKnown, Unadjusted, At
<1>4. ASSUME NEW t \in {"scan", "gate"}, AdjustHistory(t)
      PROVE  BarsAreKnown'
  <2>1. /\ now' = now /\ threads'["refresh"] = threads["refresh"]
        /\ history' = IF Unadjusted THEN [divided |-> history.divided + 1, through |-> SplitDay] ELSE history
    BY <1>0, <1>4 DEF AdjustHistory, Goto
  <2>2. history' \in [divided : {0, 1}, through : Int] /\ ~Unadjusted'
    BY <1>0, <2>1 DEF BarsAreKnown, Unadjusted
  <2> QED
    BY <2>1, <2>2 DEF BarsAreKnown, At
<1>5. \/ /\ history' = history /\ now' \in {now, now + 1}
         /\ threads'["refresh"] = threads["refresh"] \/ threads'["refresh"].pc = "idle"
      \/ FetchHistory \/ StoreHistory \/ \E t \in {"scan", "gate"} : AdjustHistory(t)
  <2>1. ASSUME NEW t \in {"scan", "gate"}, NEW label, NEW read, Goto(t, label, read)
        PROVE  threads'["refresh"] = threads["refresh"]
    BY <1>0, <2>1 DEF Goto
  <2>2. CASE ScanSplits \/ ConfirmSplit \/ ScanDividends \/ ApplyDividend
    <3>1. \E t \in {"scan", "gate"} : \E label, read : Goto(t, label, read)
      BY <2>2 DEF ScanSplits, ConfirmSplit, ScanDividends, ApplyDividend
    <3> QED
      BY <2>1, <2>2, <3>1 DEF ScanSplits, ConfirmSplit, ScanDividends, ApplyDividend
  <2>3. ASSUME NEW t \in {"scan", "gate"}, ApplySplit(t)
        PROVE  history' = history /\ now' = now /\ threads'["refresh"] = threads["refresh"]
    <3>1. \E label, read : Goto(t, label, read)
      BY <2>3 DEF ApplySplit
    <3> QED
      BY <2>1, <2>3, <3>1 DEF ApplySplit
  <2>4. CASE Crash
    BY <1>0, <2>4 DEF Crash
  <2>5. CASE \/ \E u \in Users : Buy(u) \/ Sell(u) \/ Drift(u) \/ Reconcile(u) \/ Rebuild(u)
             \/ ReverseDividend \/ Reset \/ Tick \/ UNCHANGED actionVars
    BY <2>5 DEF Buy, Sell, Drift, Reconcile, Rebuild, Clear, ReverseDividend, Reset, Tick, actionVars
  <2> QED
    BY <2>2, <2>3, <2>4, <2>5 DEF ActionsNext
<1> QED
  BY <1>1, <1>2, <1>3, <1>4, <1>5

\* Before the first fetch there is nothing to divide twice.
LEMMA BarsStart == ActionsInit => BarsAreKnown
  BY DEF ActionsInit, BarsAreKnown, At, Unadjusted
-----------------------------------------------------------------------------
(* Holdings: what the ledger makes of them, as a sum *)

\* What holds at 0 and, below n, at the successor of every number it holds at.
LEMMA CountingUp ==
    ASSUME NEW n \in Nat, NEW T, 0 \in T, \A i \in 0..(n - 1) : i \in T => i + 1 \in T
    PROVE  \A i \in 0..n : i \in T
<1> SUFFICES ASSUME (0..n) \ T # {} PROVE FALSE
  OBVIOUS
<1>1. (0..n) \ T \in SUBSET Nat
  OBVIOUS
<1>2. PICK x \in (0..n) \ T : \A y \in (0..n) \ T : x <= y
  BY <1>1, LeastNumber
<1>3. x # 0 /\ x - 1 \in 0..(n - 1) /\ x - 1 \in 0..n /\ ~(x <= x - 1) /\ (x - 1) + 1 = x
  <2>1. x # 0
    OBVIOUS
  <2> QED
    BY <2>1
<1> QED
  BY <1>2, <1>3

\* The recursion of Sum is well founded: the sums of the beginnings of a sequence.
LEMMA SumRuns ==
    ASSUME NEW s \in Seq(Int)
    PROVE  \E r \in [0..Len(s) -> Int] :
              r[0] = 0 /\ (\A n \in 1..Len(s) : r[n] = r[n - 1] + s[n]) /\ Sum(s) = r[Len(s)]
<1> DEFINE Runs(m, r) == /\ r \in [0..m -> Int] /\ r[0] = 0
                         /\ \A n \in 1..m : r[n] = r[n - 1] + s[n]
           T == {m \in 0..Len(s) : \E r : Runs(m, r)}
           N == Len(s)
<1>0. N \in Nat /\ \A i \in 1..N : s[i] \in Int
  OBVIOUS
<1>1. 0 \in T
  <2> DEFINE r == [n \in 0..0 |-> 0]
  <2>1. Runs(0, r)
    OBVIOUS
  <2> HIDE DEF Runs, r
  <2> QED
    BY <1>0, <2>1
<1>2. ASSUME NEW m \in 0..(N - 1), m \in T PROVE m + 1 \in T
  <2>1. PICK r : Runs(m, r)
    BY <1>2
  <2> DEFINE q == [n \in 0..(m + 1) |-> IF n \in 0..m THEN r[n] ELSE r[m] + s[n]]
  <2>2. /\ \A n \in 0..m : q[n] = r[n] /\ n \in 0..(m + 1)
        /\ q[m + 1] = r[m] + s[m + 1] /\ m + 1 \in 1..N
    BY <1>0
  <2>3. q \in [0..(m + 1) -> Int]
    BY <1>0, <2>1
  <2>4. ASSUME NEW n \in 1..(m + 1) PROVE q[n] = q[n - 1] + s[n]
    <3>1. CASE n \in 1..m
      <4>1. n \in 0..m /\ n - 1 \in 0..m
        BY <3>1
      <4> HIDE DEF q
      <4> QED
        BY <2>1, <2>2, <3>1, <4>1
    <3>2. CASE n = m + 1
      <4>1. n - 1 = m /\ m \in 0..m
        BY <3>2
      <4> HIDE DEF q
      <4> QED
        BY <2>2, <3>2, <4>1
    <3> QED
      BY <3>1, <3>2
  <2>5. q[0] = 0
    <3> HIDE DEF q
    <3> QED
      BY <2>1, <2>2
  <2> HIDE DEF q
  <2>6. Runs(m + 1, q)
    BY <2>3, <2>4, <2>5
  <2> HIDE DEF Runs
  <2> QED
    BY <2>2, <2>6
<1>3. N \in T
  <2> HIDE DEF T, N
  <2>1. \A i \in 0..N : i \in T
    BY <1>0, <1>1, <1>2, CountingUp
  <2> QED
    BY <1>0, <2>1
<1>4. PICK r : Runs(N, r)
  BY <1>3
<1> DEFINE Fix(f) == f = [n \in 0..N |-> IF n = 0 THEN 0 ELSE f[n - 1] + s[n]]
           f == CHOOSE g : Fix(g)
<1>5. Fix(r)
  <2>1. r = [n \in 0..N |-> r[n]]
    BY <1>4
  <2>2. \A n \in 0..N : r[n] = IF n = 0 THEN 0 ELSE r[n - 1] + s[n]
    BY <1>0, <1>4
  <2> QED
    BY <2>1, <2>2
<1>6. Fix(f)
  <2> HIDE DEF Fix
  <2> QED
    BY <1>5
<1>7. Sum(s) = f[N]
  BY DEF Sum
<1> HIDE DEF f
<1>8. \A n \in 0..N : f[n] = IF n = 0 THEN 0 ELSE f[n - 1] + s[n]
  BY <1>6
<1>9. f[N] = r[N]
  <2> DEFINE U == {n \in 0..N : f[n] = r[n]}
  <2>1. 0 \in U
    BY <1>0, <1>4, <1>8
  <2>2. ASSUME NEW n \in 0..(N - 1), n \in U PROVE n + 1 \in U
    <3>1. n + 1 \in 1..N /\ n + 1 \in 0..N /\ n + 1 # 0 /\ (n + 1) - 1 = n
      BY <1>0
    <3>2. r[n + 1] = r[(n + 1) - 1] + s[n + 1]
      BY <1>4, <3>1
    <3>3. f[n + 1] = f[(n + 1) - 1] + s[n + 1]
      BY <1>8, <3>1
    <3> QED
      BY <2>2, <3>1, <3>2, <3>3
  <2> HIDE DEF U, N
  <2>3. \A n \in 0..N : n \in U
    BY <1>0, <2>1, <2>2, CountingUp
  <2> QED
    BY <1>0, <2>3 DEF U
<1> QED
  BY <1>4, <1>7, <1>9

\* A sequence that begins with another one, each number taken once or twice, and goes on
\* with zeros, or with one number.
LEMMA SumsCompare ==
    ASSUME NEW s \in Seq(Int), NEW t \in Seq(Int), NEW c \in {1, 2}, Len(s) <= Len(t),
           \A i \in 1..Len(s) : t[i] = c * s[i]
    PROVE  /\ Sum(s) \in Int
           /\ (\A i \in (Len(s) + 1)..Len(t) : t[i] = 0) => Sum(t) = c * Sum(s)
           /\ Len(t) = Len(s) + 1 => Sum(t) = c * Sum(s) + t[Len(t)]
<1> DEFINE M == Len(s)
           N == Len(t)
<1>0. /\ M \in Nat /\ N \in Nat /\ M <= N
      /\ \A i \in 1..M : s[i] \in Int
      /\ \A i \in 1..N : t[i] \in Int
  OBVIOUS
<1>1. PICK r \in [0..M -> Int] :
         r[0] = 0 /\ (\A n \in 1..M : r[n] = r[n - 1] + s[n]) /\ Sum(s) = r[M]
  BY SumRuns
<1>2. PICK q \in [0..N -> Int] :
         q[0] = 0 /\ (\A n \in 1..N : q[n] = q[n - 1] + t[n]) /\ Sum(t) = q[N]
  BY SumRuns
<1>3. \A i \in 1..M : t[i] = c * s[i]
  OBVIOUS
<1> HIDE DEF M, N
<1>4. q[M] = c * r[M]
  <2> DEFINE U == {n \in 0..M : q[n] = c * r[n]}
  <2>1. 0 \in U
    BY <1>0, <1>1, <1>2
  <2>2. ASSUME NEW n \in 0..(M - 1), n \in U PROVE n + 1 \in U
    <3>1. n + 1 \in 1..M /\ n + 1 \in 1..N /\ (n + 1) - 1 = n /\ n + 1 \in 0..M /\ n \in 0..M
      BY <1>0
    <3>2. r[n + 1] = r[n] + s[n + 1] /\ q[n + 1] = q[n] + t[n + 1]
      BY <1>1, <1>2, <3>1
    <3>3. q[n] = c * r[n] /\ t[n + 1] = c * s[n + 1] /\ r[n] \in Int /\ s[n + 1] \in Int
      BY <1>0, <1>1, <1>3, <2>2, <3>1
    <3>4. \A a, b \in Int : c * a + c * b = c * (a + b)
      OBVIOUS
    <3>5. q[n + 1] = c * r[n + 1]
      BY <3>2, <3>3, <3>4
    <3> QED
      BY <3>1, <3>5
  <2> HIDE DEF U
  <2>3. \A n \in 0..M : n \in U
    BY <1>0, <2>1, <2>2, CountingUp
  <2> QED
    BY <1>0, <2>3 DEF U
<1>5. ASSUME \A i \in (M + 1)..N : t[i] = 0 PROVE q[N] = q[M]
  <2> DEFINE U == {n \in 0..(N - M) : q[M + n] = q[M]}
  <2>1. 0 \in U
    BY <1>0
  <2>2. ASSUME NEW n \in 0..((N - M) - 1), n \in U PROVE n + 1 \in U
    <3>1. /\ M + (n + 1) \in 1..N /\ M + (n + 1) \in (M + 1)..N /\ (M + (n + 1)) - 1 = M + n
          /\ n + 1 \in 0..(N - M) /\ M + n \in 0..N
      BY <1>0
    <3>2. q[M + (n + 1)] = q[M + n] + t[M + (n + 1)]
      BY <1>2, <3>1
    <3>3. t[M + (n + 1)] = 0 /\ q[M + n] \in Int
      BY <1>2, <1>5, <3>1
    <3>4. q[M + (n + 1)] = q[M + n] /\ q[M + n] = q[M]
      BY <2>2, <3>2, <3>3
    <3> QED
      BY <3>1, <3>4
  <2> HIDE DEF U
  <2>3. \A n \in 0..(N - M) : n \in U
    <3>1. N - M \in Nat
      BY <1>0
    <3> QED
      BY <2>1, <2>2, <3>1, CountingUp
  <2>4. N - M \in 0..(N - M) /\ M + (N - M) = N
    BY <1>0
  <2> QED
    BY <2>3, <2>4 DEF U
<1>6. r[M] \in Int
  BY <1>0, <1>1
<1>7. ASSUME N = M + 1 PROVE q[N] = q[M] + t[N]
  <2>1. N \in 1..N /\ N - 1 = M
    BY <1>0, <1>7
  <2> QED
    BY <1>2, <2>1
<1> QED
  BY <1>1, <1>2, <1>4, <1>5, <1>6, <1>7 DEF M, N

\* What a user owns by the ledger is a sum over a sequence of whole numbers.
Weighted(u) == [i \in DOMAIN ledger |-> (IF i \in Early(u) THEN 2 ELSE 1) * Gained(u, i)]

QuantitiesOK == \A i \in DOMAIN ledger : ledger[i].kind \in {"BUY", "SELL"} => ledger[i].quantity \in Nat

\* A sequence of numbers of which some are doubled.
LEMMA DoubledNumbers ==
    ASSUME NEW n \in Nat, NEW f, NEW E, NEW s, \A i \in 1..n : f[i] \in Int,
           s = [i \in 1..n |-> (IF i \in E THEN 2 ELSE 1) * f[i]]
    PROVE  /\ s \in Seq(Int) /\ Len(s) = n
           /\ \A i \in 1..n : s[i] = IF i \in E THEN 2 * f[i] ELSE f[i]
<1>1. \A i \in 1..n : (IF i \in E THEN 2 ELSE 1) * f[i] \in Int
  OBVIOUS
<1>2. s \in [1..n -> Int]
  BY <1>1
<1>3. \A i \in 1..n : s[i] = IF i \in E THEN 2 * f[i] ELSE f[i]
  OBVIOUS
<1> QED
  BY <1>2, <1>3

\* Rows that are added after the split was applied count as they are, and those of others do
\* not matter.
LEMMA OwnedGrows ==
    ASSUME ActionsTypeOK, ActionsTypeOK', QuantitiesOK, QuantitiesOK', NEW u \in Users,
           splitAt' = splitAt, splitAt \in Nat, splitAt <= Len(ledger), Len(ledger) <= Len(ledger'),
           \A i \in 1..Len(ledger) :
               ledger[i].user = u \/ ledger'[i].user = u => ledger'[i] = ledger[i]
    PROVE  /\ Early(u)' = Early(u) /\ Late(u)' = Late(u) /\ OwnedByLedger(u) \in Int
           /\ (\A i \in (Len(ledger) + 1)..Len(ledger') : Gained(u, i)' = 0) =>
                 OwnedByLedger(u)' = OwnedByLedger(u)
           /\ Len(ledger') = Len(ledger) + 1 =>
                 \A k : k = Len(ledger) + 1 => OwnedByLedger(u)' = OwnedByLedger(u) + Gained(u, k)'
<1> DEFINE n == Len(ledger)
           s == Weighted(u)
           t == Weighted(u)'
<1>0. /\ DOMAIN ledger = 1..n /\ n \in Nat /\ DOMAIN ledger' = 1..Len(ledger') /\ Len(ledger') \in Nat
  BY SeqOfItself DEF ActionsTypeOK
<1>1. Early(u)' = Early(u) /\ Late(u)' = Late(u)
  <2>1. \A i : i \in Rows(u)' /\ i <= splitAt <=> i \in Rows(u) /\ i <= splitAt
    BY <1>0 DEF Rows
  <2>2. \A i \in Rows(u) : ledger'[i] = ledger[i]
    BY <1>0 DEF Rows
  <2> QED
    BY <2>1, <2>2 DEF Early, Late
<1>2. Early(u) \subseteq 1..n
  BY <1>0 DEF Early, Rows
<1>3. /\ s \in Seq(Int) /\ Len(s) = n /\ OwnedByLedger(u) = Sum(s)
      /\ \A i \in 1..n : s[i] = IF i \in Early(u) THEN 2 * Gained(u, i) ELSE Gained(u, i)
  <2> DEFINE f == [i \in 1..n |-> Gained(u, i)]
  <2>1. \A i \in 1..n : Gained(u, i) \in Int /\ f[i] = Gained(u, i)
    BY <1>0 DEF Gained, QuantitiesOK
  <2>2. s = [i \in 1..n |-> (IF i \in Early(u) THEN 2 ELSE 1) * f[i]]
    BY <1>0, <2>1 DEF Weighted
  <2> HIDE DEF f, n, s
  <2>3. /\ s \in Seq(Int) /\ Len(s) = n
        /\ \A i \in 1..n : s[i] = IF i \in Early(u) THEN 2 * f[i] ELSE f[i]
    BY <1>0, <2>1, <2>2, DoubledNumbers
  <2>4. OwnedByLedger(u) = Sum(s)
    BY DEF OwnedByLedger, Weighted, s
  <2> QED
    BY <2>1, <2>3, <2>4
<1>4. /\ t \in Seq(Int) /\ Len(t) = Len(ledger') /\ OwnedByLedger(u)' = Sum(t)
      /\ \A i \in 1..Len(ledger') :
            t[i] = IF i \in Early(u)' THEN 2 * Gained(u, i)' ELSE Gained(u, i)'
  <2> DEFINE m == Len(ledger')
             f == [i \in 1..m |-> Gained(u, i)']
             E == Early(u)'
  <2>1. \A i \in 1..m : Gained(u, i)' \in Int /\ f[i] = Gained(u, i)'
    BY <1>0 DEF Gained, QuantitiesOK
  <2>2. t = [i \in 1..m |-> (IF i \in E THEN 2 ELSE 1) * f[i]]
    BY <1>0, <2>1 DEF Weighted
  <2> HIDE DEF f, m, t, E
  <2>3. /\ t \in Seq(Int) /\ Len(t) = m
        /\ \A i \in 1..m : t[i] = IF i \in E THEN 2 * f[i] ELSE f[i]
    BY <1>0, <2>1, <2>2, DoubledNumbers DEF m
  <2>4. OwnedByLedger(u)' = Sum(t)
    BY DEF OwnedByLedger, Weighted, t
  <2> QED
    BY <2>1, <2>3, <2>4 DEF m, E
<1>5. \A i \in 1..n : Gained(u, i)' = Gained(u, i)
  BY DEF Gained
<1>6. \A i \in 1..n : i \in 1..Len(ledger')
  BY <1>0
<1>7. \A i \in (n + 1)..Len(ledger') : i \in 1..Len(ledger') /\ i \notin Early(u)'
  BY <1>0, <1>1, <1>2
<1> HIDE DEF s, t
<1>8. ASSUME NEW i \in 1..n PROVE s[i] \in Int /\ t[i] = s[i] /\ t[i] = 1 * s[i]
  <2>1. t[i] = s[i]
    BY <1>1, <1>3, <1>4, <1>5, <1>6
  <2>2. s[i] \in Int
    BY <1>3
  <2> QED
    BY <2>1, <2>2
<1>9. \A i \in (n + 1)..Len(ledger') : t[i] = Gained(u, i)'
  BY <1>4, <1>7
<1>10. /\ Sum(s) \in Int
       /\ (\A i \in (n + 1)..Len(t) : t[i] = 0) => Sum(t) = 1 * Sum(s)
       /\ Len(t) = n + 1 => Sum(t) = 1 * Sum(s) + t[Len(t)]
  <2>1. Len(s) <= Len(t) /\ \A i \in 1..Len(s) : t[i] = 1 * s[i]
    BY <1>3, <1>4, <1>8
  <2>2. /\ Sum(s) \in Int
        /\ (\A i \in (Len(s) + 1)..Len(t) : t[i] = 0) => Sum(t) = 1 * Sum(s)
        /\ Len(t) = Len(s) + 1 => Sum(t) = 1 * Sum(s) + t[Len(t)]
    BY <1>3, <1>4, <2>1, SumsCompare
  <2> QED
    BY <1>3, <2>2
<1>11. 1 * Sum(s) = Sum(s)
  BY <1>10
<1>12. (\A i \in (n + 1)..Len(ledger') : Gained(u, i)' = 0) => Sum(t) = Sum(s)
  BY <1>4, <1>9, <1>10, <1>11
<1>13. ASSUME Len(ledger') = n + 1, NEW k, k = n + 1
       PROVE  Sum(t) = Sum(s) + Gained(u, k)'
  <2>1. k \in (n + 1)..Len(ledger')
    BY <1>0, <1>13
  <2>2. t[k] = Gained(u, k)'
    BY <1>9, <2>1
  <2> QED
    BY <1>4, <1>10, <1>11, <1>13, <2>2
<1>14. OwnedByLedger(u) = Sum(s) /\ OwnedByLedger(u)' = Sum(t) /\ Sum(s) \in Int
  BY <1>3, <1>4, <1>10
<1> HIDE DEF s, t
<1> QED
  BY <1>1, <1>12, <1>13, <1>14

\* The split is applied: what was traded before its day counts twice from now on.
LEMMA OwnedSplits ==
    ASSUME ActionsTypeOK, QuantitiesOK, NEW u \in Users, ledger' = ledger,
           splitAt = 0, splitAt' = Len(ledger)
    PROVE  /\ Early(u) = {} /\ Late(u) = {} /\ OwnedByLedger(u) \in Int
           /\ Early(u)' = {i \in Rows(u) : ledger[i].at < SplitDay}
           /\ Late(u)' = {i \in Rows(u) : ledger[i].at >= SplitDay}
           /\ Early(u)' = {} => OwnedByLedger(u)' = OwnedByLedger(u)
           /\ Late(u)' = {} => OwnedByLedger(u)' = 2 * OwnedByLedger(u)
<1> DEFINE n == Len(ledger)
           E == Early(u)'
           s == Weighted(u)
           t == Weighted(u)'
           f == [i \in 1..n |-> Gained(u, i)]
<1>0. DOMAIN ledger = 1..n /\ n \in Nat /\ Rows(u)' = Rows(u) /\ Rows(u) \subseteq 1..n
      /\ \A i \in Rows(u) : ledger[i].at \in Nat
  BY LedgerFacts, RowsAreEntries DEF Rows
<1>1. /\ Early(u) = {} /\ Late(u) = {}
      /\ E = {i \in Rows(u) : ledger[i].at < SplitDay}
      /\ Late(u)' = {i \in Rows(u) : ledger[i].at >= SplitDay}
  BY <1>0 DEF Early, Late
<1>2. \A i \in 1..n : Gained(u, i) \in Int /\ f[i] = Gained(u, i) /\ Gained(u, i)' = Gained(u, i)
  BY <1>0 DEF Gained, QuantitiesOK
<1>3. \A i \in 1..n : i \notin Rows(u) => Gained(u, i) = 0
  BY <1>0 DEF Gained, Rows
<1>4. s = [i \in 1..n |-> (IF i \in {} THEN 2 ELSE 1) * f[i]]
  BY <1>0, <1>1, <1>2 DEF Weighted
<1>5. t = [i \in 1..n |-> (IF i \in E THEN 2 ELSE 1) * f[i]]
  BY <1>0, <1>2 DEF Weighted
<1>6. OwnedByLedger(u) = Sum(s) /\ OwnedByLedger(u)' = Sum(t)
  BY DEF OwnedByLedger, Weighted
<1> HIDE DEF f, s, t, E
<1>7. s \in Seq(Int) /\ Len(s) = n /\ \A i \in 1..n : s[i] = IF i \in {} THEN 2 * f[i] ELSE f[i]
  BY <1>0, <1>2, <1>4, DoubledNumbers
<1>8. t \in Seq(Int) /\ Len(t) = n /\ \A i \in 1..n : t[i] = IF i \in E THEN 2 * f[i] ELSE f[i]
  BY <1>0, <1>2, <1>5, DoubledNumbers
<1> HIDE DEF n
<1>9. (Len(s) + 1)..Len(t) = {} /\ Len(s) <= Len(t)
  BY <1>0, <1>7, <1>8
<1>10. ASSUME E = {} PROVE Sum(t) = Sum(s) /\ Sum(s) \in Int
  <2>1. \A i \in 1..Len(s) : t[i] = 1 * s[i]
    BY <1>2, <1>7, <1>8, <1>10
  <2>2. Sum(t) = 1 * Sum(s) /\ Sum(s) \in Int
    BY <1>7, <1>8, <1>9, <2>1, SumsCompare
  <2> QED
    BY <2>2
<1>11. ASSUME Late(u)' = {} PROVE Sum(t) = 2 * Sum(s) /\ Sum(s) \in Int
  <2>1. ASSUME NEW i \in 1..n PROVE t[i] = 2 * s[i]
    <3>1. CASE i \in Rows(u)
      <4>1. i \in E
        BY <1>0, <1>1, <1>11, <3>1, DaysAssumption
      <4> QED
        BY <1>7, <1>8, <4>1
    <3>2. CASE i \notin Rows(u)
      <4>1. f[i] = 0
        BY <1>2, <1>3, <3>2
      <4> QED
        BY <1>7, <1>8, <4>1
    <3> QED
      BY <3>1, <3>2
  <2> QED
    BY <1>7, <1>8, <1>9, <2>1, SumsCompare
<1>12. Sum(s) \in Int
  <2>1. \A i \in 1..Len(s) : s[i] = 1 * s[i]
    BY <1>2, <1>7
  <2> QED
    BY <1>7, <2>1, SumsCompare
<1> QED
  BY <1>1, <1>6, <1>10, <1>11, <1>12 DEF E

\* Steps that leave the holdings alone and book neither purchase nor sale.
LEMMA HoldingsRest ==
    ASSUME ActionsTypeOK, ActionsTypeOK', HoldingsFollow, shares' = shares, splitAt' = splitAt,
           actions \subseteq actions', Len(ledger) <= Len(ledger'), \A i \in 1..Len(ledger) : ledger'[i] = ledger[i],
           \A i \in (Len(ledger) + 1)..Len(ledger') : ledger'[i].kind \notin {"BUY", "SELL"}
    PROVE  HoldingsFollow'
<1>0. /\ DOMAIN ledger = 1..Len(ledger) /\ Len(ledger) \in Nat
      /\ DOMAIN ledger' = 1..Len(ledger') /\ Len(ledger') \in Nat
      /\ splitAt \in Nat
  BY SeqOfItself DEF ActionsTypeOK, HoldingsFollow
<1>1. \A i \in DOMAIN ledger' : \/ i \in DOMAIN ledger /\ ledger'[i] = ledger[i]
                                \/ i \in (Len(ledger) + 1)..Len(ledger')
  BY <1>0
<1>2. QuantitiesOK /\ QuantitiesOK'
  BY <1>1 DEF HoldingsFollow, QuantitiesOK
<1>3. \A u \in Users : Rows(u) \subseteq Rows(u)' /\ \A i \in Rows(u) : ledger'[i] = ledger[i]
  BY <1>0 DEF Rows
<1>4. \A u \in Users : Dated(u)'
  BY <1>3 DEF HoldingsFollow, Dated
<1>5. ASSUME NEW u \in Users, Early(u)' = {} \/ Late(u)' = {}
      PROVE  shares'[u].quantity = OwnedByLedger(u)'
  <2>1. \A i \in (Len(ledger) + 1)..Len(ledger') : Gained(u, i)' = 0
    BY DEF Gained
  <2>2. splitAt <= Len(ledger)
    BY DEF HoldingsFollow
  <2>3. /\ Early(u)' = Early(u) /\ Late(u)' = Late(u)
        /\ OwnedByLedger(u)' = OwnedByLedger(u)
    BY <1>0, <1>2, <2>1, <2>2, OwnedGrows
  <2> QED
    BY <1>5, <2>3 DEF HoldingsFollow
<1>6. splitAt <= Len(ledger')
  BY <1>0 DEF HoldingsFollow
<1> QED
  BY <1>0, <1>2, <1>4, <1>5, <1>6 DEF HoldingsFollow, QuantitiesOK

\* A trade moves the holding by what its row says.
LEMMA TradesMoveHoldings ==
    ASSUME ActionsInv, ActionsTypeOK', HoldingsFollow, NEW u \in Users, Buy(u) \/ Sell(u)
    PROVE  HoldingsFollow'
<1> DEFINE held == shares[u].quantity
           rest(n) == IF n = held THEN [quantity |-> 0, opened |-> 0]
                      ELSE [quantity |-> held - n, opened |-> shares[u].opened]
<1> PICK k : k = Len(ledger) + 1
  OBVIOUS
<1>0. /\ ActionsTypeOK /\ now \in Nat /\ DOMAIN ledger = 1..Len(ledger) /\ Len(ledger) \in Nat
      /\ DOMAIN ledger' = 1..Len(ledger') /\ splitAt \in Nat
      /\ \A w \in Users : shares[w].quantity \in Nat /\ shares[w].opened \in Nat
  BY SeqOfItself DEF ActionsInv, ActionsTypeOK, HoldingsFollow
<1>1. /\ actions' = actions /\ count' = count /\ splitAt' = splitAt
  BY DEF Buy, Sell, records
<1>2. \E kind, quantity, total :
         /\ Post(u, kind, quantity, total, now) /\ quantity \in Nat
         /\ \/ /\ kind = "BUY"
               /\ shares' = [shares EXCEPT ![u] =
                     [quantity |-> held + quantity, opened |-> IF held = 0 THEN now ELSE shares[u].opened]]
            \/ /\ kind = "SELL" /\ quantity <= held
               /\ shares' = [shares EXCEPT ![u] = rest(quantity)]
  <2>1. shares \in [Users -> [quantity : Nat, opened : Nat]]
    BY DEF HoldingsFollow
  <2>2. CASE Buy(u)
    <3>1. /\ Post(u, "BUY", 1, -1, now)
          /\ shares' = [shares EXCEPT ![u] =
                [quantity |-> held + 1, opened |-> IF held = 0 THEN now ELSE shares[u].opened]]
      BY <2>1, <2>2 DEF Buy
    <3> QED
      BY <3>1
  <2>3. CASE Sell(u)
    <3>1. PICK n \in 1..held :
             /\ Post(u, "SELL", n, n, now)
             /\ shares' = [shares EXCEPT ![u] = rest(n)]
      BY <2>1, <2>3 DEF Sell
    <3>2. n \in Nat /\ n <= held
      BY <1>0
    <3> HIDE DEF rest
    <3> QED
      BY <3>1, <3>2
  <2> QED
    BY <2>2, <2>3
<1>3. PICK kind, quantity, total :
         /\ Post(u, kind, quantity, total, now) /\ quantity \in Nat
         /\ \/ /\ kind = "BUY"
               /\ shares' = [shares EXCEPT ![u] =
                     [quantity |-> held + quantity, opened |-> IF held = 0 THEN now ELSE shares[u].opened]]
            \/ /\ kind = "SELL" /\ quantity <= held
               /\ shares' = [shares EXCEPT ![u] = rest(quantity)]
  BY <1>2
<1>4. /\ Len(ledger') = k /\ \A i \in 1..Len(ledger) : ledger'[i] = ledger[i]
      /\ ledger'[k].kind = kind /\ ledger'[k].user = u
      /\ ledger'[k].quantity = quantity /\ ledger'[k].at = now
  <2>1. Post(u, kind, quantity, total, now)
    BY <1>3
  <2> QED
    BY <1>0, <2>1, PostBooks
<1>5. /\ shares' \in [Users -> [quantity : Nat, opened : Nat]]
      /\ \A w \in Users : w # u => shares'[w] = shares[w]
      /\ kind = "BUY" => /\ shares'[u].quantity = held + quantity
                         /\ shares'[u].opened = IF held = 0 THEN now ELSE shares[u].opened
      /\ kind # "BUY" => /\ kind = "SELL" /\ shares'[u].quantity = held - quantity
                         /\ shares'[u].quantity > 0 => shares'[u].opened = shares[u].opened /\ held > 0
  <2>1. shares \in [Users -> [quantity : Nat, opened : Nat]]
    BY DEF HoldingsFollow
  <2>2. CASE kind = "BUY"
    BY <1>0, <1>3, <2>1, <2>2
  <2>3. CASE kind = "SELL"
    <3> DEFINE new == rest(quantity)
    <3>1. shares' = [shares EXCEPT ![u] = new] /\ quantity <= held
      BY <1>3, <2>3
    <3>2. /\ new \in [quantity : Nat, opened : Nat] /\ new.quantity = held - quantity
          /\ new.quantity > 0 => new.opened = shares[u].opened /\ held > 0
      BY <1>0, <1>3, <3>1
    <3> HIDE DEF new
    <3> QED
      BY <2>1, <2>3, <3>1, <3>2
  <2> QED
    BY <1>3, <2>2, <2>3
<1> HIDE DEF held
<1>6. \A i \in DOMAIN ledger' : (i \in DOMAIN ledger /\ ledger'[i] = ledger[i]) \/ i = k
  BY <1>0, <1>4
<1>7. k \in DOMAIN ledger' /\ k \notin DOMAIN ledger
  BY <1>0, <1>4
<1>8. QuantitiesOK /\ QuantitiesOK'
  BY <1>3, <1>4, <1>6 DEF HoldingsFollow, QuantitiesOK
<1>9. \A w \in Users : Rows(w) \subseteq Rows(w)' /\ \A i \in Rows(w) : ledger'[i] = ledger[i]
  BY <1>0, <1>4 DEF Rows
<1>10. \A w \in Users : Dated(w)'
  <2> SUFFICES ASSUME NEW w \in Users, shares'[w].quantity > 0
               PROVE  \E i \in Rows(w)' : ledger'[i].kind = "BUY" /\ ledger'[i].at = shares'[w].opened
    BY DEF Dated
  <2>1. CASE shares'[w].opened = shares[w].opened /\ shares[w].quantity > 0
    BY <1>9, <2>1 DEF HoldingsFollow, Dated
  <2>2. CASE w = u /\ kind = "BUY" /\ shares'[u].opened = now
    <3>1. k \in Rows(w)'
      BY <1>4, <1>7, <2>2 DEF Rows
    <3> QED
      BY <1>4, <2>2, <3>1
  <2>3. held # 0 => held > 0
    BY <1>0 DEF held
  <2> QED
    BY <1>5, <2>1, <2>2, <2>3 DEF held
<1>11. /\ \A w \in Users : w # u => Gained(w, k)' = 0
       /\ Gained(u, k)' = IF kind = "BUY" THEN quantity ELSE -quantity
  BY <1>4, <1>5 DEF Gained
<1>12. ASSUME NEW w \in Users, Early(w)' = {} \/ Late(w)' = {}
       PROVE  shares'[w].quantity = OwnedByLedger(w)'
  <2>1. splitAt <= Len(ledger)
    BY DEF HoldingsFollow
  <2>2. Len(ledger) <= Len(ledger') /\ Len(ledger') = Len(ledger) + 1
    BY <1>0, <1>4
  <2>3. /\ Early(w)' = Early(w) /\ Late(w)' = Late(w) /\ OwnedByLedger(w) \in Int
        /\ OwnedByLedger(w)' = OwnedByLedger(w) + Gained(w, k)'
    BY <1>0, <1>1, <1>4, <1>8, <2>1, <2>2, OwnedGrows
  <2>4. shares[w].quantity = OwnedByLedger(w)
    BY <1>12, <2>3 DEF HoldingsFollow
  <2>5. CASE w # u
    BY <1>5, <1>11, <2>3, <2>4, <2>5
  <2>6. CASE w = u
    BY <1>0, <1>3, <1>5, <1>11, <2>3, <2>4, <2>6 DEF held
  <2> QED
    BY <2>5, <2>6
<1>13. splitAt <= Len(ledger')
  BY <1>0, <1>4 DEF HoldingsFollow
<1>14. "split" \notin actions => splitAt = 0
  BY DEF HoldingsFollow
<1> QED
  BY <1>0, <1>1, <1>5, <1>8, <1>10, <1>12, <1>13, <1>14 DEF HoldingsFollow, QuantitiesOK

\* The split doubles what was held before its day, which is what the ledger makes of it from
\* now on: the row that the holding is dated with tells the two kinds of holdings apart.
LEMMA SplitMovesHoldings ==
    ASSUME ActionsTypeOK, ActionsTypeOK', HoldingsFollow, NEW t, ApplySplit(t)
    PROVE  HoldingsFollow'
<1>1. ledger' = ledger /\ count' = count /\ actions \subseteq actions'
  BY DEF ApplySplit
<1>2. Len(ledger) \in Nat /\ (Len(ledger) + 1)..Len(ledger) = {}
  BY LedgerFacts
<1>3. CASE "split" \in actions
  <2>1. shares' = shares /\ splitAt' = splitAt
    BY <1>3 DEF ApplySplit, Unclaimed
  <2> QED
    BY <1>1, <1>2, <2>1, HoldingsRest
<1>4. CASE "split" \notin actions
  <2>1. /\ "split" \in actions' /\ splitAt' = Len(ledger) /\ splitAt = 0
        /\ shares' = [u \in Users |-> IF PreSplit(u) THEN [shares[u] EXCEPT !.quantity = 2 * shares[u].quantity]
                                                     ELSE shares[u]]
    BY <1>4 DEF ApplySplit, Unclaimed, HoldingsFollow
  <2>2. shares \in [Users -> [quantity : Nat, opened : Nat]]
    BY DEF HoldingsFollow
  <2>3. \A u \in Users :
           /\ shares'[u] \in [quantity : Nat, opened : Nat] /\ shares'[u].opened = shares[u].opened
           /\ shares'[u].quantity = IF PreSplit(u) THEN 2 * shares[u].quantity ELSE shares[u].quantity
    BY <2>1, <2>2
  <2>4. shares' \in [Users -> [quantity : Nat, opened : Nat]]
    BY <2>1, <2>3
  <2>5. \A u \in Users : Rows(u)' = Rows(u)
    BY <1>1 DEF Rows
  <2>6. ASSUME NEW u \in Users PROVE Dated(u)'
    <3>1. shares'[u].quantity > 0 => shares[u].quantity > 0
      BY <2>2, <2>3 DEF PreSplit
    <3> QED
      BY <1>1, <2>3, <2>5, <3>1 DEF HoldingsFollow, Dated
  <2>7. ASSUME NEW u \in Users, Early(u)' = {} \/ Late(u)' = {}
        PROVE  shares'[u].quantity = OwnedByLedger(u)'
    <3>1. /\ Early(u) = {} /\ Late(u) = {} /\ OwnedByLedger(u) \in Int
          /\ Early(u)' = {i \in Rows(u) : ledger[i].at < SplitDay}
          /\ Late(u)' = {i \in Rows(u) : ledger[i].at >= SplitDay}
          /\ Early(u)' = {} => OwnedByLedger(u)' = OwnedByLedger(u)
          /\ Late(u)' = {} => OwnedByLedger(u)' = 2 * OwnedByLedger(u)
      BY <1>1, <2>1, OwnedSplits DEF HoldingsFollow, QuantitiesOK
    <3>2. shares[u].quantity = OwnedByLedger(u) /\ shares[u].quantity \in Nat /\ shares[u].opened \in Nat
      BY <2>2, <2>7, <3>1 DEF HoldingsFollow
    <3>3. CASE shares[u].quantity = 0
      BY <2>3, <2>7, <3>1, <3>2, <3>3 DEF PreSplit
    <3>4. CASE shares[u].quantity > 0
      <4>1. PICK i \in Rows(u) : ledger[i].at = shares[u].opened
        BY <3>4 DEF HoldingsFollow, Dated
      <4>2. CASE PreSplit(u)
        <5>1. i \in Early(u)'
          BY <3>1, <4>1, <4>2 DEF PreSplit
        <5> QED
          BY <2>3, <2>7, <3>1, <3>2, <4>2, <5>1
      <4>3. CASE ~PreSplit(u)
        <5>1. i \in Late(u)'
          BY <3>1, <3>2, <3>4, <4>1, <4>3, DaysAssumption DEF PreSplit
        <5> QED
          BY <2>3, <2>7, <3>1, <3>2, <4>3, <5>1
      <4> QED
        BY <4>2, <4>3
    <3> QED
      BY <3>2, <3>3, <3>4
  <2> QED
    BY <1>1, <1>2, <2>1, <2>4, <2>6, <2>7 DEF HoldingsFollow
<1> QED
  BY <1>3, <1>4

\* Zeros, and perhaps a number after them.
LEMMA ZerosAndOne ==
    ASSUME NEW m \in Nat, NEW n \in {0, 1}, NEW t \in Seq(Int), Len(t) = m + n,
           \A i \in 1..m : t[i] = 0
    PROVE  Sum(t) = IF n = 0 THEN 0 ELSE t[m + 1]
<1> DEFINE s == [i \in 1..m |-> 0]
<1>1. << >> \in Seq(Int) /\ Len(<< >>) = 0
  OBVIOUS
<1>2. Sum(<< >>) = 0
  <2>1. PICK r \in [0..0 -> Int] : r[0] = 0 /\ Sum(<< >>) = r[0]
    BY <1>1, SumRuns
  <2> QED
    BY <2>1
<1>3. s \in Seq(Int) /\ Len(s) = m /\ \A i \in 1..m : s[i] = 0
  <2>1. s \in [1..m -> Int]
    OBVIOUS
  <2> QED
    BY <2>1
<1> HIDE DEF s
<1>4. Sum(s) = 0
  <2> PICK z : z = << >>
    OBVIOUS
  <2>1. z \in Seq(Int) /\ Len(z) = 0 /\ Sum(z) = 0
    BY <1>1, <1>2
  <2>2. Len(z) <= Len(s) /\ \A i \in 1..Len(z) : s[i] = 1 * z[i]
    BY <1>3, <2>1
  <2>3. (\A i \in (Len(z) + 1)..Len(s) : s[i] = 0) => Sum(s) = 1 * Sum(z)
    BY <1>3, <2>1, <2>2, SumsCompare
  <2> QED
    BY <1>3, <2>1, <2>3
<1>5. /\ (\A i \in (Len(s) + 1)..Len(t) : t[i] = 0) => Sum(t) = 1 * Sum(s)
      /\ Len(t) = Len(s) + 1 => Sum(t) = 1 * Sum(s) + t[Len(t)]
  <2>1. Len(s) <= Len(t) /\ \A i \in 1..Len(s) : t[i] = 1 * s[i]
    BY <1>3
  <2> QED
    BY <1>3, <2>1, SumsCompare
<1>6. CASE n = 0
  <2>1. (Len(s) + 1)..Len(t) = {}
    BY <1>3, <1>6
  <2> QED
    BY <1>4, <1>5, <1>6, <2>1
<1>7. CASE n = 1
  <2>1. Len(t) = m + 1 /\ m + 1 \in 1..Len(t)
    BY <1>7
  <2>2. t[m + 1] \in Int
    BY <2>1
  <2> QED
    BY <1>3, <1>4, <1>5, <1>7, <2>1, <2>2
<1> QED
  BY <1>6, <1>7

\* Accounts that are cleared own what was bought for them since, and the others what they did.
LEMMA ClearMovesHoldings ==
    ASSUME ActionsTypeOK, ActionsTypeOK', HoldingsFollow,
           NEW us \in SUBSET Users, NEW n \in {0, 1}, Cleared(us, n)
    PROVE  HoldingsFollow'
<1>0. /\ DOMAIN ledger = 1..Len(ledger) /\ Len(ledger) \in Nat /\ now \in Nat
      /\ shares \in [Users -> [quantity : Nat, opened : Nat]]
      /\ splitAt \in Nat /\ splitAt <= Len(ledger) /\ QuantitiesOK
      /\ Gone.user = Nobody /\ Gone.kind = "DELETED" /\ Nobody \notin Users
  BY LedgerFacts, UsersAreFinite DEF ActionsTypeOK, HoldingsFollow, QuantitiesOK, Gone, Row
<1>1. /\ \A w \in Users \ us : Rows(w)' = Rows(w) /\ \A i \in Rows(w) : ledger'[i] = ledger[i]
      /\ n = 0 => \A w \in us : Rows(w)' = {}
      /\ n = 1 => \E u \in us :
            us = {u} /\ Rows(u)' = {Len(ledger) + 1} /\ Bought(u, ledger'[Len(ledger) + 1])
      /\ \A i \in DOMAIN ledger' : Entry(ledger'[i])
  BY ClearedRows
<1> PICK k : k = Len(ledger) + 1
  OBVIOUS
<1>2. /\ Len(ledger') = Len(ledger) + n
      /\ DOMAIN ledger' = 1..(Len(ledger) + n)
      /\ \A i \in DOMAIN ledger : ledger'[i] = IF ledger[i].user \in us THEN Gone ELSE ledger[i]
      /\ shares' = [w \in Users |->
            IF w \in us THEN [quantity |-> n, opened |-> IF n = 0 THEN 0 ELSE now] ELSE shares[w]]
      /\ splitAt' = splitAt /\ actions' = actions
  BY DEF Cleared, records
<1>3. \A i \in DOMAIN ledger' : i \in DOMAIN ledger \/ (n = 1 /\ i = k)
  BY <1>0, <1>2
<1>4. n = 1 => \E u \in us :
                  /\ us = {u} /\ ledger'[k].user = u /\ ledger'[k].kind = "BUY"
                  /\ ledger'[k].quantity = 1 /\ ledger'[k].at = now
  BY <1>1 DEF Bought
<1>5. QuantitiesOK'
  <2>1. ASSUME NEW i \in DOMAIN ledger', ledger'[i].kind \in {"BUY", "SELL"}
        PROVE  ledger'[i].quantity \in Nat
    <3>1. CASE i \in DOMAIN ledger
      BY <1>0, <1>2, <2>1, <3>1 DEF QuantitiesOK
    <3>2. CASE n = 1 /\ i = k
      BY <1>4, <3>2
    <3> QED
      BY <1>3, <3>1, <3>2
  <2> QED
    BY <2>1 DEF QuantitiesOK
<1>6. shares' \in [Users -> [quantity : Nat, opened : Nat]]
  BY <1>0, <1>2
<1>7. ASSUME NEW w \in Users \ us
      PROVE  Dated(w)' /\ (Early(w)' = {} \/ Late(w)' = {} => shares'[w].quantity = OwnedByLedger(w)')
  <2>1. shares'[w] = shares[w]
    BY <1>2
  <2>2. Dated(w)'
    BY <1>1, <2>1 DEF HoldingsFollow, Dated
  <2>3. \A i \in 1..Len(ledger) : ledger[i].user = w \/ ledger'[i].user = w => ledger'[i] = ledger[i]
    BY <1>0, <1>2
  <2>4. \A i \in (Len(ledger) + 1)..Len(ledger') : Gained(w, i)' = 0
    <3>1. \A i \in (Len(ledger) + 1)..Len(ledger') : n = 1 /\ i = k
      BY <1>0, <1>2
    <3> QED
      BY <1>4, <3>1 DEF Gained
  <2>5. Early(w)' = Early(w) /\ Late(w)' = Late(w) /\ OwnedByLedger(w)' = OwnedByLedger(w)
    <3>1. Len(ledger) <= Len(ledger')
      BY <1>0, <1>2
    <3> QED
      BY <1>0, <1>2, <1>5, <2>3, <2>4, <3>1, OwnedGrows
  <2> QED
    BY <2>1, <2>2, <2>5 DEF HoldingsFollow
<1>8. ASSUME NEW w \in us
      PROVE  Dated(w)' /\ shares'[w].quantity = OwnedByLedger(w)'
  <2> DEFINE m == Len(ledger) + n
             f == [i \in 1..m |-> Gained(w, i)']
             E == Early(w)'
             t == Weighted(w)'
  <2>0. /\ w \in Users /\ shares'[w].quantity = n /\ (n = 1 => shares'[w].opened = now)
        /\ n = 0 => Rows(w)' = {}
        /\ n = 1 => Rows(w)' = {k} /\ ledger'[k].user = w /\ ledger'[k].kind = "BUY"
                    /\ ledger'[k].quantity = 1 /\ ledger'[k].at = now
    BY <1>1, <1>2, <1>4
  <2>1. Dated(w)'
    BY <2>0 DEF Dated
  <2>2. m \in Nat /\ \A i \in 1..m : Gained(w, i)' \in Int /\ f[i] = Gained(w, i)'
    BY <1>0, <1>2, <1>5 DEF Gained, QuantitiesOK
  <2>3. t = [i \in 1..m |-> (IF i \in E THEN 2 ELSE 1) * f[i]]
    BY <1>2, <2>2 DEF Weighted
  <2>4. OwnedByLedger(w)' = Sum(t)
    BY DEF OwnedByLedger, Weighted
  <2>5. \A i \in 1..Len(ledger) : i \in 1..m /\ Gained(w, i)' = 0
    <3>1. ASSUME NEW i \in 1..Len(ledger) PROVE i \in 1..m /\ Gained(w, i)' = 0
      <4>1. ledger'[i] = Gone \/ ledger'[i].user \notin us
        BY <1>0, <1>2
      <4>2. ledger'[i].user # w
        BY <1>0, <2>0, <4>1
      <4>3. i \in 1..m
        BY <1>0
      <4> QED
        BY <4>2, <4>3 DEF Gained
    <3> QED
      BY <3>1
  <2>6. n = 1 => k \in 1..m /\ k \notin E /\ Gained(w, k)' = 1
    <3>1. ~(k <= splitAt) /\ (n = 1 => k \in 1..m)
      BY <1>0
    <3> QED
      BY <1>2, <2>0, <3>1 DEF Gained, Early
  <2> HIDE DEF f, t, E
  <2>7. t \in Seq(Int) /\ Len(t) = m /\ \A i \in 1..m : t[i] = IF i \in E THEN 2 * f[i] ELSE f[i]
    <3> HIDE DEF m
    <3> QED
      BY <2>2, <2>3, DoubledNumbers
  <2>8. (\A i \in 1..Len(ledger) : t[i] = 0) /\ (n = 1 => t[k] = 1)
    <3>1. ASSUME NEW i \in 1..Len(ledger) PROVE t[i] = 0
      <4>1. i \in 1..m /\ f[i] = 0
        BY <2>2, <2>5
      <4> HIDE DEF m
      <4> QED
        BY <2>7, <4>1
    <3>2. ASSUME n = 1 PROVE t[k] = 1
      <4>1. k \in 1..m /\ f[k] = 1 /\ k \notin E
        BY <2>2, <2>6, <3>2
      <4> HIDE DEF m
      <4> QED
        BY <2>7, <4>1
    <3> QED
      BY <3>1, <3>2
  <2>9. Sum(t) = IF n = 0 THEN 0 ELSE t[k]
    BY <1>0, <2>7, <2>8, ZerosAndOne
  <2> QED
    BY <2>0, <2>1, <2>4, <2>8, <2>9
<1>9. splitAt' \in Nat /\ splitAt' <= Len(ledger') /\ ("split" \notin actions' => splitAt' = 0)
  BY <1>0, <1>2 DEF HoldingsFollow
<1> QED
  BY <1>5, <1>6, <1>7, <1>8, <1>9 DEF HoldingsFollow, QuantitiesOK

\* Holdings follow the ledger through every step.
LEMMA HoldingsStep ==
    ASSUME ActionsInv, ActionsInv', HoldingsFollow, ActionsNext \/ UNCHANGED actionVars
    PROVE  HoldingsFollow'
<1>0. ActionsTypeOK /\ ActionsTypeOK' /\ Len(ledger) \in Nat /\ (Len(ledger) + 1)..Len(ledger) = {}
  BY LedgerFacts DEF ActionsInv
<1>1. CASE \E u \in Users : Buy(u) \/ Sell(u)
  BY <1>0, <1>1, TradesMoveHoldings
<1>2. CASE \E t \in {"scan", "gate"} : ApplySplit(t)
  BY <1>0, <1>2, SplitMovesHoldings
<1>3. CASE Reset \/ \E u \in Users : Rebuild(u)
  BY <1>0, <1>3, ClearIsCleared, ClearMovesHoldings
<1>4. CASE ReverseDividend
  <2>1. shares' = shares /\ splitAt' = splitAt /\ actions' = actions /\ count' = count
    BY <1>4 DEF ReverseDividend
  <2> QED
    BY <1>0, <1>4, <2>1, ReverseKeeps, HoldingsRest
<1>5. CASE ApplyDividend
  <2>1. shares' = shares /\ splitAt' = splitAt /\ actions \subseteq actions' /\ count' = count
    BY <1>5 DEF ApplyDividend
  <2> QED
    BY <1>0, <1>5, <2>1, DividendKeeps, HoldingsRest
<1>6. CASE \/ ScanSplits \/ ConfirmSplit \/ FetchHistory \/ StoreHistory \/ ScanDividends \/ Tick \/ Crash
           \/ \E u \in Users : Drift(u) \/ Reconcile(u)
           \/ \E t \in {"scan", "gate"} : AdjustHistory(t)
           \/ UNCHANGED actionVars
  <2>1. shares' = shares /\ splitAt' = splitAt /\ actions' = actions /\ ledger' = ledger
    BY <1>6 DEF ScanSplits, ConfirmSplit, FetchHistory, StoreHistory, ScanDividends, Tick, Crash,
           Drift, Reconcile, AdjustHistory, actionVars, accounts, records
  <2> QED
    BY <1>0, <2>1, HoldingsRest
<1> QED
  BY <1>1, <1>2, <1>3, <1>4, <1>5, <1>6 DEF ActionsNext

\* At the start nobody holds anything.
LEMMA HoldingsStart == ActionsInit => HoldingsFollow
<1> SUFFICES ASSUME ActionsInit PROVE HoldingsFollow
  OBVIOUS
<1>1. /\ shares = [u \in Users |-> [quantity |-> 0, opened |-> 0]] /\ ledger = << >> /\ splitAt = 0
      /\ actions = {}
  BY DEF ActionsInit
<1>2. DOMAIN ledger = {} /\ Len(ledger) = 0 /\ << >> \in Seq(Int) /\ Len(<< >>) = 0
  BY <1>1
<1>3. shares \in [Users -> [quantity : Nat, opened : Nat]] /\ \A u \in Users : shares[u].quantity = 0
  BY <1>1
<1>4. ASSUME NEW u \in Users PROVE OwnedByLedger(u) = 0
  <2>1. Weighted(u) = << >>
    BY <1>2 DEF Weighted
  <2>2. PICK r \in [0..0 -> Int] : r[0] = 0 /\ Sum(<< >>) = r[0]
    BY <1>2, SumRuns
  <2>3. OwnedByLedger(u) = Sum(Weighted(u))
    BY DEF OwnedByLedger, Weighted
  <2> QED
    BY <2>1, <2>2, <2>3
<1> QED
  BY <1>1, <1>2, <1>3, <1>4 DEF HoldingsFollow, Dated

\* What SplitIsCountedOnce asks.
LEMMA SplitsCount == HoldingsFollow /\ BarsAreKnown => SplitIsCountedOnce
<1> SUFFICES ASSUME HoldingsFollow, BarsAreKnown PROVE SplitIsCountedOnce
  OBVIOUS
<1>1. DividedOnce
  BY DEF BarsAreKnown, DividedOnce
<1> QED
  BY <1>1 DEF HoldingsFollow, SplitIsCountedOnce
-----------------------------------------------------------------------------
(* The statements of the migrations *)

Altered == Oldest \cup {"corporate_actions", "research_briefs", "ensemble_decision_steps", "decision_audits"}
AddedLater == {"model_provider", "model_name", "decision_architecture", "execution_quote_audit_id"}
RepairedNames == AddedLater \cup {"opened_at", "pi_session_id", "usage_json", "estimated_cost_usd",
                                  "execution_quote_captured_at", "execution_rejection_reason"}

\* The names of the columns that migration v adds.
MayBeAdded(v, name) ==
    /\ v <= 8 => name \notin AddedLater
    /\ v = 9 => name \in AddedLater
    /\ v \in Repaired <=> name \in RepairedNames

\* What a statement of migration v may do: add a column to a table of today, create
\* tables, drop the one that is dropped, copy the ledger or the users.
IsStatement(v, s) ==
    /\ s.do \in {"add", "create", "drop", "ledger", "users"}
    /\ s.do = "add" => s.table \in Altered /\ MayBeAdded(v, s.name)
    /\ s.do \in {"create", "ledger"} => "news_headlines" \notin s.tables
    /\ s.do = "drop" => v = 14 /\ s.tables = {"news_headlines"}
    /\ s.do = "ledger" => v \in {2, 5, 8} /\ s.kinds = KindsOf(v)
    /\ s.do = "users" => v = 3

AreStatements(v, seq) ==
    /\ \E S : seq \in Seq(S)
    /\ \A i \in DOMAIN seq : IsStatement(v, seq[i])

\* Statements one after the other.
LEMMA StatementsJoin ==
    ASSUME NEW v, NEW s, NEW t, AreStatements(v, s), AreStatements(v, t)
    PROVE  AreStatements(v, s \o t)
<1>0. PICK S, T : s \in Seq(S) /\ t \in Seq(T)
  BY DEF AreStatements
<1>1. s \in Seq(S \cup T) /\ t \in Seq(S \cup T)
  BY <1>0
<1>2. s \o t \in Seq(S \cup T) /\ DOMAIN (s \o t) = 1..(Len(s) + Len(t))
  BY <1>1
<1>3. ASSUME NEW i \in DOMAIN (s \o t) PROVE IsStatement(v, (s \o t)[i])
  <2>1. CASE i \in DOMAIN s
    BY <1>1, <2>1 DEF AreStatements
  <2>2. CASE i \notin DOMAIN s
    <3>1. i - Len(s) \in DOMAIN t /\ (s \o t)[i] = t[i - Len(s)]
      BY <1>1, <1>2, <2>2
    <3> QED
      BY <3>1 DEF AreStatements
  <2> QED
    BY <2>1, <2>2
<1> QED
  BY <1>2, <1>3 DEF AreStatements

\* A statement by itself.
LEMMA StatementIsOne ==
    ASSUME NEW v, NEW s, IsStatement(v, s)
    PROVE  AreStatements(v, <<s>>)
<1>1. <<s>> \in Seq({s}) /\ \A i \in DOMAIN <<s>> : <<s>>[i] = s
  OBVIOUS
<1>2. \E S : <<s>> \in Seq(S)
  BY <1>1
<1>3. \A i \in DOMAIN <<s>> : IsStatement(v, <<s>>[i])
  BY <1>1
<1> QED
  BY <1>2, <1>3 DEF AreStatements

\* The columns that a migration adds to a table.
LEMMA ColumnsAreAdded ==
    ASSUME NEW v \in 1..23, NEW table \in Altered, NEW names,
           Len(names) \in Nat, DOMAIN names = 1..Len(names),
           \A i \in DOMAIN names : MayBeAdded(v, names[i])
    PROVE  AreStatements(v, Add(table, names))
<1> DEFINE s(i) == [do |-> "add", table |-> table, name |-> names[i]]
<1>3. ASSUME NEW i \in DOMAIN names PROVE IsStatement(v, s(i))
  BY DEF IsStatement
<1>5. Add(table, names) = [i \in 1..Len(names) |-> s(i)] /\ Len(names) \in Nat /\ DOMAIN names = 1..Len(names)
  BY DEF Add
<1> HIDE DEF s
<1>6. Add(table, names) \in Seq({s(i) : i \in DOMAIN names})
  BY <1>5
<1> QED
  BY <1>3, <1>5, <1>6 DEF AreStatements

\* The tables that a migration creates.
LEMMA TablesAreCreated ==
    ASSUME NEW v, NEW names, "news_headlines" \notin names
    PROVE  AreStatements(v, Create(names))
<1> DEFINE s == [do |-> "create", tables |-> names]
<1>2. IsStatement(v, s)
  BY DEF IsStatement
<1> HIDE DEF s
<1>3. AreStatements(v, <<s>>)
  BY <1>2, StatementIsOne
<1> QED
  BY <1>3 DEF Create, s

\* The copy of the ledger into a table that allows another kind.
LEMMA LedgerIsRebuilt ==
    ASSUME NEW v \in {2, 5, 8}, NEW names, "news_headlines" \notin names
    PROVE  AreStatements(v, RebuildLedger(KindsOf(v), names))
<1> DEFINE s == [do |-> "ledger", kinds |-> KindsOf(v), tables |-> names]
<1>2. IsStatement(v, s)
  BY DEF IsStatement
<1> HIDE DEF s
<1>3. AreStatements(v, <<s>>)
  BY <1>2, StatementIsOne
<1> QED
  BY <1>3 DEF RebuildLedger, s

\* Every migration is a sequence of its statements.
LEMMA MigrationsAreStatements == Current = 23 /\ \A v \in 1..23 : AreStatements(v, Migrations[v])
<1>0. Current = 23
  BY DEF Current, Migrations
<1>1. AreStatements(1, M001)
  <2>1. AreStatements(1, Add("corporate_actions", <<"amount_per_share", "total_paid">>))
    <3> DEFINE names == <<"amount_per_share", "total_paid">>
    <3>1. Len(names) \in Nat /\ DOMAIN names = 1..Len(names)
      OBVIOUS
    <3>2. \A i \in DOMAIN names : MayBeAdded(1, names[i])
      BY DEF MayBeAdded, AddedLater, Repaired, RepairedNames
    <3>3. "corporate_actions" \in Altered
      BY DEF Altered, Oldest
    <3>4. 1 \in 1..23
      OBVIOUS
    <3> HIDE DEF names
    <3>5. AreStatements(1, Add("corporate_actions", names))
      BY <3>1, <3>2, <3>3, <3>4, ColumnsAreAdded, Zenon
    <3> QED
      BY <3>5 DEF names
  <2> QED
    BY <2>1 DEF M001
<1>2. AreStatements(2, M002)
  <2>1. AreStatements(2, RebuildLedger({"BUY", "SELL", "DIVIDEND"}, {}))
    <3>1. KindsOf(2) = {"BUY", "SELL", "DIVIDEND"}
      BY DEF KindsOf, Kinds
    <3>2. 2 \in {2, 5, 8} /\ "news_headlines" \notin {}
      OBVIOUS
    <3>3. AreStatements(2, RebuildLedger(KindsOf(2), {}))
      BY <3>2, LedgerIsRebuilt, Zenon
    <3> QED
      BY <3>1, <3>3
  <2> QED
    BY <2>1 DEF M002
<1>3. AreStatements(3, M003)
  <2>1. AreStatements(3, Add("users", <<"strategy_label", "strategy_summary", "strategy_config">>))
    <3> DEFINE names == <<"strategy_label", "strategy_summary", "strategy_config">>
    <3>1. Len(names) \in Nat /\ DOMAIN names = 1..Len(names)
      OBVIOUS
    <3>2. \A i \in DOMAIN names : MayBeAdded(3, names[i])
      BY DEF MayBeAdded, AddedLater, Repaired, RepairedNames
    <3>3. "users" \in Altered
      BY DEF Altered, Oldest
    <3>4. 3 \in 1..23
      OBVIOUS
    <3> HIDE DEF names
    <3>5. AreStatements(3, Add("users", names))
      BY <3>1, <3>2, <3>3, <3>4, ColumnsAreAdded, Zenon
    <3> QED
      BY <3>5 DEF names
  <2>2. AreStatements(3, <<[do |-> "users"]>>)
    BY StatementIsOne DEF IsStatement
  <2> QED
    BY <2>1, <2>2, StatementsJoin DEF M003
<1>4. AreStatements(4, M004)
  <2>1. AreStatements(4, Add("watchlist", <<"instrument_type", "exchange", "issuer", "category">>))
    <3> DEFINE names == <<"instrument_type", "exchange", "issuer", "category">>
    <3>1. Len(names) \in Nat /\ DOMAIN names = 1..Len(names)
      OBVIOUS
    <3>2. \A i \in DOMAIN names : MayBeAdded(4, names[i])
      BY DEF MayBeAdded, AddedLater, Repaired, RepairedNames
    <3>3. "watchlist" \in Altered
      BY DEF Altered, Oldest
    <3>4. 4 \in 1..23
      OBVIOUS
    <3> HIDE DEF names
    <3>5. AreStatements(4, Add("watchlist", names))
      BY <3>1, <3>2, <3>3, <3>4, ColumnsAreAdded, Zenon
    <3> QED
      BY <3>5 DEF names
  <2> QED
    BY <2>1 DEF M004
<1>5. AreStatements(5, M005)
  <2>1. AreStatements(5, RebuildLedger({"BUY", "SELL", "DIVIDEND", "FEE"}, {}))
    <3>1. KindsOf(5) = {"BUY", "SELL", "DIVIDEND", "FEE"}
      BY DEF KindsOf, Kinds
    <3>2. 5 \in {2, 5, 8} /\ "news_headlines" \notin {}
      OBVIOUS
    <3>3. AreStatements(5, RebuildLedger(KindsOf(5), {}))
      BY <3>2, LedgerIsRebuilt, Zenon
    <3> QED
      BY <3>1, <3>3
  <2> QED
    BY <2>1 DEF M005
<1>6. AreStatements(6, M006)
  <2>1. AreStatements(6, Create({"decision_batches", "decision_batch_agents"}))
    BY TablesAreCreated
  <2> QED
    BY <2>1 DEF M006
<1>7. AreStatements(7, M007)
  <2>1. AreStatements(7, Add("holdings", <<"opened_at">>))
    <3> DEFINE names == <<"opened_at">>
    <3>1. Len(names) \in Nat /\ DOMAIN names = 1..Len(names)
      OBVIOUS
    <3>2. \A i \in DOMAIN names : MayBeAdded(7, names[i])
      BY DEF MayBeAdded, AddedLater, Repaired, RepairedNames
    <3>3. "holdings" \in Altered
      BY DEF Altered, Oldest
    <3>4. 7 \in 1..23
      OBVIOUS
    <3> HIDE DEF names
    <3>5. AreStatements(7, Add("holdings", names))
      BY <3>1, <3>2, <3>3, <3>4, ColumnsAreAdded, Zenon
    <3> QED
      BY <3>5 DEF names
  <2> QED
    BY <2>1 DEF M007
<1>8. AreStatements(8, M008)
  <2>1. AreStatements(8, RebuildLedger(Kinds, {"dividend_reversals"}))
    <3>1. KindsOf(8) = Kinds
      BY DEF KindsOf, Kinds
    <3>2. 8 \in {2, 5, 8} /\ "news_headlines" \notin {"dividend_reversals"}
      OBVIOUS
    <3>3. AreStatements(8, RebuildLedger(KindsOf(8), {"dividend_reversals"}))
      BY <3>2, LedgerIsRebuilt, Zenon
    <3> QED
      BY <3>1, <3>3
  <2> QED
    BY <2>1 DEF M008
<1>9. AreStatements(9, M009)
  <2>1. AreStatements(9, Add("users", <<"model_provider", "model_name">>))
    <3> DEFINE names == <<"model_provider", "model_name">>
    <3>1. Len(names) \in Nat /\ DOMAIN names = 1..Len(names)
      OBVIOUS
    <3>2. \A i \in DOMAIN names : MayBeAdded(9, names[i])
      BY DEF MayBeAdded, AddedLater, Repaired, RepairedNames
    <3>3. "users" \in Altered
      BY DEF Altered, Oldest
    <3>4. 9 \in 1..23
      OBVIOUS
    <3> HIDE DEF names
    <3>5. AreStatements(9, Add("users", names))
      BY <3>1, <3>2, <3>3, <3>4, ColumnsAreAdded, Zenon
    <3> QED
      BY <3>5 DEF names
  <2> QED
    BY <2>1 DEF M009
<1>10. AreStatements(10, M010)
  <2>1. AreStatements(10, Create({"decision_audits"}))
    BY TablesAreCreated
  <2> QED
    BY <2>1 DEF M010
<1>11. AreStatements(11, M011)
  <2>1. AreStatements(11, Create({"decision_batch_snapshots"}))
    BY TablesAreCreated
  <2> QED
    BY <2>1 DEF M011
<1>12. AreStatements(12, M012)
  <2>1. AreStatements(12, Create({"news_items", "news_item_tickers", "research_briefs"}))
    BY TablesAreCreated
  <2> QED
    BY <2>1 DEF M012
<1>13. AreStatements(13, M013)
  <2>1. AreStatements(13, Create({"news_assessments", "news_fetch_status"}))
    BY TablesAreCreated
  <2>2. AreStatements(13, Add("research_briefs", <<"signal", "freshness_hours", "conflicting", "policy_version", "summary_json">>))
    <3> DEFINE names == <<"signal", "freshness_hours", "conflicting", "policy_version", "summary_json">>
    <3>1. Len(names) \in Nat /\ DOMAIN names = 1..Len(names)
      OBVIOUS
    <3>2. \A i \in DOMAIN names : MayBeAdded(13, names[i])
      BY DEF MayBeAdded, AddedLater, Repaired, RepairedNames
    <3>3. "research_briefs" \in Altered
      BY DEF Altered, Oldest
    <3>4. 13 \in 1..23
      OBVIOUS
    <3> HIDE DEF names
    <3>5. AreStatements(13, Add("research_briefs", names))
      BY <3>1, <3>2, <3>3, <3>4, ColumnsAreAdded, Zenon
    <3> QED
      BY <3>5 DEF names
  <2> QED
    BY <2>1, <2>2, StatementsJoin DEF M013
<1>14. AreStatements(14, M014)
  <2>1. AreStatements(14, Drop("news_headlines"))
    BY StatementIsOne DEF Drop, IsStatement
  <2> QED
    BY <2>1 DEF M014
<1>15. AreStatements(15, M015)
  <2>1. AreStatements(15, Add("users", <<"decision_architecture">>))
    <3> DEFINE names == <<"decision_architecture">>
    <3>1. Len(names) \in Nat /\ DOMAIN names = 1..Len(names)
      OBVIOUS
    <3>2. \A i \in DOMAIN names : MayBeAdded(15, names[i])
      BY DEF MayBeAdded, AddedLater, Repaired, RepairedNames
    <3>3. "users" \in Altered
      BY DEF Altered, Oldest
    <3>4. 15 \in 1..23
      OBVIOUS
    <3> HIDE DEF names
    <3>5. AreStatements(15, Add("users", names))
      BY <3>1, <3>2, <3>3, <3>4, ColumnsAreAdded, Zenon
    <3> QED
      BY <3>5 DEF names
  <2>2. AreStatements(15, Create({"ensemble_decision_steps"}))
    BY TablesAreCreated
  <2> QED
    BY <2>1, <2>2, StatementsJoin DEF M015
<1>16. AreStatements(16, M016)
  <2>1. AreStatements(16, Add("ensemble_decision_steps", <<"pi_session_id", "usage_json", "estimated_cost_usd">>))
    <3> DEFINE names == <<"pi_session_id", "usage_json", "estimated_cost_usd">>
    <3>1. Len(names) \in Nat /\ DOMAIN names = 1..Len(names)
      OBVIOUS
    <3>2. \A i \in DOMAIN names : MayBeAdded(16, names[i])
      BY DEF MayBeAdded, AddedLater, Repaired, RepairedNames
    <3>3. "ensemble_decision_steps" \in Altered
      BY DEF Altered, Oldest
    <3>4. 16 \in 1..23
      OBVIOUS
    <3> HIDE DEF names
    <3>5. AreStatements(16, Add("ensemble_decision_steps", names))
      BY <3>1, <3>2, <3>3, <3>4, ColumnsAreAdded, Zenon
    <3> QED
      BY <3>5 DEF names
  <2> QED
    BY <2>1 DEF M016
<1>17. AreStatements(17, M017)
  <2>1. AreStatements(17, Add("transactions", <<"execution_quote_audit_id">>))
    <3> DEFINE names == <<"execution_quote_audit_id">>
    <3>1. Len(names) \in Nat /\ DOMAIN names = 1..Len(names)
      OBVIOUS
    <3>2. \A i \in DOMAIN names : MayBeAdded(17, names[i])
      BY DEF MayBeAdded, AddedLater, Repaired, RepairedNames
    <3>3. "transactions" \in Altered
      BY DEF Altered, Oldest
    <3>4. 17 \in 1..23
      OBVIOUS
    <3> HIDE DEF names
    <3>5. AreStatements(17, Add("transactions", names))
      BY <3>1, <3>2, <3>3, <3>4, ColumnsAreAdded, Zenon
    <3> QED
      BY <3>5 DEF names
  <2>2. AreStatements(17, Add("decision_audits", <<"execution_quote_captured_at", "execution_rejection_reason">>))
    <3> DEFINE names == <<"execution_quote_captured_at", "execution_rejection_reason">>
    <3>1. Len(names) \in Nat /\ DOMAIN names = 1..Len(names)
      OBVIOUS
    <3>2. \A i \in DOMAIN names : MayBeAdded(17, names[i])
      BY DEF MayBeAdded, AddedLater, Repaired, RepairedNames
    <3>3. "decision_audits" \in Altered
      BY DEF Altered, Oldest
    <3>4. 17 \in 1..23
      OBVIOUS
    <3> HIDE DEF names
    <3>5. AreStatements(17, Add("decision_audits", names))
      BY <3>1, <3>2, <3>3, <3>4, ColumnsAreAdded, Zenon
    <3> QED
      BY <3>5 DEF names
  <2>3. AreStatements(17, Create({"execution_quote_audits"}))
    BY TablesAreCreated
  <2>4. AreStatements(17, Add("transactions", <<"execution_quote_audit_id">>) \o Add("decision_audits", <<"execution_quote_captured_at", "execution_rejection_reason">>))
    BY <2>1, <2>2, StatementsJoin
  <2> QED
    BY <2>3, <2>4, StatementsJoin DEF M017
<1>18. AreStatements(18, M018)
  <2>1. AreStatements(18, <<>>)
    BY DEF AreStatements
  <2> QED
    BY <2>1 DEF M018
<1>19. AreStatements(19, M019)
  <2>1. AreStatements(19, Create({"orders"}))
    BY TablesAreCreated
  <2> QED
    BY <2>1 DEF M019
<1>20. AreStatements(20, M020)
  <2>1. AreStatements(20, Create({"ledger_repairs"}))
    BY TablesAreCreated
  <2> QED
    BY <2>1 DEF M020
<1>21. AreStatements(21, M021)
  <2>1. AreStatements(21, Create({"fundamental_facts", "fundamental_fetch_status"}))
    BY TablesAreCreated
  <2> QED
    BY <2>1 DEF M021
<1>22. AreStatements(22, M022)
  <2>1. AreStatements(22, Create({"filing_documents", "filing_briefs", "filing_scan_status"}))
    BY TablesAreCreated
  <2> QED
    BY <2>1 DEF M022
<1>23. AreStatements(23, M023)
  <2>1. AreStatements(23, Add("ohlcv_cache", <<"adjusted_through">>))
    <3> DEFINE names == <<"adjusted_through">>
    <3>1. Len(names) \in Nat /\ DOMAIN names = 1..Len(names)
      OBVIOUS
    <3>2. \A i \in DOMAIN names : MayBeAdded(23, names[i])
      BY DEF MayBeAdded, AddedLater, Repaired, RepairedNames
    <3>3. "ohlcv_cache" \in Altered
      BY DEF Altered, Oldest
    <3>4. 23 \in 1..23
      OBVIOUS
    <3> HIDE DEF names
    <3>5. AreStatements(23, Add("ohlcv_cache", names))
      BY <3>1, <3>2, <3>3, <3>4, ColumnsAreAdded, Zenon
    <3> QED
      BY <3>5 DEF names
  <2> QED
    BY <2>1 DEF M023
<1> QED
  BY <1>0, <1>1, <1>2, <1>3, <1>4, <1>5, <1>6, <1>7, <1>8, <1>9, <1>10, <1>11, <1>12, <1>13, <1>14, <1>15, <1>16, <1>17, <1>18, <1>19, <1>20, <1>21, <1>22, <1>23 DEF Migrations

\* The statements of a migration, one by one.
LEMMA StatementIsOf ==
    ASSUME NEW v \in 1..23, NEW i \in DOMAIN Migrations[v]
    PROVE  /\ IsStatement(v, Migrations[v][i])
           /\ Migrations[v][i].do = "add" => <<Migrations[v][i].table, Migrations[v][i].name>> \in ColumnsOf(v)
           /\ Migrations[v][i].do \in {"create", "ledger"} => Migrations[v][i].tables \subseteq TablesOf(v)
<1> DEFINE s == Migrations[v][i]
<1>1. IsStatement(v, s)
  BY MigrationsAreStatements DEF AreStatements
<1>2. s \in ToSet(Migrations[v])
  BY DEF ToSet
<1> HIDE DEF s
<1>3. s.do = "add" => <<s.table, s.name>> \in ColumnsOf(v)
  BY <1>2 DEF ColumnsOf
<1>4. s.do \in {"create", "ledger"} => s.tables \subseteq TablesOf(v)
  BY <1>2 DEF TablesOf
<1> QED
  BY <1>1, <1>3, <1>4 DEF s

\* A column of a migration is added by one of its statements.
LEMMA ColumnIsOf ==
    ASSUME NEW v \in 1..23, NEW c \in ColumnsOf(v)
    PROVE  \E i \in DOMAIN Migrations[v] :
              /\ Migrations[v][i].do = "add" /\ c = <<Migrations[v][i].table, Migrations[v][i].name>>
              /\ IsStatement(v, Migrations[v][i])
<1>1. PICK s \in ToSet(Migrations[v]) : s.do = "add" /\ c = <<s.table, s.name>>
  BY DEF ColumnsOf
<1>2. PICK i \in DOMAIN Migrations[v] : s = Migrations[v][i]
  BY DEF ToSet
<1>3. IsStatement(v, s)
  BY <1>2, StatementIsOf
<1> QED
  BY <1>1, <1>2, <1>3

\* A table of a migration is created by one of its statements.
LEMMA TableIsOf ==
    ASSUME NEW v \in 1..23, NEW t \in TablesOf(v)
    PROVE  t # "news_headlines"
<1>1. PICK s \in ToSet(Migrations[v]) : s.do \in {"create", "ledger"} /\ t \in s.tables
  BY DEF TablesOf
<1>2. PICK i \in DOMAIN Migrations[v] : s = Migrations[v][i]
  BY DEF ToSet
<1>3. IsStatement(v, s)
  BY <1>2, StatementIsOf
<1> QED
  BY <1>1, <1>3 DEF IsStatement

\* What is created by the first of two groups of statements, or the second.
LEMMA CreatedIn ==
    ASSUME NEW v \in 1..23, NEW i \in DOMAIN Migrations[v], NEW names,
           Migrations[v][i] = [do |-> "create", tables |-> names]
    PROVE  names \subseteq TablesOf(v)
<1>1. Migrations[v][i].do = "create" /\ Migrations[v][i].tables = names
  OBVIOUS
<1> QED
  BY <1>1, StatementIsOf

\* The statement that follows a group of others.
LEMMA StatementAfter ==
    ASSUME NEW S, NEW s \in Seq(S), NEW x \in S
    PROVE  Len(s) + 1 \in DOMAIN (s \o <<x>>) /\ (s \o <<x>>)[Len(s) + 1] = x
<1>1. <<x>> \in Seq(S) /\ Len(<<x>>) = 1 /\ <<x>>[1] = x
  OBVIOUS
<1>2. DOMAIN (s \o <<x>>) = 1..(Len(s) + 1) /\ Len(s) \in Nat
  BY <1>1
<1>3. (s \o <<x>>)[Len(s) + 1] = <<x>>[(Len(s) + 1) - Len(s)]
  BY <1>1, <1>2
<1> QED
  BY <1>1, <1>2, <1>3

\* The tables that the script creates for later versions.
LEMMA LaterTables ==
    /\ {"decision_batches", "decision_batch_agents"} \subseteq TablesOf(6)
    /\ {"decision_audits"} \subseteq TablesOf(10)
    /\ {"decision_batch_snapshots"} \subseteq TablesOf(11)
    /\ {"research_briefs"} \subseteq TablesOf(12)
    /\ {"ensemble_decision_steps"} \subseteq TablesOf(15)
    /\ {"execution_quote_audits"} \subseteq TablesOf(17)
<1>1. {"decision_batches", "decision_batch_agents"} \subseteq TablesOf(6)
  <2>1. 1 \in DOMAIN Migrations[6] /\ Migrations[6][1] = [do |-> "create", tables |-> {"decision_batches", "decision_batch_agents"}]
    BY DEF Migrations, M006, Create
  <2> QED
    BY <2>1, CreatedIn
<1>2. {"decision_audits"} \subseteq TablesOf(10)
  <2>1. 1 \in DOMAIN Migrations[10] /\ Migrations[10][1] = [do |-> "create", tables |-> {"decision_audits"}]
    BY DEF Migrations, M010, Create
  <2> QED
    BY <2>1, CreatedIn
<1>3. {"decision_batch_snapshots"} \subseteq TablesOf(11)
  <2>1. 1 \in DOMAIN Migrations[11] /\ Migrations[11][1] = [do |-> "create", tables |-> {"decision_batch_snapshots"}]
    BY DEF Migrations, M011, Create
  <2> QED
    BY <2>1, CreatedIn
<1>4. {"research_briefs"} \subseteq TablesOf(12)
  <2>1. /\ 1 \in DOMAIN Migrations[12]
        /\ Migrations[12][1] = [do |-> "create", tables |-> {"news_items", "news_item_tickers", "research_briefs"}]
    BY DEF Migrations, M012, Create
  <2> QED
    BY <2>1, CreatedIn
<1>5. {"ensemble_decision_steps"} \subseteq TablesOf(15)
  <2> DEFINE s == [do |-> "create", tables |-> {"ensemble_decision_steps"}]
             a == [do |-> "add", table |-> "users", name |-> "decision_architecture"]
  <2>1. Migrations[15] = <<a>> \o <<s>>
    BY DEF Migrations, M015, Create, Add
  <2> HIDE DEF s, a
  <2>2. <<a>> \in Seq({a, s}) /\ Len(<<a>>) = 1 /\ s \in {a, s}
    OBVIOUS
  <2>3. Len(<<a>>) + 1 \in DOMAIN (<<a>> \o <<s>>) /\ (<<a>> \o <<s>>)[Len(<<a>>) + 1] = s
    BY <2>2, StatementAfter, Zenon
  <2>4. 2 \in DOMAIN Migrations[15] /\ Migrations[15][2] = s
    <3>1. Len(<<a>>) + 1 = 2
      BY <2>2
    <3> QED
      BY <2>1, <2>3, <3>1, Zenon
  <2> QED
    BY <2>4, CreatedIn DEF s
<1>6. {"execution_quote_audits"} \subseteq TablesOf(17)
  <2> DEFINE s == [do |-> "create", tables |-> {"execution_quote_audits"}]
             a == [do |-> "add", table |-> "transactions", name |-> "execution_quote_audit_id"]
             b == [do |-> "add", table |-> "decision_audits", name |-> "execution_quote_captured_at"]
             c == [do |-> "add", table |-> "decision_audits", name |-> "execution_rejection_reason"]
  <2>1. Migrations[17] = <<a>> \o <<b, c>> \o <<s>>
    BY DEF Migrations, M017, Create, Add
  <2> HIDE DEF s, a, b, c
  <2>2. <<a>> \in Seq({a, b, c, s}) /\ <<b, c>> \in Seq({a, b, c, s}) /\ Len(<<a>>) = 1 /\ Len(<<b, c>>) = 2
    OBVIOUS
  <2> DEFINE p == <<a>> \o <<b, c>>
  <2>3. p \in Seq({a, b, c, s}) /\ Len(p) = 3 /\ s \in {a, b, c, s}
    BY <2>2
  <2> HIDE DEF p
  <2>4. Len(p) + 1 \in DOMAIN (p \o <<s>>) /\ (p \o <<s>>)[Len(p) + 1] = s
    BY <2>3, StatementAfter, Zenon
  <2>5. 4 \in DOMAIN Migrations[17] /\ Migrations[17][4] = s
    <3>1. Len(p) + 1 = 4
      BY <2>3
    <3> QED
      BY <2>1, <2>4, <3>1, Zenon DEF p
  <2> QED
    BY <2>5, CreatedIn DEF s
<1> QED
  BY <1>1, <1>2, <1>3, <1>4, <1>5, <1>6

\* The tables of today: the script creates them all, in two parts.
LEMMA TablesOfToday ==
    /\ "news_headlines" \notin Tables
    /\ Later \subseteq Tables /\ Altered \subseteq Tables
    /\ Oldest \cup {"schema_version"} \subseteq Tables \ Later
    /\ \A v \in 1..23 : TablesOf(v) \subseteq Tables
<1>1. Tables = Oldest \cup {"corporate_actions", "schema_version"} \cup UNION {TablesOf(w) : w \in 1..23}
  BY MigrationsAreStatements DEF Tables, UpTo
<1>2. \A v \in 1..23 : TablesOf(v) \subseteq Tables
  BY <1>1
<1>3. "news_headlines" \notin Tables
  BY <1>1, TableIsOf DEF Oldest
<1>4. Later \subseteq Tables /\ Altered \subseteq Tables
  BY <1>1, <1>2, LaterTables DEF Later, Altered
<1>5. Oldest \cup {"schema_version"} \subseteq Tables \ Later
  BY <1>1 DEF Oldest, Later
<1> QED
  BY <1>2, <1>3, <1>4, <1>5

\* The columns of today: each belongs to a table of today, and none that a migration up to 8
\* adds is lost when the users or the ledger are copied.
LEMMA ColumnsOfToday ==
    /\ AllColumns = UNION {ColumnsOf(v) : v \in 1..23}
    /\ \A v \in 1..23 : \A c \in ColumnsOf(v) :
          c[1] \in Tables /\ MayBeAdded(v, c[2])
<1>1. AllColumns = UNION {ColumnsOf(v) : v \in 1..23}
  BY MigrationsAreStatements DEF UpTo, AllColumns
<1>2. ASSUME NEW v \in 1..23, NEW c \in ColumnsOf(v)
      PROVE  c[1] \in Tables /\ MayBeAdded(v, c[2])
  <2>1. PICK s : s.do = "add" /\ c = <<s.table, s.name>> /\ IsStatement(v, s)
    BY ColumnIsOf
  <2> QED
    BY <2>1, TablesOfToday DEF IsStatement, AddedLater
<1> QED
  BY <1>1, <1>2

(* What a ledger says of the open position *)

\* The shares held after each transaction satisfy the recursion that defines them.
LEMMA SharesRun ==
    ASSUME NEW l \in Seq(LedgerRow)
    PROVE  /\ SharesAfter(l) \in [0..Len(l) -> Int]
           /\ SharesAfter(l)[0] = 0
           /\ \A n \in 1..Len(l) : SharesAfter(l)[n] = SharesAfter(l)[n - 1] + SharesIn(l[n])
<1> DEFINE N == Len(l)
           Fix(f) == f = [n \in 0..N |-> IF n = 0 THEN 0 ELSE f[n - 1] + SharesIn(l[n])]
           f == CHOOSE g : Fix(g)
           s == [n \in 1..N |-> SharesIn(l[n])]
<1>0. N \in Nat
  OBVIOUS
<1>1. s \in Seq(Int) /\ Len(s) = N /\ \A n \in 1..N : s[n] = SharesIn(l[n])
  <2>1. \A n \in 1..N : SharesIn(l[n]) \in Int
    BY DEF SharesIn
  <2>2. s \in [1..N -> Int]
    BY <2>1
  <2> HIDE DEF N
  <2> QED
    BY <1>0, <2>2
<1>2. PICK r \in [0..N -> Int] : r[0] = 0 /\ \A n \in 1..N : r[n] = r[n - 1] + s[n]
  <2> HIDE DEF s, N
  <2> QED
    BY <1>1, SumRuns
<1>3. Fix(r)
  <2>1. r = [n \in 0..N |-> r[n]]
    BY <1>2
  <2>2. \A n \in 0..N : r[n] = IF n = 0 THEN 0 ELSE r[n - 1] + SharesIn(l[n])
    BY <1>0, <1>1, <1>2
  <2> QED
    BY <2>1, <2>2
<1>4. Fix(f)
  <2> HIDE DEF Fix
  <2> QED
    BY <1>3
<1>5. SharesAfter(l) = f
  BY DEF SharesAfter
<1> HIDE DEF f
<1>6. \A n \in 0..N : f[n] = IF n = 0 THEN 0 ELSE f[n - 1] + SharesIn(l[n])
  BY <1>4
<1>7. \A n \in 0..N : f[n] = r[n]
  <2> DEFINE U == {n \in 0..N : f[n] = r[n]}
  <2>1. 0 \in U
    BY <1>0, <1>2, <1>6
  <2>2. ASSUME NEW n \in 0..(N - 1), n \in U PROVE n + 1 \in U
    <3>1. n + 1 \in 1..N /\ n + 1 \in 0..N /\ n + 1 # 0 /\ (n + 1) - 1 = n
      BY <1>0
    <3>2. r[n + 1] = r[(n + 1) - 1] + s[n + 1]
      BY <1>2, <3>1
    <3>3. f[n + 1] = f[(n + 1) - 1] + SharesIn(l[n + 1])
      BY <1>6, <3>1
    <3> QED
      BY <1>1, <2>2, <3>1, <3>2, <3>3
  <2> HIDE DEF U, N
  <2>3. \A n \in 0..N : n \in U
    BY <1>0, <2>1, <2>2, CountingUp
  <2> QED
    BY <2>3 DEF U
<1>8. f \in [0..N -> Int]
  <2>1. f = [n \in 0..N |-> f[n]]
    <3>1. f = [n \in 0..N |-> IF n = 0 THEN 0 ELSE f[n - 1] + SharesIn(l[n])]
      BY <1>4
    <3> QED
      BY <1>6, <3>1
  <2> QED
    BY <1>2, <1>7, <2>1
<1> QED
  BY <1>0, <1>5, <1>6, <1>8

\* The transactions that open a position.
Openings(l) == {i \in 1..Len(l) : l[i].kind = "BUY" /\ SharesAfter(l)[i - 1] = 0}

\* The latest opening among the first n transactions, or 0.
LastOf(T) == IF T = {} THEN 0 ELSE CHOOSE i \in T : \A j \in T : j <= i
LatestOpening(l, n) == LastOf(Openings(l) \cap (1..n))

\* The last of some transactions is one of them, and none is later.
LEMMA LastIsThere ==
    ASSUME NEW n \in Nat, NEW T \in SUBSET (1..n), T # {}
    PROVE  LastOf(T) \in T /\ \A j \in T : j <= LastOf(T)
<1>1. T \in SUBSET (0..n)
  OBVIOUS
<1>2. \E m \in T : \A j \in T : j <= m
  BY <1>1, GreatestNumber
<1> QED
  BY <1>2 DEF LastOf

\* One transaction more: it is the latest opening, or the latest stays.
LEMMA LatestGoesOn ==
    ASSUME NEW l \in Seq(LedgerRow), NEW n \in 1..Len(l)
    PROVE  LatestOpening(l, n) = IF n \in Openings(l) THEN n ELSE LatestOpening(l, n - 1)
<1>0. n \in Nat /\ n \in 1..n
  OBVIOUS
<1> DEFINE T == Openings(l) \cap (1..n)
<1>1. CASE n \in Openings(l)
  <2>1. T \in SUBSET (1..n) /\ n \in T /\ T # {}
    BY <1>0, <1>1
  <2> HIDE DEF T
  <2>2. LastOf(T) \in T /\ \A j \in T : j <= LastOf(T)
    BY <1>0, <2>1, LastIsThere, Zenon
  <2>3. LastOf(T) \in 1..n /\ n <= LastOf(T)
    BY <2>1, <2>2, Zenon
  <2>4. LastOf(T) = n
    BY <1>0, <2>3
  <2> QED
    BY <1>1, <2>4 DEF LatestOpening, T
<1>2. CASE n \notin Openings(l)
  <2>1. T = Openings(l) \cap (1..(n - 1))
    <3>1. \A i \in 1..n : i # n => i \in 1..(n - 1)
      BY <1>0
    <3>2. \A i \in 1..(n - 1) : i \in 1..n
      BY <1>0
    <3> QED
      BY <1>2, <3>1, <3>2
  <2>2. LastOf(T) = LastOf(Openings(l) \cap (1..(n - 1)))
    BY <2>1, Zenon
  <2> QED
    BY <1>2, <2>2 DEF LatestOpening
<1> QED
  BY <1>1, <1>2

\* What the migration computes is the latest opening, in a ledger that never sells what is
\* not there.
LEMMA OpeningIsLatest ==
    ASSUME NEW l \in Seq(LedgerRow), Sound(l)
    PROVE  Opening(l) = LatestOpening(l, Len(l))
<1> DEFINE N == Len(l)
           Step(n, before) == CASE n = 0 -> 0
                                [] n > 0 /\ l[n].kind = "BUY" /\ SharesAfter(l)[n - 1] <= 0 -> n
                                [] OTHER -> before
           Fix(f) == f = [n \in 0..N |-> Step(n, f[n - 1])]
           f == CHOOSE g : Fix(g)
           r == [n \in 0..N |-> LatestOpening(l, n)]
<1>0. N \in Nat /\ DOMAIN l = 1..N
  OBVIOUS
<1>1. \A n \in 0..N : SharesAfter(l)[n] \in Nat
  <2>1. ASSUME NEW n \in 0..N PROVE SharesAfter(l)[n] \in Int /\ (n # 0 => n \in DOMAIN l)
    BY <1>0, SharesRun
  <2>2. SharesAfter(l)[0] = 0
    BY SharesRun
  <2>3. ASSUME NEW n \in 0..N, n # 0 PROVE SharesAfter(l)[n] >= 0
    BY <2>1, <2>3 DEF Sound
  <2> QED
    BY <2>1, <2>2, <2>3
<1>2. ASSUME NEW n \in 1..N, NEW before
      PROVE  Step(n, before) = IF n \in Openings(l) THEN n ELSE before
  <2>1. n # 0 /\ n > 0 /\ n - 1 \in 0..N
    BY <1>0
  <2>2. SharesAfter(l)[n - 1] <= 0 <=> SharesAfter(l)[n - 1] = 0
    BY <1>1, <2>1
  <2> QED
    BY <2>1, <2>2 DEF Openings
<1>3. LatestOpening(l, 0) = 0
  <2>1. 1..0 = {}
    OBVIOUS
  <2> QED
    BY <2>1 DEF LatestOpening, LastOf
<1>4. \A n \in 1..N : LatestOpening(l, n) = IF n \in Openings(l) THEN n ELSE LatestOpening(l, n - 1)
  BY LatestGoesOn
<1>5. Fix(r)
  <2>1. ASSUME NEW n \in 0..N PROVE LatestOpening(l, n) = Step(n, r[n - 1])
    <3>1. CASE n = 0
      BY <1>3, <3>1
    <3>2. CASE n # 0
      <4>1. n \in 1..N /\ n - 1 \in 0..N
        BY <1>0, <3>2
      <4>2. r[n - 1] = LatestOpening(l, n - 1)
        BY <4>1
      <4> HIDE DEF r, Step
      <4> QED
        BY <1>2, <1>4, <4>1, <4>2
    <3> QED
      BY <3>1, <3>2
  <2> QED
    BY <2>1, Zenon
<1> HIDE DEF r
<1>6. Fix(f)
  <2> HIDE DEF Fix
  <2> QED
    BY <1>5
<1>7. Opening(l) = f[N]
  BY DEF Opening
<1> HIDE DEF f
<1>8. \A n \in 0..N : f[n] = Step(n, f[n - 1])
  BY <1>6
<1>9. \A n \in 0..N : f[n] = LatestOpening(l, n)
  <2> DEFINE U == {n \in 0..N : f[n] = LatestOpening(l, n)}
  <2>1. 0 \in U
    BY <1>0, <1>3, <1>8
  <2>2. ASSUME NEW n \in 0..(N - 1), n \in U PROVE n + 1 \in U
    <3>1. n + 1 \in 1..N /\ n + 1 \in 0..N /\ (n + 1) - 1 = n
      BY <1>0
    <3>2. f[n + 1] = Step(n + 1, f[n])
      BY <1>8, <3>1
    <3> HIDE DEF Step
    <3> QED
      BY <1>2, <1>4, <2>2, <3>1, <3>2
  <2> HIDE DEF U, N
  <2>3. \A n \in 0..N : n \in U
    BY <1>0, <2>1, <2>2, CountingUp
  <2> QED
    BY <2>3 DEF U
<1> QED
  BY <1>0, <1>7, <1>9

\* Somebody who holds a share opened the position, so the migration dates it with the
\* transaction that did.
LEMMA PositionWasOpened ==
    ASSUME NEW l \in Seq(LedgerRow), Sound(l)
    PROVE  /\ OpenedAt(l) \in Nat
           /\ Shares(l) # 0 => Shares(l) > 0 /\ OpenedAt(l) = Opening(l)
           /\ Shares(l) = 0 => OpenedAt(l) = 0
<1> DEFINE N == Len(l)
<1>0. N \in Nat /\ DOMAIN l = 1..N
  OBVIOUS
<1>1. ASSUME Openings(l) = {} PROVE Shares(l) = 0
  <2> DEFINE U == {n \in 0..N : SharesAfter(l)[n] = 0}
  <2>1. 0 \in U
    BY <1>0, SharesRun
  <2>2. ASSUME NEW n \in 0..(N - 1), n \in U PROVE n + 1 \in U
    <3>1. n + 1 \in 1..N /\ n + 1 \in 0..N /\ (n + 1) - 1 = n
      BY <1>0
    <3>2. SharesAfter(l)[n + 1] = SharesIn(l[n + 1])
      <4>1. SharesIn(l[n + 1]) \in Int
        BY DEF SharesIn
      <4>2. SharesAfter(l)[n + 1] = SharesAfter(l)[n] + SharesIn(l[n + 1])
        BY <3>1, SharesRun
      <4> QED
        BY <2>2, <4>1, <4>2
    <3>3. l[n + 1].kind # "BUY"
      BY <1>1, <2>2, <3>1 DEF Openings
    <3>4. SharesAfter(l)[n + 1] >= 0
      BY <1>0, <3>1 DEF Sound
    <3> QED
      BY <3>1, <3>2, <3>3, <3>4 DEF SharesIn
  <2> HIDE DEF U, N
  <2>3. \A n \in 0..N : n \in U
    BY <1>0, <2>1, <2>2, CountingUp
  <2> QED
    <3>1. N \in U
      BY <1>0, <2>3
    <3> QED
      BY <3>1 DEF U, N, Shares
<1>2. Shares(l) \in Int /\ Shares(l) >= 0
  <2>0. Shares(l) = SharesAfter(l)[N]
    BY DEF Shares
  <2>1. CASE N = 0
    <3>1. SharesAfter(l)[0] = 0
      BY SharesRun
    <3> QED
      BY <2>0, <2>1, <3>1
  <2>2. CASE N # 0
    <3>1. N \in 0..N /\ N \in DOMAIN l
      BY <1>0, <2>2
    <3>2. SharesAfter(l)[N] \in Int
      BY <3>1, SharesRun
    <3> QED
      BY <2>0, <3>1, <3>2 DEF Sound
  <2> QED
    BY <2>1, <2>2
<1>3. ASSUME Shares(l) # 0 PROVE OpenedAt(l) = Opening(l) /\ OpenedAt(l) \in Nat
  <2>1. Openings(l) \cap (1..N) = Openings(l) /\ Openings(l) # {}
    BY <1>1, <1>3 DEF Openings
  <2>2. OpenedAt(l) = LatestOpening(l, N)
    <3>1. Openings(l) = {i \in DOMAIN l : l[i].kind = "BUY" /\ SharesAfter(l)[i - 1] = 0}
      BY <1>0 DEF Openings
    <3>2. OpenedAt(l) = CHOOSE i \in Openings(l) : \A j \in Openings(l) : j <= i
      BY <1>3, <3>1 DEF OpenedAt
    <3>3. OpenedAt(l) = LastOf(Openings(l))
      BY <2>1, <3>2 DEF LastOf
    <3> QED
      BY <2>1, <3>3 DEF LatestOpening
  <2>3. LatestOpening(l, N) \in 1..N
    <3>1. Openings(l) \in SUBSET (1..N)
      BY <2>1
    <3>2. LastOf(Openings(l)) \in Openings(l)
      BY <1>0, <2>1, <3>1, LastIsThere
    <3>3. LatestOpening(l, N) = LastOf(Openings(l))
      BY <2>1 DEF LatestOpening
    <3> QED
      BY <3>1, <3>2, <3>3
  <2> QED
    BY <2>2, <2>3, OpeningIsLatest
<1>4. Shares(l) = 0 => OpenedAt(l) = 0
  BY DEF OpenedAt
<1> QED
  BY <1>2, <1>3, <1>4


(* The upgrade *)

\* The kinds of a transaction only become more.
LEMMA KindsGrow ==
    /\ \A v \in 0..23 : KindsOf(v) \subseteq Kinds
    /\ \A v \in 1..23 : KindsOf(v - 1) \subseteq KindsOf(v)
    /\ \A v \in 8..23 : KindsOf(v) = Kinds
  BY DEF KindsOf, Kinds

\* The migrations that the invariant names.
LEMMA NamedMigrations ==
    /\ 1 \in DOMAIN Migrations[8] /\ Migrations[8][1].do = "ledger" /\ Migrations[8][1].kinds = Kinds
    /\ 1 \in DOMAIN Migrations[14] /\ Migrations[14][1].do = "drop" /\ Migrations[14][1].tables = {"news_headlines"}
    /\ <<"users", "decision_architecture">> \in ColumnsOf(15)
    /\ ColumnsOf(18) = {}
    /\ \A v \in 1..23 : Len(Migrations[v]) \in Nat /\ DOMAIN Migrations[v] = 1..Len(Migrations[v])
<1>1. 1 \in DOMAIN Migrations[8] /\ Migrations[8][1].do = "ledger" /\ Migrations[8][1].kinds = Kinds
  BY DEF Migrations, M008, RebuildLedger
<1>2. 1 \in DOMAIN Migrations[14] /\ Migrations[14][1].do = "drop" /\ Migrations[14][1].tables = {"news_headlines"}
  BY DEF Migrations, M014, Drop
<1>3. <<"users", "decision_architecture">> \in ColumnsOf(15)
  <2> DEFINE a == [do |-> "add", table |-> "users", name |-> "decision_architecture"]
             s == [do |-> "create", tables |-> {"ensemble_decision_steps"}]
  <2>1. Migrations[15] = <<a>> \o <<s>>
    BY DEF Migrations, M015, Create, Add
  <2>2. <<a>> \in Seq({a, s}) /\ <<s>> \in Seq({a, s})
    OBVIOUS
  <2>3. 1 \in DOMAIN Migrations[15] /\ Migrations[15][1] = a
    <3> HIDE DEF a, s
    <3> QED
      BY <2>1, <2>2
  <2>4. Migrations[15][1].do = "add" /\ Migrations[15][1].table = "users" /\ Migrations[15][1].name = "decision_architecture"
    BY <2>3
  <2> QED
    BY <2>3, <2>4, StatementIsOf
<1>4. ColumnsOf(18) = {}
  <2>1. DOMAIN Migrations[18] = {}
    BY DEF Migrations, M018
  <2> QED
    BY <2>1, ColumnIsOf
<1>5. ASSUME NEW v \in 1..23
      PROVE  Len(Migrations[v]) \in Nat /\ DOMAIN Migrations[v] = 1..Len(Migrations[v])
  <2>1. PICK S : Migrations[v] \in Seq(S)
    BY MigrationsAreStatements DEF AreStatements
  <2> QED
    BY <2>1
<1> QED
  BY <1>1, <1>2, <1>3, <1>4, <1>5

\* What the tables and columns of the invariant are made of.
LEMMA DatabaseShape ==
    ASSUME UpgradeTypeOK
    PROVE  /\ db = [tables |-> db.tables, columns |-> db.columns, kinds |-> db.kinds, ledger |-> db.ledger,
                    referenced |-> db.referenced, opened |-> db.opened, bound |-> db.bound,
                    config |-> db.config, version |-> db.version]
           /\ Reached \in 0..23 /\ Current = 23
  BY MigrationsAreStatements DEF UpgradeTypeOK, Databases, Processes, Reached, NoVersion

\* A statement that is next in a migration: a copy of rows only in a migration that
\* finds rows it can copy, and no statement but an addition can fail.
LEMMA StatementIsFit ==
    ASSUME UpgradeInv, Upgrading, NEW s, upgrade.i \in DOMAIN Statements, s = Statements[upgrade.i]
    PROVE  /\ upgrade.v \in 1..23 /\ IsStatement(upgrade.v, s)
           /\ s.do = "add" => <<s.table, s.name>> \in ColumnsOf(upgrade.v)
           /\ s.do \in {"create", "ledger"} => s.tables \subseteq Tables
           /\ s.do \in {"ledger", "users", "drop"} => InStage("migrate") /\ Reached = upgrade.v - 1
           /\ s.do \in {"ledger", "users"} => Reached < 8
           /\ s.do # "add" => ~Fails(s, db)
<1>1. upgrade.v \in 1..23 /\ upgrade.stage \in {"migrate", "repair", "repairing"}
  BY MigrationsAreStatements DEF UpgradeInv, StatementsAreDone, Upgrading, InStage
<1>2. /\ IsStatement(upgrade.v, s)
      /\ s.do = "add" => <<s.table, s.name>> \in ColumnsOf(upgrade.v)
      /\ s.do \in {"create", "ledger"} => s.tables \subseteq Tables
  BY <1>1, StatementIsOf, TablesOfToday DEF Statements
<1>3. s.do \in {"ledger", "users", "drop"} => InStage("migrate")
  <2> SUFFICES ASSUME s.do \in {"ledger", "users", "drop"}, ~InStage("migrate") PROVE FALSE
    OBVIOUS
  <2>1. upgrade.v \in {2, 3, 5, 8, 14}
    BY <1>2 DEF IsStatement
  <2>2. InStage("repair") /\ NeedsRepair(upgrade.v, db)
    BY <1>1, <2>1 DEF UpgradeInv, StatementsAreDone, Upgrading, InStage
  <2>3. Reached = 23
    BY <2>2, MigrationsAreStatements DEF UpgradeInv, StatementsAreDone, InStage, Reached, NoVersion
  <2>4. db.kinds = Kinds /\ "news_headlines" \notin db.tables
    BY <2>3 DEF UpgradeInv
  <2>5. ~NeedsRepair(upgrade.v, db)
    BY <2>1, <2>4 DEF NeedsRepair, Kinds
  <2> QED
    BY <2>2, <2>5
<1>4. InStage("migrate") => Reached = upgrade.v - 1
  BY <1>1 DEF UpgradeInv, StatementsAreDone, Reached, NoVersion
<1>5. s.do \in {"ledger", "users"} => Reached < 8
  BY <1>2, <1>3, <1>4 DEF IsStatement
<1>6. s.do # "add" => ~Fails(s, db)
  <2>1. CASE s.do = "ledger"
    <3>1. ~db.referenced /\ \A i \in DOMAIN db.ledger : db.ledger[i].kind \in KindsOf(Reached)
      BY <1>5, <2>1 DEF UpgradeInv, RowsAreOld
    <3>2. KindsOf(Reached) \subseteq s.kinds
      BY <1>1, <1>2, <1>3, <1>4, <2>1, KindsGrow DEF IsStatement
    <3> QED
      BY <2>1, <3>1, <3>2 DEF Fails
  <2>2. CASE s.do \notin {"add", "ledger"}
    BY <2>2 DEF Fails
  <2> QED
    BY <2>1, <2>2
<1> QED
  BY <1>1, <1>2, <1>3, <1>4, <1>5, <1>6

\* What a statement does: no row changes, no table of today goes, and a column only where a
\* copy of rows leaves out what a later migration adds.
LEMMA StatementRuns ==
    ASSUME UpgradeInv, RunStatement, NEW s, s = Statements[upgrade.i]
    PROVE  /\ upgrade' = [upgrade EXCEPT !.i = @ + 1, !.stage = IF @ = "repair" THEN "repairing" ELSE @]
           /\ db' = [db EXCEPT !.tables = db'.tables, !.columns = db'.columns, !.kinds = db'.kinds]
           /\ db'.tables \subseteq db.tables \cup Tables /\ db.tables \ {"news_headlines"} \subseteq db'.tables
           /\ db'.columns \subseteq AllColumns
           /\ \A c \in db.columns : c \in db'.columns \/ (c[2] \in AddedLater /\ Reached < 8)
           /\ db'.kinds = db.kinds \/ (Reached < 8 /\ db'.kinds = KindsOf(upgrade.v))
           /\ Upgrading /\ upgrade.i \in DOMAIN Statements
           /\ Done(s)'
<1> DEFINE skipped == s.do = "add" /\ ~Needed(s, db)
<1>0. Upgrading /\ upgrade.i \in DOMAIN Statements
  <2>1. Upgrading /\ upgrade.i <= Len(Statements)
    BY DEF RunStatement
  <2>2. upgrade.v \in 1..23
    BY <2>1, MigrationsAreStatements DEF UpgradeInv, StatementsAreDone, Upgrading, InStage
  <2>3. upgrade.i \in Nat /\ upgrade.i >= 1
    BY <2>1 DEF UpgradeInv, UpgradeTypeOK, Databases, Processes, StatementsAreDone, Upgrading, InStage
  <2>4. Len(Statements) \in Nat /\ DOMAIN Statements = 1..Len(Statements)
    BY <2>2, NamedMigrations DEF Statements
  <2> QED
    BY <2>1, <2>3, <2>4
<1>1. /\ upgrade.v \in 1..23 /\ IsStatement(upgrade.v, s)
      /\ s.do = "add" => <<s.table, s.name>> \in ColumnsOf(upgrade.v)
      /\ s.do \in {"create", "ledger"} => s.tables \subseteq Tables
      /\ s.do \in {"ledger", "users"} => Reached < 8
      /\ s.do # "add" => ~Fails(s, db)
  BY <1>0, StatementIsFit
<1>2. s.do = "add" /\ Needed(s, db) => ~Fails(s, db)
  BY DEF Needed, Fails
<1>3. /\ db' = IF skipped THEN db ELSE After(s, db)
      /\ upgrade' = [upgrade EXCEPT !.i = @ + 1, !.stage = IF @ = "repair" THEN "repairing" ELSE @]
  <2>1. ~(~skipped /\ Fails(s, db))
    BY <1>1, <1>2
  <2> QED
    BY <2>1 DEF RunStatement
<1>4. UpgradeTypeOK /\ db.columns \subseteq AllColumns
  BY DEF UpgradeInv, UpgradeTypeOK, Databases, Processes
<1>5. db = [tables |-> db.tables, columns |-> db.columns, kinds |-> db.kinds, ledger |-> db.ledger,
            referenced |-> db.referenced, opened |-> db.opened, bound |-> db.bound,
            config |-> db.config, version |-> db.version]
  BY <1>4, DatabaseShape
<1> DEFINE Kept == /\ db' = [db EXCEPT !.tables = db'.tables, !.columns = db'.columns, !.kinds = db'.kinds]
                   /\ db'.tables \subseteq db.tables \cup Tables /\ db.tables \ {"news_headlines"} \subseteq db'.tables
                   /\ db'.columns \subseteq AllColumns
                   /\ \A c \in db.columns : c \in db'.columns \/ (c[2] \in AddedLater /\ Reached < 8)
                   /\ db'.kinds = db.kinds \/ (Reached < 8 /\ db'.kinds = KindsOf(upgrade.v))
                   /\ Done(s)'
<1>6. ASSUME skipped PROVE Kept
  <2>1. db' = db
    BY <1>3, <1>6
  <2>2. db' = [db EXCEPT !.tables = db'.tables, !.columns = db'.columns, !.kinds = db'.kinds]
    BY <1>5, <2>1
  <2>3. Done(s)'
    BY <1>6, <2>1 DEF Done, Needed
  <2> QED
    BY <1>4, <2>1, <2>2, <2>3
<1>7. ASSUME ~skipped /\ s.do = "add" PROVE Kept
  <2>1. db' = [db EXCEPT !.columns = @ \cup {<<s.table, s.name>>}]
    BY <1>3, <1>7 DEF After
  <2>2. <<s.table, s.name>> \in AllColumns
    BY <1>1, <1>7, ColumnsOfToday
  <2>3. /\ db'.columns = db.columns \cup {<<s.table, s.name>>} /\ db'.tables = db.tables /\ db'.kinds = db.kinds
        /\ db' = [db EXCEPT !.tables = db'.tables, !.columns = db'.columns, !.kinds = db'.kinds]
    BY <1>5, <2>1
  <2>4. Done(s)'
    BY <1>7, <2>3 DEF Done
  <2> QED
    BY <1>4, <2>2, <2>3, <2>4
<1>8. ASSUME s.do = "create" PROVE Kept
  <2>1. db' = [db EXCEPT !.tables = @ \cup s.tables]
    BY <1>3, <1>8 DEF After
  <2>2. /\ db'.columns = db.columns /\ db'.tables = db.tables \cup s.tables /\ db'.kinds = db.kinds
        /\ db' = [db EXCEPT !.tables = db'.tables, !.columns = db'.columns, !.kinds = db'.kinds]
    BY <1>5, <2>1
  <2>3. Done(s)'
    BY <1>8 DEF Done
  <2> QED
    BY <1>1, <1>4, <1>8, <2>2, <2>3
<1>9. ASSUME s.do = "drop" PROVE Kept
  <2>1. db' = [db EXCEPT !.tables = @ \ s.tables] /\ s.tables = {"news_headlines"}
    BY <1>1, <1>3, <1>9 DEF After, IsStatement
  <2>2. /\ db'.columns = db.columns /\ db'.tables = db.tables \ s.tables /\ db'.kinds = db.kinds
        /\ db' = [db EXCEPT !.tables = db'.tables, !.columns = db'.columns, !.kinds = db'.kinds]
    BY <1>5, <2>1
  <2>3. Done(s)'
    BY <1>9, <2>2 DEF Done
  <2> QED
    BY <1>4, <2>1, <2>2, <2>3
<1>10. ASSUME s.do = "ledger" PROVE Kept
  <2> DEFINE q == <<"transactions", "execution_quote_audit_id">>
  <2>1. [n \in DOMAIN db.ledger |-> [db.ledger[n] EXCEPT !.quote = FALSE]] = db.ledger
    <3>1. db.ledger \in Seq(LedgerRow)
      BY <1>4 DEF UpgradeTypeOK, Databases, Processes
    <3>2. \A n \in DOMAIN db.ledger : ~db.ledger[n].quote
      BY <1>1, <1>10 DEF UpgradeInv, RowsAreOld
    <3>3. ASSUME NEW n \in DOMAIN db.ledger PROVE [db.ledger[n] EXCEPT !.quote = FALSE] = db.ledger[n]
      <4>1. db.ledger[n] \in LedgerRow
        BY <3>1
      <4>2. db.ledger[n].quote = FALSE
        BY <3>2, <4>1 DEF LedgerRow
      <4> QED
        BY <4>1, <4>2 DEF LedgerRow
    <3>4. db.ledger = [n \in DOMAIN db.ledger |-> db.ledger[n]]
      BY <3>1
    <3> QED
      BY <3>3, <3>4
  <2>2. db' = [db EXCEPT !.kinds = s.kinds, !.tables = @ \cup s.tables, !.columns = @ \ {q}, !.ledger = db.ledger]
    BY <1>3, <1>10, <2>1 DEF After
  <2>3. s.kinds = KindsOf(upgrade.v)
    BY <1>1, <1>10 DEF IsStatement
  <2>4. /\ db'.columns = db.columns \ {q} /\ db'.tables = db.tables \cup s.tables /\ db'.kinds = s.kinds
        /\ db' = [db EXCEPT !.tables = db'.tables, !.columns = db'.columns, !.kinds = db'.kinds]
    BY <1>5, <2>2
  <2>5. q[2] \in AddedLater
    BY DEF AddedLater
  <2>6. Done(s)'
    BY <1>10, <2>4 DEF Done
  <2> HIDE DEF q
  <2> QED
    BY <1>1, <1>4, <1>10, <2>3, <2>4, <2>5, <2>6
<1>11. ASSUME s.do = "users" PROVE Kept
  <2> DEFINE C == ColumnsOf(9) \cup {<<"users", "decision_architecture">>}
  <2>1. db' = [db EXCEPT !.columns = @ \ C, !.bound = FALSE]
    BY <1>3, <1>11 DEF After
  <2>2. \A c \in C : c[2] \in AddedLater
    <3>1. \A c \in ColumnsOf(9) : c[2] \in AddedLater
      BY ColumnsOfToday DEF MayBeAdded
    <3> QED
      BY <3>1 DEF AddedLater
  <2>3. db.bound = FALSE
    BY <1>1, <1>4, <1>11 DEF UpgradeInv, RowsAreOld, UpgradeTypeOK, Databases, Processes
  <2> HIDE DEF C
  <2>4. /\ db'.columns = db.columns \ C /\ db'.tables = db.tables /\ db'.kinds = db.kinds
        /\ db' = [db EXCEPT !.tables = db'.tables, !.columns = db'.columns, !.kinds = db'.kinds]
    BY <1>5, <2>1, <2>3
  <2>5. Done(s)'
    BY <1>11 DEF Done
  <2> QED
    BY <1>1, <1>4, <1>11, <2>2, <2>4, <2>5
<1>12. Kept
  BY <1>1, <1>6, <1>7, <1>8, <1>9, <1>10, <1>11 DEF IsStatement
<1> QED
  BY <1>0, <1>3, <1>12

\* Every table of today but those of other programs: what is not empty after the script.
LEMMA TablesAreThere ==
    ASSUME NEW T, Tables \subseteq T
    PROVE  T # {} /\ Oldest \subseteq T /\ "schema_version" \in T /\ Tables \ Later \subseteq T /\ "users" \in T
  BY TablesOfToday DEF Oldest

\* A column of a migration up to 8, or any column from there on, survives a statement.
LEMMA ColumnsSurvive ==
    ASSUME UpgradeInv, RunStatement, NEW w \in 1..23, w <= 8 \/ Reached >= 8, ColumnsOf(w) \subseteq db.columns
    PROVE  ColumnsOf(w) \subseteq db'.columns
<1>1. \A c \in db.columns : c \in db'.columns \/ (c[2] \in AddedLater /\ Reached < 8)
  BY StatementRuns
<1>2. Reached \in 0..23
  BY DatabaseShape DEF UpgradeInv
<1>3. w <= 8 => \A c \in ColumnsOf(w) : c[2] \notin AddedLater
  BY ColumnsOfToday DEF MayBeAdded
<1> QED
  BY <1>1, <1>2, <1>3

\* What the statements before have done stays done.
LEMMA DoneStaysDone ==
    ASSUME UpgradeInv, RunStatement,
           NEW i \in DOMAIN Statements, NEW s, s = Statements[i], Done(s)
    PROVE  Done(s)'
<1>1. /\ db'.tables \subseteq db.tables \cup Tables
      /\ \A c \in db.columns : c \in db'.columns \/ (c[2] \in AddedLater /\ Reached < 8)
      /\ db'.kinds = db.kinds \/ (Reached < 8 /\ db'.kinds = KindsOf(upgrade.v))
      /\ Upgrading
  BY StatementRuns
<1>2. upgrade.v \in 1..23 /\ Reached \in 0..23
  BY <1>1, DatabaseShape, MigrationsAreStatements DEF UpgradeInv, StatementsAreDone, Upgrading, InStage
<1>3. IsStatement(upgrade.v, s) /\ (s.do = "add" => <<s.table, s.name>> \in ColumnsOf(upgrade.v))
  BY <1>2, StatementIsOf DEF Statements
<1>4. CASE s.do = "add"
  <2>1. <<s.table, s.name>> \in db.columns
    BY <1>4 DEF Done
  <2>2. Reached < 8 => upgrade.v <= 8
    BY <1>1, <1>2, MigrationsAreStatements
       DEF UpgradeInv, StatementsAreDone, Upgrading, InStage, Reached, NoVersion
  <2>3. Reached < 8 => <<s.table, s.name>>[2] \notin AddedLater
    BY <1>2, <1>3, <1>4, <2>2, ColumnsOfToday DEF MayBeAdded
  <2>4. <<s.table, s.name>> \in db'.columns
    BY <1>1, <2>1, <2>3
  <2> QED
    BY <1>4, <2>4 DEF Done
<1>5. CASE s.do = "drop"
  BY <1>1, <1>3, <1>5, TablesOfToday DEF Done, IsStatement
<1>6. CASE s.do = "ledger"
  BY <1>1, <1>3, <1>6 DEF Done, IsStatement
<1>7. CASE s.do \notin {"add", "drop", "ledger"}
  BY <1>7 DEF Done
<1> QED
  BY <1>4, <1>5, <1>6, <1>7

\* One statement.
LEMMA StatementStep ==
    ASSUME UpgradeInv, RunStatement
    PROVE  UpgradeInv'
<1> DEFINE s == Statements[upgrade.i]
<1>1. /\ upgrade' = [upgrade EXCEPT !.i = @ + 1, !.stage = IF @ = "repair" THEN "repairing" ELSE @]
      /\ db' = [db EXCEPT !.tables = db'.tables, !.columns = db'.columns, !.kinds = db'.kinds]
      /\ db'.tables \subseteq db.tables \cup Tables /\ db.tables \ {"news_headlines"} \subseteq db'.tables
      /\ db'.columns \subseteq AllColumns
      /\ db'.kinds = db.kinds \/ (Reached < 8 /\ db'.kinds = KindsOf(upgrade.v))
      /\ Upgrading /\ upgrade.i \in DOMAIN Statements
  BY StatementRuns
<1>2. written' = written
  BY DEF RunStatement
<1>3. UpgradeTypeOK /\ Reached \in 0..23 /\ Current = 23
  BY DatabaseShape DEF UpgradeInv
<1>4. upgrade.v \in 1..23 /\ upgrade.stage \in {"migrate", "repair", "repairing"}
  BY <1>1, <1>3 DEF UpgradeInv, StatementsAreDone, Upgrading, InStage
<1>5. /\ db'.ledger = db.ledger /\ db'.referenced = db.referenced /\ db'.opened = db.opened
      /\ db'.bound = db.bound /\ db'.config = db.config /\ db'.version = db.version
  BY <1>1, <1>3 DEF UpgradeTypeOK, Databases, Processes
<1>6. Reached' = Reached
  BY <1>5 DEF Reached
<1>7. /\ upgrade'.v = upgrade.v /\ upgrade'.i = upgrade.i + 1 /\ upgrade'.found = upgrade.found
      /\ upgrade'.stage = IF upgrade.stage = "repair" THEN "repairing" ELSE upgrade.stage
      /\ upgrade'.stage \in {"migrate", "repairing"} /\ upgrade'.stage \in Stages
  BY <1>1, <1>3, <1>4 DEF UpgradeTypeOK, Databases, Processes, Stages
<1>8. UpgradeTypeOK'
  <2>1. db'.kinds \subseteq Kinds
    BY <1>1, <1>3, <1>4, KindsGrow DEF UpgradeTypeOK, Databases, Processes
  <2>2. db' \in Databases
    BY <1>1, <1>3, <2>1 DEF UpgradeTypeOK, Databases, Processes
  <2>3. upgrade' \in Processes
    <3>1. upgrade.i \in Nat /\ upgrade.i + 1 \in Nat
      BY <1>3 DEF UpgradeTypeOK, Databases, Processes
    <3>2. upgrade'.stage \in Stages
      BY <1>7
    <3> QED
      BY <1>1, <1>3, <3>1, <3>2 DEF UpgradeTypeOK, Databases, Processes
  <2> QED
    BY <1>2, <1>3, <2>2, <2>3 DEF UpgradeTypeOK
<1>9. UpgradeIsSafe'
  BY <1>2, <1>5, <1>7 DEF UpgradeInv, UpgradeIsSafe, InStage
<1>10. RowsAreOld'
  BY <1>5, <1>6 DEF UpgradeInv, RowsAreOld
<1>11. ColumnsAreThere'
  <2> SUFFICES ASSUME NEW w \in 1..Reached
               PROVE  ColumnsOf(w) \subseteq db'.columns \/ (Reached >= 18 /\ w \in Repaired)
    BY <1>6 DEF ColumnsAreThere
  <2>1. w \in 1..23 /\ (w <= 8 \/ Reached >= 8)
    BY <1>3
  <2>2. ColumnsOf(w) \subseteq db.columns \/ (Reached >= 18 /\ w \in Repaired)
    BY DEF UpgradeInv, ColumnsAreThere
  <2> QED
    BY <2>1, <2>2, ColumnsSurvive
<1>12. DatesAreKnown'
  BY <1>2, <1>5 DEF UpgradeInv, DatesAreKnown
<1>13. (Reached >= 8 => db.kinds = Kinds)'
  BY <1>1, <1>3, <1>6 DEF UpgradeInv
<1>14. (Reached >= 14 => "news_headlines" \notin db.tables)'
  BY <1>1, <1>6, TablesOfToday DEF UpgradeInv
<1>15. (Reached >= 18 => db.config = "targeted")'
  BY <1>5, <1>6 DEF UpgradeInv
<1>16. ScriptIsWhole'
  <2>1. Tables \subseteq db.tables
    BY <1>4 DEF UpgradeInv, ScriptIsWhole
  <2>2. Tables \subseteq db'.tables
    BY <1>1, <2>1, TablesOfToday
  <2>3. /\ db'.tables # {} /\ Oldest \subseteq db'.tables /\ "schema_version" \in db'.tables
        /\ Tables \ Later \subseteq db'.tables
    BY <2>2, TablesAreThere
  <2> QED
    BY <1>7, <2>2, <2>3 DEF ScriptIsWhole, InStage
<1>17. StatementsAreDone'
  <2>1. Statements' = Statements
    BY <1>7 DEF Statements
  <2>2. upgrade.i \in Nat /\ upgrade.i >= 1
    BY <1>3, <1>4 DEF UpgradeInv, UpgradeTypeOK, Databases, Processes, StatementsAreDone
  <2>3. ASSUME NEW i \in DOMAIN Statements, i < upgrade.i + 1 PROVE Done(Statements[i])'
    <3> DEFINE t == Statements[i]
    <3>0. i \in Nat
      <4>1. Len(Statements) \in Nat /\ DOMAIN Statements = 1..Len(Statements)
        BY <1>4, NamedMigrations DEF Statements
      <4> QED
        BY <4>1
    <3>1. \A x : x = t => Done(x)'
      <4> SUFFICES ASSUME NEW x, x = t PROVE Done(x)'
        OBVIOUS
      <4>1. CASE i = upgrade.i
        BY <4>1, StatementRuns
      <4>2. CASE i < upgrade.i
        <5>1. Done(x)
          BY <1>4, <4>2 DEF UpgradeInv, StatementsAreDone
        <5> QED
          BY <5>1, DoneStaysDone
      <4> QED
        BY <2>2, <2>3, <3>0, <4>1, <4>2
    <3> QED
      BY <2>1, <3>1
  <2>4. upgrade'.stage = "migrate" => upgrade.stage = "migrate"
    BY <1>4, <1>7
  <2>5. upgrade'.stage = "repairing" => upgrade.stage \in {"repair", "repairing"}
    BY <1>4, <1>7
  <2>6. db'.version = db.version
    BY <1>5
  <2>7. upgrade.stage \in {"repair", "repairing"} =>
           \A w \in 1..(upgrade.v - 1) : ColumnsOf(w) \subseteq db'.columns
    <3> SUFFICES ASSUME upgrade.stage \in {"repair", "repairing"}, NEW w \in 1..(upgrade.v - 1)
                 PROVE  ColumnsOf(w) \subseteq db'.columns
      OBVIOUS
    <3>1. Reached = 23 /\ ColumnsOf(w) \subseteq db.columns /\ w \in 1..23
      BY <1>3, <1>4 DEF UpgradeInv, StatementsAreDone, Reached, NoVersion
    <3> QED
      BY <3>1, ColumnsSurvive
  <2>8. upgrade'.stage = "repairing" => upgrade.v \notin {2, 3, 5, 8, 14}
    <3>1. CASE upgrade.stage = "repairing"
      BY <3>1 DEF UpgradeInv, StatementsAreDone, InStage
    <3>2. CASE upgrade.stage = "repair"
      <4>1. NeedsRepair(upgrade.v, db) /\ Reached = 23
        BY <1>1, <1>3, <3>2 DEF Upgrading, InStage, UpgradeInv, StatementsAreDone, Reached, NoVersion
      <4>2. db.kinds = Kinds /\ "news_headlines" \notin db.tables
        BY <4>1 DEF UpgradeInv
      <4> QED
        BY <4>1, <4>2 DEF NeedsRepair, Kinds
    <3> QED
      BY <2>5, <3>1, <3>2
  <2>9. upgrade.stage = "migrate" => db.version = upgrade.v - 1
    BY DEF UpgradeInv, StatementsAreDone, InStage
  <2>10. upgrade.stage \in {"repair", "repairing"} =>
            db.version = Current /\ (upgrade.v > 7 => db.opened = written.opened)
    BY DEF UpgradeInv, StatementsAreDone
  <2>11. upgrade'.i \in Nat /\ upgrade'.i >= 1
    BY <1>7, <2>2
  <2> QED
    BY <1>2, <1>3, <1>4, <1>5, <1>7, <2>1, <2>3, <2>4, <2>5, <2>7, <2>8, <2>9, <2>10, <2>11
       DEF StatementsAreDone, InStage
<1> QED
  BY <1>8, <1>9, <1>10, <1>11, <1>12, <1>13, <1>14, <1>15, <1>16, <1>17 DEF UpgradeInv

\* All statements of a migration done: its columns are there, and what it removes is not.
LEMMA AllAreDone ==
    ASSUME UpgradeInv, upgrade.stage \in {"migrate", "repairing"}, upgrade.i > Len(Statements)
    PROVE  /\ upgrade.v \in 1..23
           /\ ColumnsOf(upgrade.v) \subseteq db.columns
           /\ upgrade.v = 8 => db.kinds = Kinds
           /\ upgrade.v = 14 => "news_headlines" \notin db.tables
<1>1. upgrade.v \in 1..23 /\ upgrade.i \in Nat
  BY MigrationsAreStatements DEF UpgradeInv, UpgradeTypeOK, Databases, Processes, StatementsAreDone
<1>2. Len(Statements) \in Nat /\ DOMAIN Statements = 1..Len(Statements)
  BY <1>1, NamedMigrations DEF Statements
<1>3. \A i \in DOMAIN Statements : Done(Statements[i])
  BY <1>1, <1>2 DEF UpgradeInv, StatementsAreDone
<1>4. ASSUME NEW c \in ColumnsOf(upgrade.v) PROVE c \in db.columns
  <2>1. PICK i \in DOMAIN Statements : Statements[i].do = "add" /\ c = <<Statements[i].table, Statements[i].name>>
    BY <1>1, ColumnIsOf DEF Statements
  <2> QED
    BY <1>3, <2>1 DEF Done
<1>5. upgrade.v = 8 => db.kinds = Kinds
  <2> SUFFICES ASSUME upgrade.v = 8 PROVE db.kinds = Kinds
    OBVIOUS
  <2>1. 1 \in DOMAIN Statements /\ Statements[1].do = "ledger" /\ Statements[1].kinds = Kinds
    BY NamedMigrations DEF Statements
  <2> QED
    BY <1>3, <2>1 DEF Done
<1>6. upgrade.v = 14 => "news_headlines" \notin db.tables
  <2> SUFFICES ASSUME upgrade.v = 14 PROVE "news_headlines" \notin db.tables
    OBVIOUS
  <2>1. 1 \in DOMAIN Statements /\ Statements[1].do = "drop" /\ Statements[1].tables = {"news_headlines"}
    BY NamedMigrations DEF Statements
  <2> QED
    BY <1>3, <2>1 DEF Done
<1> QED
  BY <1>1, <1>4, <1>5, <1>6

\* The rows that a migration changes: the date of a position that has none, which is the
\* one it was opened at, and the target of an agent.
LEMMA RowsFollow ==
    ASSUME UpgradeInv, NEW v \in 1..23, NEW d, d = RowsOf(v, db)
    PROVE  /\ d = [db EXCEPT !.opened = d.opened, !.config = d.config]
           /\ d.opened \in Nat \cup {NoDate} /\ d.config \in {"targeted", "untargeted"}
           /\ d.opened # written.opened => d.opened = db.opened /\ v # 7
           /\ db.opened = written.opened => d.opened = written.opened
           /\ v = 18 => d.config = "targeted"
           /\ db.config = "targeted" => d.config = "targeted"
<1>0. db = [tables |-> db.tables, columns |-> db.columns, kinds |-> db.kinds, ledger |-> db.ledger,
            referenced |-> db.referenced, opened |-> db.opened, bound |-> db.bound,
            config |-> db.config, version |-> db.version]
  BY DatabaseShape DEF UpgradeInv
<1>1. /\ db.opened \in Nat \cup {NoDate} /\ db.config \in {"targeted", "untargeted"}
      /\ db.ledger \in Seq(LedgerRow)
  BY DEF UpgradeInv, UpgradeTypeOK, Databases, Processes
<1>2. Sound(db.ledger) /\ written.opened = OpenedAt(db.ledger)
  BY DEF UpgradeInv, DatesAreKnown
<1>3. written.opened \in Nat /\ (Shares(db.ledger) > 0 => Opening(db.ledger) = written.opened)
  <2>1. OpenedAt(db.ledger) \in Nat
    BY <1>1, <1>2, PositionWasOpened
  <2>2. Shares(db.ledger) # 0 => OpenedAt(db.ledger) = Opening(db.ledger)
    BY <1>1, <1>2, PositionWasOpened
  <2>3. Shares(db.ledger) > 0 => Shares(db.ledger) # 0
    OBVIOUS
  <2> QED
    BY <1>2, <2>1, <2>2, <2>3
<1>4. db.opened # written.opened => db.opened = NoDate /\ Shares(db.ledger) > 0
  BY DEF UpgradeInv, DatesAreKnown
<1>5. NoDate \notin Nat
  BY DEF NoDate
<1>6. CASE v = 7 /\ db.opened = NoDate
  <2>1. d = [db EXCEPT !.opened = written.opened]
    BY <1>3, <1>4, <1>5, <1>6 DEF RowsOf, Rows7
  <2>2. /\ d.opened = written.opened /\ d.config = db.config
        /\ d = [db EXCEPT !.opened = d.opened, !.config = d.config]
    BY <1>0, <2>1
  <2> QED
    BY <1>1, <1>3, <1>4, <1>6, <2>2
<1>7. CASE v = 7 /\ db.opened # NoDate
  <2>1. d = db /\ db.opened = written.opened
    BY <1>4, <1>7 DEF RowsOf, Rows7
  <2>2. d = [db EXCEPT !.opened = d.opened, !.config = d.config]
    BY <1>0, <2>1
  <2> QED
    BY <1>1, <1>7, <2>1, <2>2
<1>8. CASE v = 18
  <2>1. d = IF db.config = "untargeted" THEN [db EXCEPT !.config = "targeted"] ELSE db
    BY <1>8 DEF RowsOf, Rows18
  <2>2. d = [db EXCEPT !.config = "targeted"]
    BY <1>0, <1>1, <2>1
  <2>3. /\ d.opened = db.opened /\ d.config = "targeted"
        /\ d = [db EXCEPT !.opened = d.opened, !.config = d.config]
    BY <1>0, <2>2
  <2> QED
    BY <1>1, <1>8, <2>3
<1>9. CASE v \notin {7, 18}
  <2>1. d = db
    BY <1>9 DEF RowsOf
  <2>2. d = [db EXCEPT !.opened = d.opened, !.config = d.config]
    BY <1>0, <2>1
  <2> QED
    BY <1>1, <1>9, <2>1, <2>2
<1> QED
  BY <1>6, <1>7, <1>8, <1>9

\* The process at a new stage.
LEMMA StageFollows ==
    ASSUME UpgradeTypeOK, NEW s \in Stages, NEW w \in 0..23, GoTo(s, w)
    PROVE  /\ upgrade'.stage = s /\ upgrade'.v = w /\ upgrade'.i = 1 /\ upgrade'.found = upgrade.found
           /\ upgrade' \in Processes
<1>1. /\ upgrade \in Processes
      /\ 0..Current = 0..23 /\ 1 \in Nat
  BY MigrationsAreStatements DEF UpgradeTypeOK, Databases, Processes
<1>2. upgrade' = [upgrade EXCEPT !.stage = s, !.v = w, !.i = 1]
  BY DEF GoTo
<1> QED
  BY <1>1, <1>2 DEF Processes

\* The end of a migration: its rows and its version.
LEMMA MigrationStep ==
    ASSUME UpgradeInv, FinishMigration
    PROVE  UpgradeInv'
<1> DEFINE v == upgrade.v
           d == RowsOf(v, db)
<1>1. InStage("migrate") /\ upgrade.i > Len(Statements) /\ written' = written
  BY DEF FinishMigration
<1>2. /\ v \in 1..23 /\ ColumnsOf(v) \subseteq db.columns
      /\ v = 8 => db.kinds = Kinds
      /\ v = 14 => "news_headlines" \notin db.tables
  BY <1>1, AllAreDone DEF InStage
<1>3. UpgradeTypeOK /\ Current = 23 /\ db.version = v - 1 /\ Reached = v - 1
  BY <1>1, <1>2, DatabaseShape DEF UpgradeInv, StatementsAreDone, InStage, Reached, NoVersion
<1>4. ~RowsFail(v, db)
  <2> SUFFICES ASSUME v = 18 PROVE <<"users", "decision_architecture">> \in db.columns
    BY DEF RowsFail
  <2>1. ColumnsOf(15) \subseteq db.columns
    BY <1>3 DEF UpgradeInv, ColumnsAreThere
  <2> QED
    BY <2>1, NamedMigrations
<1>5. /\ db' = [d EXCEPT !.version = v]
      /\ IF v < 23 THEN GoTo("migrate", v + 1) ELSE GoTo("repair", 1)
  BY <1>3, <1>4 DEF FinishMigration
<1>6. /\ d = [db EXCEPT !.opened = d.opened, !.config = d.config]
      /\ d.opened \in Nat \cup {NoDate} /\ d.config \in {"targeted", "untargeted"}
      /\ d.opened # written.opened => d.opened = db.opened /\ v # 7
      /\ v = 18 => d.config = "targeted"
      /\ db.config = "targeted" => d.config = "targeted"
  BY <1>2, RowsFollow
<1> HIDE DEF d
<1>7. /\ db'.tables = db.tables /\ db'.columns = db.columns /\ db'.kinds = db.kinds
      /\ db'.ledger = db.ledger /\ db'.referenced = db.referenced /\ db'.bound = db.bound
      /\ db'.opened = d.opened /\ db'.config = d.config /\ db'.version = v
      /\ db' = [db EXCEPT !.opened = d.opened, !.config = d.config, !.version = v]
  <2>1. db = [tables |-> db.tables, columns |-> db.columns, kinds |-> db.kinds, ledger |-> db.ledger,
              referenced |-> db.referenced, opened |-> db.opened, bound |-> db.bound,
              config |-> db.config, version |-> db.version]
    BY <1>3, DatabaseShape
  <2>2. db' = [[db EXCEPT !.opened = d.opened, !.config = d.config] EXCEPT !.version = v]
    BY <1>5, <1>6
  <2> QED
    BY <2>1, <2>2
<1>8. Reached' = v
  BY <1>2, <1>7 DEF Reached, NoVersion
<1>9. /\ upgrade'.stage = (IF v < 23 THEN "migrate" ELSE "repair") /\ upgrade'.i = 1
      /\ upgrade'.v = (IF v < 23 THEN v + 1 ELSE 1) /\ upgrade'.found = upgrade.found
      /\ upgrade' \in Processes
  <2>1. "migrate" \in Stages /\ "repair" \in Stages /\ 1 \in 0..23 /\ (v < 23 => v + 1 \in 0..23)
    BY <1>2 DEF Stages
  <2>2. CASE v < 23
    BY <1>3, <1>5, <2>1, <2>2, StageFollows
  <2>3. CASE ~(v < 23)
    BY <1>3, <1>5, <2>1, <2>3, StageFollows
  <2> QED
    BY <2>2, <2>3
<1>10. UpgradeTypeOK'
  <2>1. db' \in Databases
    BY <1>2, <1>3, <1>6, <1>7 DEF UpgradeTypeOK, Databases, Processes
  <2>2. upgrade' \in Processes
    BY <1>9
  <2> QED
    BY <1>1, <1>3, <2>1, <2>2 DEF UpgradeTypeOK
<1>11. UpgradeIsSafe'
  BY <1>1, <1>7, <1>9 DEF UpgradeInv, UpgradeIsSafe, InStage
<1>12. RowsAreOld'
  BY <1>2, <1>3, <1>7, <1>8, KindsGrow DEF UpgradeInv, RowsAreOld
<1>13. ColumnsAreThere'
  <2> SUFFICES ASSUME NEW w \in 1..v PROVE ColumnsOf(w) \subseteq db.columns \/ (v >= 18 /\ w \in Repaired)
    BY <1>7, <1>8 DEF ColumnsAreThere
  <2>1. CASE w = v
    BY <1>2, <2>1
  <2>2. CASE w # v
    BY <1>2, <1>3, <2>2 DEF UpgradeInv, ColumnsAreThere
  <2> QED
    BY <2>1, <2>2
<1>14. DatesAreKnown'
  BY <1>1, <1>6, <1>7 DEF UpgradeInv, DatesAreKnown
<1>15. (Reached >= 8 => db.kinds = Kinds)'
  BY <1>2, <1>3, <1>7, <1>8 DEF UpgradeInv
<1>16. (Reached >= 14 => "news_headlines" \notin db.tables)'
  BY <1>2, <1>3, <1>7, <1>8 DEF UpgradeInv
<1>17. (Reached >= 18 => db.config = "targeted")'
  BY <1>2, <1>3, <1>6, <1>7, <1>8 DEF UpgradeInv
<1>18. ScriptIsWhole'
  <2>1. Tables \subseteq db.tables
    BY <1>1 DEF UpgradeInv, ScriptIsWhole, InStage
  <2>2. /\ db.tables # {} /\ Oldest \subseteq db.tables /\ "schema_version" \in db.tables
        /\ Tables \ Later \subseteq db.tables
    BY <2>1, TablesAreThere
  <2> QED
    BY <1>7, <1>9, <2>1, <2>2 DEF ScriptIsWhole, InStage
<1>19. StatementsAreDone'
  <2>1. \A i \in DOMAIN Statements' : ~(i < upgrade'.i)
    <3>1. upgrade'.v \in 1..23
      BY <1>2, <1>9
    <3>2. Len(Migrations[upgrade'.v]) \in Nat /\ DOMAIN Migrations[upgrade'.v] = 1..Len(Migrations[upgrade'.v])
      BY <3>1, NamedMigrations
    <3> QED
      BY <1>9, <3>2 DEF Statements
  <2>2. upgrade'.v \in 1..23 /\ upgrade'.i = 1
    BY <1>2, <1>9
  <2>3. v < 23 => upgrade'.stage = "migrate" /\ db'.version = upgrade'.v - 1
    BY <1>2, <1>7, <1>9
  <2>4. ~(v < 23) => upgrade'.stage = "repair" /\ upgrade'.v = 1 /\ db'.version = 23
    BY <1>2, <1>7, <1>9
  <2> QED
    BY <1>3, <2>1, <2>2, <2>3, <2>4 DEF StatementsAreDone, InStage
<1> QED
  BY <1>10, <1>11, <1>12, <1>13, <1>14, <1>15, <1>16, <1>17, <1>18, <1>19 DEF UpgradeInv

\* A migration that repair leaves alone has its columns, or is not for repair.
LEMMA RepairIsDue ==
    ASSUME UpgradeInv, InStage("repair"), ~NeedsRepair(upgrade.v, db)
    PROVE  upgrade.v \in 1..23 /\ upgrade.v # 7 /\ ColumnsOf(upgrade.v) \subseteq db.columns
<1>1. upgrade.v \in 1..23 /\ Reached = 23
  BY MigrationsAreStatements DEF UpgradeInv, StatementsAreDone, InStage, Reached, NoVersion
<1>2. upgrade.v # 7
  BY DEF NeedsRepair
<1>3. upgrade.v \in {9, 15, 16, 17} => ColumnsOf(upgrade.v) \subseteq db.columns
  BY DEF NeedsRepair
<1>4. upgrade.v \notin Repaired => ColumnsOf(upgrade.v) \subseteq db.columns
  BY <1>1 DEF UpgradeInv, ColumnsAreThere
<1> QED
  BY <1>1, <1>2, <1>3, <1>4 DEF Repaired

\* The end of a repair, which ends the upgrade with the last one.
LEMMA RepairStep ==
    ASSUME UpgradeInv, FinishRepair
    PROVE  UpgradeInv'
<1> DEFINE v == upgrade.v
<1>1. written' = written /\ upgrade.stage \in {"repair", "repairing"}
  BY DEF FinishRepair, InStage
<1>2. v \in 1..23 /\ Current = 23 /\ db.version = 23 /\ Reached = 23 /\ UpgradeTypeOK
  BY <1>1, DatabaseShape DEF UpgradeInv, StatementsAreDone, Reached, NoVersion
<1>3. ColumnsOf(v) \subseteq db.columns /\ (db' = RowsOf(v, db) \/ (db' = db /\ v # 7))
  <2>1. CASE InStage("repairing") /\ upgrade.i > Len(Statements) /\ db' = RowsOf(v, db)
    BY <2>1, AllAreDone DEF InStage
  <2>2. CASE InStage("repair") /\ ~NeedsRepair(v, db) /\ db' = db
    BY <2>2, RepairIsDue
  <2> QED
    BY <2>1, <2>2 DEF FinishRepair
<1>4. db.kinds = Kinds /\ "news_headlines" \notin db.tables /\ db.config = "targeted"
  BY <1>2 DEF UpgradeInv
<1>5. /\ db' = [db EXCEPT !.opened = db'.opened]
      /\ db'.opened \in Nat \cup {NoDate}
      /\ db'.opened # written.opened => db'.opened = db.opened /\ v # 7
      /\ db.opened = written.opened => db'.opened = written.opened
  <2>0. /\ db = [tables |-> db.tables, columns |-> db.columns, kinds |-> db.kinds, ledger |-> db.ledger,
                 referenced |-> db.referenced, opened |-> db.opened, bound |-> db.bound,
                 config |-> db.config, version |-> db.version]
        /\ db.opened \in Nat \cup {NoDate}
    BY <1>2, DatabaseShape DEF UpgradeTypeOK, Databases
  <2>1. CASE db' = RowsOf(v, db)
    <3> DEFINE d == RowsOf(v, db)
    <3>0. /\ d = [db EXCEPT !.opened = d.opened, !.config = d.config]
          /\ d.opened \in Nat \cup {NoDate}
          /\ d.opened # written.opened => d.opened = db.opened /\ v # 7
          /\ db.opened = written.opened => d.opened = written.opened
          /\ db.config = "targeted" => d.config = "targeted"
      BY <1>2, RowsFollow
    <3> HIDE DEF d
    <3>d. db' = d
      BY <2>1 DEF d
    <3>1. /\ db' = [db EXCEPT !.opened = db'.opened, !.config = db'.config]
          /\ db'.opened \in Nat \cup {NoDate}
          /\ db'.opened # written.opened => db'.opened = db.opened /\ v # 7
          /\ db.opened = written.opened => db'.opened = written.opened
          /\ db.config = "targeted" => db'.config = "targeted"
      BY <3>0, <3>d, Zenon
    <3>2. db' = [db EXCEPT !.opened = db'.opened, !.config = db.config]
      BY <1>4, <3>1
    <3>3. db' = [db EXCEPT !.opened = db'.opened]
      BY <2>0, <3>2
    <3> QED
      BY <3>1, <3>3
  <2>2. CASE db' = db /\ v # 7
    <3>1. db' = [db EXCEPT !.opened = db'.opened]
      BY <2>0, <2>2
    <3> QED
      BY <2>0, <2>2, <3>1
  <2> QED
    BY <1>3, <2>1, <2>2
<1>6. /\ db'.tables = db.tables /\ db'.columns = db.columns /\ db'.kinds = db.kinds
      /\ db'.ledger = db.ledger /\ db'.referenced = db.referenced /\ db'.bound = db.bound
      /\ db'.config = db.config /\ db'.version = db.version
      /\ db' \in Databases
  BY <1>2, <1>5 DEF UpgradeTypeOK, Databases
<1>7. Reached' = 23
  BY <1>2, <1>6 DEF Reached, NoVersion
<1>8. /\ upgrade'.stage = (IF v < 23 THEN "repair" ELSE "ready") /\ upgrade'.i = 1
      /\ upgrade'.v = (IF v < 23 THEN v + 1 ELSE 0) /\ upgrade'.found = upgrade.found
      /\ upgrade' \in Processes
  <2>1. "ready" \in Stages /\ "repair" \in Stages /\ 0 \in 0..23 /\ (v < 23 => v + 1 \in 0..23)
    BY <1>2 DEF Stages
  <2>2. IF v < 23 THEN GoTo("repair", v + 1) ELSE GoTo("ready", 0)
    BY <1>2 DEF FinishRepair
  <2>3. CASE v < 23
    BY <1>2, <2>1, <2>2, <2>3, StageFollows
  <2>4. CASE ~(v < 23)
    BY <1>2, <2>1, <2>2, <2>4, StageFollows
  <2> QED
    BY <2>3, <2>4
<1>9. \A w \in 1..v : ColumnsOf(w) \subseteq db.columns
  <2>1. \A w \in 1..(v - 1) : ColumnsOf(w) \subseteq db.columns
    BY <1>1 DEF UpgradeInv, StatementsAreDone
  <2>2. \A w \in 1..v : w = v \/ w \in 1..(v - 1)
    BY <1>2
  <2> QED
    BY <1>3, <2>1, <2>2
<1>10. v >= 7 => db'.opened = written.opened
  <2>1. v > 7 => db.opened = written.opened
    BY <1>1 DEF UpgradeInv, StatementsAreDone
  <2> QED
    BY <1>2, <1>5, <2>1
<1>11. Tables \subseteq db.tables
  BY <1>1 DEF UpgradeInv, ScriptIsWhole
<1>12. UpgradeTypeOK'
  BY <1>1, <1>2, <1>6, <1>8 DEF UpgradeTypeOK
<1>13. UpgradeIsSafe'
  <2>1. ~InStage("failed")' /\ db'.ledger = written'.ledger /\ db'.bound = written'.bound
    BY <1>1, <1>6, <1>8 DEF UpgradeInv, UpgradeIsSafe, InStage
  <2>2. ASSUME InStage("ready")'
        PROVE  db'.tables = Tables /\ db'.columns = AllColumns /\ db'.opened = written'.opened
    <3>1. v = 23
      BY <1>2, <1>8, <2>2 DEF InStage
    <3>2. AllColumns \subseteq db.columns
      BY <1>9, <3>1, ColumnsOfToday
    <3>3. db.tables \subseteq Tables \cup {"news_headlines"} /\ db.columns \subseteq AllColumns
      BY <1>2 DEF UpgradeTypeOK, Databases
    <3> QED
      BY <1>1, <1>4, <1>6, <1>10, <1>11, <3>1, <3>2, <3>3
  <2> QED
    BY <1>2, <1>4, <1>6, <2>1, <2>2 DEF UpgradeIsSafe
<1>14. RowsAreOld'
  BY <1>7 DEF RowsAreOld
<1>15. ColumnsAreThere'
  BY <1>2, <1>6, <1>7 DEF UpgradeInv, ColumnsAreThere
<1>16. DatesAreKnown'
  BY <1>1, <1>5, <1>6 DEF UpgradeInv, DatesAreKnown
<1>17. /\ (Reached >= 8 => db.kinds = Kinds)'
       /\ (Reached >= 14 => "news_headlines" \notin db.tables)'
       /\ (Reached >= 18 => db.config = "targeted")'
  BY <1>4, <1>6
<1>18. ScriptIsWhole'
  <2>1. /\ db.tables # {} /\ Oldest \subseteq db.tables /\ "schema_version" \in db.tables
        /\ Tables \ Later \subseteq db.tables
    BY <1>11, TablesAreThere
  <2> QED
    BY <1>6, <1>8, <1>11, <2>1 DEF ScriptIsWhole, InStage
<1>19. StatementsAreDone'
  <2>1. v < 23 => \A i \in DOMAIN Statements' : ~(i < upgrade'.i)
    <3> SUFFICES ASSUME v < 23 PROVE \A i \in DOMAIN Statements' : ~(i < upgrade'.i)
      OBVIOUS
    <3>1. upgrade'.v \in 1..23
      BY <1>2, <1>8
    <3>2. Len(Migrations[upgrade'.v]) \in Nat /\ DOMAIN Migrations[upgrade'.v] = 1..Len(Migrations[upgrade'.v])
      BY <3>1, NamedMigrations
    <3> QED
      BY <1>8, <3>2 DEF Statements
  <2>2. v < 23 => upgrade'.v \in 1..23 /\ upgrade'.i = 1 /\ upgrade'.v - 1 = v /\ (upgrade'.v > 7 => v >= 7)
    BY <1>2, <1>8
  <2>3. upgrade'.stage = (IF v < 23 THEN "repair" ELSE "ready")
    BY <1>8
  <2> QED
    BY <1>1, <1>2, <1>6, <1>9, <1>10, <2>1, <2>2, <2>3 DEF StatementsAreDone, InStage
<1> QED
  BY <1>12, <1>13, <1>14, <1>15, <1>16, <1>17, <1>18, <1>19 DEF UpgradeInv

\* What the invariant says of the database alone.
RowsInv ==
    /\ db \in Databases /\ DOMAIN written = {"ledger", "opened", "bound"}
    /\ db.ledger = written.ledger /\ db.bound = written.bound
    /\ RowsAreOld /\ ColumnsAreThere /\ DatesAreKnown
    /\ Reached >= 8 => db.kinds = Kinds
    /\ Reached >= 14 => "news_headlines" \notin db.tables
    /\ Reached >= 18 => db.config = "targeted"

\* The other part is about the process, so a step of it alone leaves this one.
LEMMA RowsRest ==
    ASSUME UpgradeInv, db' = db, written' = written
    PROVE  RowsInv'
<1>1. RowsInv
  BY DEF UpgradeInv, UpgradeTypeOK, UpgradeIsSafe, RowsInv
<1>2. Reached' = Reached
  BY DEF Reached
<1>3. RowsAreOld' /\ ColumnsAreThere' /\ DatesAreKnown'
  BY <1>1, <1>2 DEF RowsInv, RowsAreOld, ColumnsAreThere, DatesAreKnown
<1> QED
  BY <1>1, <1>2, <1>3 DEF RowsInv

\* Outside of migrations and repairs, and of the program at work, little is left to show.
AtRest ==
    /\ RowsInv /\ ScriptIsWhole /\ upgrade \in Processes
    /\ upgrade.stage \in {"off", "script", "rest", "stamp", "read"}

LEMMA InvariantFollows == AtRest => UpgradeInv
<1> SUFFICES ASSUME AtRest PROVE UpgradeInv
  OBVIOUS
<1>1. UpgradeTypeOK
  BY DEF AtRest, UpgradeTypeOK, RowsInv
<1>2. UpgradeIsSafe
  BY DEF AtRest, UpgradeIsSafe, RowsInv, InStage
<1>3. StatementsAreDone
  BY DEF AtRest, StatementsAreDone, InStage
<1> QED
  BY <1>1, <1>2, <1>3 DEF AtRest, UpgradeInv, RowsInv

\* The program starts.
LEMMA ProgramStarts ==
    ASSUME UpgradeInv, StartProgram
    PROVE  UpgradeInv'
<1>1. /\ upgrade' = [stage |-> "script", found |-> db.tables, v |-> 0, i |-> 0]
      /\ InStage("off") /\ db' = db /\ written' = written
  BY DEF StartProgram
<1>2. RowsInv'
  BY <1>1, RowsRest
<1>3. upgrade' \in Processes
  <2>1. db.tables \subseteq Tables \cup {"news_headlines"} /\ "script" \in Stages /\ 0 \in 0..Current
    BY MigrationsAreStatements DEF UpgradeInv, UpgradeTypeOK, Databases, Stages
  <2> QED
    BY <1>1, <2>1 DEF Processes
<1>4. ScriptIsWhole'
  <2>1. /\ upgrade'.stage = "script" /\ upgrade'.found = db.tables
    BY <1>1
  <2> QED
    BY <1>1, <2>1 DEF UpgradeInv, ScriptIsWhole, InStage
<1>5. upgrade'.stage = "script"
  BY <1>1
<1>6. AtRest'
  BY <1>2, <1>3, <1>4, <1>5 DEF AtRest
<1> QED
  BY <1>6, InvariantFollows, PTL

\* The program stops, or dies.
LEMMA ProgramStops ==
    ASSUME UpgradeInv, StopProgram
    PROVE  UpgradeInv'
<1>1. /\ upgrade' = [stage |-> "off", found |-> {}, v |-> 0, i |-> 0]
      /\ upgrade.stage # "off" /\ db' = db /\ written' = written
  BY DEF StopProgram
<1>2. RowsInv'
  BY <1>1, RowsRest
<1>3. upgrade' \in Processes /\ upgrade'.stage = "off"
  <2>1. "off" \in Stages /\ 0 \in 0..Current
    BY MigrationsAreStatements DEF Stages
  <2> QED
    BY <1>1, <2>1 DEF Processes
<1>4. ScriptIsWhole'
  BY <1>1, <1>3 DEF UpgradeInv, ScriptIsWhole, InStage
<1>5. AtRest'
  BY <1>2, <1>3, <1>4 DEF AtRest
<1> QED
  BY <1>5, InvariantFollows, PTL

\* A table that the script creates has all its columns, and the rows are not touched.
LEMMA ScriptCreates ==
    ASSUME UpgradeInv, NEW names, names \subseteq Tables, db' = WithTables(db, names), written' = written
    PROVE  /\ db' = [db EXCEPT !.tables = @ \cup names, !.columns = db'.columns, !.kinds = db'.kinds]
           /\ db'.tables = db.tables \cup names /\ db'.version = db.version
           /\ Oldest \subseteq db.tables \/ db = Fresh => RowsInv'
<1> DEFINE C == db.columns \cup {c \in AllColumns : c[1] \in names \ db.tables}
           K == IF "transactions" \in names \ db.tables THEN Kinds ELSE db.kinds
<1>1. UpgradeTypeOK /\ RowsInv
  BY DEF UpgradeInv, UpgradeTypeOK, UpgradeIsSafe, RowsInv
<1>2. db' = [db EXCEPT !.tables = @ \cup names, !.columns = C, !.kinds = K]
  BY DEF WithTables
<1>3. C \subseteq AllColumns /\ db.columns \subseteq C /\ K \subseteq Kinds
  BY <1>1 DEF UpgradeTypeOK, Databases
<1>4. Oldest \subseteq db.tables => K = db.kinds
  BY DEF Oldest
<1> HIDE DEF C, K
<1>5. /\ db'.tables = db.tables \cup names /\ db'.columns = C /\ db'.kinds = K
      /\ db'.ledger = db.ledger /\ db'.referenced = db.referenced /\ db'.opened = db.opened
      /\ db'.bound = db.bound /\ db'.config = db.config /\ db'.version = db.version
      /\ db' \in Databases
  <2>1. db = [tables |-> db.tables, columns |-> db.columns, kinds |-> db.kinds, ledger |-> db.ledger,
              referenced |-> db.referenced, opened |-> db.opened, bound |-> db.bound,
              config |-> db.config, version |-> db.version]
    BY <1>1, DatabaseShape
  <2>2. db' = [tables |-> db.tables \cup names, columns |-> C, kinds |-> K, ledger |-> db.ledger,
               referenced |-> db.referenced, opened |-> db.opened, bound |-> db.bound,
               config |-> db.config, version |-> db.version]
    BY <1>2, <2>1
  <2>3. db' \in Databases
    BY <1>1, <1>3, <2>2 DEF UpgradeTypeOK, Databases
  <2> QED
    BY <2>2, <2>3
<1>6. Reached' = Reached
  BY <1>5 DEF Reached
<1>7. ASSUME Oldest \subseteq db.tables \/ db = Fresh PROVE RowsInv'
  <2>1. db = Fresh => Reached = 0
    BY DEF Fresh, Reached
  <2>2. Reached >= 8 => db'.kinds = Kinds
    BY <1>1, <1>4, <1>5, <1>7, <2>1 DEF RowsInv
  <2>3. RowsAreOld' /\ DatesAreKnown'
    BY <1>1, <1>5, <1>6 DEF RowsInv, RowsAreOld, DatesAreKnown
  <2>4. ColumnsAreThere'
    BY <1>1, <1>3, <1>5, <1>6 DEF RowsInv, ColumnsAreThere
  <2>5. Reached >= 14 => "news_headlines" \notin db'.tables
    BY <1>1, <1>5, TablesOfToday DEF RowsInv
  <2> QED
    BY <1>1, <1>5, <1>6, <2>2, <2>3, <2>4, <2>5 DEF RowsInv
<1>8. db' = [db EXCEPT !.tables = @ \cup names, !.columns = db'.columns, !.kinds = db'.kinds]
  BY <1>2, <1>5
<1> QED
  BY <1>5, <1>7, <1>8

\* The two parts of the schema script.
LEMMA ScriptStep ==
    ASSUME UpgradeInv, RunScript
    PROVE  UpgradeInv'
<1>1. written' = written /\ UpgradeTypeOK /\ "rest" \in Stages /\ "stamp" \in Stages /\ 0 \in 0..23
  BY DEF RunScript, UpgradeInv, Stages
<1>2. CASE InStage("script") /\ db' = WithTables(db, Tables \ Later) /\ GoTo("rest", 0)
  <2>1. upgrade.found = db.tables /\ (db.tables = {} => db = Fresh) /\ (db.tables # {} => Oldest \subseteq db.tables)
        /\ ("schema_version" \notin db.tables => db.version = NoVersion)
    BY <1>2 DEF UpgradeInv, ScriptIsWhole, InStage
  <2>2. upgrade'.stage = "rest" /\ upgrade'.found = db.tables /\ upgrade' \in Processes
    BY <1>1, <1>2, <2>1, StageFollows
  <2>3. db'.tables = db.tables \cup (Tables \ Later) /\ db'.version = db.version /\ RowsInv'
    BY <1>1, <1>2, <2>1, ScriptCreates
  <2>4. db.tables = {} => db' = Began
    BY <1>2, <2>1 DEF Began
  <2>5. Oldest \subseteq db'.tables /\ "schema_version" \in db'.tables /\ db'.tables # {}
    BY <2>3, TablesOfToday
  <2>6. ScriptIsWhole'
    BY <2>1, <2>2, <2>3, <2>4, <2>5 DEF ScriptIsWhole, InStage
  <2>7. AtRest'
    BY <2>2, <2>3, <2>6 DEF AtRest
  <2> QED
    BY <2>7, InvariantFollows, PTL
<1>3. CASE InStage("rest") /\ db' = WithTables(db, Later) /\ GoTo("stamp", 0)
  <2>1. /\ upgrade.found # {} => Oldest \subseteq upgrade.found
        /\ "schema_version" \notin upgrade.found => db.version = NoVersion
        /\ upgrade.found = {} => db = Began
        /\ Tables \ Later \subseteq db.tables
    BY <1>3 DEF UpgradeInv, ScriptIsWhole, InStage
  <2>2. upgrade'.stage = "stamp" /\ upgrade'.found = upgrade.found /\ upgrade' \in Processes
    BY <1>1, <1>3, StageFollows
  <2>3. db'.tables = db.tables \cup Later /\ db'.version = db.version /\ RowsInv'
    <3>1. Later \subseteq Tables /\ Oldest \subseteq db.tables
      BY <2>1, TablesOfToday
    <3> QED
      BY <1>1, <1>3, <3>1, ScriptCreates
  <2>4. upgrade.found = {} => db' = WithTables(Began, Later)
    BY <1>3, <2>1
  <2>5. Tables \subseteq db'.tables
    BY <2>1, <2>3
  <2>6. Oldest \subseteq db'.tables /\ "schema_version" \in db'.tables /\ db'.tables # {} /\ Tables \ Later \subseteq db'.tables
    BY <2>5, TablesAreThere
  <2>7. ScriptIsWhole'
    BY <2>1, <2>2, <2>3, <2>4, <2>5, <2>6 DEF ScriptIsWhole, InStage
  <2>8. AtRest'
    BY <2>2, <2>3, <2>7 DEF AtRest
  <2> QED
    BY <2>8, InvariantFollows, PTL
<1> QED
  BY <1>2, <1>3 DEF RunScript

\* What the script makes of nothing is the schema of today.
LEMMA FreshIsWhole ==
    ASSUME NEW d, d = WithTables(Began, Later)
    PROVE  /\ d.tables = Tables /\ d.columns = AllColumns /\ d.kinds = Kinds
           /\ d.config = "targeted"
<1>1. Began = [Fresh EXCEPT !.tables = Tables \ Later,
                            !.columns = {c \in AllColumns : c[1] \in Tables \ Later}, !.kinds = Kinds]
  <2>1. "transactions" \in Tables \ Later
    BY TablesOfToday DEF Oldest
  <2> QED
    BY <2>1 DEF Began, WithTables, Fresh
<1>2. /\ Began.tables = Tables \ Later /\ Began.columns = {c \in AllColumns : c[1] \in Tables \ Later}
      /\ Began.kinds = Kinds /\ Began.config = "targeted"
      /\ DOMAIN Began = {"tables", "columns", "kinds", "ledger", "referenced", "opened", "bound", "config", "version"}
  BY <1>1 DEF Fresh
<1>3. /\ d.tables = Began.tables \cup Later
      /\ d.columns = Began.columns \cup {c \in AllColumns : c[1] \in Later \ Began.tables}
      /\ d.kinds = (IF "transactions" \in Later \ Began.tables THEN Kinds ELSE Began.kinds)
      /\ d.config = Began.config
  BY <1>2 DEF WithTables
<1>4. \A c \in AllColumns : c[1] \in Tables
  BY ColumnsOfToday
<1>5. Later \ (Tables \ Later) = Later /\ (Tables \ Later) \cup Later = Tables
  BY TablesOfToday
<1> QED
  BY <1>2, <1>3, <1>4, <1>5

\* The version of a database that has none yet.
LEMMA StampStep ==
    ASSUME UpgradeInv, StampVersion
    PROVE  UpgradeInv'
<1>1. /\ InStage("stamp") /\ written' = written /\ GoTo("read", 0)
      /\ db' = IF "schema_version" \in upgrade.found THEN db
               ELSE [db EXCEPT !.version = IF "users" \in upgrade.found THEN 0 ELSE 23]
      /\ UpgradeTypeOK /\ RowsInv
  BY MigrationsAreStatements DEF StampVersion, UpgradeInv, UpgradeTypeOK, UpgradeIsSafe, RowsInv
<1>2. upgrade'.stage = "read" /\ upgrade' \in Processes
  BY <1>1, StageFollows DEF Stages
<1>3. /\ upgrade.found # {} => Oldest \subseteq upgrade.found
      /\ "schema_version" \notin upgrade.found => db.version = NoVersion
      /\ upgrade.found = {} => db = WithTables(Began, Later)
      /\ Tables \subseteq db.tables
  BY <1>1 DEF UpgradeInv, ScriptIsWhole, InStage
<1>4. /\ db'.tables = db.tables /\ db'.columns = db.columns /\ db'.kinds = db.kinds
      /\ db'.ledger = db.ledger /\ db'.referenced = db.referenced /\ db'.opened = db.opened
      /\ db'.bound = db.bound /\ db'.config = db.config /\ db' \in Databases
  <2>1. PICK version : version \in {db.version, 0, 23} /\ db' = [db EXCEPT !.version = version]
    <3>1. db = [db EXCEPT !.version = db.version]
      BY <1>1 DEF UpgradeTypeOK, Databases
    <3> QED
      BY <1>1, <3>1
  <2>2. version \in (0..Current) \cup {NoVersion}
    BY <1>1, <2>1, MigrationsAreStatements DEF UpgradeTypeOK, Databases
  <2> QED
    BY <1>1, <2>1, <2>2 DEF UpgradeTypeOK, Databases
<1>5. RowsInv'
  <2>1. CASE "schema_version" \in upgrade.found
    BY <1>1, <2>1, RowsRest
  <2>2. CASE "schema_version" \notin upgrade.found /\ "users" \in upgrade.found
    <3>1. Reached = 0 /\ Reached' = 0
      <4>1. db.version = NoVersion /\ db'.version = 0
        BY <1>1, <1>3, <2>2 DEF UpgradeTypeOK, Databases
      <4> QED
        BY <4>1 DEF Reached, NoVersion
    <3>2. RowsAreOld' /\ ColumnsAreThere' /\ DatesAreKnown'
      BY <1>1, <1>4, <3>1 DEF RowsInv, RowsAreOld, ColumnsAreThere, DatesAreKnown
    <3> QED
      BY <1>1, <1>4, <3>1, <3>2 DEF RowsInv
  <2>3. CASE "schema_version" \notin upgrade.found /\ "users" \notin upgrade.found
    <3>1. db = WithTables(Began, Later)
      BY <1>3, <2>3 DEF Oldest
    <3>2. db.tables = Tables /\ db.columns = AllColumns /\ db.kinds = Kinds /\ db.config = "targeted"
      BY <3>1, FreshIsWhole
    <3>3. Reached' = 23
      <4>1. db'.version = 23
        BY <1>1, <2>3 DEF UpgradeTypeOK, Databases
      <4> QED
        BY <4>1 DEF Reached, NoVersion
    <3>4. RowsAreOld' /\ DatesAreKnown'
      BY <1>1, <1>4, <3>3 DEF RowsInv, RowsAreOld, DatesAreKnown
    <3>5. ColumnsAreThere'
      BY <1>4, <3>2, <3>3, ColumnsOfToday DEF ColumnsAreThere
    <3> QED
      BY <1>1, <1>4, <3>2, <3>3, <3>4, <3>5, TablesOfToday DEF RowsInv
  <2> QED
    BY <2>1, <2>2, <2>3
<1>6. ScriptIsWhole'
  <2>1. /\ db.tables # {} /\ Oldest \subseteq db.tables /\ "schema_version" \in db.tables
        /\ Tables \ Later \subseteq db.tables
    BY <1>3, TablesAreThere
  <2> QED
    BY <1>2, <1>3, <1>4, <2>1 DEF ScriptIsWhole, InStage
<1>7. AtRest'
  BY <1>2, <1>5, <1>6 DEF AtRest
<1> QED
  BY <1>7, InvariantFollows, PTL

\* The version is read, and the upgrade begins behind it.
LEMMA ReadStep ==
    ASSUME UpgradeInv, ReadVersion
    PROVE  UpgradeInv'
<1>1. /\ InStage("read") /\ written' = written /\ UpgradeTypeOK /\ RowsInv
      /\ Reached \in 0..23 /\ Current = 23
  BY DatabaseShape DEF ReadVersion, UpgradeInv, UpgradeTypeOK, UpgradeIsSafe, RowsInv
<1>2. /\ db' = [db EXCEPT !.version = Reached]
      /\ IF Reached < 23 THEN GoTo("migrate", Reached + 1) ELSE GoTo("repair", 1)
  BY <1>1 DEF ReadVersion, Reached
<1>3. /\ upgrade'.stage = (IF Reached < 23 THEN "migrate" ELSE "repair") /\ upgrade'.i = 1
      /\ upgrade'.v = (IF Reached < 23 THEN Reached + 1 ELSE 1)
      /\ upgrade' \in Processes
  <2>1. "migrate" \in Stages /\ "repair" \in Stages /\ 1 \in 0..23 /\ (Reached < 23 => Reached + 1 \in 0..23)
    BY <1>1 DEF Stages
  <2>2. CASE Reached < 23
    BY <1>1, <1>2, <2>1, <2>2, StageFollows
  <2>3. CASE ~(Reached < 23)
    BY <1>1, <1>2, <2>1, <2>3, StageFollows
  <2> QED
    BY <2>2, <2>3
<1>4. /\ db'.tables = db.tables /\ db'.columns = db.columns /\ db'.kinds = db.kinds
      /\ db'.ledger = db.ledger /\ db'.referenced = db.referenced /\ db'.opened = db.opened
      /\ db'.bound = db.bound /\ db'.config = db.config /\ db'.version = Reached /\ db' \in Databases
  BY <1>1, <1>2 DEF UpgradeTypeOK, Databases
<1>5. Reached' = Reached
  BY <1>1, <1>4 DEF Reached, NoVersion
<1>6. RowsInv'
  <2>1. RowsAreOld' /\ ColumnsAreThere' /\ DatesAreKnown'
    BY <1>1, <1>4, <1>5 DEF RowsInv, RowsAreOld, ColumnsAreThere, DatesAreKnown
  <2> QED
    BY <1>1, <1>4, <1>5, <2>1 DEF RowsInv
<1>7. Tables \subseteq db.tables
  BY <1>1 DEF UpgradeInv, ScriptIsWhole, InStage
<1>8. ScriptIsWhole'
  <2>1. /\ db.tables # {} /\ Oldest \subseteq db.tables /\ "schema_version" \in db.tables
        /\ Tables \ Later \subseteq db.tables
    BY <1>7, TablesAreThere
  <2> QED
    BY <1>3, <1>4, <1>7, <2>1 DEF ScriptIsWhole, InStage
<1>9. StatementsAreDone'
  <2>1. upgrade'.v \in 1..23
    BY <1>1, <1>3
  <2>2. Len(Migrations[upgrade'.v]) \in Nat /\ DOMAIN Migrations[upgrade'.v] = 1..Len(Migrations[upgrade'.v])
    BY <2>1, NamedMigrations
  <2>3. \A i \in DOMAIN Statements' : ~(i < upgrade'.i)
    BY <1>3, <2>2 DEF Statements
  <2>4. Reached < 23 => upgrade'.stage = "migrate" /\ db'.version = upgrade'.v - 1
    BY <1>1, <1>3, <1>4
  <2>5. ~(Reached < 23) => upgrade'.stage = "repair" /\ upgrade'.v = 1 /\ db'.version = 23
    BY <1>1, <1>3, <1>4
  <2> QED
    BY <1>1, <1>3, <2>1, <2>3, <2>4, <2>5 DEF StatementsAreDone, InStage
<1>10. UpgradeTypeOK' /\ UpgradeIsSafe'
  BY <1>3, <1>6 DEF UpgradeTypeOK, UpgradeIsSafe, RowsInv, InStage
<1> QED
  BY <1>6, <1>8, <1>9, <1>10 DEF UpgradeInv, RowsInv

\* The program at work on a database that is of today.
LEMMA DatabaseIsUsed ==
    ASSUME UpgradeInv, UseDatabase
    PROVE  UpgradeInv'
<1>1. /\ InStage("ready") /\ upgrade' = upgrade /\ UpgradeTypeOK
      /\ db.ledger = written.ledger /\ db.bound = written.bound
      /\ db.tables = Tables /\ db.columns = AllColumns /\ db.kinds = Kinds /\ db.version = 23
      /\ db.opened = written.opened /\ db.config = "targeted"
      /\ DatesAreKnown
  BY MigrationsAreStatements DEF UseDatabase, UpgradeInv, UpgradeIsSafe
<1> DEFINE Used == /\ db' \in Databases
                   /\ db'.tables = Tables /\ db'.columns = AllColumns /\ db'.kinds = Kinds
                   /\ db'.version = 23 /\ db'.config = "targeted"
                   /\ db'.ledger = written'.ledger /\ db'.bound = written'.bound
                   /\ db'.opened = written'.opened
                   /\ Sound(db'.ledger) /\ written'.opened = OpenedAt(db'.ledger)
                   /\ DOMAIN written' = {"ledger", "opened", "bound"}
<1>2. ASSUME NEW kind \in Kinds, NEW rows, rows = Append(db.ledger, [kind |-> kind, quote |-> TRUE]),
             Sound(rows),
             db' = [db EXCEPT !.ledger = rows, !.opened = OpenedAt(rows), !.bound = TRUE],
             written' = [ledger |-> rows, opened |-> OpenedAt(rows), bound |-> TRUE]
      PROVE  Used
  <2>1. rows \in Seq(LedgerRow)
    <3>1. db.ledger \in Seq(LedgerRow) /\ [kind |-> kind, quote |-> TRUE] \in LedgerRow
      BY <1>1 DEF UpgradeTypeOK, Databases, LedgerRow
    <3> QED
      BY <1>2, <3>1
  <2>2. OpenedAt(rows) \in Nat
    BY <1>2, <2>1, PositionWasOpened
  <2>3. written'.ledger = rows /\ written'.opened = OpenedAt(rows) /\ written'.bound = TRUE
        /\ DOMAIN written' = {"ledger", "opened", "bound"}
    BY <1>2
  <2>4. /\ db' \in Databases /\ db'.ledger = rows /\ db'.opened = OpenedAt(rows) /\ db'.bound = TRUE
        /\ db'.tables = db.tables /\ db'.columns = db.columns /\ db'.kinds = db.kinds
        /\ db'.version = db.version /\ db'.config = db.config
    BY <1>1, <1>2, <2>1, <2>2 DEF UpgradeTypeOK, Databases
  <2> QED
    BY <1>1, <1>2, <2>3, <2>4
<1>3. ASSUME db' = [db EXCEPT !.referenced = TRUE], written' = written
      PROVE  Used
  <2>1. /\ db' \in Databases /\ db'.ledger = db.ledger /\ db'.opened = db.opened /\ db'.bound = db.bound
        /\ db'.tables = db.tables /\ db'.columns = db.columns /\ db'.kinds = db.kinds
        /\ db'.version = db.version /\ db'.config = db.config
    BY <1>1, <1>3 DEF UpgradeTypeOK, Databases
  <2>2. Sound(db.ledger) /\ written.opened = OpenedAt(db.ledger)
    BY <1>1 DEF DatesAreKnown
  <2> QED
    BY <1>1, <1>3, <2>1, <2>2 DEF UpgradeTypeOK
<1>4. Used
  BY <1>2, <1>3 DEF UseDatabase
<1>5. Reached' = 23
  BY <1>4 DEF Reached, NoVersion
<1>6. UpgradeTypeOK' /\ UpgradeIsSafe'
  BY <1>1, <1>4, MigrationsAreStatements DEF UpgradeTypeOK, UpgradeIsSafe, InStage
<1>7. RowsAreOld' /\ DatesAreKnown'
  BY <1>4, <1>5 DEF RowsAreOld, DatesAreKnown
<1>8. ColumnsAreThere'
  BY <1>4, <1>5, ColumnsOfToday DEF ColumnsAreThere
<1>9. ScriptIsWhole'
  <2>1. /\ Tables # {} /\ Oldest \subseteq Tables /\ "schema_version" \in Tables
        /\ Tables \ Later \subseteq Tables
    BY TablesAreThere
  <2> QED
    BY <1>1, <1>4, <2>1 DEF ScriptIsWhole, InStage
<1>10. StatementsAreDone'
  BY <1>1 DEF StatementsAreDone, InStage
<1> QED
  BY <1>4, <1>5, <1>6, <1>7, <1>8, <1>9, <1>10, TablesOfToday DEF UpgradeInv

\* A database that nobody has opened yet.
LEMMA FreshIsSound ==
    ASSUME db = Fresh, written.ledger = db.ledger, written.opened = OpenedAt(db.ledger),
           written.bound = db.bound, DOMAIN written = {"ledger", "opened", "bound"}
    PROVE  RowsInv
<1>1. /\ db.tables = {} /\ db.columns = {} /\ db.kinds = {} /\ db.ledger = <<>> /\ db.referenced = FALSE
      /\ db.opened = 0 /\ db.bound = FALSE /\ db.config = "targeted" /\ db.version = NoVersion
  BY DEF Fresh
<1>2. Reached = 0
  BY <1>1 DEF Reached
<1>3. db \in Databases
  <2>1. <<>> \in Seq(LedgerRow)
    OBVIOUS
  <2> QED
    BY <2>1 DEF Fresh, Databases
<1>4. Sound(db.ledger) /\ OpenedAt(db.ledger) = 0
  <2>1. <<>> \in Seq(LedgerRow) /\ Len(<<>>) = 0 /\ DOMAIN <<>> = {}
    OBVIOUS
  <2>2. Sound(<<>>)
    BY <2>1 DEF Sound
  <2>3. Shares(<<>>) = 0
    BY <2>1, SharesRun DEF Shares
  <2>4. OpenedAt(<<>>) = 0
    BY <2>3 DEF OpenedAt
  <2> QED
    BY <1>1, <2>2, <2>4
<1>5. RowsAreOld /\ ColumnsAreThere /\ DatesAreKnown
  BY <1>1, <1>2, <1>4 DEF RowsAreOld, ColumnsAreThere, DatesAreKnown
<1> QED
  BY <1>1, <1>2, <1>3, <1>5 DEF RowsInv

\* The tables and columns of the versions up to one of them.
LEMMA LeftBehind ==
    ASSUME NEW v \in 0..23
    PROVE  /\ UpTo(TablesOf, v) \subseteq Tables
           /\ UpTo(ColumnsOf, v) \subseteq AllColumns
           /\ \A w \in 1..v : ColumnsOf(w) \subseteq UpTo(ColumnsOf, v)
<1>1. UpTo(TablesOf, v) = UNION {TablesOf(w) : w \in 1..v} /\ UpTo(ColumnsOf, v) = UNION {ColumnsOf(w) : w \in 1..v}
  BY DEF UpTo
<1>2. \A w \in 1..v : w \in 1..23
  OBVIOUS
<1>3. \A w \in 1..23 : TablesOf(w) \subseteq Tables
  BY TablesOfToday
<1>4. AllColumns = UNION {ColumnsOf(w) : w \in 1..23}
  BY ColumnsOfToday
<1> QED
  BY <1>1, <1>2, <1>3, <1>4

\* What a version of the program leaves behind.
LEMMA LegacyIsOld ==
    ASSUME NEW d \in Legacy
    PROVE  \E v \in 0..23 :
              /\ d \in Databases /\ d.version = (IF v = 0 THEN NoVersion ELSE v)
              /\ Oldest \subseteq d.tables /\ (v # 0 => "schema_version" \in d.tables)
              /\ v >= 14 => "news_headlines" \notin d.tables
              /\ \A w \in 1..v : ColumnsOf(w) \subseteq d.columns
              /\ v >= 8 => d.kinds = Kinds
              /\ v >= 18 => d.config = "targeted"
              /\ Sound(d.ledger)
              /\ d.opened = (IF v < 7 /\ Shares(d.ledger) > 0 THEN NoDate ELSE OpenedAt(d.ledger))
              /\ v < 8 => /\ ~d.referenced /\ ~d.bound
                          /\ \A i \in DOMAIN d.ledger : d.ledger[i].kind \in KindsOf(v) /\ ~d.ledger[i].quote
<1>0. PICK v \in LegacyVersions :
         d \in UNION {{LeftBy(v, rows, ref) : ref \in {r \in BOOLEAN : r => v >= 19}} : rows \in Ledgers(v)}
  BY DEF Legacy
<1>1. PICK rows \in Ledgers(v) : \E ref \in BOOLEAN : (ref => v >= 19) /\ d = LeftBy(v, rows, ref)
  BY <1>0
<1>ref. PICK ref \in BOOLEAN : (ref => v >= 19) /\ d = LeftBy(v, rows, ref)
  BY <1>1
<1>2. v \in 0..23
  BY UpgradeAssumption
<1>3. PICK n \in 0..MaxLedger : rows \in [1..n -> [kind : KindsOf(v), quote : {v >= 17}]] /\ Sound(rows)
  BY DEF Ledgers
<1>4. n \in Nat /\ KindsOf(v) \subseteq Kinds
  BY <1>2, UpgradeAssumption, KindsGrow
<1>5. /\ rows \in Seq(LedgerRow)
      /\ \A i \in DOMAIN rows : rows[i].kind \in KindsOf(v) /\ rows[i].quote = (v >= 17)
  <2>1. ASSUME NEW i \in 1..n
        PROVE  rows[i] \in LedgerRow /\ rows[i].kind \in KindsOf(v) /\ rows[i].quote = (v >= 17)
    <3>1. rows[i] \in [kind : KindsOf(v), quote : {v >= 17}]
      BY <1>3
    <3>2. (v >= 17) \in BOOLEAN
      OBVIOUS
    <3> QED
      BY <1>4, <3>1, <3>2 DEF LedgerRow
  <2>2. rows \in [1..n -> LedgerRow]
    BY <1>3, <2>1
  <2> QED
    BY <1>3, <1>4, <2>1, <2>2
<1> DEFINE T == Oldest \cup {"corporate_actions"} \cup UpTo(TablesOf, v)
                \cup (IF v < 14 THEN {"news_headlines"} ELSE {})
                \cup (IF v = 0 THEN {} ELSE {"schema_version"})
           O == IF v < 7 /\ Shares(rows) > 0 THEN NoDate ELSE OpenedAt(rows)
           C == UpTo(ColumnsOf, v)
           R == ref /\ rows # <<>>
<1>6. d = [tables |-> T, columns |-> C, kinds |-> KindsOf(v), ledger |-> rows, referenced |-> R,
           opened |-> O, bound |-> v >= 9, config |-> IF v < 18 THEN "untargeted" ELSE "targeted",
           version |-> IF v = 0 THEN NoVersion ELSE v]
  BY <1>ref DEF LeftBy
<1>7. /\ T \subseteq Tables \cup {"news_headlines"} /\ Oldest \subseteq T
      /\ v # 0 => "schema_version" \in T
      /\ v >= 14 => "news_headlines" \notin T
  <2>1. UpTo(TablesOf, v) \subseteq Tables
    BY <1>2, LeftBehind
  <2>2. Oldest \subseteq Tables /\ "schema_version" \in Tables /\ "corporate_actions" \in Tables
        /\ "news_headlines" \notin Tables
    BY TablesOfToday DEF Altered
  <2> DEFINE X == UpTo(TablesOf, v)
  <2> HIDE DEF X
  <2>3. T = Oldest \cup {"corporate_actions"} \cup X \cup (IF v < 14 THEN {"news_headlines"} ELSE {})
            \cup (IF v = 0 THEN {} ELSE {"schema_version"})
    BY DEF X
  <2>4. X \subseteq Tables
    BY <2>1 DEF X
  <2> HIDE DEF T
  <2> QED
    BY <1>2, <2>2, <2>3, <2>4
<1>8. C \subseteq AllColumns /\ \A w \in 1..v : ColumnsOf(w) \subseteq C
  BY <1>2, LeftBehind
<1>9. O \in Nat \cup {NoDate}
  <2>1. OpenedAt(rows) \in Nat
    BY <1>3, <1>5, PositionWasOpened
  <2> QED
    BY <2>1
<1>10. R \in BOOLEAN /\ (v < 19 => ~R)
  <2>1. v < 19 => ~ref
    BY <1>2, <1>ref
  <2> QED
    BY <2>1
<1> HIDE DEF T, O, C, R
<1>11. d \in Databases
  <2>1. 0..Current = 0..23 /\ KindsOf(v) \in SUBSET Kinds /\ (v >= 9) \in BOOLEAN
    BY <1>4, MigrationsAreStatements
  <2> QED
    BY <1>2, <1>5, <1>6, <1>7, <1>8, <1>9, <1>10, <2>1 DEF Databases
<1>12. /\ d.tables = T /\ d.columns = C /\ d.kinds = KindsOf(v) /\ d.ledger = rows /\ d.referenced = R
       /\ d.opened = O /\ d.bound = (v >= 9) /\ d.config = (IF v < 18 THEN "untargeted" ELSE "targeted")
       /\ d.version = (IF v = 0 THEN NoVersion ELSE v)
  BY <1>6
<1>13. v < 8 => /\ ~d.referenced /\ ~d.bound
                /\ \A i \in DOMAIN d.ledger : d.ledger[i].kind \in KindsOf(v) /\ ~d.ledger[i].quote
  BY <1>2, <1>5, <1>10, <1>12
<1>14. d.opened = (IF v < 7 /\ Shares(d.ledger) > 0 THEN NoDate ELSE OpenedAt(d.ledger))
  BY <1>12 DEF O
<1>15. (v >= 8 => d.kinds = Kinds) /\ (v >= 18 => d.config = "targeted")
  BY <1>2, <1>12, KindsGrow
<1> QED
  BY <1>2, <1>3, <1>7, <1>8, <1>11, <1>12, <1>13, <1>14, <1>15

\* The database of an older version, and one that has a later number than columns.
LEMMA LegacyIsSound ==
    ASSUME db \in Legacy \cup Mislabelled,
           written.ledger = db.ledger, written.opened = OpenedAt(db.ledger),
           written.bound = db.bound, DOMAIN written = {"ledger", "opened", "bound"}
    PROVE  /\ RowsInv /\ Oldest \subseteq db.tables
           /\ "schema_version" \notin db.tables => db.version = NoVersion
<1>1. CASE db \in Legacy
  <2>1. PICK v \in 0..23 :
              /\ db \in Databases /\ db.version = (IF v = 0 THEN NoVersion ELSE v)
              /\ Oldest \subseteq db.tables /\ (v # 0 => "schema_version" \in db.tables)
              /\ v >= 14 => "news_headlines" \notin db.tables
              /\ \A w \in 1..v : ColumnsOf(w) \subseteq db.columns
              /\ v >= 8 => db.kinds = Kinds
              /\ v >= 18 => db.config = "targeted"
              /\ Sound(db.ledger)
              /\ db.opened = (IF v < 7 /\ Shares(db.ledger) > 0 THEN NoDate ELSE OpenedAt(db.ledger))
              /\ v < 8 => /\ ~db.referenced /\ ~db.bound
                          /\ \A i \in DOMAIN db.ledger : db.ledger[i].kind \in KindsOf(v) /\ ~db.ledger[i].quote
    BY <1>1, LegacyIsOld
  <2>2. Reached = v
    BY <2>1 DEF Reached, NoVersion
  <2>3. RowsAreOld /\ ColumnsAreThere /\ DatesAreKnown
    BY <2>1, <2>2 DEF RowsAreOld, ColumnsAreThere, DatesAreKnown
  <2> QED
    BY <2>1, <2>2, <2>3 DEF RowsInv
<1>2. CASE db \in Mislabelled
  <2>0. PICK u \in {7, 9, 15, 16, 17, 18} :
           db \in {[d EXCEPT !.columns = @ \ ColumnsOf(u),
                            !.opened = IF u \in {7, 18} /\ @ > 0 THEN NoDate ELSE @,
                            !.bound = IF u = 9 THEN FALSE ELSE @] :
                      d \in {l \in Legacy : l.version >= 18 /\ (u = 17 => l.ledger = <<>>)}}
    BY <1>2 DEF Mislabelled
  <2>1. PICK d \in Legacy :
              /\ d.version >= 18
              /\ db = [d EXCEPT !.columns = @ \ ColumnsOf(u),
                                !.opened = IF u \in {7, 18} /\ @ > 0 THEN NoDate ELSE @,
                                !.bound = IF u = 9 THEN FALSE ELSE @]
    BY <2>0
  <2>2. PICK v \in 0..23 :
              /\ d \in Databases /\ d.version = (IF v = 0 THEN NoVersion ELSE v)
              /\ Oldest \subseteq d.tables /\ (v # 0 => "schema_version" \in d.tables)
              /\ v >= 14 => "news_headlines" \notin d.tables
              /\ \A w \in 1..v : ColumnsOf(w) \subseteq d.columns
              /\ v >= 8 => d.kinds = Kinds
              /\ v >= 18 => d.config = "targeted"
              /\ Sound(d.ledger)
              /\ d.opened = (IF v < 7 /\ Shares(d.ledger) > 0 THEN NoDate ELSE OpenedAt(d.ledger))
    BY LegacyIsOld
  <2>3. v >= 18 /\ d.version = v
    BY <2>1, <2>2 DEF NoVersion
  <2>4. d.opened = OpenedAt(d.ledger) /\ d.ledger \in Seq(LedgerRow) /\ d.opened \in Nat
    <3>1. d.opened = OpenedAt(d.ledger) /\ d.ledger \in Seq(LedgerRow)
      BY <2>2, <2>3 DEF Databases
    <3> QED
      BY <2>2, <3>1, PositionWasOpened
  <2> DEFINE O == IF u \in {7, 18} /\ d.opened > 0 THEN NoDate ELSE d.opened
             B == IF u = 9 THEN FALSE ELSE d.bound
             C == d.columns \ ColumnsOf(u)
  <2>5. db = [d EXCEPT !.columns = C, !.opened = O, !.bound = B]
    BY <2>1
  <2>6. O \in Nat \cup {NoDate} /\ B \in BOOLEAN /\ C \subseteq AllColumns
    BY <2>2, <2>4 DEF Databases
  <2> HIDE DEF O, B, C
  <2>7. /\ db \in Databases
        /\ db.tables = d.tables /\ db.columns = C /\ db.kinds = d.kinds /\ db.ledger = d.ledger
        /\ db.opened = O /\ db.config = d.config /\ db.version = v
    BY <2>2, <2>3, <2>5, <2>6 DEF Databases
  <2>8. Reached = v
    BY <2>3, <2>7 DEF Reached, NoVersion
  <2>9. ColumnsAreThere
    <3> SUFFICES ASSUME NEW w \in 1..v, w \notin Repaired PROVE ColumnsOf(w) \subseteq C
      BY <2>3, <2>7, <2>8 DEF ColumnsAreThere
    <3>1. w \in 1..23 /\ u \in 1..23 /\ ColumnsOf(w) \subseteq d.columns
      BY <2>2
    <3>2. ASSUME NEW c \in ColumnsOf(w) PROVE c \notin ColumnsOf(u)
      <4>1. CASE u = 18
        BY <4>1, NamedMigrations
      <4>2. CASE u # 18
        <5>1. u \in Repaired
          BY <4>2 DEF Repaired
        <5>2. c[2] \notin RepairedNames
          BY <3>1, <3>2, ColumnsOfToday DEF MayBeAdded
        <5>3. c \in ColumnsOf(u) => c[2] \in RepairedNames
          BY <3>1, <5>1, ColumnsOfToday DEF MayBeAdded
        <5> QED
          BY <5>2, <5>3
      <4> QED
        BY <4>1, <4>2
    <3> QED
      BY <3>1, <3>2 DEF C
  <2>10. DatesAreKnown
    <3>1. O # d.opened => O = NoDate /\ d.opened > 0
      BY DEF O
    <3>2. d.opened > 0 => Shares(d.ledger) > 0
      <4>1. Shares(d.ledger) = 0 => OpenedAt(d.ledger) = 0
        BY <2>2, <2>4, PositionWasOpened
      <4>2. Shares(d.ledger) # 0 => Shares(d.ledger) > 0
        BY <2>2, <2>4, PositionWasOpened
      <4> QED
        BY <2>4, <4>1, <4>2
    <3> QED
      BY <2>2, <2>4, <2>7, <3>1, <3>2 DEF DatesAreKnown
  <2>11. RowsAreOld
    BY <2>3, <2>8 DEF RowsAreOld
  <2> QED
    BY <2>2, <2>3, <2>7, <2>8, <2>9, <2>10, <2>11 DEF RowsInv
<1> QED
  BY <1>1, <1>2

\* The initial states.
LEMMA UpgradeStarts == UpgradeInit => UpgradeInv
<1> SUFFICES ASSUME UpgradeInit PROVE UpgradeInv
  OBVIOUS
<1>1. /\ written.ledger = db.ledger /\ written.opened = OpenedAt(db.ledger)
      /\ written.bound = db.bound /\ DOMAIN written = {"ledger", "opened", "bound"}
      /\ upgrade.stage = "off" /\ upgrade \in Processes
  <2>1. "off" \in Stages /\ 0 \in 0..Current
    BY MigrationsAreStatements DEF Stages
  <2> QED
    BY <2>1 DEF UpgradeInit, Processes
<1>2. RowsInv /\ ScriptIsWhole
  <2>1. CASE db = Fresh
    <3>1. RowsInv
      BY <1>1, <2>1, FreshIsSound
    <3>2. db.tables = {} /\ db.version = NoVersion
      BY <2>1 DEF Fresh
    <3> QED
      BY <1>1, <2>1, <3>1, <3>2 DEF ScriptIsWhole, InStage
  <2>2. CASE db \in Legacy \cup Mislabelled
    <3>1. /\ RowsInv /\ Oldest \subseteq db.tables
          /\ "schema_version" \notin db.tables => db.version = NoVersion
      BY <1>1, <2>2, LegacyIsSound
    <3>2. db.tables # {}
      BY <3>1 DEF Oldest
    <3> QED
      BY <1>1, <3>1, <3>2 DEF ScriptIsWhole, InStage
  <2> QED
    BY <2>1, <2>2 DEF UpgradeInit
<1>3. AtRest
  BY <1>1, <1>2 DEF AtRest
<1> QED
  BY <1>3, InvariantFollows

\* Nothing happens.
LEMMA UpgradeRests ==
    ASSUME UpgradeInv, UNCHANGED upgradeVars
    PROVE  UpgradeInv'
<1>1. db' = db /\ upgrade' = upgrade /\ written' = written
  BY DEF upgradeVars
<1>2. RowsInv'
  BY <1>1, RowsRest
<1>3. UpgradeIsSafe' /\ ScriptIsWhole' /\ StatementsAreDone' /\ UpgradeTypeOK'
  BY <1>1 DEF UpgradeInv, UpgradeIsSafe, ScriptIsWhole, StatementsAreDone, Statements, Done, UpgradeTypeOK, InStage
<1> QED
  BY <1>2, <1>3 DEF UpgradeInv, RowsInv

\* Every step of the upgrade.
LEMMA UpgradeStep == UpgradeInv /\ [UpgradeNext]_upgradeVars => UpgradeInv'
  BY ProgramStarts, ScriptStep, StampStep, ReadStep, StatementStep, MigrationStep, RepairStep,
     DatabaseIsUsed, ProgramStops, UpgradeRests DEF UpgradeNext

(* All parts *)

\* Files that are left alone stay exact.
LEMMA FilesRest == FilesInv /\ UNCHANGED fileVars => FilesInv'
<1> SUFFICES ASSUME FilesInv, UNCHANGED fileVars PROVE FilesInv'
  OBVIOUS
<1>1. /\ main' = main /\ wal' = wal /\ kept' = kept /\ backups' = backups /\ restore' = restore
      /\ serverUp' = serverUp /\ torn' = torn /\ expected' = expected /\ fileCount' = fileCount
      /\ replaced' = replaced
  BY DEF fileVars
<1> QED
  BY <1>1 DEF FilesInv, FilesTypeOK, RestoreInOrder, NothingIsLost, Log

\* The inductive invariants of the parts side by side.
PartsInv == FilesInv /\ RetentionInv /\ ChartInv /\ ActionsInv /\ BarsAreKnown /\ HoldingsFollow /\ UpgradeInv

\* Every step is one of one part, which keeps its invariant, and no correction is lost.
LEMMA PartsStep ==
    ASSUME PartsInv, [Next]_vars
    PROVE  PartsInv' /\ CorrectionsStay
<1>1. /\ FileNext \/ UNCHANGED fileVars
      /\ [RetentionNext]_retentionVars
      /\ [ChartNext]_chartVars
      /\ ActionsNext \/ UNCHANGED actionVars
      /\ [UpgradeNext]_upgradeVars
  BY DEF Next, vars
<1>2. FilesInv' /\ RetentionInv' /\ ChartInv'
  BY <1>1, FilesStep, FilesRest, RetentionStep, ChartStep DEF PartsInv
<1>3. ActionsInv' /\ CorrectionsStay
  BY <1>1, ActionsStep DEF PartsInv
<1>4. BarsAreKnown'
  BY <1>1, BarsStep DEF PartsInv, ActionsInv
<1>5. HoldingsFollow'
  BY <1>1, <1>3, HoldingsStep DEF PartsInv
<1>6. UpgradeInv'
  BY <1>1, UpgradeStep DEF PartsInv
<1> QED
  BY <1>2, <1>3, <1>4, <1>5, <1>6 DEF PartsInv

\* The inductive invariants of the parts hold in every state.
THEOREM RecordsInductive == Spec => []PartsInv
<1>1. Init => PartsInv
  BY FilesInit, RetentionStarts, ChartStarts, ActionsStarts, BarsStart, HoldingsStart, UpgradeStarts
     DEF Init, PartsInv
<1>2. PartsInv /\ [Next]_vars => PartsInv'
  BY PartsStep
<1> QED
  BY <1>1, <1>2, PTL DEF Spec

\* "Remove expired operational data without deleting financial ledger evidence" and
\* restores what was backed up: DatabaseMaintenance loses nothing it promises to keep.
THEOREM MaintenanceStaysSafe == Spec => []MaintenanceIsSafe
<1>1. PartsInv => MaintenanceIsSafe
  BY FilesAreExact, EvidenceFollows DEF MaintenanceIsSafe, PartsInv
<1> QED
  BY RecordsInductive, <1>1, PTL

\* LeaderboardStore.retain cuts off an instant for all accounts or for none, and what the
\* daily job stored is of the present simulation and at the quotes it asked for.
THEOREM ChartStaysSound == Spec => []ChartIsSound
<1>1. PartsInv => ChartIsSound
  BY ChartFollows DEF PartsInv
<1> QED
  BY RecordsInductive, <1>1, PTL

\* Whatever is traded, paid, taken back and reset, and whenever the scan crashes: the rows
\* of an account lead from its starting cash to its balance, and no dividend is paid or
\* taken back twice (apply_dividend, reverse_dividend).
THEOREM LedgerExplainsEveryBalance == Spec => []LedgerExplainsCash
<1>1. PartsInv => LedgerExplainsCash
  BY LedgerExplained DEF PartsInv
<1> QED
  BY RecordsInductive, <1>1, PTL

\* A correction, and every transaction of an account with one it names, outlives every step,
\* resets and rebuilds included, and reconcile_cash_balances finds nothing to repair in an account that only the program
\* changed and whose rows are stamped in their order.
THEOREM CorrectionsStaySound == Spec => CorrectionsAreSound
<1>1. PartsInv /\ [Next]_vars => [CorrectionsStay]_actionVars
  BY PartsStep
<1>2. PartsInv /\ [Next]_vars =>
         [/\ repairs \subseteq repairs' /\ reversals \subseteq reversals'
          /\ \A i \in Referenced : \A j \in Rows(ledger[i].user) :
                j \in DOMAIN ledger' /\ ledger'[j] = ledger[j]
          /\ repairs' # repairs /\ count.drifts = 0 => \E u \in Users : ~StampsInOrder(u)]_actionVars
  BY <1>1 DEF CorrectionsStay
<1> QED
  BY RecordsInductive, <1>2, PTL DEF Spec, CorrectionsAreSound

\* However many threads detect a split, and however often: a holding is what the trades of
\* the ledger add up to, those of before the day of the split counted twice from the moment
\* record_split ran, and the bars of the price history are divided once.
THEOREM SplitsCountOnce == Spec => []SplitIsCountedOnce
<1>1. PartsInv => SplitIsCountedOnce
  BY SplitsCount DEF PartsInv
<1> QED
  BY RecordsInductive, <1>1, PTL

\* Whatever version a database was left by, and wherever an earlier start of the program
\* died: init_db and _migrate do not fail, lose no transaction, no link to its quote and no
\* model of an agent, and end with the schema of a fresh database, the date of every open
\* position and the target of every agent.
THEOREM UpgradeStaysSafe == Spec => []UpgradeIsSafe
<1>1. PartsInv => UpgradeIsSafe
  BY DEF PartsInv, UpgradeInv
<1> QED
  BY RecordsInductive, <1>1, PTL
=============================================================================
