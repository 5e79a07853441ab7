--------------------------- MODULE ServerProofs ---------------------------
(***************************************************************************)
(* Three parts of the server, for any number of threads, any interval, any   *)
(* amounts and quotes, operations and crashes.                             *)
(*                                                                         *)
(* The run lock and the pending flag of the scheduler: the property is     *)
(* inductive as it stands.  Whoever goes inside has just taken the free    *)
(* lock, whoever leaves gives it back in the same finally, and a triggered *)
(* thread that ends takes the flag down with it.                           *)
(*                                                                         *)
(* The seeding of the accounts: what a reset or an initialization does to  *)
(* them needs how far the operation is, and what a crash may have left.    *)
(*                                                                         *)
(* The account that trades: what a portfolio is worth is a sum over its    *)
(* positions, of which a trade changes one, so a trade is accounted for by *)
(* how the amount, the shares and the cash are rounded.  A risk pass needs *)
(* besides that the rows it has not visited are as it read them, and that  *)
(* its sales cost no more than their fees and rounding.                    *)
(***************************************************************************)
EXTENDS Scheduler, IndexFund, ExecutionEngine, FiniteSetTheorems, WellFoundedInduction, TLAPS

-----------------------------------------------------------------------------
(* The scheduler *)

\* One thread changes its place and no other.
LEMMA GotoOne ==
    ASSUME SchedulerTypeOK, NEW t \in Threads, NEW label \in Labels, Goto(t, label)
    PROVE  /\ pc' \in [Threads -> Labels]
           /\ pc'[t] = label /\ \A u \in Threads : u # t => pc'[u] = pc[u]
BY DEF SchedulerTypeOK, Goto

\* How a thread goes inside, leaves, or does neither.
LEMMA InsideChanges ==
    ASSUME LocksAreKept, NEW t \in Threads, NEW label \in Labels, Goto(t, label),
           \/ /\ label \in {"cycle", "operate"}
              /\ runLock = Nobody /\ runLock' = t
           \/ /\ label \notin {"cycle", "operate"} /\ pc[t] \in {"cycle", "operate"}
              /\ runLock' = Nobody
           \/ /\ label \notin {"cycle", "operate"} /\ pc[t] \notin {"cycle", "operate"}
              /\ runLock' = runLock
    PROVE  Inside' = (IF runLock' = Nobody THEN {} ELSE {runLock'})
<1>1. Inside = (IF runLock = Nobody THEN {} ELSE {runLock}) /\ t # Nobody
  BY ThreadsAssumption DEF LocksAreKept
<1>2. pc'[t] = label /\ \A u \in Threads : u # t => pc'[u] = pc[u]
  BY GotoOne DEF LocksAreKept
<1>3. Inside' = IF label \in {"cycle", "operate"} THEN Inside \cup {t} ELSE Inside \ {t}
  BY <1>2 DEF Inside
<1>4. t \in Inside <=> pc[t] \in {"cycle", "operate"}
  BY DEF Inside
<1> QED
  BY <1>1, <1>3, <1>4

\* The loop never sleeps longer than the interval.
LEMMA SleepType ==
    ASSUME SchedulerTypeOK
    PROVE  (IF age = Never THEN Interval ELSE Interval - age) \in 0..Interval
BY IntervalAssumption DEF SchedulerTypeOK, Never

\* Where a step leads the thread it belongs to, and the lock.
LEMMA ThreadStepKeeps ==
    ASSUME LocksAreKept, NEW t \in Threads, NEW label \in Labels, Goto(t, label),
           \/ /\ label \in {"cycle", "operate"}
              /\ runLock = Nobody /\ runLock' = t
           \/ /\ label \notin {"cycle", "operate"} /\ pc[t] \in {"cycle", "operate"}
              /\ runLock' = Nobody
           \/ /\ label \notin {"cycle", "operate"} /\ pc[t] \notin {"cycle", "operate"}
              /\ runLock' = runLock,
           pending' \in BOOLEAN, stopped' \in BOOLEAN,
           caller' \in {"started", "stopping", "stopped"},
           age' \in 0..Never, timer' \in 0..Interval,
           ~pending' \/ (pending' = pending /\ (label = "off" => t \notin Manuals))
               \/ (t \in Manuals /\ label # "off")
    PROVE  LocksAreKept'
<1>1. SchedulerTypeOK
  BY DEF LocksAreKept
<1>2. /\ pc' \in [Threads -> Labels]
      /\ pc'[t] = label /\ \A u \in Threads : u # t => pc'[u] = pc[u]
  BY <1>1, GotoOne
<1>3. SchedulerTypeOK'
  BY <1>1, <1>2 DEF SchedulerTypeOK
<1>4. Inside' = (IF runLock' = Nobody THEN {} ELSE {runLock'})
  BY InsideChanges
<1>5. pending' => \E u \in Manuals : pc'[u] # "off"
  <2> SUFFICES ASSUME pending' PROVE \E u \in Manuals : pc'[u] # "off"
    OBVIOUS
  <2>1. CASE t \in Manuals /\ label # "off"
    BY <2>1, <1>2
  <2>2. CASE pending' = pending /\ (label = "off" => t \notin Manuals)
    <3>1. PICK u \in Manuals : pc[u] # "off"
      BY <2>2 DEF LocksAreKept
    <3>2. u \in Threads
      BY DEF Threads, Refreshers
    <3> QED
      BY <1>2, <2>2, <3>1, <3>2
  <2> QED
    BY <2>1, <2>2
<1> QED
  BY <1>3, <1>4, <1>5 DEF LocksAreKept

\* The threads that refresh.
LEMMA CycleStepKeeps ==
    ASSUME LocksAreKept, NEW t \in Refreshers, CycleStep(t)
    PROVE  LocksAreKept'
<1>1. t \in Threads /\ SchedulerTypeOK
  BY DEF Threads, LocksAreKept
<1>2. /\ {"acquire", "skip", "cycle", "sleep", "off"} \subseteq Labels
      /\ pending \in BOOLEAN /\ stopped \in BOOLEAN /\ age \in 0..Never /\ timer \in 0..Interval
      /\ 0 \in 0..Never
  BY <1>1, IntervalAssumption DEF Labels, SchedulerTypeOK, Never
<1>3. caller' \in {"started", "stopping", "stopped"} /\ stopped' = stopped
  BY <1>1 DEF CycleStep, BeginCycle, CannotBegin, SkipCycle, EndCycle, CycleRaises, SchedulerTypeOK
<1>4. CASE BeginCycle(t)
  BY <1>1, <1>2, <1>3, <1>4, ThreadStepKeeps DEF BeginCycle
<1>5. CASE CannotBegin(t)
  BY <1>1, <1>2, <1>3, <1>5, ThreadStepKeeps DEF CannotBegin
<1>6. ASSUME Return(t)
      PROVE  timer' \in 0..Interval /\ \E label \in {"sleep", "off"} : Goto(t, label)
  BY <1>1, <1>2, <1>6, SleepType DEF Return, Sleep
<1>7. CASE SkipCycle(t)
  <2>1. PICK label \in {"sleep", "off"} : Goto(t, label)
    BY <1>6, <1>7 DEF SkipCycle
  <2> QED
    BY <1>1, <1>2, <1>3, <1>6, <1>7, <2>1, ThreadStepKeeps DEF SkipCycle
<1>8. CASE EndCycle(t)
  <2>1. PICK label \in {"sleep", "off"} : Goto(t, label)
    BY <1>6, <1>8 DEF EndCycle
  <2> QED
    BY <1>1, <1>2, <1>3, <1>6, <1>8, <2>1, ThreadStepKeeps DEF EndCycle, Finally
<1>9. CASE CycleRaises(t)
  BY <1>1, <1>2, <1>3, <1>9, ThreadStepKeeps DEF CycleRaises, Finally
<1> QED
  BY <1>4, <1>5, <1>7, <1>8, <1>9 DEF CycleStep

\* The threads that operate on portfolios.
LEMMA OperationStepKeeps ==
    ASSUME LocksAreKept, NEW t \in Operations, Ask(t) \/ OperationStep(t)
    PROVE  LocksAreKept'
<1>1. t \in Threads /\ t \notin Manuals /\ SchedulerTypeOK
  BY ThreadsAssumption DEF Threads, Refreshers, LocksAreKept
<1>2. "ask" \in Labels /\ "operate" \in Labels /\ "off" \in Labels
  BY DEF Labels
<1>3. /\ pending' = pending /\ pending' \in BOOLEAN /\ stopped' \in BOOLEAN
      /\ age' \in 0..Never /\ timer' \in 0..Interval
      /\ caller' \in {"started", "stopping", "stopped"}
  BY <1>1 DEF Ask, OperationStep, BeginOperation, GiveUp, EndOperation, SchedulerTypeOK
<1>4. CASE Ask(t)
  BY <1>1, <1>2, <1>3, <1>4, ThreadStepKeeps DEF Ask
<1>5. CASE BeginOperation(t)
  BY <1>1, <1>2, <1>3, <1>5, ThreadStepKeeps DEF BeginOperation
<1>6. CASE GiveUp(t)
  BY <1>1, <1>2, <1>3, <1>6, ThreadStepKeeps DEF GiveUp
<1>7. CASE EndOperation(t)
  BY <1>1, <1>2, <1>3, <1>7, ThreadStepKeeps DEF EndOperation
<1> QED
  BY <1>4, <1>5, <1>6, <1>7 DEF OperationStep

\* The loop between two refreshes, its start and the triggers.
LEMMA LoopStepKeeps ==
    ASSUME LocksAreKept, Start \/ LoopStep \/ \E t \in Manuals : Trigger(t)
    PROVE  LocksAreKept'
<1>1. /\ Loop \in Threads /\ Loop \notin Manuals /\ SchedulerTypeOK
      /\ \A t \in Manuals : t \in Threads
  BY ThreadsAssumption DEF Threads, Refreshers, LocksAreKept
<1>2. /\ {"check", "acquire", "sleep", "off"} \subseteq Labels
      /\ pending \in BOOLEAN /\ stopped \in BOOLEAN /\ age \in 0..Never /\ timer \in 0..Interval
      /\ caller \in {"started", "stopping", "stopped"}
  BY <1>1 DEF Labels, SchedulerTypeOK
<1>3. CASE Start
  <2>1. CASE pc[Loop] # "off"
    BY <1>1, <1>2, <1>3, <2>1 DEF Start, LocksAreKept, SchedulerTypeOK, Inside
  <2>2. CASE pc[Loop] = "off"
    BY <1>1, <1>2, <1>3, <2>2, ThreadStepKeeps DEF Start
  <2> QED
    BY <2>1, <2>2
<1>4. CASE CheckDue
  <2>1. PICK label \in {"acquire", "sleep", "off"} : Goto(Loop, label)
    BY <1>4 DEF CheckDue, Sleep
  <2>2. timer' \in 0..Interval
    BY <1>1, <1>2, <1>4, SleepType DEF CheckDue, Sleep
  <2> QED
    BY <1>1, <1>2, <1>4, <2>1, <2>2, ThreadStepKeeps DEF CheckDue
<1>5. CASE WakeUp
  BY <1>1, <1>2, <1>5, ThreadStepKeeps DEF WakeUp
<1>6. ASSUME NEW t \in Manuals, Trigger(t) PROVE LocksAreKept'
  BY <1>1, <1>2, <1>6, ThreadStepKeeps DEF Trigger
<1> QED
  BY <1>3, <1>4, <1>5, <1>6 DEF LoopStep

\* Time, and what the runtime does beside starting the loop, touch neither.
LEMMA OtherStepKeeps ==
    ASSUME LocksAreKept, Stop \/ StopReturns \/ Tick \/ UNCHANGED schedulerVars
    PROVE  LocksAreKept'
<1>1. pc' = pc /\ runLock' = runLock /\ pending' = pending
  BY DEF Stop, StopReturns, Tick, schedulerVars
<1>2. SchedulerTypeOK'
  <2>1. SchedulerTypeOK
    BY DEF LocksAreKept
  <2>2. age' \in 0..Never /\ timer' \in 0..Interval
    BY <2>1, IntervalAssumption DEF SchedulerTypeOK, Stop, StopReturns, Tick, schedulerVars, Never
  <2> QED
    BY <1>1, <2>1, <2>2 DEF SchedulerTypeOK, Stop, StopReturns, Tick, schedulerVars
<1> QED
  BY <1>1, <1>2 DEF LocksAreKept, Inside

\* Every step keeps it.
LEMMA SchedulerNextKeeps == LocksAreKept /\ [SchedulerNext]_schedulerVars => LocksAreKept'
BY CycleStepKeeps, OperationStepKeeps, LoopStepKeeps, OtherStepKeeps DEF SchedulerNext

\* Refreshes and portfolio operations exclude each other, the run lock is free as
\* soon as nobody is inside, and a pending flag has a triggered thread behind it.
THEOREM RunLockIsKept == SchedulerSpec => []LocksAreKept
<1>1. SchedulerInit => LocksAreKept
  <2> SUFFICES ASSUME SchedulerInit PROVE LocksAreKept
    OBVIOUS
  <2>1. SchedulerTypeOK
    <3>1. Never \in 0..Never /\ 0 \in 0..Interval
      BY IntervalAssumption DEF Never
    <3> QED
      BY <3>1 DEF SchedulerInit, SchedulerTypeOK, Labels
  <2>2. Inside = {}
    BY DEF SchedulerInit, Inside
  <2> QED
    BY <2>1, <2>2 DEF SchedulerInit, LocksAreKept
<1> QED
  BY <1>1, SchedulerNextKeeps, PTL DEF SchedulerSpec

-----------------------------------------------------------------------------
(* The seeding of the accounts *)

\* Rounding half up: the result is at most half a unit away.
LEMMA Rounding ==
    ASSUME NEW n \in Nat, NEW d \in Nat \ {0}
    PROVE  /\ RoundHalfUp(n, d) \in Nat
           /\ 2 * (RoundHalfUp(n, d) * d) <= 2 * n + d
           /\ 2 * n < 2 * (RoundHalfUp(n, d) * d) + d
<1> DEFINE a == 2 * n + d
           b == 2 * d
           q == a \div b
<1>1. a \in Nat /\ b \in Nat /\ b > 0
  OBVIOUS
<1>2. q \in Nat /\ b * q <= a /\ a < b * q + b
  <2> HIDE DEF a, b
  <2>1. /\ a = b * (a \div b) + (a % b) /\ a % b \in 0..(b - 1) /\ a \div b \in Int
    BY <1>1, SMT
  <2>2. a \div b >= 0
    BY <1>1, SMT
  <2>3. b * (a \div b) \in Int
    BY <1>1, <2>1, SMT
  <2> QED
    BY <1>1, <2>1, <2>2, <2>3
<1>3. b * q = 2 * (q * d)
  <2>1. q \in Nat
    BY <1>2
  <2> HIDE DEF q
  <2> QED
    BY <2>1, SMT
<1>4. q * d \in Int
  <2> HIDE DEF q
  <2> QED
    BY <1>2, SMT
<1>5. RoundHalfUp(n, d) = q
  BY DEF RoundHalfUp
<1> HIDE DEF q
<1> QED
  BY <1>2, <1>3, <1>4, <1>5

\* The owners and their order.
LEMMA OrderFacts ==
    /\ DOMAIN Order = 1..4 /\ Len(Order) = 4
    /\ Owners = {"default", "index", "profile", "committee"}
    /\ \A i \in 1..4 : Order[i] \in Owners
    /\ Order[1] = "default" /\ Order[2] = "index" /\ Order[3] = "profile" /\ Order[4] = "committee"
<1>1. /\ DOMAIN Order = 1..4 /\ Len(Order) = 4
      /\ Order[1] = "default" /\ Order[2] = "index" /\ Order[3] = "profile" /\ Order[4] = "committee"
  BY DEF Order
<1>2. 1..4 = {1, 2, 3, 4}
  OBVIOUS
<1>3. Owners = {Order[i] : i \in {1, 2, 3, 4}}
  BY <1>1, <1>2 DEF Owners
<1> QED
  BY <1>1, <1>2, <1>3

\* A ledger row for all of the starting cash explains the balance and the position, but
\* for the rounding of one amount and of one quantity.
LEMMA PurchaseKeepsTheBalance ==
    ASSUME NEW data \in Data, AccountIsSound(data), NEW i \in 1..Len(data.ledger)
    PROVE  LET row == data.ledger[i]
               drift == 2 * (Value(row.quantity, row.price) + data.cash * Scale - FundCash * Scale)
           IN  /\ -Scale <= drift /\ drift <= Scale
               /\ 2 * data.cash * Scale <= row.price + Scale
<1>1. data.ledger \in Seq(Purchase) /\ data.cash \in Nat
  BY DEF Data
<1>2. data.ledger # << >> /\ i = 1
  <2>1. Len(data.ledger) \in Nat /\ i \in Int /\ 1 <= i /\ i <= Len(data.ledger)
    BY <1>1
  <2>2. data.ledger # << >>
    BY <1>1, <2>1
  <2>3. Len(data.ledger) = 1
    BY <2>2 DEF AccountIsSound
  <2> QED
    BY <2>1, <2>2, <2>3
<1> DEFINE row == data.ledger[1]
           worth == row.quantity * row.price
           cost == RoundHalfUp(worth, Scale)
<1>3. row \in Purchase
  BY <1>1, <1>2
<1>4. /\ row.price \in Nat \ {0} /\ row.quantity \in Nat
      /\ row.quantity = RoundHalfUp(FundCash * Scale, row.price)
      /\ data.cash = FundCash - cost
  BY <1>2, <1>3 DEF AccountIsSound, Purchase, Value
<1>5. Scale \in Nat \ {0} /\ FundCash \in Nat /\ FundCash * Scale \in Nat /\ worth \in Nat
  BY <1>4, ScaleAssumption, FundCashAssumption, SMT
<1> HIDE DEF worth
<1>6. /\ cost \in Nat /\ 2 * (cost * Scale) <= 2 * worth + Scale
      /\ 2 * worth < 2 * (cost * Scale) + Scale
  BY <1>5, Rounding
<1>7. 2 * worth <= 2 * (FundCash * Scale) + row.price /\ 2 * (FundCash * Scale) < 2 * worth + row.price
  BY <1>4, <1>5, Rounding DEF worth
<1> HIDE DEF cost
<1>8. data.cash * Scale = FundCash * Scale - cost * Scale /\ cost * Scale \in Int
  BY <1>4, <1>5, <1>6, SMT
<1>9. 2 * data.cash * Scale = 2 * (data.cash * Scale) /\ data.cash * Scale \in Int
  BY <1>1, <1>5, SMT
<1>10. Value(row.quantity, row.price) = worth
  BY DEF Value, worth
<1> HIDE DEF row
<1>11. LET drift == 2 * (worth + data.cash * Scale - FundCash * Scale)
       IN  -Scale <= drift /\ drift <= Scale
  BY <1>5, <1>6, <1>8
<1>12. 2 * data.cash * Scale <= row.price + Scale
  BY <1>4, <1>5, <1>6, <1>7, <1>8, <1>9
<1> QED
  BY <1>2, <1>10, <1>11, <1>12 DEF row

\* The amounts of a purchase.
LEMMA PurchaseAmounts ==
    ASSUME FundTypeOK, price > 0
    PROVE  /\ Quantity(FundCash) \in Nat /\ price \in Nat
           /\ \A n \in Nat : Cost(n) \in Nat
<1>1. price \in Nat \ {0}
  BY FundPricesAssumption DEF FundTypeOK
<1>2. FundCash * Scale \in Nat /\ \A n \in Nat : n * price \in Nat
  BY <1>1, FundCashAssumption, ScaleAssumption, SMT
<1> QED
  BY <1>1, <1>2, Rounding, ScaleAssumption DEF Quantity, Cost, Value

\* What a step of the initialization writes for one owner.
LEMMA SetOwnerWrites ==
    ASSUME FundInv, op = "initialize", NEW f \in Owner, SetOwner(f),
           owner.account => f.account
    PROVE  /\ db' = draft' /\ db' \in Data /\ AccountIsSound(db)'
           /\ db'.owners[Order[next]] = f
           /\ \A o \in Owners \ {Order[next]} : db'.owners[o] = db.owners[o]
           /\ db'.cash = db.cash /\ db'.shares = db.shares /\ db'.ledger = db.ledger
           /\ Order[next] \in Owners
<1>1. draft = db /\ db \in Data /\ Order[next] \in Owners /\ "index" \in Owners
  BY OrderFacts DEF FundInv, FundTypeOK, OperationInOrder
<1>2. /\ db' = [db EXCEPT !.owners = [@ EXCEPT ![Order[next]] = f]]
      /\ draft' = db'
  BY <1>1 DEF SetOwner, Write
<1>3. /\ db'.owners = [db.owners EXCEPT ![Order[next]] = f]
      /\ db'.cash = db.cash /\ db'.shares = db.shares /\ db'.ledger = db.ledger
      /\ db' \in Data
  BY <1>1, <1>2 DEF Data
<1>4. db.owners \in [Owners -> Owner]
  BY <1>1 DEF Data
<1>5. /\ db'.owners[Order[next]] = f
      /\ \A o \in Owners \ {Order[next]} : db'.owners[o] = db.owners[o]
  BY <1>1, <1>3, <1>4
<1>6. db.owners["index"].account => db'.owners["index"].account
  BY <1>1, <1>5 DEF owner
<1>7. AccountIsSound(db)'
  BY <1>3, <1>6 DEF AccountIsSound, FundInv
<1> QED
  BY <1>1, <1>2, <1>3, <1>5, <1>7

\* What every step below establishes.
FundStepIsSafe == FundInv' /\ ResetStep /\ InitializationStep

\* An operation begins, or an agent gets an account from elsewhere.
LEMMA InitializeKeeps == FundInv /\ Initialize => FundStepIsSafe
<1> SUFFICES ASSUME FundInv, Initialize PROVE FundStepIsSafe
  OBVIOUS
<1>1. FundTypeOK'
  <2>1. ops' \in 0..MaxOps
    BY FundBoundsAssumption DEF FundInv, FundTypeOK, Initialize
  <2> QED
    BY <2>1 DEF FundInv, FundTypeOK, Initialize
<1>2. OperationInOrder' /\ PurchaseInOrder'
  BY DEF FundInv, Initialize, OperationInOrder, PurchaseInOrder
<1>3. OwnersInOrder'
  BY DEF FundInv, Initialize, OperationInOrder, OwnersInOrder, Complete
<1>4. AccountIsSound(db)' /\ AccountIsSound(draft)'
  BY DEF FundInv, Initialize, AccountIsSound
<1> QED
  BY <1>1, <1>2, <1>3, <1>4 DEF FundStepIsSafe, FundInv, ResetStep, InitializationStep, Initialize,
     OperationInOrder

\* See InitializeKeeps.
LEMMA CreateAgentKeeps == FundInv /\ CreateAgent => FundStepIsSafe
<1> SUFFICES ASSUME FundInv, CreateAgent PROVE FundStepIsSafe
  OBVIOUS
<1> DEFINE new == [user |-> TRUE, account |-> TRUE, strategy |-> "own"]
<1>1. PICK o \in Owners \ {"index"} :
         /\ ~db.owners[o].user
         /\ draft' = [db EXCEPT !.owners = [@ EXCEPT ![o] = new]] /\ db' = draft'
  BY DEF CreateAgent, Write, FundInv, OperationInOrder
<1>2. op = "none" /\ op' = "none" /\ step = "idle" /\ step' = "idle" /\ price' = price /\ next' = next
      /\ crashes' = crashes /\ new \in Owner /\ db \in Data /\ "index" \in Owners
  BY OrderFacts DEF CreateAgent, FundInv, FundTypeOK, OperationInOrder, Owner
<1>3. /\ db' \in Data /\ db'.owners[o] = new /\ db'.owners["index"] = db.owners["index"]
      /\ \A w \in Owners \ {o} : db'.owners[w] = db.owners[w]
      /\ db'.cash = db.cash /\ db'.shares = db.shares /\ db'.ledger = db.ledger
  BY <1>1, <1>2 DEF Data
<1>4. FundTypeOK'
  <2>1. ops' \in 0..MaxOps /\ crashes' \in 0..MaxCrashes
    BY <1>2, FundBoundsAssumption DEF FundInv, FundTypeOK, CreateAgent
  <2>2. draft' \in Data /\ db' \in Data
    BY <1>1, <1>3
  <2> QED
    BY <1>2, <2>1, <2>2 DEF FundInv, FundTypeOK
<1>5. AccountIsSound(db)' /\ AccountIsSound(draft)'
  BY <1>1, <1>3 DEF FundInv, AccountIsSound
<1>6. OperationInOrder' /\ PurchaseInOrder'
  BY <1>1, <1>2 DEF FundInv, OperationInOrder, PurchaseInOrder
<1>7. OwnersInOrder'
  BY <1>2, <1>3 DEF FundInv, OwnersInOrder, Complete
<1> QED
  BY <1>2, <1>4, <1>5, <1>6, <1>7 DEF FundStepIsSafe, FundInv, ResetStep, InitializationStep

\* An owner that is there: the strategy may be missing, nothing else.
LEMMA OwnerExistsKeeps == FundInv /\ OwnerExists => FundStepIsSafe
<1> SUFFICES ASSUME FundInv, OwnerExists PROVE FundStepIsSafe
  OBVIOUS
<1> DEFINE o == Order[next]
           fields == [owner EXCEPT !.strategy = Refreshed(o)]
<1>1. op = "initialize" /\ step = "owner" /\ draft = db /\ next \in 1..4 /\ o \in Owners
      /\ owner = db.owners[o] /\ owner \in Owner
  BY OrderFacts DEF FundInv, FundTypeOK, OperationInOrder, OwnerExists, owner, Data
<1>2. /\ fields \in Owner /\ fields.user /\ fields.account = owner.account
      /\ owner.strategy # "none" => fields.strategy # "none"
      /\ o # "committee" /\ owner.strategy # "none" => fields.strategy = owner.strategy
  BY <1>1 DEF OwnerExists, Owner, Refreshed
<1>3. /\ db' = draft' /\ db' \in Data /\ AccountIsSound(db)' /\ db'.owners[o] = fields
      /\ \A w \in Owners \ {o} : db'.owners[w] = db.owners[w]
      /\ db'.cash = db.cash /\ db'.shares = db.shares /\ db'.ledger = db.ledger
  BY <1>1, <1>2, SetOwnerWrites DEF OwnerExists
<1>4. \/ next < 4 /\ step' = "owner" /\ next' = next + 1 /\ op' = op
      \/ next = 4 /\ step' = "idle" /\ next' = 1 /\ op' = "none"
  BY <1>1, OrderFacts DEF OwnerExists, NextOwner, End
<1>5. price' = price /\ ops' = ops /\ crashes' = crashes
  BY DEF OwnerExists
<1> HIDE DEF fields, o
<1>6. FundTypeOK'
  <2>1. next' \in DOMAIN Order
    BY <1>1, <1>4, OrderFacts
  <2> QED
    BY <1>1, <1>3, <1>4, <1>5, <2>1 DEF FundInv, FundTypeOK
<1>7. AccountIsSound(draft)'
  BY <1>3 DEF AccountIsSound
<1>8. OperationInOrder' /\ PurchaseInOrder'
  BY <1>1, <1>3, <1>4 DEF OperationInOrder, PurchaseInOrder
<1>9. OwnersInOrder'
  <2>1. \A w \in Owners : ~db'.owners[w].user => db'.owners[w] = NoOwner
    BY <1>2, <1>3 DEF FundInv, OwnersInOrder
  <2>2. op' = "initialize" => \A i \in 1..(next' - 1) : db'.owners[Order[i]].user
    <3> SUFFICES ASSUME op' = "initialize", NEW i \in 1..(next' - 1)
                 PROVE  db'.owners[Order[i]].user
      OBVIOUS
    <3>1. i \in 1..4 /\ (i = next \/ i \in 1..(next - 1))
      BY <1>1, <1>4
    <3>2. db.owners[Order[i]].user \/ Order[i] = o
      BY <1>1, <3>1 DEF FundInv, OwnersInOrder, o
    <3> QED
      BY <1>2, <1>3, <3>1, <3>2, OrderFacts
  <2>3. crashes' = 0 => \A w \in Owners : db'.owners[w].user => Complete(w)'
    <3> SUFFICES ASSUME crashes' = 0, NEW w \in Owners, db'.owners[w].user PROVE Complete(w)'
      OBVIOUS
    <3>1. db.owners[w].user => Complete(w)
      BY <1>1, <1>5 DEF FundInv, OwnersInOrder
    <3>2. CASE w = o
      BY <1>1, <1>2, <1>3, <3>1, <3>2 DEF Complete, OwnerExists
    <3>3. CASE w # o
      BY <1>3, <3>1, <3>3 DEF Complete
    <3> QED
      BY <3>2, <3>3
  <2> QED
    BY <1>4, <2>1, <2>2, <2>3, <1>1 DEF OwnersInOrder
<1>10. InitializationStep
  <2>1. \A w \in Owners : db.owners[w].user =>
           /\ db'.owners[w].user
           /\ db.owners[w].account => db'.owners[w].account
           /\ w # "committee" /\ db.owners[w].strategy # "none" =>
                 db'.owners[w].strategy = db.owners[w].strategy
    BY <1>1, <1>2, <1>3
  <2>2. ASSUME op' = "none", crashes' = 0, NEW w \in Owners
        PROVE  db'.owners[w].account /\ db'.owners[w].strategy # "none"
    <3>1. next = 4
      BY <1>1, <1>4, <2>2
    <3>2. db'.owners[w].user
      <4>1. PICK i \in 1..4 : w = Order[i]
        BY OrderFacts
      <4>2. CASE i = 4
        BY <1>2, <1>3, <3>1, <4>1, <4>2 DEF o
      <4>3. CASE i \in 1..3
        BY <1>1, <2>1, <3>1, <4>1, <4>3 DEF FundInv, OwnersInOrder
      <4> QED
        BY <4>1, <4>2, <4>3
    <3> QED
      BY <1>4, <1>9, <2>2, <3>1, <3>2 DEF OwnersInOrder, Complete
  <2> QED
    BY <1>3, <2>1, <2>2 DEF InitializationStep
<1> QED
  BY <1>1, <1>3, <1>6, <1>7, <1>8, <1>9, <1>10 DEF FundStepIsSafe, FundInv, ResetStep

\* An owner that is not there yet.
LEMMA CreateOwnerKeeps == FundInv /\ CreateOwner => FundStepIsSafe
<1> SUFFICES ASSUME FundInv, CreateOwner PROVE FundStepIsSafe
  OBVIOUS
<1> DEFINE o == Order[next]
<1>1. op = "initialize" /\ step = "owner" /\ draft = db /\ next \in 1..4 /\ o \in Owners
      /\ owner = db.owners[o] /\ owner = NoOwner /\ NoOwner \in Owner
  BY OrderFacts DEF FundInv, FundTypeOK, OperationInOrder, OwnersInOrder, CreateOwner, owner, Data,
     Owner, NoOwner
<1>2. PICK f \in Owner :
         /\ SetOwner(f) /\ f.user /\ f.account = FALSE
         /\ \/ f.strategy = "none" /\ step' = "strategy"
            \/ f.strategy = "seeded" /\ step' = "account"
  <2> DEFINE bare == [owner EXCEPT !.user = TRUE]
             full == [owner EXCEPT !.user = TRUE, !.strategy = "seeded"]
  <2>1. /\ bare \in Owner /\ bare.user /\ bare.account = FALSE /\ bare.strategy = "none"
        /\ full \in Owner /\ full.user /\ full.account = FALSE /\ full.strategy = "seeded"
    BY <1>1 DEF Owner, NoOwner
  <2>2. \/ SetOwner(bare) /\ step' = "strategy"
        \/ SetOwner(full) /\ step' = "account"
    BY DEF CreateOwner, Advance
  <2> HIDE DEF bare, full
  <2> QED
    BY <2>1, <2>2
<1>3. /\ db' = draft' /\ db' \in Data /\ AccountIsSound(db)' /\ db'.owners[o] = f
      /\ \A w \in Owners \ {o} : db'.owners[w] = db.owners[w]
      /\ db'.cash = db.cash /\ db'.shares = db.shares /\ db'.ledger = db.ledger
  BY <1>1, <1>2, SetOwnerWrites DEF NoOwner
<1>4. price' = price /\ ops' = ops /\ crashes' = crashes /\ next' = next /\ op' = op
  BY DEF CreateOwner, Advance
<1>5. FundTypeOK'
  BY <1>2, <1>3, <1>4 DEF FundInv, FundTypeOK
<1>6. AccountIsSound(draft)'
  BY <1>3 DEF AccountIsSound
<1>7. OperationInOrder' /\ PurchaseInOrder'
  BY <1>1, <1>2, <1>3, <1>4 DEF OperationInOrder, PurchaseInOrder
<1>8. ~db.owners[o].user
  BY <1>1 DEF NoOwner
<1>9. OwnersInOrder'
  <2>1. \A w \in Owners : ~db'.owners[w].user => db'.owners[w] = NoOwner
    BY <1>2, <1>3 DEF FundInv, OwnersInOrder
  <2>2. \A i \in 1..(next - 1) : db'.owners[Order[i]].user
    <3> SUFFICES ASSUME NEW i \in 1..(next - 1) PROVE db'.owners[Order[i]].user
      OBVIOUS
    <3>1. db.owners[Order[i]].user /\ Order[i] \in Owners
      BY <1>1, OrderFacts DEF FundInv, OwnersInOrder
    <3> QED
      BY <1>3, <1>8, <3>1
  <2>3. crashes' = 0 => \A w \in Owners \ {o} : db'.owners[w].user => Complete(w)'
    BY <1>1, <1>3, <1>4 DEF FundInv, OwnersInOrder, Complete
  <2> QED
    BY <1>1, <1>2, <1>3, <1>4, <2>1, <2>2, <2>3 DEF OwnersInOrder
<1>10. InitializationStep
  BY <1>1, <1>3, <1>4, <1>8 DEF InitializationStep
<1> QED
  BY <1>1, <1>3, <1>5, <1>6, <1>7, <1>9, <1>10 DEF FundStepIsSafe, FundInv, ResetStep

\* The strategy of a new owner.
LEMMA SetStrategyKeeps == FundInv /\ SetStrategy => FundStepIsSafe
<1> SUFFICES ASSUME FundInv, SetStrategy PROVE FundStepIsSafe
  OBVIOUS
<1> DEFINE o == Order[next]
           fields == [owner EXCEPT !.strategy = "seeded"]
<1>1. op = "initialize" /\ step = "strategy" /\ step' = "account" /\ draft = db
      /\ next \in 1..4 /\ o \in Owners /\ owner = db.owners[o] /\ owner \in Owner
      /\ owner.user /\ ~owner.account /\ owner.strategy = "none"
  BY OrderFacts DEF FundInv, FundTypeOK, OperationInOrder, OwnersInOrder, SetStrategy, Advance,
     owner, Data
<1>2. fields \in Owner /\ fields.user /\ ~fields.account /\ fields.strategy = "seeded"
  BY <1>1 DEF Owner
<1>3. /\ db' = draft' /\ db' \in Data /\ AccountIsSound(db)' /\ db'.owners[o] = fields
      /\ \A w \in Owners \ {o} : db'.owners[w] = db.owners[w]
      /\ db'.cash = db.cash /\ db'.shares = db.shares /\ db'.ledger = db.ledger
  BY <1>1, <1>2, SetOwnerWrites DEF SetStrategy
<1>4. price' = price /\ ops' = ops /\ crashes' = crashes /\ next' = next /\ op' = op
  BY DEF SetStrategy, Advance
<1> HIDE DEF fields
<1>5. FundTypeOK'
  BY <1>1, <1>3, <1>4 DEF FundInv, FundTypeOK
<1>6. AccountIsSound(draft)'
  BY <1>3 DEF AccountIsSound
<1>7. OperationInOrder' /\ PurchaseInOrder'
  BY <1>1, <1>3, <1>4 DEF OperationInOrder, PurchaseInOrder
<1>8. OwnersInOrder'
  <2>1. \A w \in Owners : ~db'.owners[w].user => db'.owners[w] = NoOwner
    BY <1>2, <1>3 DEF FundInv, OwnersInOrder
  <2>2. \A i \in 1..(next - 1) : db'.owners[Order[i]].user
    <3> SUFFICES ASSUME NEW i \in 1..(next - 1) PROVE db'.owners[Order[i]].user
      OBVIOUS
    <3>1. db.owners[Order[i]].user /\ Order[i] \in Owners
      BY <1>1, OrderFacts DEF FundInv, OwnersInOrder
    <3> QED
      BY <1>2, <1>3, <3>1
  <2>3. crashes' = 0 => \A w \in Owners \ {o} : db'.owners[w].user => Complete(w)'
    BY <1>1, <1>3, <1>4 DEF FundInv, OwnersInOrder, Complete
  <2> QED
    BY <1>1, <1>2, <1>3, <1>4, <2>1, <2>2, <2>3 DEF OwnersInOrder
<1>9. InitializationStep
  <2>1. \A w \in Owners : db.owners[w].user =>
           /\ db'.owners[w].user
           /\ db.owners[w].account => db'.owners[w].account
           /\ db.owners[w].strategy # "none" => db'.owners[w].strategy = db.owners[w].strategy
    BY <1>1, <1>2, <1>3
  <2> QED
    BY <1>1, <1>3, <1>4, <2>1 DEF InitializationStep
<1> QED
  BY <1>1, <1>3, <1>5, <1>6, <1>7, <1>8, <1>9 DEF FundStepIsSafe, FundInv, ResetStep

\* The account of an owner other than the index account, which ends its seeding.
LEMMA CreateAccountKeeps == FundInv /\ CreateAccount => FundStepIsSafe
<1> SUFFICES ASSUME FundInv, CreateAccount PROVE FundStepIsSafe
  OBVIOUS
<1> DEFINE o == Order[next]
           fields == [owner EXCEPT !.account = TRUE]
<1>1. op = "initialize" /\ step = "account" /\ draft = db /\ db \in Data
      /\ next \in 1..4 /\ o \in Owners /\ owner = db.owners[o] /\ owner \in Owner
      /\ owner.user /\ ~owner.account /\ owner.strategy # "none"
  BY OrderFacts DEF FundInv, FundTypeOK, OperationInOrder, OwnersInOrder, CreateAccount, owner, Data
<1>2. fields \in Owner /\ fields.user /\ fields.account /\ fields.strategy = owner.strategy
  BY <1>1 DEF Owner
<1>3. price' = price /\ ops' = ops /\ crashes' = crashes
  BY DEF CreateAccount
<1>4. /\ db' = draft' /\ db' \in Data /\ AccountIsSound(db)' /\ db'.owners[o] = fields
      /\ \A w \in Owners \ {o} : db'.owners[w] = db.owners[w]
      /\ db'.shares = db.shares /\ db'.ledger = db.ledger
      /\ IF o = "index"
         THEN /\ db'.cash = FundCash /\ db.ledger = << >>
              /\ step' = "quote" /\ op' = op /\ next' = next
         ELSE db'.cash = db.cash /\ NextOwner
  <2>1. CASE o = "index"
    <3>1. db' = [db EXCEPT !.owners = [@ EXCEPT !["index"] = fields], !.cash = FundCash]
          /\ draft' = db' /\ step' = "quote" /\ op' = op /\ next' = next
      BY <1>1, <2>1 DEF CreateAccount, Write, Advance
    <3>2. db.ledger = << >> /\ db.shares = 0
      BY <1>1, <2>1 DEF FundInv, AccountIsSound
    <3>3. /\ db'.owners = [db.owners EXCEPT !["index"] = fields]
          /\ db'.cash = FundCash /\ db'.shares = db.shares /\ db'.ledger = db.ledger
          /\ db' \in Data /\ db.owners \in [Owners -> Owner]
      BY <1>1, <1>2, <2>1, <3>1, FundCashAssumption DEF Data
    <3>4. db'.owners["index"] = fields /\ \A w \in Owners \ {o} : db'.owners[w] = db.owners[w]
      BY <1>1, <2>1, <3>3
    <3>5. AccountIsSound(db)'
      BY <1>2, <3>2, <3>3, <3>4 DEF AccountIsSound
    <3> QED
      BY <2>1, <3>1, <3>2, <3>3, <3>4, <3>5
  <2>2. CASE o # "index"
    <3>1. SetOwner(fields) /\ NextOwner
      BY <2>2 DEF CreateAccount
    <3> QED
      BY <1>1, <1>2, <2>2, <3>1, SetOwnerWrites
  <2> QED
    BY <2>1, <2>2
<1>5. \/ o = "index" /\ step' = "quote" /\ next' = next /\ op' = op
      \/ o # "index" /\ next < 4 /\ step' = "owner" /\ next' = next + 1 /\ op' = op
      \/ o # "index" /\ next = 4 /\ step' = "idle" /\ next' = 1 /\ op' = "none"
  BY <1>1, <1>4, OrderFacts DEF NextOwner, End
<1> HIDE DEF fields
<1>6. FundTypeOK'
  <2>1. next' \in DOMAIN Order
    BY <1>1, <1>5, OrderFacts
  <2> QED
    BY <1>1, <1>3, <1>4, <1>5, <2>1 DEF FundInv, FundTypeOK
<1>7. AccountIsSound(draft)'
  BY <1>4 DEF AccountIsSound
<1>8. OperationInOrder' /\ PurchaseInOrder'
  <2>1. OperationInOrder'
    BY <1>1, <1>4, <1>5 DEF OperationInOrder, o
  <2>2. PurchaseInOrder'
    BY <1>1, <1>2, <1>4, <1>5 DEF PurchaseInOrder
  <2> QED
    BY <2>1, <2>2
<1>9. OwnersInOrder'
  <2>1. \A w \in Owners : ~db'.owners[w].user => db'.owners[w] = NoOwner
    BY <1>2, <1>4 DEF FundInv, OwnersInOrder
  <2>2. \A i \in 1..next : db'.owners[Order[i]].user
    <3> SUFFICES ASSUME NEW i \in 1..next PROVE db'.owners[Order[i]].user
      OBVIOUS
    <3>1. i \in 1..4 /\ (i = next \/ i \in 1..(next - 1))
      BY <1>1
    <3>2. db.owners[Order[i]].user
      BY <1>1, <3>1 DEF FundInv, OwnersInOrder, o
    <3> QED
      BY <1>2, <1>4, <3>1, <3>2, OrderFacts
  <2>3. op' = "initialize" =>
           /\ \A i \in 1..(next' - 1) : db'.owners[Order[i]].user
           /\ step' # "owner" => db'.owners[Order[next']].user
    BY <1>1, <1>5, <2>2
  <2>4. crashes' = 0 => \A w \in Owners : db'.owners[w].user => Complete(w)'
    <3> SUFFICES ASSUME crashes' = 0, NEW w \in Owners, db'.owners[w].user PROVE Complete(w)'
      OBVIOUS
    <3>1. CASE w = o
      BY <1>1, <1>2, <1>4, <3>1 DEF Complete
    <3>2. CASE w # o
      <4>1. Complete(w)
        BY <1>3, <1>4, <3>2 DEF FundInv, OwnersInOrder, o
      <4> QED
        BY <1>4, <3>2, <4>1 DEF Complete
    <3> QED
      BY <3>1, <3>2
  <2> QED
    BY <1>5, <2>1, <2>3, <2>4 DEF OwnersInOrder
<1>10. InitializationStep
  <2>1. \A w \in Owners : db.owners[w].user =>
           /\ db'.owners[w].user
           /\ db.owners[w].account => db'.owners[w].account
           /\ db'.owners[w].strategy = db.owners[w].strategy
    BY <1>1, <1>2, <1>4
  <2>2. db.ledger # << >> => db'.cash = db.cash
    BY <1>4
  <2>3. ASSUME op' = "none", crashes' = 0, NEW w \in Owners
        PROVE  db'.owners[w].account /\ db'.owners[w].strategy # "none"
    <3>1. next = 4 /\ step' = "idle"
      BY <1>1, <1>5, <2>3
    <3>2. PICK i \in 1..4 : w = Order[i]
      BY OrderFacts
    <3>3. db'.owners[w].user
      <4>1. CASE i = 4
        BY <1>2, <1>4, <3>1, <3>2, <4>1 DEF o
      <4>2. CASE i \in 1..3
        BY <1>1, <2>1, <3>1, <3>2, <4>2 DEF FundInv, OwnersInOrder
      <4> QED
        BY <3>2, <4>1, <4>2
    <3> QED
      BY <1>9, <2>3, <3>1, <3>3 DEF OwnersInOrder, Complete
  <2> QED
    BY <1>4, <2>1, <2>2, <2>3 DEF InitializationStep
<1> QED
  BY <1>1, <1>4, <1>6, <1>7, <1>8, <1>9, <1>10 DEF FundStepIsSafe, FundInv, ResetStep

\* A step that leaves the owners alone, and no owner behind but in a crash.
LEMMA OwnersStay ==
    ASSUME FundInv, db'.owners = db.owners,
           crashes' = 0 => crashes = 0 /\ step \notin {"strategy", "account"},
           step' \notin {"strategy", "account"},
           op' = "initialize" => /\ op = "initialize" /\ step # "owner"
                                 /\ \/ next' = next
                                    \/ next' = next + 1 /\ step' = "owner"
    PROVE  OwnersInOrder'
<1>1. \A o \in Owners : ~db'.owners[o].user => db'.owners[o] = NoOwner
  BY DEF FundInv, OwnersInOrder
<1>2. crashes' = 0 => \A o \in Owners : db'.owners[o].user => Complete(o)'
  BY DEF FundInv, OwnersInOrder, Complete
<1>3. op' = "initialize" =>
         /\ \A i \in 1..(next' - 1) : db'.owners[Order[i]].user
         /\ step' # "owner" => db'.owners[Order[next']].user
  <2> SUFFICES ASSUME op' = "initialize"
               PROVE  /\ \A i \in 1..(next' - 1) : db'.owners[Order[i]].user
                      /\ step' # "owner" => db'.owners[Order[next']].user
    OBVIOUS
  <2>1. next \in 1..4 /\ db.owners[Order[next]].user
        /\ \A i \in 1..(next - 1) : db.owners[Order[i]].user
    BY OrderFacts DEF FundInv, FundTypeOK, OwnersInOrder
  <2>2. CASE next' = next
    BY <2>1, <2>2
  <2>3. CASE next' = next + 1 /\ step' = "owner"
    <3> SUFFICES ASSUME NEW i \in 1..(next' - 1) PROVE db'.owners[Order[i]].user
      BY <2>3
    <3>1. i = next \/ i \in 1..(next - 1)
      BY <2>1, <2>3
    <3> QED
      BY <2>1, <3>1
  <2> QED
    BY <2>2, <2>3
<1> QED
  BY <1>1, <1>2, <1>3 DEF OwnersInOrder

\* In the initialization the seeding of the index account goes on with the next owner.
LEMMA SeededGoesOn ==
    ASSUME FundInv, step \in {"quote", "hold", "pay", "record"}, Seeded
    PROVE  \/ op = "reset" /\ op' = "reset" /\ step' = "commit" /\ next' = next
           \/ op = "initialize" /\ op' = "initialize" /\ step' = "owner" /\ next' = next + 1
                 /\ next' \in DOMAIN Order
<1>1. next \in 1..4 /\ op \in {"initialize", "reset"}
  BY OrderFacts DEF FundInv, FundTypeOK, OperationInOrder
<1>2. op = "initialize" => next = 2
  <2> SUFFICES ASSUME op = "initialize" PROVE next = 2
    OBVIOUS
  <2>1. Order[next] = "index"
    BY DEF FundInv, OperationInOrder
  <2> QED
    BY <1>1, <2>1, OrderFacts
<1> QED
  BY <1>1, <1>2, OrderFacts DEF Seeded, NextOwner, Advance

\* A write of the purchase: of the data only the balance, the position and the ledger.
LEMMA PurchaseWrites ==
    ASSUME FundInv, step \in {"hold", "pay", "record"},
           NEW data \in Data, data.owners = draft.owners, AccountIsSound(data), Write(data),
           price' = price, ops' = ops, crashes' = crashes,
           \/ step' \in {"pay", "record"} /\ op' = op /\ next' = next
           \/ op = "reset" /\ op' = "reset" /\ step' = "commit" /\ next' = next
           \/ op = "initialize" /\ op' = "initialize" /\ step' = "owner" /\ next' = next + 1
                 /\ next' \in DOMAIN Order,
           PurchaseInOrder'
    PROVE  FundStepIsSafe
<1>1. draft' = data /\ db' = (IF op = "reset" THEN db ELSE data)
      /\ op \in {"initialize", "reset"} /\ op' = op /\ db'.owners = db.owners /\ db' \in Data
      /\ draft.ledger = << >> /\ draft'.owners = db'.owners
  BY DEF Write, FundInv, FundTypeOK, OperationInOrder, PurchaseInOrder
<1>2. FundTypeOK'
  BY <1>1 DEF FundInv, FundTypeOK
<1>3. AccountIsSound(db)' /\ AccountIsSound(draft)'
  BY <1>1 DEF FundInv, AccountIsSound
<1>4. OperationInOrder'
  BY <1>1 DEF FundInv, OperationInOrder
<1>5. OwnersInOrder'
  BY <1>1, OwnersStay
<1>6. ResetStep
  BY <1>1 DEF ResetStep
<1>7. InitializationStep
  <2>1. op = "initialize" => db.ledger = << >>
    BY <1>1 DEF FundInv, OperationInOrder
  <2> QED
    BY <1>1, <2>1 DEF InitializationStep
<1> QED
  BY <1>2, <1>3, <1>4, <1>5, <1>6, <1>7 DEF FundStepIsSafe, FundInv

\* The quote for the seeding of the initialization: without one the account stays in cash.
LEMMA FetchQuoteKeeps == FundInv /\ FetchQuote => FundStepIsSafe
<1> SUFFICES ASSUME FundInv, FetchQuote PROVE FundStepIsSafe
  OBVIOUS
<1>1. /\ step = "quote" /\ op = "initialize" /\ db' = db /\ draft' = draft /\ draft = db
      /\ ops' = ops /\ crashes' = crashes /\ price' \in FundPrices
  BY DEF FetchQuote, FundInv, FundTypeOK, OperationInOrder
<1>2. /\ op' = "initialize"
      /\ \/ price' > 0 /\ step' = "hold" /\ next' = next
         \/ step' = "owner" /\ next' = next + 1 /\ next' \in DOMAIN Order
  BY <1>1, SeededGoesOn DEF FetchQuote, Advance
<1>3. FundTypeOK'
  BY <1>1, <1>2 DEF FundInv, FundTypeOK
<1>4. AccountIsSound(db)' /\ AccountIsSound(draft)'
  BY <1>1 DEF FundInv, AccountIsSound
<1>5. OperationInOrder' /\ PurchaseInOrder'
  BY <1>1, <1>2 DEF FundInv, OperationInOrder, PurchaseInOrder
<1>6. OwnersInOrder'
  BY <1>1, <1>2, OwnersStay
<1> QED
  BY <1>1, <1>2, <1>3, <1>4, <1>5, <1>6 DEF FundStepIsSafe, FundInv, ResetStep, InitializationStep

\* The position of the index account.
LEMMA UpsertHoldingKeeps == FundInv /\ UpsertHolding => FundStepIsSafe
<1> SUFFICES ASSUME FundInv, UpsertHolding PROVE FundStepIsSafe
  OBVIOUS
<1> DEFINE data == [draft EXCEPT !.shares = Quantity(draft.cash)]
<1>1. /\ step = "hold" /\ step' = "pay" /\ op' = op /\ next' = next
      /\ price' = price /\ ops' = ops /\ crashes' = crashes /\ Write(data)
      /\ draft \in Data /\ draft.ledger = << >> /\ draft.cash = FundCash /\ price > 0
      /\ draft.owners["index"].account
  BY DEF UpsertHolding, Advance, FundInv, FundTypeOK, PurchaseInOrder
<1>2. Quantity(FundCash) \in Nat
  BY <1>1, PurchaseAmounts DEF FundInv
<1>3. /\ data \in Data /\ data.owners = draft.owners /\ data.cash = FundCash
      /\ data.shares = Quantity(FundCash) /\ data.ledger = << >>
  BY <1>1, <1>2 DEF Data
<1> HIDE DEF data
<1>4. AccountIsSound(data)
  BY <1>1, <1>3 DEF AccountIsSound
<1>5. PurchaseInOrder'
  BY <1>1, <1>3 DEF PurchaseInOrder, Write, Quantity
<1> QED
  BY <1>1, <1>3, <1>4, <1>5, PurchaseWrites

\* Its balance.
LEMMA UpdateBalanceKeeps == FundInv /\ UpdateBalance => FundStepIsSafe
<1> SUFFICES ASSUME FundInv, UpdateBalance PROVE FundStepIsSafe
  OBVIOUS
<1> DEFINE data == [draft EXCEPT !.cash = @ - Cost(draft.shares)]
<1>1. /\ step = "pay" /\ step' = "record" /\ op' = op /\ next' = next
      /\ price' = price /\ ops' = ops /\ crashes' = crashes /\ Write(data)
      /\ draft \in Data /\ draft.ledger = << >> /\ draft.cash = FundCash /\ price > 0
      /\ draft.owners["index"].account /\ draft.shares = Quantity(FundCash)
      /\ Cost(draft.shares) <= draft.cash
  BY DEF UpdateBalance, Advance, FundInv, FundTypeOK, PurchaseInOrder
<1>2. Cost(draft.shares) \in Nat /\ draft.cash - Cost(draft.shares) \in Nat
  BY <1>1, PurchaseAmounts, FundCashAssumption DEF FundInv
<1>3. /\ data \in Data /\ data.owners = draft.owners /\ data.cash = FundCash - Cost(draft.shares)
      /\ data.shares = draft.shares /\ data.ledger = << >>
  BY <1>1, <1>2 DEF Data
<1> HIDE DEF data
<1>4. AccountIsSound(data)
  BY <1>1, <1>3 DEF AccountIsSound
<1>5. PurchaseInOrder'
  BY <1>1, <1>3 DEF PurchaseInOrder, Write, Quantity, Cost
<1> QED
  BY <1>1, <1>3, <1>4, <1>5, PurchaseWrites

\* Its ledger row, with which the purchase is whole.
LEMMA CreateTransactionKeeps == FundInv /\ CreateTransaction => FundStepIsSafe
<1> SUFFICES ASSUME FundInv, CreateTransaction PROVE FundStepIsSafe
  OBVIOUS
<1> DEFINE row == [quantity |-> draft.shares, price |-> price,
                   before |-> draft.cash + Cost(draft.shares), after |-> draft.cash]
           data == [draft EXCEPT !.ledger = Append(@, row)]
<1>1. /\ step = "record" /\ Seeded
      /\ price' = price /\ ops' = ops /\ crashes' = crashes /\ Write(data)
      /\ draft \in Data /\ draft.ledger = << >> /\ price > 0
      /\ draft.owners["index"].account /\ draft.shares = Quantity(FundCash)
      /\ draft.cash = FundCash - Cost(draft.shares)
  BY DEF CreateTransaction, FundInv, FundTypeOK, PurchaseInOrder
<1>2. Cost(draft.shares) \in Nat /\ draft.cash \in Nat /\ draft.shares \in Nat /\ price \in Nat
  BY <1>1, PurchaseAmounts DEF FundInv, Data
<1>3. draft.cash + Cost(draft.shares) = FundCash /\ FundCash \in Nat
  BY <1>1, <1>2, FundCashAssumption
<1>4. row \in Purchase /\ row.quantity = draft.shares /\ row.price = price
      /\ row.before = FundCash /\ row.after = draft.cash
  BY <1>2, <1>3 DEF Purchase
<1> HIDE DEF row
<1>5. /\ data \in Data /\ data.owners = draft.owners /\ data.cash = draft.cash
      /\ data.shares = draft.shares /\ data.ledger = Append(<< >>, row)
  <2> DEFINE book == Append(draft.ledger, row)
  <2>1. data = [draft EXCEPT !.ledger = book]
    OBVIOUS
  <2>2. book \in Seq(Purchase) /\ book = Append(<< >>, row)
    BY <1>1, <1>4
  <2> HIDE DEF book, data
  <2>3. data \in Data /\ data.owners = draft.owners /\ data.cash = draft.cash
        /\ data.shares = draft.shares /\ data.ledger = book
    BY <1>1, <2>1, <2>2 DEF Data
  <2> QED
    BY <2>2, <2>3
<1>6. /\ data.ledger # << >> /\ Len(data.ledger) = 1 /\ data.ledger[1] = row
  BY <1>4, <1>5
<1> HIDE DEF data
<1>7. AccountIsSound(data)
  BY <1>1, <1>4, <1>5, <1>6 DEF AccountIsSound, Quantity, Cost
<1>8. WholeAccount(data)
  BY <1>4, <1>5, <1>6 DEF WholeAccount
<1>9. draft' = data
  BY <1>1 DEF Write
<1>10. PurchaseInOrder'
  <2>1. step' \in {"owner", "commit"}
    BY <1>1, SeededGoesOn
  <2> QED
    BY <2>1, <1>8, <1>9 DEF PurchaseInOrder, WholeAccount
<1> QED
  BY <1>1, <1>5, <1>7, <1>10, SeededGoesOn, PurchaseWrites

\* An exception and the end of the process leave what is committed.
LEMMA FailKeeps == FundInv /\ (BalanceRefused \/ Crash) => FundStepIsSafe
<1> SUFFICES ASSUME FundInv, BalanceRefused \/ Crash PROVE FundStepIsSafe
  OBVIOUS
<1>1. /\ db' = db /\ draft' = db /\ op' = "none" /\ step' = "idle" /\ next' = 1
      /\ price' = price /\ ops' = ops /\ crashes' \in 0..MaxCrashes
      /\ crashes' = 0 => crashes = 0 /\ step = "pay"
  BY FundBoundsAssumption DEF BalanceRefused, Crash, Fail, End, FundInv, FundTypeOK
<1>2. FundTypeOK'
  BY <1>1, OrderFacts DEF FundInv, FundTypeOK
<1>3. AccountIsSound(db)' /\ AccountIsSound(draft)'
  BY <1>1 DEF FundInv, AccountIsSound
<1>4. OperationInOrder' /\ PurchaseInOrder'
  BY <1>1 DEF OperationInOrder, PurchaseInOrder
<1>5. OwnersInOrder'
  BY <1>1, OwnersStay
<1> QED
  BY <1>1, <1>2, <1>3, <1>4, <1>5 DEF FundStepIsSafe, FundInv, ResetStep, InitializationStep

\* A reset takes the quote and clears the account, in its transaction.
LEMMA ResetKeeps == FundInv /\ Reset => FundStepIsSafe
<1> SUFFICES ASSUME FundInv, Reset PROVE FundStepIsSafe
  OBVIOUS
<1>1. /\ op = "none" /\ step = "idle" /\ next = 1 /\ db' = db /\ draft' = Cleared(db) /\ op' = "reset"
      /\ price' \in FundPrices /\ next' = next /\ crashes' = crashes /\ db \in Data
      /\ step' = (IF price' > 0 /\ db.owners["index"].account THEN "hold" ELSE "commit")
      /\ ops' \in 0..MaxOps
  BY FundBoundsAssumption DEF Reset, FundInv, FundTypeOK, OperationInOrder
<1>2. /\ draft' \in Data /\ draft'.owners = db.owners
      /\ draft'.cash = (IF db.owners["index"].account THEN FundCash ELSE 0)
      /\ draft'.shares = 0 /\ draft'.ledger = << >>
  <2>1. ~db.owners["index"].account => db.cash = 0
    BY DEF FundInv, AccountIsSound
  <2>2. db.owners \in [Owners -> Owner] /\ db.cash \in Nat /\ << >> \in Seq(Purchase)
    BY <1>1 DEF Data
  <2> QED
    BY <1>1, <2>1, <2>2, FundCashAssumption DEF Cleared, Data
<1>3. FundTypeOK'
  BY <1>1, <1>2 DEF FundInv, FundTypeOK
<1>4. AccountIsSound(db)' /\ AccountIsSound(draft)'
  BY <1>1, <1>2 DEF FundInv, AccountIsSound
<1>5. OperationInOrder' /\ PurchaseInOrder'
  BY <1>1, <1>2 DEF OperationInOrder, PurchaseInOrder, WholeAccount
<1>6. OwnersInOrder'
  BY <1>1, OwnersStay
<1> QED
  BY <1>1, <1>3, <1>4, <1>5, <1>6 DEF FundStepIsSafe, FundInv, ResetStep, InitializationStep

\* What it commits is whole.
LEMMA CommitKeeps == FundInv /\ Commit => FundStepIsSafe
<1> SUFFICES ASSUME FundInv, Commit PROVE FundStepIsSafe
  OBVIOUS
<1>1. /\ op = "reset" /\ step = "commit" /\ db' = draft /\ draft' = draft /\ op' = "none"
      /\ step' = "idle" /\ next' = 1 /\ price' = price /\ ops' = ops /\ crashes' = crashes
      /\ draft \in Data /\ draft.owners = db.owners /\ WholeAccount(draft)
  BY DEF Commit, End, FundInv, FundTypeOK, OperationInOrder, PurchaseInOrder
<1>2. FundTypeOK'
  BY <1>1, OrderFacts DEF FundInv, FundTypeOK
<1>3. AccountIsSound(db)' /\ AccountIsSound(draft)'
  BY <1>1 DEF FundInv, AccountIsSound
<1>4. OperationInOrder' /\ PurchaseInOrder'
  BY <1>1 DEF OperationInOrder, PurchaseInOrder
<1>5. OwnersInOrder'
  BY <1>1, OwnersStay
<1>6. ResetStep
  BY <1>1 DEF ResetStep, WholeAccount
<1> QED
  BY <1>1, <1>2, <1>3, <1>4, <1>5, <1>6 DEF FundStepIsSafe, FundInv, InitializationStep

\* Every step.
LEMMA FundNextKeeps == FundInv /\ FundNext => FundStepIsSafe \/ UNCHANGED fundVars
BY InitializeKeeps, OwnerExistsKeeps, CreateOwnerKeeps, SetStrategyKeeps, CreateAccountKeeps,
   FetchQuoteKeeps, CreateAgentKeeps, ResetKeeps, CommitKeeps, UpsertHoldingKeeps,
   UpdateBalanceKeeps, CreateTransactionKeeps, FailKeeps
   DEF FundNext, FundFinished

\* A stutter.
LEMMA FundStutterKeeps == FundInv /\ UNCHANGED fundVars => FundInv'
<1> SUFFICES ASSUME FundInv, UNCHANGED fundVars PROVE FundInv'
  OBVIOUS
<1>1. FundTypeOK'
  BY DEF FundInv, FundTypeOK, fundVars
<1>2. AccountIsSound(db)' /\ AccountIsSound(draft)'
  BY DEF FundInv, AccountIsSound, fundVars
<1>3. OperationInOrder' /\ PurchaseInOrder'
  BY DEF FundInv, OperationInOrder, PurchaseInOrder, WholeAccount, Quantity, Cost, fundVars
<1>4. OwnersInOrder'
  BY DEF FundInv, OwnersInOrder, Complete, fundVars
<1> QED
  BY <1>1, <1>2, <1>3, <1>4 DEF FundInv

\* How far an operation is, and what any crash of an earlier one can have left.
THEOREM FundInductive == FundSpec => []FundInv
<1>1. FundInit => FundInv
  <2> SUFFICES ASSUME FundInit PROVE FundInv
    OBVIOUS
  <2>1. /\ Empty \in Data /\ Empty.ledger = << >> /\ Empty.cash = 0 /\ Empty.shares = 0
        /\ \A o \in Owners : Empty.owners[o] = NoOwner
    <3>1. << >> \in Seq(Purchase) /\ NoOwner \in Owner
      BY DEF NoOwner, Owner
    <3> QED
      BY <3>1 DEF Empty, Data
  <2>2. db = Empty /\ draft = Empty /\ op = "none" /\ step = "idle" /\ price = 0 /\ next = 1
        /\ ops = 0 /\ crashes = 0
    BY DEF FundInit
  <2>3. FundTypeOK
    BY <2>1, <2>2, OrderFacts, FundBoundsAssumption DEF FundTypeOK
  <2>4. AccountIsSound(db) /\ AccountIsSound(draft)
    BY <2>1, <2>2 DEF AccountIsSound
  <2>5. OperationInOrder /\ PurchaseInOrder
    BY <2>2 DEF OperationInOrder, PurchaseInOrder
  <2>6. OwnersInOrder
    BY <2>1, <2>2 DEF OwnersInOrder, NoOwner
  <2> QED
    BY <2>3, <2>4, <2>5, <2>6 DEF FundInv
<1>2. FundInv /\ [FundNext]_fundVars => FundInv'
  BY FundNextKeeps, FundStutterKeeps DEF FundStepIsSafe
<1> QED
  BY <1>1, <1>2, PTL DEF FundSpec

\* The purchase of the index fund neither makes nor loses money, but for the rounding of
\* one amount, and leaves less cash than half of the smallest quantity costs.
THEOREM BalanceIsKept == FundSpec => []SeedKeepsTheBalance
<1>1. FundInv => SeedKeepsTheBalance
  BY PurchaseKeepsTheBalance DEF FundInv, FundTypeOK, SeedKeepsTheBalance
<1> QED
  BY <1>1, FundInductive, PTL

\* A reset commits a whole account or nothing, and an initialization takes nothing from
\* anybody, invests once and, when no crash or refusal ever stopped one, leaves nobody out.
THEOREM SeedingStaysSafe == FundSpec => SeedingIsSafe
<1>1. FundInv /\ [FundNext]_fundVars => [ResetStep /\ InitializationStep]_fundVars
  BY FundNextKeeps DEF FundStepIsSafe
<1> QED
  BY <1>1, FundInductive, PTL DEF FundSpec, SeedingIsSafe
-----------------------------------------------------------------------------
(* Sums over the tickers *)

\* A set of numbers with a member has a least one.
LEMMA LeastNumber ==
    ASSUME NEW T \in SUBSET Nat, T # {}
    PROVE  \E x \in T : \A y \in T : x <= y
<1> DEFINE R == OpToRel(<, Nat)
<1>1. IsWellFoundedOn(R, Nat)
  BY NatLessThanWellFounded, Zenon
<1>2. \A x, y \in Nat : x < y => <<x, y>> \in R
  BY DEF OpToRel
<1> HIDE DEF R
<1>3. \E x \in T : \A y \in T : <<y, x>> \notin R
  BY <1>1, WFMin, Zenon
<1>4. \A x, y \in Nat : ~(y < x) => x <= y
  OBVIOUS
<1> QED
  BY <1>2, <1>3, <1>4

\* What holds at 0 and, below n, at the successor of every number it holds at.
LEMMA CountingUp ==
    ASSUME NEW n \in Nat, NEW T, 0 \in T, \A i \in 0..(n - 1) : i \in T => i + 1 \in T
    PROVE  \A i \in 0..n : i \in T
<1> SUFFICES ASSUME (0..n) \ T # {} PROVE FALSE
  OBVIOUS
<1>1. (0..n) \ T \in SUBSET Nat
  OBVIOUS
<1>2. PICK x \in (0..n) \ T : \A y \in (0..n) \ T : x <= y
  BY <1>1, LeastNumber
<1>3. x # 0 /\ x - 1 \in 0..(n - 1) /\ x - 1 \in 0..n /\ ~(x <= x - 1) /\ (x - 1) + 1 = x
  <2>1. x # 0
    OBVIOUS
  <2> QED
    BY <2>1
<1> QED
  BY <1>2, <1>3

\* The sets of tickers up to a size, and the ticker a sum begins with.
Small(n) == {S \in SUBSET Tickers : Cardinality(S) <= n}
First(S) == CHOOSE t \in S : TRUE

\* A set without its first ticker is smaller.
LEMMA FirstTicker ==
    ASSUME NEW n \in Nat, NEW S \in Small(n), S # {}
    PROVE  /\ First(S) \in S /\ S \ {First(S)} \in SUBSET Tickers /\ n # 0
           /\ \A m \in Nat : n = m + 1 => S \ {First(S)} \in Small(m)
<1>1. First(S) \in S
  BY DEF First
<1>2. IsFiniteSet(S) /\ S \subseteq Tickers
  BY FS_Subset, TickersAssumption DEF Small
<1>3. /\ Cardinality(S) \in Nat /\ Cardinality(S \ {First(S)}) = Cardinality(S) - 1
      /\ Cardinality(S \ {First(S)}) \in Nat
  BY <1>1, <1>2, FS_RemoveElement, FS_CardinalityType
<1>4. Cardinality(S) <= n
  BY DEF Small
<1> QED
  BY <1>1, <1>2, <1>3, <1>4 DEF Small

\* Every set of tickers is as small as the set of them all.
LEMMA AllAreSmall ==
    Cardinality(Tickers) \in Nat /\ SUBSET Tickers = Small(Cardinality(Tickers))
<1>1. \A S \in SUBSET Tickers : Cardinality(S) <= Cardinality(Tickers) /\ Cardinality(Tickers) \in Nat
  BY FS_Subset, FS_CardinalityType, TickersAssumption
<1> QED
  BY <1>1, FS_CardinalityType, TickersAssumption DEF Small

\* The recursion of SumFunction over the tickers is well founded.
LEMMA SumRuns ==
    ASSUME NEW f \in [Tickers -> Int]
    PROVE  \E r \in [SUBSET Tickers -> Int] :
              /\ r[{}] = 0 /\ SumFunction(f) = r[Tickers]
              /\ \A S \in SUBSET Tickers : S # {} => r[S] = f[First(S)] + r[S \ {First(S)}]
<1> DEFINE N == Cardinality(Tickers)
           Plus(r, S) == IF S = {} THEN 0 ELSE f[First(S)] + r[S \ {First(S)}]
           Runs(n, r) == r \in [Small(n) -> Int] /\ \A S \in Small(n) : r[S] = Plus(r, S)
           T == {n \in 0..N : \E r : Runs(n, r)}
<1>0. N \in Nat /\ SUBSET Tickers = Small(N) /\ {} \in SUBSET Tickers
  BY AllAreSmall
<1>1. 0 \in T
  <2> DEFINE r == [S \in Small(0) |-> 0]
  <2>1. \A S \in Small(0) : S = {}
    BY FirstTicker
  <2>2. Runs(0, r)
    BY <2>1
  <2> HIDE DEF Runs, r
  <2> QED
    BY <1>0, <2>2
<1>2. ASSUME NEW n \in 0..(N - 1), n \in T PROVE n + 1 \in T
  <2>0. n \in Nat /\ n + 1 \in Nat /\ n + 1 \in 0..N
    BY <1>0
  <2>1. PICK r : Runs(n, r)
    BY <1>2
  <2> DEFINE q == [S \in Small(n + 1) |-> Plus(r, S)]
  <2>2. ASSUME NEW S \in Small(n + 1)
        PROVE  /\ q[S] = Plus(r, S) /\ q[S] \in Int
               /\ S # {} => S \ {First(S)} \in Small(n) /\ f[First(S)] \in Int
    <3>1. CASE S = {}
      BY <3>1
    <3>2. CASE S # {}
      <4>1. First(S) \in S /\ S \ {First(S)} \in Small(n) /\ S \subseteq Tickers
        BY <2>0, <3>2, FirstTicker DEF Small
      <4> QED
        BY <2>1, <3>2, <4>1
    <3> QED
      BY <3>1, <3>2
  <2>3. \A S \in Small(n) : S \in Small(n + 1) /\ q[S] = r[S]
    <3>1. \A S \in Small(n) : S \in Small(n + 1)
      <4>1. \A S \in Small(n) : Cardinality(S) \in Nat /\ Cardinality(S) <= n
        BY FS_Subset, FS_CardinalityType, TickersAssumption DEF Small
      <4> QED
        BY <2>0, <4>1 DEF Small
    <3> HIDE DEF q
    <3> QED
      BY <2>1, <2>2, <3>1
  <2>4. q \in [Small(n + 1) -> Int]
    BY <2>2
  <2> HIDE DEF q
  <2>5. ASSUME NEW S \in Small(n + 1) PROVE q[S] = Plus(q, S)
    BY <2>2, <2>3
  <2>6. Runs(n + 1, q)
    BY <2>4, <2>5
  <2> HIDE DEF Runs
  <2> QED
    BY <2>0, <2>6
<1>3. PICK r : Runs(N, r)
  <2> HIDE DEF T, N
  <2>1. \A n \in 0..N : n \in T
    BY <1>0, <1>1, <1>2, CountingUp
  <2>2. N \in T
    BY <1>0, <2>1
  <2> QED
    BY <2>2 DEF T
<1> DEFINE Fix(g) == g = [S \in SUBSET Tickers |-> Plus(g, S)]
           h == CHOOSE g : Fix(g)
<1>4. Fix(r)
  BY <1>0, <1>3
<1>5. Fix(h)
  <2> HIDE DEF Fix
  <2> QED
    BY <1>4
<1>6. SumFunction(f) = h[Tickers]
  <2>1. DOMAIN f = Tickers
    OBVIOUS
  <2> QED
    BY <2>1 DEF SumFunction, SumFunctionOnSet, FoldFunctionOnSet, MapThenFoldSet, First
<1> HIDE DEF h
<1>7. \A S \in SUBSET Tickers : h[S] = Plus(h, S)
  BY <1>5
<1>8. \A S \in SUBSET Tickers : h[S] = r[S]
  <2> DEFINE U == {n \in 0..N : \A S \in Small(n) : h[S] = r[S]}
  <2>1. 0 \in U
    <3>1. \A S \in Small(0) : S = {}
      BY FirstTicker
    <3>2. h[{}] = 0 /\ r[{}] = 0
      BY <1>0, <1>3, <1>7
    <3>3. \A S \in Small(0) : h[S] = r[S]
      <4> HIDE DEF Plus, Runs
      <4> QED
        BY <3>1, <3>2
    <3>4. 0 \in 0..N
      BY <1>0
    <3> QED
      BY <3>3, <3>4
  <2>2. ASSUME NEW n \in 0..(N - 1), n \in U PROVE n + 1 \in U
    <3>0. n \in Nat /\ n + 1 \in Nat /\ n + 1 \in 0..N
      BY <1>0
    <3>1. ASSUME NEW S \in Small(n + 1) PROVE h[S] = r[S]
      <4>0. S \in SUBSET Tickers
        BY DEF Small
      <4>1. CASE S = {}
        BY <1>0, <1>3, <1>7, <4>1
      <4>2. CASE S # {}
        <5>1. S \ {First(S)} \in Small(n)
          BY <3>0, <4>2, FirstTicker
        <5>2. h[S \ {First(S)}] = r[S \ {First(S)}]
          BY <2>2, <5>1
        <5> QED
          BY <1>0, <1>3, <1>7, <4>0, <4>2, <5>2
      <4> QED
        BY <4>1, <4>2
    <3> QED
      BY <3>0, <3>1
  <2>3. N \in U
    <3> HIDE DEF U, N
    <3>1. \A n \in 0..N : n \in U
      BY <1>0, <2>1, <2>2, CountingUp
    <3> QED
      BY <1>0, <3>1
  <2> QED
    BY <1>0, <2>3
<1>9. r \in [SUBSET Tickers -> Int] /\ \A S \in SUBSET Tickers : r[S] = Plus(r, S)
  BY <1>0, <1>3
<1> QED
  BY <1>0, <1>6, <1>8, <1>9

\* Two portfolios that differ in one ticker differ by it in the sum.
LEMMA SumChanges ==
    ASSUME NEW f \in [Tickers -> Int], NEW g \in [Tickers -> Int], NEW t \in Tickers,
           \A s \in Tickers \ {t} : g[s] = f[s]
    PROVE  SumFunction(f) \in Int /\ SumFunction(g) = SumFunction(f) + (g[t] - f[t])
<1> DEFINE N == Cardinality(Tickers)
           D == g[t] - f[t]
<1>1. PICK r \in [SUBSET Tickers -> Int] :
         /\ r[{}] = 0 /\ SumFunction(f) = r[Tickers]
         /\ \A S \in SUBSET Tickers : S # {} => r[S] = f[First(S)] + r[S \ {First(S)}]
  BY SumRuns
<1>2. PICK q \in [SUBSET Tickers -> Int] :
         /\ q[{}] = 0 /\ SumFunction(g) = q[Tickers]
         /\ \A S \in SUBSET Tickers : S # {} => q[S] = g[First(S)] + q[S \ {First(S)}]
  BY SumRuns
<1>0. N \in Nat /\ SUBSET Tickers = Small(N)
  BY AllAreSmall
<1> DEFINE Differ(S) == q[S] = IF t \in S THEN r[S] + D ELSE r[S]
           U == {n \in 0..N : \A S \in Small(n) : Differ(S)}
<1>3. 0 \in U
  <2>1. \A S \in Small(0) : S = {}
    BY FirstTicker
  <2>2. Differ({})
    BY <1>1, <1>2
  <2>3. 0 \in 0..N
    BY <1>0
  <2> HIDE DEF Differ
  <2> QED
    BY <2>1, <2>2, <2>3
<1>4. ASSUME NEW n \in 0..(N - 1), n \in U PROVE n + 1 \in U
  <2>0. n \in Nat /\ n + 1 \in Nat /\ n + 1 \in 0..N
    BY <1>0
  <2>1. ASSUME NEW S \in Small(n + 1) PROVE Differ(S)
    <3>0. S \in SUBSET Tickers
      BY DEF Small
    <3>1. CASE S = {}
      BY <1>1, <1>2, <3>1
    <3>2. CASE S # {}
      <4> DEFINE x == First(S)
      <4>1. x \in S /\ S \ {x} \in Small(n) /\ S \ {x} \in SUBSET Tickers /\ x \in Tickers
        BY <2>0, <3>0, <3>2, FirstTicker
      <4>2. Differ(S \ {x})
        BY <1>4, <4>1
      <4>3. r[S] = f[x] + r[S \ {x}] /\ q[S] = g[x] + q[S \ {x}]
        BY <1>1, <1>2, <3>0, <3>2
      <4>4. /\ r[S \ {x}] \in Int /\ f[x] \in Int /\ g[x] \in Int /\ D \in Int
        BY <4>1
      <4> HIDE DEF x
      <4>5. CASE x = t
        BY <4>1, <4>2, <4>3, <4>4, <4>5
      <4>6. CASE x # t
        <5>1. g[x] = f[x] /\ (t \in S <=> t \in S \ {x})
          BY <4>1, <4>6
        <5> HIDE DEF D
        <5> QED
          BY <4>2, <4>3, <4>4, <5>1
      <4> QED
        BY <4>5, <4>6
    <3> QED
      BY <3>1, <3>2
  <2> HIDE DEF Differ
  <2> QED
    BY <2>0, <2>1
<1>5. Differ(Tickers)
  <2>1. N \in U
    <3> HIDE DEF U, N
    <3>1. \A n \in 0..N : n \in U
      BY <1>0, <1>3, <1>4, CountingUp
    <3> QED
      BY <1>0, <3>1
  <2> HIDE DEF Differ
  <2>2. Tickers \in Small(N)
    BY <1>0
  <2> QED
    BY <2>1, <2>2
<1>6. Tickers \in SUBSET Tickers /\ r[Tickers] \in Int
  OBVIOUS
<1> QED
  BY <1>1, <1>2, <1>5, <1>6

\* A sum of natural numbers is one, and no less than any of them.
LEMMA SumIsNatural ==
    ASSUME NEW f \in [Tickers -> Nat]
    PROVE  SumFunction(f) \in Nat /\ \A t \in Tickers : f[t] <= SumFunction(f)
<1> DEFINE N == Cardinality(Tickers)
<1>1. PICK r \in [SUBSET Tickers -> Int] :
         /\ r[{}] = 0 /\ SumFunction(f) = r[Tickers]
         /\ \A S \in SUBSET Tickers : S # {} => r[S] = f[First(S)] + r[S \ {First(S)}]
  <2>1. f \in [Tickers -> Int]
    OBVIOUS
  <2> QED
    BY <2>1, SumRuns
<1>0. N \in Nat /\ SUBSET Tickers = Small(N)
  BY AllAreSmall
<1> DEFINE Bounded(S) == r[S] \in Nat /\ \A t \in S : f[t] <= r[S]
           U == {n \in 0..N : \A S \in Small(n) : Bounded(S)}
<1>3. 0 \in U
  <2>1. \A S \in Small(0) : S = {}
    BY FirstTicker
  <2>2. Bounded({})
    BY <1>1
  <2>3. 0 \in 0..N
    BY <1>0
  <2> HIDE DEF Bounded
  <2> QED
    BY <2>1, <2>2, <2>3
<1>4. ASSUME NEW n \in 0..(N - 1), n \in U PROVE n + 1 \in U
  <2>0. n \in Nat /\ n + 1 \in Nat /\ n + 1 \in 0..N
    BY <1>0
  <2>1. ASSUME NEW S \in Small(n + 1) PROVE Bounded(S)
    <3>0. S \in SUBSET Tickers
      BY DEF Small
    <3>1. CASE S = {}
      BY <1>1, <3>1
    <3>2. CASE S # {}
      <4> DEFINE x == First(S)
      <4>1. x \in S /\ S \ {x} \in Small(n) /\ x \in Tickers
        BY <2>0, <3>0, <3>2, FirstTicker
      <4>2. Bounded(S \ {x})
        BY <1>4, <4>1
      <4>3. r[S] = f[x] + r[S \ {x}]
        BY <1>1, <3>0, <3>2
      <4>4. f[x] \in Nat /\ \A t \in S : f[t] \in Nat
        BY <3>0, <4>1
      <4> HIDE DEF x
      <4>5. r[S \ {x}] \in Nat /\ r[S] \in Nat /\ f[x] <= r[S] /\ r[S \ {x}] <= r[S]
        BY <4>2, <4>3, <4>4
      <4>6. ASSUME NEW t \in S, t # x PROVE f[t] <= r[S]
        <5>1. f[t] <= r[S \ {x}]
          BY <4>2, <4>6
        <5> QED
          BY <4>4, <4>5, <5>1
      <4> QED
        BY <4>5, <4>6
    <3> QED
      BY <3>1, <3>2
  <2> HIDE DEF Bounded
  <2> QED
    BY <2>0, <2>1
<1>5. Bounded(Tickers)
  <2>1. N \in U
    <3> HIDE DEF U, N
    <3>1. \A n \in 0..N : n \in U
      BY <1>0, <1>3, <1>4, CountingUp
    <3> QED
      BY <1>0, <3>1
  <2> HIDE DEF Bounded
  <2>2. Tickers \in Small(N)
    BY <1>0
  <2> QED
    BY <2>1, <2>2
<1> QED
  BY <1>1, <1>5

-----------------------------------------------------------------------------
(* Rounding *)

\* A factor that both sides have is left out.
LEMMA Cancel ==
    ASSUME NEW k \in Nat \ {0}, NEW x \in Int, NEW y \in Int
    PROVE  /\ k * x <= k * y => x <= y
           /\ x <= y => k * x <= k * y
           /\ k * x \in Int
<1>1. k * x \in Int /\ k * y \in Int
  OBVIOUS
<1>2. ASSUME NEW z \in Nat PROVE k * z \in Nat /\ (z # 0 => k * z >= k)
  OBVIOUS
<1>3. ASSUME x <= y PROVE k * x <= k * y
  <2>1. y - x \in Nat /\ k * (y - x) = k * y - k * x
    BY <1>3
  <2> QED
    BY <1>1, <1>2, <2>1
<1>4. ASSUME ~(x <= y) PROVE ~(k * x <= k * y)
  <2>1. x - y \in Nat /\ x - y # 0 /\ k * (x - y) = k * x - k * y
    BY <1>4
  <2> QED
    BY <1>1, <1>2, <2>1
<1> QED
  BY <1>1, <1>3, <1>4

\* Products of a ratio, a number of shares and a price.
LEMMA Products ==
    ASSUME NEW a \in Nat, NEW b \in Nat, NEW c \in Nat
    PROVE  /\ a * b \in Nat /\ (a * b) * c \in Nat /\ (a * b) * c = a * (b * c)
           /\ a * (b * c) = b * (a * c) /\ a * b = b * a
           /\ (a # 0 /\ b # 0 => a * b # 0)
  OBVIOUS

\* Shares at a price and an amount of cash, both rounded: a position of old shares is one
\* of q after a trade that is worth amount (in units of 1 / d) and takes r of cash, or
\* brings it when amount is negative.
Rounded(d, scale, quote, old, amount, q, r) ==
    /\ q \in Nat /\ r \in Int
    /\ 2 * (d * (q * quote)) <= 2 * (d * (old * quote)) + 2 * amount + d * quote
    /\ 2 * (d * (old * quote)) + 2 * amount <= 2 * (d * (q * quote)) + d * quote
    /\ 2 * (d * (r * scale)) <= 2 * amount + d * scale
    /\ 2 * amount <= 2 * (d * (r * scale)) + d * scale

\* What a purchase of an amount (in parts) adds to a position and takes from the cash.
LEMMA PurchaseRounds ==
    ASSUME NEW ratio \in Nat \ {0}, NEW scale \in Nat \ {0}, NEW quote \in Nat \ {0},
           NEW old \in Nat, NEW amount \in Nat \ {0}, NEW q, NEW r,
           q = RoundHalfUp(old * ratio * quote + amount, ratio * quote),
           r = RoundHalfUp(amount, scale * ratio)
    PROVE  Rounded(ratio, scale, quote, old, amount, q, r)
<1>1. /\ ratio * quote \in Nat \ {0} /\ scale * ratio \in Nat \ {0} /\ scale * ratio = ratio * scale
      /\ old * ratio * quote \in Nat /\ old * ratio * quote = ratio * (old * quote)
      /\ ratio * (old * quote) \in Nat
  <2>1. ratio * quote \in Nat /\ ratio * quote # 0
    BY Products
  <2>2. scale * ratio \in Nat /\ scale * ratio # 0 /\ scale * ratio = ratio * scale
    BY Products
  <2>3. (old * ratio) * quote \in Nat /\ (old * ratio) * quote = old * (ratio * quote) /\ old * (ratio * quote) = ratio * (old * quote)
    BY Products
  <2> QED
    BY <2>1, <2>2, <2>3
<1>2. old * ratio * quote + amount \in Nat
  BY <1>1
<1>3. /\ q \in Nat
      /\ 2 * (q * (ratio * quote)) <= 2 * (old * ratio * quote + amount) + ratio * quote
      /\ 2 * (old * ratio * quote + amount) < 2 * (q * (ratio * quote)) + ratio * quote
  BY <1>1, <1>2, Rounding
<1>4. /\ r \in Nat
      /\ 2 * (r * (scale * ratio)) <= 2 * amount + scale * ratio
      /\ 2 * amount < 2 * (r * (scale * ratio)) + scale * ratio
  BY <1>1, Rounding
<1>5. q * (ratio * quote) = ratio * (q * quote) /\ ratio * (q * quote) \in Nat
  BY <1>3, Products
<1>6. r * (scale * ratio) = ratio * (r * scale) /\ ratio * (r * scale) \in Nat
  <2>1. r * (ratio * scale) = ratio * (r * scale) /\ ratio * (r * scale) = r * (ratio * scale)
    BY <1>4, Products
  <2>2. r * scale \in Nat
    BY <1>4, Products
  <2>3. ratio * (r * scale) \in Nat
    BY <2>2, Products
  <2> QED
    BY <1>1, <2>1, <2>3
<1> DEFINE rp == ratio * quote
           rs == ratio * scale
           x == ratio * (q * quote)
           y == ratio * (r * scale)
           o == ratio * (old * quote)
<1>7. /\ 2 * x <= 2 * (o + amount) + rp /\ 2 * (o + amount) < 2 * x + rp
      /\ 2 * y <= 2 * amount + rs /\ 2 * amount < 2 * y + rs
  BY <1>1, <1>3, <1>4, <1>5, <1>6
<1>8. x \in Nat /\ y \in Nat /\ o \in Nat /\ rp \in Nat /\ rs \in Nat
  BY <1>1, <1>5, <1>6
<1> HIDE DEF rp, rs, x, y, o
<1>9. /\ 2 * x <= 2 * o + 2 * amount + rp /\ 2 * o + 2 * amount <= 2 * x + rp
      /\ 2 * y <= 2 * amount + rs /\ 2 * amount <= 2 * y + rs
  BY <1>7, <1>8
<1> QED
  BY <1>3, <1>4, <1>9 DEF Rounded, rp, rs, x, y, o

\* What a sale of a part of a position (in units of 1 / (d * quote)) leaves of it, and brings.
LEMMA SaleRounds ==
    ASSUME NEW d \in Nat \ {0}, NEW scale \in Nat \ {0}, NEW quote \in Nat \ {0},
           NEW old \in Nat, NEW sold \in Nat, sold <= old * d * quote, NEW q, NEW r,
           q = RoundHalfUp(old * d * quote - sold, d * quote),
           r = RoundHalfUp(sold, d * scale)
    PROVE  r \in Nat /\ Rounded(d, scale, quote, old, -sold, q, -r)
<1>1. /\ d * quote \in Nat \ {0} /\ d * scale \in Nat \ {0}
      /\ old * d * quote \in Nat /\ old * d * quote = d * (old * quote)
      /\ d * (old * quote) \in Nat
  <2>1. d * quote \in Nat /\ d * quote # 0
    BY Products
  <2>2. d * scale \in Nat /\ d * scale # 0
    BY Products
  <2>3. (old * d) * quote \in Nat /\ (old * d) * quote = old * (d * quote) /\ old * (d * quote) = d * (old * quote)
    BY Products
  <2> QED
    BY <2>1, <2>2, <2>3
<1>2. old * d * quote - sold \in Nat
  BY <1>1
<1>3. /\ q \in Nat
      /\ 2 * (q * (d * quote)) <= 2 * (old * d * quote - sold) + d * quote
      /\ 2 * (old * d * quote - sold) < 2 * (q * (d * quote)) + d * quote
  BY <1>1, <1>2, Rounding
<1>4. /\ r \in Nat
      /\ 2 * (r * (d * scale)) <= 2 * sold + d * scale
      /\ 2 * sold < 2 * (r * (d * scale)) + d * scale
  BY <1>1, Rounding
<1>5. q * (d * quote) = d * (q * quote) /\ r * (d * scale) = d * (r * scale)
  BY <1>3, <1>4, Products
<1>6. d * (q * quote) \in Nat /\ d * (r * scale) \in Nat
  <2>1. q * quote \in Nat /\ r * scale \in Nat
    BY <1>3, <1>4, Products
  <2> QED
    BY <2>1, Products
<1> DEFINE dp == d * quote
           ds == d * scale
           x == d * (q * quote)
           y == d * (r * scale)
           o == d * (old * quote)
<1>7. /\ 2 * x <= 2 * (o - sold) + dp /\ 2 * (o - sold) < 2 * x + dp
      /\ 2 * y <= 2 * sold + ds /\ 2 * sold < 2 * y + ds
  BY <1>1, <1>3, <1>4, <1>5
<1>8. x \in Nat /\ y \in Nat /\ o \in Nat /\ dp \in Nat /\ ds \in Nat
  BY <1>1, <1>6
<1> HIDE DEF dp, ds, x, y, o
<1>9. /\ 2 * x <= 2 * o - 2 * sold + dp /\ 2 * o - 2 * sold <= 2 * x + dp
      /\ 2 * y <= 2 * sold + ds /\ 2 * sold <= 2 * y + ds
  BY <1>7, <1>8
<1>10. d * ((-r) * scale) = -y
  <2>1. r \in Nat /\ r * scale \in Nat
    BY <1>4, Products
  <2>2. (-r) * scale = -(r * scale)
    BY <2>1
  <2>3. d * (-(r * scale)) = -(d * (r * scale))
    BY <2>1
  <2> QED
    BY <2>2, <2>3 DEF y
<1>11. /\ 2 * x <= 2 * o + 2 * (-sold) + dp /\ 2 * o + 2 * (-sold) <= 2 * x + dp
       /\ 2 * (-y) <= 2 * (-sold) + ds /\ 2 * (-sold) <= 2 * (-y) + ds
  BY <1>8, <1>9
<1> QED
  BY <1>3, <1>4, <1>10, <1>11 DEF Rounded, dp, ds, x, o

\* Rounding, once the shares and once the cash, is all that is gained or lost.
LEMMA Exchange ==
    ASSUME NEW d \in Nat \ {0}, NEW scale \in Nat, NEW quote \in Nat, NEW old \in Nat,
           NEW amount \in Int, NEW q, NEW r, Rounded(d, scale, quote, old, amount, q, r)
    PROVE  LET change == q * quote - old * quote IN
           -(quote + scale) <= 2 * (change - r * scale) /\ 2 * (change - r * scale) <= quote + scale
<1> DEFINE X == q * quote
           O == old * quote
           R == r * scale
<1>1. X \in Int /\ O \in Int /\ R \in Int
  BY DEF Rounded
<1>2. /\ 2 * (d * X) <= 2 * (d * O) + 2 * amount + d * quote
      /\ 2 * (d * O) + 2 * amount <= 2 * (d * X) + d * quote
      /\ 2 * (d * R) <= 2 * amount + d * scale /\ 2 * amount <= 2 * (d * R) + d * scale
  BY DEF Rounded
<1> HIDE DEF X, O, R
<1>3. d * X \in Int /\ d * O \in Int /\ d * R \in Int /\ d * quote \in Int /\ d * scale \in Int
  BY <1>1, Cancel
<1>4. /\ d * (2 * ((X - O) - R)) = 2 * (d * X) - 2 * (d * O) - 2 * (d * R)
      /\ d * (quote + scale) = d * quote + d * scale
      /\ d * (-(quote + scale)) = -(d * quote) - d * scale
  BY <1>1
<1>5. /\ d * (2 * ((X - O) - R)) <= d * (quote + scale)
      /\ d * (-(quote + scale)) <= d * (2 * ((X - O) - R))
  BY <1>2, <1>3, <1>4
<1>6. 2 * ((X - O) - R) \in Int /\ quote + scale \in Int /\ -(quote + scale) \in Int
  BY <1>1
<1>7. 2 * ((X - O) - R) <= quote + scale /\ -(quote + scale) <= 2 * ((X - O) - R)
  BY <1>5, <1>6, Cancel
<1> QED
  BY <1>7 DEF X, O, R

\* A quotient that is rounded stays between whole numbers it is between.
LEMMA RoundingStays ==
    ASSUME NEW n \in Nat, NEW d \in Nat \ {0}, NEW a \in Nat
    PROVE  /\ n <= a * d => RoundHalfUp(n, d) <= a
           /\ a * d <= n => a <= RoundHalfUp(n, d)
<1> DEFINE q == RoundHalfUp(n, d)
<1>1. q \in Nat /\ 2 * (q * d) <= 2 * n + d /\ 2 * n < 2 * (q * d) + d
  BY Rounding
<1> HIDE DEF q
<1>2. q * d = d * q /\ a * d = d * a /\ d * q \in Nat /\ d * a \in Nat
  BY <1>1
<1>3. ASSUME NEW x \in Nat, NEW y \in Nat, x < y PROVE d * x + d <= d * y /\ d * x \in Nat /\ d * y \in Nat
  <2>1. x + 1 <= y /\ d * (x + 1) = d * x + d
    BY <1>3
  <2> QED
    BY <2>1, Cancel
<1>4. ASSUME n <= a * d, a < q PROVE FALSE
  BY <1>1, <1>2, <1>3, <1>4
<1>5. ASSUME a * d <= n, q < a PROVE FALSE
  BY <1>1, <1>2, <1>3, <1>5
<1> QED
  BY <1>1, <1>4, <1>5 DEF q

-----------------------------------------------------------------------------
(* The account that trades *)

\* The lesser of two amounts.
LEMMA LesserOfTwo ==
    ASSUME NEW a \in Int, NEW b \in Int
    PROVE  Min({a, b}) \in {a, b} /\ Min({a, b}) <= a /\ Min({a, b}) <= b
<1>1. \E x \in {a, b} : \A y \in {a, b} : x <= y
  <2>1. CASE a <= b
    BY <2>1
  <2>2. CASE b <= a
    BY <2>2
  <2> QED
    BY <2>1, <2>2
<1> QED
  BY <1>1 DEF Min

\* One position is taken out.
LEMMA PositionGone ==
    ASSUME NEW h, IsPortfolio(h), NEW t \in Tickers, NEW g, g = [s \in DOMAIN h \ {t} |-> h[s]]
    PROVE  /\ IsPortfolio(g) /\ DOMAIN g = DOMAIN h \ {t}
           /\ QuantityOf(g, t) = 0
           /\ \A s \in DOMAIN h \ {t} : g[s] = h[s]
           /\ \A s \in Tickers \ {t} : QuantityOf(g, s) = QuantityOf(h, s)
  BY DEF IsPortfolio, QuantityOf

\* The quantities of a portfolio.
LEMMA Quantities ==
    ASSUME NEW h, IsPortfolio(h), NEW m \in Quotes, NEW t \in Tickers
    PROVE  /\ QuantityOf(h, t) \in Nat /\ m[t] \in Nat /\ QuantityOf(h, t) * m[t] \in Nat
           /\ t \in Open(h) <=> QuantityOf(h, t) # 0
           /\ t \in DOMAIN h => h[t].quantity = QuantityOf(h, t) /\ h[t].cost \in Nat
<1>1. QuantityOf(h, t) \in Nat /\ m[t] \in Nat
  BY PricesAssumption DEF IsPortfolio, Position, QuantityOf, Quotes
<1>2. QuantityOf(h, t) * m[t] \in Nat
  BY <1>1, Products
<1> QED
  BY <1>1, <1>2 DEF IsPortfolio, Position, QuantityOf, Open

\* A trade changes what the portfolio and the sector are worth by what the position is
\* worth more or less.
LEMMA TradeMovesTotal ==
    ASSUME NEW h, IsPortfolio(h), NEW g, IsPortfolio(g), NEW m \in Quotes, NEW t \in Tickers,
           \A s \in Tickers \ {t} : QuantityOf(g, s) = QuantityOf(h, s),
           NEW c \in Nat, NEW d \in Nat
    PROVE  LET change == QuantityOf(g, t) * m[t] - QuantityOf(h, t) * m[t] IN
           /\ ExactTotal(c, h, m) \in Nat /\ change \in Int
           /\ c * Scale + QuantityOf(h, t) * m[t] <= ExactTotal(c, h, m)
           /\ ExactTotal(d, g, m) = (ExactTotal(c, h, m) + (d * Scale - c * Scale)) + change
           /\ SectorWorth(h, t, m) \in Nat
           /\ SectorWorth(g, t, m) = SectorWorth(h, t, m) + change * Ratio
<1> DEFINE W(f) == [s \in Tickers |-> QuantityOf(f, s) * m[s]]
           V(f) == [s \in Tickers |-> IF SectorOf[s] = SectorOf[t] THEN QuantityOf(f, s) * m[s] ELSE 0]
           change == QuantityOf(g, t) * m[t] - QuantityOf(h, t) * m[t]
<1>1. ASSUME NEW f, IsPortfolio(f)
      PROVE  /\ W(f) \in [Tickers -> Nat] /\ V(f) \in [Tickers -> Nat]
             /\ Worth(f, {s \in Open(f) : m[s] > 0}, m) = SumFunction(W(f))
             /\ Worth(f, {s \in Open(f) : SectorOf[s] = SectorOf[t]}, m) = SumFunction(V(f))
  <2>1. \A s \in Tickers : QuantityOf(f, s) * m[s] \in Nat
    BY <1>1, Quantities
  <2>2. ASSUME NEW s \in Tickers
        PROVE  (IF s \in {u \in Open(f) : m[u] > 0} THEN Value(f[s].quantity, m[s]) ELSE 0) = QuantityOf(f, s) * m[s]
    <3>1. CASE s \in Open(f) /\ m[s] > 0
      BY <1>1, <3>1, Quantities DEF Value, Open
    <3>2. CASE s \notin Open(f) \/ ~(m[s] > 0)
      <4>1. /\ QuantityOf(f, s) \in Nat /\ m[s] \in Nat
            /\ s \in Open(f) <=> QuantityOf(f, s) # 0
        BY <1>1, Quantities
      <4> QED
        BY <3>2, <4>1
    <3> QED
      BY <3>1, <3>2
  <2>3. ASSUME NEW s \in Tickers
        PROVE  (IF s \in {u \in Open(f) : SectorOf[u] = SectorOf[t]} THEN Value(f[s].quantity, m[s]) ELSE 0)
                = (IF SectorOf[s] = SectorOf[t] THEN QuantityOf(f, s) * m[s] ELSE 0)
    <3>1. /\ QuantityOf(f, s) \in Nat /\ m[s] \in Nat
          /\ s \in Open(f) <=> QuantityOf(f, s) # 0
          /\ s \in DOMAIN f => f[s].quantity = QuantityOf(f, s)
      BY <1>1, Quantities
    <3>2. CASE s \in Open(f)
      BY <3>1, <3>2 DEF Value, Open
    <3>3. CASE s \notin Open(f)
      BY <3>1, <3>3
    <3> QED
      BY <3>2, <3>3
  <2>4. W(f) = [s \in Tickers |-> IF s \in {u \in Open(f) : m[u] > 0} THEN Value(f[s].quantity, m[s]) ELSE 0]
    BY <2>2
  <2>5. V(f) = [s \in Tickers |-> IF s \in {u \in Open(f) : SectorOf[u] = SectorOf[t]}
                                   THEN Value(f[s].quantity, m[s]) ELSE 0]
    BY <2>3
  <2>6. W(f) \in [Tickers -> Nat] /\ V(f) \in [Tickers -> Nat]
    BY <2>1
  <2> HIDE DEF W, V
  <2> QED
    BY <2>4, <2>5, <2>6 DEF Worth
<1>2. /\ W(h) \in [Tickers -> Nat] /\ W(g) \in [Tickers -> Nat] /\ V(h) \in [Tickers -> Nat] /\ V(g) \in [Tickers -> Nat]
  BY <1>1
<1>3. /\ SumFunction(W(g)) = SumFunction(W(h)) + change
      /\ SumFunction(V(g)) = SumFunction(V(h)) + change
  <2>1. /\ W(h) \in [Tickers -> Int] /\ W(g) \in [Tickers -> Int] /\ V(h) \in [Tickers -> Int] /\ V(g) \in [Tickers -> Int]
    BY <1>2
  <2>2. /\ \A s \in Tickers \ {t} : W(g)[s] = W(h)[s]
        /\ \A s \in Tickers \ {t} : V(g)[s] = V(h)[s]
    OBVIOUS
  <2>3. W(g)[t] - W(h)[t] = change /\ V(g)[t] - V(h)[t] = change
    OBVIOUS
  <2> HIDE DEF W, V, change
  <2>4. SumFunction(W(g)) = SumFunction(W(h)) + (W(g)[t] - W(h)[t])
    BY <2>1, <2>2, SumChanges
  <2>5. SumFunction(V(g)) = SumFunction(V(h)) + (V(g)[t] - V(h)[t])
    BY <2>1, <2>2, SumChanges
  <2> QED
    BY <2>3, <2>4, <2>5
<1>4. /\ SumFunction(W(h)) \in Nat /\ SumFunction(V(h)) \in Nat
      /\ QuantityOf(h, t) * m[t] <= SumFunction(W(h))
  <2>1. W(h)[t] = QuantityOf(h, t) * m[t]
    OBVIOUS
  <2> HIDE DEF W, V
  <2> QED
    BY <1>2, <2>1, SumIsNatural
<1>5. change \in Int /\ QuantityOf(h, t) * m[t] \in Nat
  BY Quantities
<1>6. c * Scale \in Nat /\ d * Scale \in Nat /\ Ratio \in Nat
  BY ScaleAssumption, AmountsAssumption, Products
<1> DEFINE sw == SumFunction(W(h))
           sv == SumFunction(V(h))
<1>7. /\ ExactTotal(c, h, m) = c * Scale + sw /\ ExactTotal(d, g, m) = d * Scale + (sw + change)
      /\ SectorWorth(h, t, m) = sv * Ratio /\ SectorWorth(g, t, m) = (sv + change) * Ratio
  <2> HIDE DEF W, V
  <2> QED
    BY <1>1, <1>3 DEF ExactTotal, SectorWorth
<1> HIDE DEF W, V, change
<1>8. sw \in Nat /\ sv \in Nat /\ QuantityOf(h, t) * m[t] <= sw
  BY <1>4
<1> HIDE DEF sw, sv
<1>9. sv * Ratio \in Nat /\ (sv + change) * Ratio = sv * Ratio + change * Ratio
  BY <1>5, <1>6, <1>8
<1>10. change * Ratio \in Int
  BY <1>5, <1>6
<1> QED
  BY <1>5, <1>6, <1>7, <1>8, <1>9, <1>10 DEF change

\* What a trade starts from.
Account ==
    /\ cash \in Nat /\ IsPortfolio(holdings)
    /\ quotes' \in Quotes
    /\ policy \in Policies \cup {NoPolicy, Autonomous}

\* Amounts in parts are natural numbers.
LEMMA PartsOfTotal ==
    ASSUME NEW x \in Int, NEW ratio \in Int
    PROVE  /\ Parts(x, ratio) \in Int
           /\ x \in Nat /\ ratio \in Nat => Parts(x, ratio) \in Nat
           /\ x = 0 => Parts(x, ratio) = 0
  BY ScaleAssumption DEF Parts

\* The limits in force are shares of Ratio.
LEMMA LimitsInForce ==
    ASSUME Account
    PROVE  /\ PositionCap \in Nat
           /\ Bound => InForce.reserve \in Nat /\ InForce.sector \in Nat /\ InForce.cap \in Nat
  BY SharesAssumption, PoliciesAssumption DEF PositionCap, Bound

\* The value of the portfolio is natural, and zero buys nothing.
LEMMA TotalIsNatural ==
    ASSUME Account, NEW m \in Quotes, NEW t \in Tickers
    PROVE  /\ Total(cash, holdings, m) \in Nat
           /\ ExactTotal(cash, holdings, m) \in Nat
<1>1. ExactTotal(cash, holdings, m) \in Nat
  BY TradeMovesTotal DEF Account
<1> QED
  BY <1>1, Rounding, ScaleAssumption DEF Total

\* What a purchase is cut down to.
LEMMA PurchaseAmount ==
    ASSUME Account, NEW t \in Tickers, NEW part \in Nat, NEW total \in Nat
    PROVE  LET amount == BuyAmount(t, total, part) IN
           /\ amount \in Int
           /\ amount <= Parts(total, part)
           /\ ~Unbound => amount + Ratio * (QuantityOf(holdings, t) * quotes'[t]) <= Parts(total, PositionCap)
           /\ amount <= Whole(cash - Fee)
           /\ Bound => amount + Parts(total, InForce.reserve) <= Whole(cash - Fee)
<1> DEFINE worth == QuantityOf(holdings, t) * quotes'[t]
           asked == Parts(total, part)
           cap == Parts(total, PositionCap)
           free == Whole(cash - Fee)
           reserve == Parts(total, InForce.reserve)
           below == BelowCap(t, total, part)
           available == Available(total)
<1>1. worth \in Nat /\ worth * Ratio \in Nat /\ worth * Ratio = Ratio * worth
  <2>1. worth \in Nat
    BY Quantities DEF Account
  <2> HIDE DEF worth
  <2> QED
    BY <2>1, AmountsAssumption
<1>2. asked \in Int /\ cap \in Int
  <2>1. PositionCap \in Nat
    BY LimitsInForce
  <2>2. total \in Int /\ part \in Int /\ PositionCap \in Int
    BY <2>1
  <2>3. Parts(total, part) \in Int
    BY <2>2, PartsOfTotal
  <2>4. Parts(total, PositionCap) \in Int
    BY <2>2, PartsOfTotal
  <2> QED
    BY <2>3, <2>4
<1>3. free \in Int
  BY PartsOfTotal, AmountsAssumption DEF Whole, Account
<1>4. Bound => reserve \in Nat
  <2> SUFFICES ASSUME Bound PROVE reserve \in Nat
    OBVIOUS
  <2>1. InForce.reserve \in Nat
    BY LimitsInForce
  <2>2. InForce.reserve \in Int /\ total \in Int
    BY <2>1
  <2> QED
    BY <2>1, <2>2, PartsOfTotal
<1>5. /\ below \in Int /\ below <= asked
      /\ ~Unbound => below + Ratio * worth <= cap
  <2>1. CASE Unbound
    BY <1>2, <2>1 DEF BelowCap
  <2>2. CASE ~Unbound
    <3>1. below = Min({asked, cap - worth * Ratio})
      BY <2>2 DEF BelowCap, Value
    <3> HIDE DEF below, asked, cap, worth
    <3>2. cap - worth * Ratio \in Int
      BY <1>1, <1>2
    <3>3. /\ Min({asked, cap - worth * Ratio}) \in {asked, cap - worth * Ratio}
          /\ Min({asked, cap - worth * Ratio}) <= asked
          /\ Min({asked, cap - worth * Ratio}) <= cap - worth * Ratio
      BY <1>2, <3>2, LesserOfTwo
    <3> QED
      BY <1>1, <1>2, <2>2, <3>1, <3>2, <3>3
  <2> QED
    BY <2>1, <2>2
<1>6. available \in Int /\ available <= free /\ (Bound => available + reserve <= free)
  <2>1. available = free - (IF Bound THEN reserve ELSE 0)
    BY DEF Available
  <2> HIDE DEF available, free, reserve
  <2> QED
    BY <1>3, <1>4, <2>1
<1>7. BuyAmount(t, total, part) = Min({below, available})
  BY DEF BuyAmount
<1> HIDE DEF worth, asked, cap, free, reserve, below, available
<1>8. /\ BuyAmount(t, total, part) \in {below, available}
      /\ BuyAmount(t, total, part) <= below /\ BuyAmount(t, total, part) <= available
  BY <1>5, <1>6, <1>7, LesserOfTwo
<1>9. /\ BuyAmount(t, total, part) \in Int
      /\ BuyAmount(t, total, part) <= asked
      /\ ~Unbound => BuyAmount(t, total, part) + Ratio * worth <= cap
      /\ BuyAmount(t, total, part) <= free
      /\ Bound => BuyAmount(t, total, part) + reserve <= free
  BY <1>1, <1>2, <1>3, <1>4, <1>5, <1>6, <1>8
<1> QED
  BY <1>9 DEF worth, asked, cap, free, reserve

\* What a purchase takes from the cash.
LEMMA PurchaseIsPaid ==
    ASSUME Account, NEW amount \in Nat \ {0}, amount <= Whole(cash - Fee)
    PROVE  LET r == RoundHalfUp(amount, Scale * Ratio) IN
           /\ r \in Nat /\ r + Fee <= cash /\ Deducted(r) = cash - r
<1> DEFINE r == RoundHalfUp(amount, Scale * Ratio)
           d == Scale * Ratio
<1>1. d \in Nat \ {0} /\ Scale \in Nat \ {0} /\ Ratio \in Nat \ {0} /\ Fee \in Nat /\ cash \in Nat
  <2>1. Scale \in Nat \ {0} /\ Ratio \in Nat \ {0} /\ Fee \in Nat /\ cash \in Nat
    BY AmountsAssumption, ScaleAssumption DEF Account
  <2> QED
    BY <2>1, Products
<1>2. Whole(cash - Fee) = (cash - Fee) * d
  <2>1. \A x \in Int : (x * Ratio) * Scale = x * (Scale * Ratio)
    BY <1>1
  <2> QED
    BY <1>1, <2>1 DEF Whole, Parts
<1>3. cash - Fee \in Nat
  <2>1. SUFFICES ASSUME cash < Fee PROVE FALSE
    BY <1>1
  <2>2. Fee - cash \in Nat /\ (cash - Fee) * d = -((Fee - cash) * d) /\ (Fee - cash) * d \in Nat
    <3> HIDE DEF d
    <3>1. Fee - cash \in Nat
      BY <1>1, <2>1
    <3>2. (Fee - cash) * d \in Nat
      BY <1>1, <3>1
    <3>3. (cash - Fee) * d = -((Fee - cash) * d)
      BY <1>1
    <3> QED
      BY <3>1, <3>2, <3>3
  <2> HIDE DEF d
  <2> QED
    BY <1>2, <2>2
<1>4. r <= cash - Fee
  <2> HIDE DEF d
  <2>1. amount <= (cash - Fee) * d
    BY <1>2
  <2>2. RoundHalfUp(amount, d) <= cash - Fee
    BY <1>1, <1>3, <2>1, RoundingStays
  <2> QED
    BY <2>2 DEF d
<1>5. r \in Nat
  BY <1>1, Rounding
<1> HIDE DEF r, d
<1>6. r + Fee <= cash /\ r <= cash
  BY <1>1, <1>4, <1>5
<1> QED
  BY <1>5, <1>6 DEF Deducted, r

\* The average of two prices is between them.
LEMMA AverageIsBetween ==
    ASSUME NEW k \in Nat, NEW n \in Nat, NEW a \in Nat, NEW b \in Nat, NEW c \in Nat
    PROVE  /\ (b <= c /\ (k # 0 => a <= c)) => a * k + b * n <= c * (k + n)
           /\ (c <= b /\ (k # 0 => c <= a)) => c * (k + n) <= a * k + b * n
<1>1. /\ a * k \in Nat /\ b * n \in Nat /\ c * k \in Nat /\ c * n \in Nat
      /\ a * k = k * a /\ b * n = n * b /\ c * k = k * c /\ c * n = n * c
      /\ c * (k + n) = c * k + c * n
  OBVIOUS
<1>2. ASSUME NEW x \in Nat, NEW y \in Nat, NEW z \in Nat, x <= y PROVE z * x <= z * y
  <2>1. CASE z = 0
    BY <2>1
  <2>2. CASE z # 0
    BY <1>2, <2>2, Cancel
  <2> QED
    BY <2>1, <2>2
<1>3. k = 0 => k * a = 0 /\ k * c = 0
  OBVIOUS
<1>4. ASSUME b <= c, k # 0 => a <= c PROVE a * k + b * n <= c * (k + n)
  <2>1. n * b <= n * c
    BY <1>2, <1>4
  <2>2. k * a <= k * c
    <3>1. CASE k = 0
      BY <3>1
    <3>2. CASE k # 0
      BY <1>2, <1>4, <3>2
    <3> QED
      BY <3>1, <3>2
  <2> QED
    BY <1>1, <2>1, <2>2
<1>5. ASSUME c <= b, k # 0 => c <= a PROVE c * (k + n) <= a * k + b * n
  <2>1. n * c <= n * b
    BY <1>2, <1>5
  <2>2. k * c <= k * a
    <3>1. CASE k = 0
      BY <3>1
    <3>2. CASE k # 0
      BY <1>2, <1>5, <3>2
    <3> QED
      BY <3>1, <3>2
  <2> QED
    BY <1>1, <2>1, <2>2
<1> QED
  BY <1>4, <1>5

\* The least and the greatest of one or two prices.
LEMMA LeastAndGreatest ==
    ASSUME NEW a \in Nat, NEW b \in Nat, NEW S, S = {a} \/ S = {a, b}
    PROVE  /\ Min(S) \in S /\ Max(S) \in S /\ S \subseteq Nat
           /\ \A x \in S : Min(S) <= x /\ x <= Max(S)
<1>1. (\E x \in S : \A y \in S : x <= y) /\ (\E x \in S : \A y \in S : y <= x)
  <2>1. CASE a <= b
    BY <2>1
  <2>2. CASE b <= a
    BY <2>2
  <2> QED
    BY <2>1, <2>2
<1>2. Min(S) \in S /\ \A x \in S : Min(S) <= x
  BY <1>1 DEF Min
<1>3. Max(S) \in S /\ \A x \in S : x <= Max(S)
  <2>1. \E x \in S : \A y \in S : x >= y
    BY <1>1
  <2> QED
    BY <2>1 DEF Max
<1> QED
  BY <1>2, <1>3

\* A purchase of an amount grows the position, at an average cost between the prices paid.
LEMMA PurchaseIsAdded ==
    ASSUME Account, NEW t \in Tickers, NEW amount \in Nat \ {0}, quotes'[t] > 0,
           holdings' = Added(t, quotes'[t], amount)
    PROVE  /\ IsPortfolio(holdings') /\ t \in DOMAIN holdings'
           /\ \A s \in Tickers \ {t} : QuantityOf(holdings', s) = QuantityOf(holdings, s)
           /\ QuantityOf(holdings', t)
                 = RoundHalfUp(QuantityOf(holdings, t) * Ratio * quotes'[t] + amount, Ratio * quotes'[t])
           /\ CostIsBetween(t)
<1> DEFINE quote == quotes'[t]
           old == QuantityOf(holdings, t)
           cost == IF t \in DOMAIN holdings THEN holdings[t].cost ELSE 0
           shares == old * Ratio * quote + amount
           paid == old * cost * Ratio + amount
           position == [quantity |-> RoundHalfUp(shares, Ratio * quote),
                        cost |-> RoundHalfUp(paid * quote, shares)]
<1>1. quote \in Nat \ {0} /\ old \in Nat /\ cost \in Nat /\ Ratio \in Nat \ {0}
  BY Quantities, AmountsAssumption DEF Account
<1>2. holdings' = Put(holdings, t, position)
  BY DEF Added
<1>3. Paid(t) = {quote} \/ (old > 0 /\ Paid(t) = {quote, cost})
  <2>1. old > 0 => t \in DOMAIN holdings
    BY DEF QuantityOf
  <2> QED
    BY <2>1 DEF Paid
<1>3a. old > 0 => Paid(t) = {quote, cost}
  BY DEF Paid, QuantityOf
<1> HIDE DEF quote, old, cost
<1>4. /\ old * Ratio * quote \in Nat /\ old * cost * Ratio \in Nat
      /\ (old * cost * Ratio) * quote = cost * (old * Ratio * quote)
      /\ old = 0 => old * Ratio * quote = 0
  <2>1. (old * Ratio) * quote \in Nat /\ (old * Ratio) * quote = old * (Ratio * quote)
    BY <1>1, Products
  <2>2. (old * cost) * Ratio \in Nat /\ old * cost \in Nat /\ old * cost = cost * old
    BY <1>1, Products
  <2>3. ((old * cost) * Ratio) * quote = (old * cost) * (Ratio * quote)
    BY <1>1, <2>2, Products
  <2>4. Ratio * quote \in Nat
    BY <1>1, Products
  <2>5. (cost * old) * (Ratio * quote) = cost * (old * (Ratio * quote))
    BY <1>1, <2>4, Products
  <2>6. old = 0 => (old * Ratio) = 0 /\ 0 * quote = 0
    BY <1>1
  <2> QED
    BY <2>1, <2>2, <2>3, <2>5, <2>6
<1>5. /\ shares \in Nat \ {0} /\ paid \in Nat /\ paid * quote \in Nat
      /\ paid * quote = cost * (old * Ratio * quote) + quote * amount
  <2> DEFINE a == old * Ratio * quote
             b == old * cost * Ratio
  <2>1. a \in Nat /\ b \in Nat /\ b * quote = cost * a
    BY <1>4
  <2> HIDE DEF a, b
  <2>2. a + amount \in Nat \ {0} /\ b + amount \in Nat
    BY <2>1
  <2>3. (b + amount) * quote \in Nat /\ (b + amount) * quote = b * quote + quote * amount
    BY <1>1, <2>1
  <2> QED
    BY <2>1, <2>2, <2>3 DEF a, b
<1>6. Ratio * quote \in Nat \ {0}
  BY <1>1, Products
<1>7. position \in Position
  <2>1. RoundHalfUp(shares, Ratio * quote) \in Nat
    BY <1>5, <1>6, Rounding
  <2>2. RoundHalfUp(paid * quote, shares) \in Nat
    BY <1>5, Rounding
  <2> QED
    BY <2>1, <2>2 DEF Position
<1>8. /\ IsPortfolio(holdings') /\ DOMAIN holdings' = DOMAIN holdings \cup {t} /\ holdings'[t] = position
      /\ QuantityOf(holdings', t) = position.quantity
      /\ \A s \in Tickers \ {t} : QuantityOf(holdings', s) = QuantityOf(holdings, s)
  <2> HIDE DEF position
  <2> QED
    <3>1. /\ DOMAIN holdings' = DOMAIN holdings \cup {t} /\ holdings'[t] = position
          /\ \A s \in DOMAIN holdings \ {t} : holdings'[s] = holdings[s]
      BY <1>2 DEF Put
    <3> QED
      BY <1>7, <3>1 DEF Account, IsPortfolio, QuantityOf
<1>9. ASSUME NEW c \in Nat
      PROVE  /\ (quote <= c /\ (old > 0 => cost <= c)) => holdings'[t].cost <= c
             /\ (c <= quote /\ (old > 0 => c <= cost)) => c <= holdings'[t].cost
  <2> DEFINE k == old * Ratio * quote
  <2>1. k \in Nat /\ (k # 0 => old > 0) /\ shares = k + amount /\ paid * quote = cost * k + quote * amount
    BY <1>1, <1>4, <1>5
  <2>2. holdings'[t].cost = RoundHalfUp(paid * quote, shares)
    BY <1>8
  <2> HIDE DEF k, shares, paid
  <2>3. /\ (quote <= c /\ (k # 0 => cost <= c)) => cost * k + quote * amount <= c * (k + amount)
        /\ (c <= quote /\ (k # 0 => c <= cost)) => c * (k + amount) <= cost * k + quote * amount
    BY <1>1, <2>1, AverageIsBetween
  <2>4. /\ paid * quote <= c * shares => RoundHalfUp(paid * quote, shares) <= c
        /\ c * shares <= paid * quote => c <= RoundHalfUp(paid * quote, shares)
    BY <1>5, RoundingStays
  <2> QED
    BY <2>1, <2>2, <2>3, <2>4
<1>10. /\ Min(Paid(t)) \in Nat /\ Max(Paid(t)) \in Nat
       /\ Min(Paid(t)) <= quote /\ quote <= Max(Paid(t))
       /\ old > 0 => Min(Paid(t)) <= cost /\ cost <= Max(Paid(t))
  <2>1. /\ Min(Paid(t)) \in Paid(t) /\ Max(Paid(t)) \in Paid(t) /\ Paid(t) \subseteq Nat
        /\ \A x \in Paid(t) : Min(Paid(t)) <= x /\ x <= Max(Paid(t))
    BY <1>1, <1>3, LeastAndGreatest
  <2> QED
    BY <1>3, <1>3a, <2>1
<1>11. CostIsBetween(t)
  BY <1>9, <1>10 DEF CostIsBetween
<1> QED
  BY <1>8, <1>11 DEF quote, old

\* What is true of a trade in t that adds R to the cash (takes it, when R is negative), before
\* the fee.
TradeMoves(t, R) ==
    LET quote == quotes'[t]
        change == QuantityOf(holdings', t) * quote - QuantityOf(holdings, t) * quote
    IN  /\ IsPortfolio(holdings')
        /\ \A s \in Tickers \ {t} : QuantityOf(holdings', s) = QuantityOf(holdings, s)
        /\ cash' \in Nat /\ cash' = (cash + R) - Fee
        /\ -(quote + Scale) <= 2 * (change + R * Scale)
        /\ 2 * (change + R * Scale) <= quote + Scale

\* A purchase, taken together.
LEMMA PurchaseIsRight ==
    ASSUME Account, NEW t \in Tickers, NEW part \in Nat, BuyFor(t, part)
    PROVE  LET total == Total(cash, holdings, quotes')
               quote == quotes'[t]
               old == QuantityOf(holdings, t) * quote
           IN /\ quote \in Nat \ {0} /\ t \in DOMAIN holdings'
              /\ CostIsBetween(t)
              /\ Bound => PolicyAllows(t, total, part)
              /\ total # 0
              /\ \E amount \in Nat \ {0}, r \in Nat :
                    /\ TradeMoves(t, -r)
                    /\ amount <= Parts(total, part)
                    /\ ~Unbound => amount + Ratio * old <= Parts(total, PositionCap)
                    /\ Bound => amount + Parts(total, InForce.reserve) <= Whole(cash - Fee)
                    /\ Rounded(Ratio, Scale, quote, QuantityOf(holdings, t), amount,
                               QuantityOf(holdings', t), r)
<1> DEFINE total == Total(cash, holdings, quotes')
           quote == quotes'[t]
           before == QuantityOf(holdings, t)
           after == QuantityOf(holdings', t)
           amount == BuyAmount(t, total, part)
           r == RoundHalfUp(amount, Scale * Ratio)
<1>1. /\ quote > 0 /\ amount > 0 /\ (Bound => PolicyAllows(t, total, part))
      /\ holdings' = Added(t, quote, amount)
      /\ cash' = Deducted(r) - Fee
  BY DEF BuyFor, Accepted, Record
<1>2. /\ quote \in Nat \ {0} /\ before \in Nat /\ total \in Nat
      /\ Ratio \in Nat \ {0} /\ Scale \in Nat \ {0} /\ Fee \in Nat /\ cash \in Nat
  <2>1. total \in Nat
    BY TotalIsNatural DEF Account
  <2>2. quote \in Nat /\ before \in Nat
    BY Quantities DEF Account
  <2> QED
    BY <1>1, <2>1, <2>2, AmountsAssumption, ScaleAssumption DEF Account
<1> HIDE DEF total
<1>3. /\ amount \in Int
      /\ amount <= Parts(total, part)
      /\ ~Unbound => amount + Ratio * (before * quote) <= Parts(total, PositionCap)
      /\ amount <= Whole(cash - Fee)
      /\ Bound => amount + Parts(total, InForce.reserve) <= Whole(cash - Fee)
  BY <1>2, PurchaseAmount
<1>4. amount \in Nat \ {0}
  BY <1>1, <1>3
<1> HIDE DEF amount
<1>5. r \in Nat /\ r + Fee <= cash /\ Deducted(r) = cash - r
  BY <1>3, <1>4, PurchaseIsPaid
<1>6. /\ IsPortfolio(holdings') /\ t \in DOMAIN holdings'
      /\ \A s \in Tickers \ {t} : QuantityOf(holdings', s) = QuantityOf(holdings, s)
      /\ after = RoundHalfUp(before * Ratio * quote + amount, Ratio * quote)
      /\ CostIsBetween(t)
  BY <1>1, <1>4, PurchaseIsAdded
<1> HIDE DEF quote, before, after
<1>7. Rounded(Ratio, Scale, quote, before, amount, after, r)
  <2>1. r = RoundHalfUp(amount, Scale * Ratio)
    OBVIOUS
  <2> HIDE DEF r
  <2> QED
    BY <1>2, <1>4, <1>6, <2>1, PurchaseRounds
<1> HIDE DEF r
<1>8. after * quote \in Int /\ before * quote \in Int /\ r * Scale \in Int /\ (-r) * Scale = -(r * Scale)
  BY <1>2, <1>5, <1>7 DEF Rounded
<1>9. /\ -(quote + Scale) <= 2 * ((after * quote - before * quote) - r * Scale)
      /\ 2 * ((after * quote - before * quote) - r * Scale) <= quote + Scale
  BY <1>2, <1>4, <1>7, Exchange
<1>10. cash' \in Nat /\ cash' = (cash + (-r)) - Fee
  BY <1>1, <1>2, <1>5
<1>11. TradeMoves(t, -r)
  <2>1. after * quote - before * quote + (-r) * Scale = (after * quote - before * quote) - r * Scale
    BY <1>8
  <2> QED
    BY <1>6, <1>9, <1>10, <2>1 DEF TradeMoves, quote, before, after
<1>12. total # 0
  <2>1. SUFFICES ASSUME total = 0 PROVE FALSE
    OBVIOUS
  <2>2. Parts(total, part) = 0
    BY <2>1, PartsOfTotal
  <2> QED
    BY <1>3, <1>4, <2>2
<1> QED
  BY <1>1, <1>2, <1>3, <1>4, <1>5, <1>6, <1>7, <1>11, <1>12 DEF quote, before, after, total

\* What is sold, at most the whole position.
LEMMA SoldIsHeld ==
    ASSUME Account, NEW t \in Open(holdings), NEW total \in Nat, NEW n \in Nat, NEW d \in Nat,
           Sold(t, quotes'[t], total, n, d) > 0
    PROVE  LET quote == quotes'[t]
               sold == Sold(t, quote, total, n, d)
               held == QuantityOf(holdings, t) * d * quote
           IN /\ t \in Tickers /\ t \in DOMAIN holdings /\ holdings[t].quantity = QuantityOf(holdings, t)
              /\ quote \in Nat \ {0} /\ d # 0 /\ QuantityOf(holdings, t) \in Nat
              /\ Held(t, quote, d) = held /\ held \in Nat
              /\ Target(total, n) \in Nat
              /\ sold \in Nat /\ sold <= held
              /\ Target(total, n) < held => sold = Target(total, n)
              /\ ~(Target(total, n) < held) => sold = held
<1> DEFINE quote == quotes'[t]
           sold == Sold(t, quote, total, n, d)
           old == QuantityOf(holdings, t)
           target == Target(total, n)
<1>1. t \in Tickers /\ t \in DOMAIN holdings
  BY DEF Account, IsPortfolio, Open
<1>2. old \in Nat /\ quote \in Nat /\ holdings[t].quantity = old
  BY <1>1, Quantities DEF Account
<1>3. target \in Nat
  <2>1. total * Scale \in Nat
    BY ScaleAssumption, Products
  <2> QED
    BY <2>1, Products DEF Target
<1>4. Held(t, quote, d) = old * d * quote
  BY <1>2 DEF Held
<1>5. sold = Min({target, old * d * quote}) /\ sold > 0
  BY <1>4 DEF Sold
<1> HIDE DEF quote, sold, old, target
<1>6. old * d * quote \in Nat /\ old * d \in Nat
  <2>1. old * d \in Nat
    BY <1>2, Products
  <2> QED
    BY <1>2, <2>1, Products
<1> DEFINE held == old * d * quote
<1>7. (d = 0 \/ quote = 0) => held = 0
  BY <1>2, <1>6
<1> HIDE DEF held
<1>8. held \in Nat
  BY <1>6 DEF held
<1>9. sold \in {target, held} /\ sold <= target /\ sold <= held
  <2>1. sold = Min({target, held})
    BY <1>5 DEF held
  <2> QED
    BY <1>3, <1>8, <2>1, LesserOfTwo
<1>10. /\ sold \in Nat /\ (target < held => sold = target) /\ (~(target < held) => sold = held)
       /\ held # 0
  BY <1>3, <1>5, <1>8, <1>9
<1> QED
  BY <1>1, <1>2, <1>3, <1>4, <1>7, <1>8, <1>9, <1>10 DEF quote, sold, old, target, held

\* A sale leaves a row with what is left, or none when nothing is.
SoldTo(h, t, left, g) ==
    \/ g = Put(h, t, [h[t] EXCEPT !.quantity = left])
    \/ left = 0 /\ g = [s \in DOMAIN h \ {t} |-> h[s]]

\* What a sale does to the positions.
LEMMA SaleLeaves ==
    ASSUME NEW h, IsPortfolio(h), NEW t \in DOMAIN h, NEW left \in Nat, NEW g, SoldTo(h, t, left, g)
    PROVE  /\ IsPortfolio(g) /\ QuantityOf(g, t) = left
           /\ \A s \in DOMAIN h \ {t} : s \in DOMAIN g /\ g[s] = h[s]
           /\ \A s \in Tickers \ {t} : QuantityOf(g, s) = QuantityOf(h, s)
<1>1. t \in Tickers /\ h[t] \in Position
  BY DEF IsPortfolio
<1>2. CASE g = Put(h, t, [h[t] EXCEPT !.quantity = left])
  <2> DEFINE p == [h[t] EXCEPT !.quantity = left]
  <2>1. p \in Position /\ p.quantity = left
    BY <1>1 DEF Position
  <2> HIDE DEF p
  <2>2. g = Put(h, t, p)
    BY <1>2 DEF p
  <2>2a. IsPortfolio(h) /\ t \in Tickers
    BY <1>1
  <2>3. DOMAIN g = DOMAIN h \cup {t} /\ g[t] = p /\ \A s \in DOMAIN h \ {t} : g[s] = h[s]
    BY <2>2 DEF Put
  <2> QED
    BY <2>1, <2>2a, <2>3 DEF IsPortfolio, QuantityOf
<1>3. CASE left = 0 /\ g = [s \in DOMAIN h \ {t} |-> h[s]]
  BY <1>1, <1>3, PositionGone
<1> QED
  BY <1>2, <1>3 DEF SoldTo

\* A sale, taken together.
LEMMA SaleIsRight ==
    ASSUME Account, NEW t \in Open(holdings), NEW total \in Nat, NEW n \in Nat, NEW d \in Nat, NEW exact,
           SellShares(t, quotes'[t], total, n, d, exact)
    PROVE  LET quote == quotes'[t]
               old == QuantityOf(holdings, t) * quote
               new == QuantityOf(holdings', t) * quote
           IN /\ t \in Tickers /\ quote \in Nat \ {0} /\ d # 0
              /\ \E r \in Nat : TradeMoves(t, r)
              /\ \A s \in DOMAIN holdings \ {t} : s \in DOMAIN holdings' /\ holdings'[s] = holdings[s]
              /\ \/ QuantityOf(holdings', t) = 0
                 \/ 2 * (d * new) <= 2 * (d * old) - 2 * Target(total, n) + d * quote
<1> DEFINE quote == quotes'[t]
           before == QuantityOf(holdings, t)
           after == QuantityOf(holdings', t)
           sold == Sold(t, quote, total, n, d)
           held == before * d * quote
           target == Target(total, n)
           left == RoundHalfUp(held - sold, d * quote)
           r == RoundHalfUp(sold, d * Scale)
<1>1. /\ sold > 0 /\ holdings' \in Removed(t, quote, total, n, d, exact)
      /\ cash' = (cash + r) - Fee /\ cash + r >= Fee
  BY DEF SellShares, Record, Proceeds
<1>2. /\ t \in Tickers /\ t \in DOMAIN holdings /\ holdings[t].quantity = before
      /\ quote \in Nat \ {0} /\ d # 0 /\ before \in Nat
      /\ Held(t, quote, d) = held /\ held \in Nat
      /\ target \in Nat /\ sold \in Nat /\ sold <= held
      /\ target < held => sold = target
      /\ ~(target < held) => sold = held
  BY <1>1, SoldIsHeld
<1>3. /\ Scale \in Nat \ {0} /\ d \in Nat \ {0} /\ Fee \in Nat /\ cash \in Nat
  BY <1>2, AmountsAssumption, ScaleAssumption DEF Account
<1>4. ~(target < held) => left = 0
  <2> SUFFICES ASSUME ~(target < held) PROVE left = 0
    OBVIOUS
  <2>1. held - sold = 0
    BY <1>2
  <2>2. d * quote \in Nat \ {0}
    BY <1>2, <1>3, Products
  <2>3. RoundHalfUp(0, d * quote) <= 0 /\ RoundHalfUp(0, d * quote) \in Nat
    <3> DEFINE k == d * quote
    <3>1. k \in Nat \ {0}
      BY <2>2
    <3> HIDE DEF k
    <3>2. 0 <= 0 * k
      BY <3>1
    <3>3. RoundHalfUp(0, k) <= 0 /\ RoundHalfUp(0, k) \in Nat
      BY <3>1, <3>2, RoundingStays, Rounding
    <3> QED
      BY <3>3 DEF k
  <2> QED
    BY <2>1, <2>3
<1>5. SoldTo(holdings, t, left, holdings')
  <2> DEFINE row == Put(holdings, t, [holdings[t] EXCEPT !.quantity = left])
             gone == [s \in DOMAIN holdings \ {t} |-> holdings[s]]
  <2>1. Removed(t, quote, total, n, d, exact) =
          CASE target < held -> {row}
            [] target > held -> {gone}
            [] OTHER -> IF exact THEN {gone} ELSE {gone, row}
    BY <1>2 DEF Removed
  <2> HIDE DEF row, gone, left, target, held, quote, before, sold, r
  <2>2. ASSUME target < held PROVE holdings' = row
    BY <1>1, <1>2, <2>1, <2>2
  <2>3. ASSUME ~(target < held) PROVE left = 0 /\ holdings' \in {gone, row}
    <3>1. target = held \/ target > held
      BY <1>2, <2>3
    <3>2. holdings' \in {gone, row}
      BY <1>1, <2>1, <2>3, <3>1
    <3> QED
      BY <1>4, <2>3, <3>2
  <2>5. holdings' = row \/ (left = 0 /\ holdings' = gone)
    BY <2>2, <2>3
  <2> QED
    BY <2>5 DEF SoldTo, row, gone
<1>6. /\ r \in Nat /\ Rounded(d, Scale, quote, before, -sold, left, -r) /\ left \in Nat
  <2>1. left = RoundHalfUp(before * d * quote - sold, d * quote) /\ r = RoundHalfUp(sold, d * Scale)
    OBVIOUS
  <2> HIDE DEF left, r, quote, before, sold
  <2>2. r \in Nat /\ Rounded(d, Scale, quote, before, -sold, left, -r)
    BY <1>2, <1>3, <2>1, SaleRounds
  <2> QED
    BY <2>2 DEF Rounded
<1>7. /\ IsPortfolio(holdings') /\ after = left
      /\ \A s \in DOMAIN holdings \ {t} : s \in DOMAIN holdings' /\ holdings'[s] = holdings[s]
      /\ \A s \in Tickers \ {t} : QuantityOf(holdings', s) = QuantityOf(holdings, s)
  <2> HIDE DEF left
  <2> QED
    <3>1. IsPortfolio(holdings) /\ t \in DOMAIN holdings /\ left \in Nat
      BY <1>2, <1>6 DEF Account
    <3>2. /\ IsPortfolio(holdings') /\ QuantityOf(holdings', t) = left
          /\ \A s \in DOMAIN holdings \ {t} : s \in DOMAIN holdings' /\ holdings'[s] = holdings[s]
          /\ \A s \in Tickers \ {t} : QuantityOf(holdings', s) = QuantityOf(holdings, s)
      BY <1>5, <3>1, SaleLeaves
    <3> QED
      BY <3>2
<1> HIDE DEF quote, before, after, sold, target, left, r
<1>8. after * quote \in Int /\ before * quote \in Int /\ r * Scale \in Int /\ (-(-r)) * Scale = r * Scale
      /\ (-r) * Scale = -(r * Scale)
  BY <1>2, <1>3, <1>6, <1>7
<1>9. /\ -(quote + Scale) <= 2 * ((after * quote - before * quote) - (-r) * Scale)
      /\ 2 * ((after * quote - before * quote) - (-r) * Scale) <= quote + Scale
  <2>1. Rounded(d, Scale, quote, before, -sold, after, -r) /\ -sold \in Int
    BY <1>2, <1>6, <1>7
  <2> QED
    BY <1>2, <1>3, <2>1, Exchange
<1>10. TradeMoves(t, r)
  <2>1. cash' \in Nat
    BY <1>1, <1>3, <1>6
  <2>2. (after * quote - before * quote) - (-r) * Scale = (after * quote - before * quote) + r * Scale
    BY <1>8
  <2> QED
    BY <1>1, <1>7, <1>9, <2>1, <2>2 DEF TradeMoves, quote, before, after
<1>11. \/ after = 0
       \/ 2 * (d * (after * quote)) <= 2 * (d * (before * quote)) - 2 * target + d * quote
  <2>1. CASE ~(target < held)
    BY <1>4, <1>7, <2>1
  <2>2. CASE target < held
    <3>1. 2 * (d * (after * quote)) <= 2 * (d * (before * quote)) + 2 * (-target) + d * quote
      BY <1>2, <1>6, <1>7, <2>2 DEF Rounded
    <3>2. d * (before * quote) \in Int
      BY <1>3, <1>8
    <3> QED
      BY <1>2, <3>1, <3>2
  <2> QED
    BY <2>1, <2>2
<1> QED
  BY <1>2, <1>3, <1>6, <1>7, <1>10, <1>11 DEF quote, before, after, target

\* What a sale of a share n / d of a portfolio that had become less than d leaves.
LEMMA LeftOver ==
    ASSUME NEW w \in Nat \ {0}, NEW v \in Nat, v <= w, NEW s \in Nat, NEW b \in Nat,
           2 * w <= 2 * s + b, NEW quote \in Nat, NEW x \in Int,
           2 * (w * x) <= 2 * (w * v) - 2 * (s * v) + w * quote
    PROVE  2 * x <= b + quote
<1>1. /\ w * x \in Int /\ w * v \in Nat /\ s * v \in Nat /\ w * quote \in Nat /\ v * b \in Nat /\ w * b \in Nat
      /\ w * v = v * w /\ s * v = v * s
  BY Products
<1>2. 2 * (v * w) <= 2 * (v * s) + v * b
  <2>1. CASE v = 0
    BY <2>1
  <2>2. CASE v # 0
    <3>1. v * (2 * w) <= v * (2 * s + b)
      BY <2>2, Cancel
    <3>2. v * (2 * w) = 2 * (v * w) /\ v * (2 * s + b) = 2 * (v * s) + v * b
      OBVIOUS
    <3> QED
      BY <3>1, <3>2
  <2> QED
    BY <2>1, <2>2
<1>3. v * b <= w * b
  <2>1. CASE b = 0
    BY <2>1
  <2>2. CASE b # 0
    <3>1. b * v <= b * w
      BY <2>2, Cancel
    <3> QED
      BY <3>1, Products
  <2> QED
    BY <2>1, <2>2
<1>4. 2 * (w * x) <= w * b + w * quote
  BY <1>1, <1>2, <1>3
<1>5. w * (2 * x) = 2 * (w * x) /\ w * (b + quote) = w * b + w * quote
  OBVIOUS
<1>6. w * (2 * x) <= w * (b + quote)
  BY <1>4, <1>5
<1> QED
  BY <1>6, Cancel

\* What each further sale may lower the worth by, and leave.
LEMMA OneMoreSale ==
    ASSUME NEW n \in Nat
    PROVE  /\ Max(Prices) \in Nat /\ \A p \in Prices : p \in Nat /\ p <= Max(Prices)
           /\ Lost(n) \in Nat /\ Lost(0) = 0
           /\ Lost(n + 1) = ((Lost(n) + 2 * (Fee * Scale)) + Scale) + Max(Prices)
           /\ 2 * ((n + 1) - 1) * Fee * Scale + (n + 1) * (Scale + Max(Prices))
                 = (Lost(n) + Scale) + Max(Prices)
           /\ 2 * (n - 1) * Fee * Scale + n * (Scale + Max(Prices))
                 <= 2 * ((n + 1) - 1) * Fee * Scale + (n + 1) * (Scale + Max(Prices))
           /\ 2 * (n - 1) * Fee * Scale + n * (Scale + Max(Prices)) \in Int
<1>1. Max(Prices) \in Nat /\ \A p \in Prices : p \in Nat /\ p <= Max(Prices)
  <2>1. \E p \in Prices : \A q \in Prices : p >= q
    BY PricesAssumption
  <2>2. Max(Prices) \in Prices /\ \A q \in Prices : Max(Prices) >= q
    BY <2>1 DEF Max
  <2> QED
    BY <2>2, PricesAssumption
<1> DEFINE f == Fee * Scale
           k == Scale + Max(Prices)
<1>2. Scale \in Nat /\ Fee \in Nat /\ f \in Nat /\ k \in Nat
  BY <1>1, ScaleAssumption, AmountsAssumption, Products
<1>3. ASSUME NEW i \in Int PROVE 2 * i * Fee * Scale = 2 * (i * f)
  BY <1>2
<1>4. Lost(n) = 2 * (n * f) + n * k
  BY <1>3 DEF Lost
<1>5. Lost(n + 1) = 2 * ((n + 1) * f) + (n + 1) * k
  BY <1>3 DEF Lost
<1>6. 2 * (n - 1) * Fee * Scale = 2 * ((n - 1) * f)
  BY <1>3
<1>7. 2 * ((n + 1) - 1) * Fee * Scale = 2 * (n * f)
  <2>1. (n + 1) - 1 = n
    OBVIOUS
  <2> QED
    BY <1>3, <2>1
<1>8. Lost(0) = 2 * (0 * f) + 0 * k
  BY <1>3 DEF Lost
<1> HIDE DEF f, k
<1>9. /\ (n + 1) * f = n * f + f /\ (n + 1) * k = n * k + k /\ (n - 1) * f = n * f - f
      /\ n * f \in Nat /\ n * k \in Nat /\ 0 * f = 0 /\ 0 * k = 0
  BY <1>2
<1>10. k = Scale + Max(Prices)
  BY DEF k
<1>11. /\ Lost(n) \in Nat /\ Lost(0) = 0
       /\ Lost(n + 1) = ((Lost(n) + 2 * f) + Scale) + Max(Prices)
       /\ 2 * (n * f) + (n + 1) * k = (Lost(n) + Scale) + Max(Prices)
       /\ 2 * ((n - 1) * f) + n * k <= 2 * (n * f) + (n + 1) * k
       /\ 2 * ((n - 1) * f) + n * k \in Int
  BY <1>1, <1>2, <1>4, <1>5, <1>8, <1>9, <1>10
<1> QED
  BY <1>1, <1>6, <1>7, <1>11 DEF f, k

\* The account loses the fee at a trade, and no more than rounding besides.
LEMMA TradeCosts ==
    ASSUME Account, NEW t \in Tickers, NEW R \in Int, TradeMoves(t, R)
    PROVE  LET before == ExactTotal(cash, holdings, quotes')
               after == ExactTotal(cash', holdings', quotes')
               drift == 2 * ((after - before) + Fee * Scale)
               rounding == Scale + quotes'[t]
               change == QuantityOf(holdings', t) * quotes'[t] - QuantityOf(holdings, t) * quotes'[t]
           IN /\ before \in Nat /\ after \in Nat /\ quotes'[t] \in Nat /\ quotes'[t] \in Prices
              /\ -rounding <= drift /\ drift <= rounding
              /\ change \in Int
              /\ SectorWorth(holdings, t, quotes') \in Nat
              /\ SectorWorth(holdings', t, quotes') = SectorWorth(holdings, t, quotes') + change * Ratio
<1> DEFINE before == ExactTotal(cash, holdings, quotes')
           after == ExactTotal(cash', holdings', quotes')
           change == QuantityOf(holdings', t) * quotes'[t] - QuantityOf(holdings, t) * quotes'[t]
<1>1. /\ IsPortfolio(holdings) /\ IsPortfolio(holdings') /\ quotes' \in Quotes
      /\ cash \in Nat /\ cash' \in Nat /\ cash' = (cash + R) - Fee
      /\ \A s \in Tickers \ {t} : QuantityOf(holdings', s) = QuantityOf(holdings, s)
      /\ -(quotes'[t] + Scale) <= 2 * (change + R * Scale)
      /\ 2 * (change + R * Scale) <= quotes'[t] + Scale
  BY DEF Account, TradeMoves
<1>2. /\ before \in Nat /\ change \in Int
      /\ after = (before + (cash' * Scale - cash * Scale)) + change
      /\ SectorWorth(holdings, t, quotes') \in Nat
      /\ SectorWorth(holdings', t, quotes') = SectorWorth(holdings, t, quotes') + change * Ratio
  BY <1>1, TradeMovesTotal
<1>3. after \in Nat
  BY <1>1, TradeMovesTotal
<1>4. Scale \in Nat /\ Fee \in Nat
  BY ScaleAssumption, AmountsAssumption
<1>5. quotes'[t] \in Nat /\ quotes'[t] \in Prices
  BY <1>1, PricesAssumption DEF Quotes
<1> HIDE DEF before, after, change
<1>6. /\ cash' * Scale = (cash * Scale + R * Scale) - Fee * Scale
      /\ cash * Scale \in Int /\ R * Scale \in Int /\ Fee * Scale \in Int
  BY <1>1, <1>4
<1>7. (after - before) + Fee * Scale = change + R * Scale
  BY <1>2, <1>3, <1>6
<1>8. /\ -(Scale + quotes'[t]) <= 2 * ((after - before) + Fee * Scale)
      /\ 2 * ((after - before) + Fee * Scale) <= Scale + quotes'[t]
  BY <1>1, <1>4, <1>5, <1>7
<1> QED
  BY <1>2, <1>3, <1>5, <1>8 DEF before, after, change

-----------------------------------------------------------------------------
(* The invariant of the account *)

\* The types of what a trade changes.
TradeTypes ==
    /\ cash \in Nat /\ IsPortfolio(holdings) /\ quotes \in Quotes
    /\ policy \in Policies \cup {NoPolicy, Autonomous}
    /\ last \in [kind : {"none", "BUY", "SELL"}, ticker : Tickers \cup {0}, part : Nat]
    /\ {trades, events} \subseteq Nat

\* A state without a risk pass.
LEMMA WithoutPass ==
    ASSUME TradeTypes', pass' = NoPass, DOMAIN rebuild' = DOMAIN NoRebuild, RebuildCanEnd'
    PROVE  EngineInv'
<1>1. /\ ~pass'.on /\ pass'.left = {} /\ pass'.kept = {} /\ ~pass'.alone
      /\ DOMAIN pass' = DOMAIN NoPass
  BY DEF NoPass
<1>2. EngineTypeOK' /\ LittleIsLeft'
  BY <1>1 DEF EngineTypeOK, TradeTypes, LittleIsLeft
<1> QED
  BY <1>1, <1>2 DEF EngineInv

\* What a pass in progress has read, not alone any more, whatever became of the account.
LEMMA NotAlone ==
    ASSUME EngineInv, TradeTypes', DOMAIN rebuild' = DOMAIN NoRebuild, RebuildCanEnd',
           DOMAIN pass' = DOMAIN NoPass, ~pass'.alone,
           pass'.on = pass.on, pass'.left = pass.left, pass'.seen = pass.seen, pass'.market = pass.market,
           pass'.valued = pass.valued, pass'.worth = pass.worth, pass'.fees = pass.fees,
           pass'.kept = pass.kept
    PROVE  EngineInv'
<1>1. EngineTypeOK'
  BY DEF EngineInv, EngineTypeOK, TradeTypes
<1>2. LittleIsLeft'
  BY DEF LittleIsLeft
<1>3. pass'.on => PassIsRead'
  BY DEF EngineInv, PassIsRead, Share
<1>4. ~pass'.on => pass'.left = {} /\ ~pass'.alone
  BY DEF EngineInv
<1> QED
  BY <1>1, <1>2, <1>3, <1>4 DEF EngineInv

\* Somebody else acts on the account.
LEMMA MeddlingKeeps ==
    ASSUME EngineInv, Meddle, TradeTypes', DOMAIN rebuild' = DOMAIN NoRebuild, RebuildCanEnd'
    PROVE  EngineInv'
<1>1. DOMAIN pass = DOMAIN NoPass
  BY DEF EngineInv
<1>2. pass' = [pass EXCEPT !.alone = FALSE]
  BY DEF Meddle
<1>3. /\ DOMAIN pass' = DOMAIN NoPass /\ ~pass'.alone
      /\ pass'.on = pass.on /\ pass'.left = pass.left /\ pass'.seen = pass.seen
      /\ pass'.market = pass.market /\ pass'.valued = pass.valued /\ pass'.worth = pass.worth
      /\ pass'.fees = pass.fees /\ pass'.kept = pass.kept
  BY <1>1, <1>2 DEF NoPass
<1> QED
  BY <1>3, NotAlone

\* An account without holdings.
LEMMA NothingHeld == IsPortfolio(<< >>)
  BY DEF IsPortfolio

\* NoPass and NoRebuild are not in progress.
LEMMA NothingInProgress ==
    ~NoPass.on /\ NoPass.left = {} /\ NoPass.kept = {} /\ ~NoPass.alone /\ ~NoRebuild.on
  BY DEF NoPass, NoRebuild

\* The first state.
LEMMA EngineStart ==
    EngineInit => EngineInv
<1> SUFFICES ASSUME EngineInit PROVE EngineInv
  OBVIOUS
<1>1. /\ cash \in Nat /\ IsPortfolio(holdings) /\ quotes \in Quotes /\ {trades, events} \subseteq Nat
      /\ policy \in Policies \cup {NoPolicy, Autonomous}
  BY AmountsAssumption, NothingHeld DEF EngineInit
<1>2. last \in [kind : {"none", "BUY", "SELL"}, ticker : Tickers \cup {0}, part : Nat]
  BY DEF EngineInit, NoTrade
<1>3. /\ ~pass.on /\ pass.left = {} /\ pass.kept = {} /\ ~pass.alone /\ ~rebuild.on
      /\ pass = NoPass /\ rebuild = NoRebuild
  BY NothingInProgress DEF EngineInit
<1>4. EngineTypeOK /\ LittleIsLeft /\ RebuildCanEnd
  BY <1>1, <1>2, <1>3 DEF EngineTypeOK, LittleIsLeft, RebuildCanEnd
<1> QED
  BY <1>3, <1>4 DEF EngineInv

\* A trade is well typed.
LEMMA TradeIsTyped ==
    ASSUME EngineInv, Account, NEW t \in Tickers, NEW R, TradeMoves(t, R), NEW n \in Nat,
           NEW kind \in {"BUY", "SELL"}, last' = [kind |-> kind, ticker |-> t, part |-> n],
           trades' = trades + 1, policy' = policy, events' = events
    PROVE  TradeTypes'
<1>1. cash' \in Nat /\ IsPortfolio(holdings')
  BY DEF TradeMoves
<1>2. {trades, events} \subseteq Nat /\ policy' \in Policies \cup {NoPolicy, Autonomous} /\ quotes' \in Quotes
  BY DEF EngineInv, EngineTypeOK, Account
<1>3. last' \in [kind : {"none", "BUY", "SELL"}, ticker : Tickers \cup {0}, part : Nat]
  OBVIOUS
<1> QED
  BY <1>1, <1>2, <1>3 DEF TradeTypes

\* What a purchase and a sale record.
LEMMA TradeIsRecorded ==
    ASSUME NEW t, NEW n
    PROVE  /\ BuyFor(t, n) => last' = [kind |-> "BUY", ticker |-> t, part |-> n] /\ trades' = trades + 1
           /\ \A quote, total, d, exact : SellShares(t, quote, total, n, d, exact) =>
                 last' = [kind |-> "SELL", ticker |-> t, part |-> n] /\ trades' = trades + 1
  BY DEF BuyFor, SellShares, Record

\* The account of a state that the invariant holds of.
LEMMA AccountOf ==
    ASSUME EngineInv, quotes' \in Quotes
    PROVE  Account /\ TradeTypes
  BY DEF EngineInv, EngineTypeOK, Account, TradeTypes

\* A purchase by somebody.
LEMMA BuyKeeps ==
    ASSUME EngineInv, NEW t \in Tickers, NEW part \in Allocations, Buy(t, part)
    PROVE  EngineInv'
<1>1. /\ ~rebuild.on /\ quotes' \in Quotes /\ BuyFor(t, part) /\ Meddle
      /\ policy' = policy /\ rebuild' = rebuild /\ events' = events
  BY DEF Buy, Unlocked
<1>2. Account /\ part \in Nat
  BY <1>1, AccountOf, SharesAssumption
<1>3. \E R \in Int : TradeMoves(t, R)
  BY <1>1, <1>2, PurchaseIsRight
<1>4. TradeTypes'
  BY <1>1, <1>2, <1>3, TradeIsRecorded, TradeIsTyped
<1>5. DOMAIN rebuild' = DOMAIN NoRebuild /\ RebuildCanEnd'
  BY <1>1 DEF EngineInv, RebuildCanEnd
<1> QED
  BY <1>1, <1>4, <1>5, MeddlingKeeps

\* A sale by somebody.
LEMMA SellKeeps ==
    ASSUME EngineInv, NEW t \in Tickers, NEW part \in Allocations, Sell(t, part)
    PROVE  EngineInv'
<1>1. /\ ~rebuild.on /\ quotes' \in Quotes /\ t \in Open(holdings) /\ Meddle
      /\ SellShares(t, quotes'[t], Total(cash, holdings, quotes'), part, Ratio, policy # NoPolicy)
      /\ policy' = policy /\ rebuild' = rebuild /\ events' = events
  BY DEF Sell, Unlocked
<1>2. Account /\ part \in Nat /\ Ratio \in Nat
  BY <1>1, AccountOf, SharesAssumption, AmountsAssumption
<1>3. \E R \in Int : TradeMoves(t, R)
  <2>1. Total(cash, holdings, quotes') \in Nat
    BY <1>1, <1>2, TotalIsNatural
  <2>2. \E r \in Nat : TradeMoves(t, r)
    BY <1>1, <1>2, <2>1, SaleIsRight
  <2> QED
    BY <2>2
<1>4. TradeTypes'
  BY <1>1, <1>2, <1>3, TradeIsRecorded, TradeIsTyped
<1>5. DOMAIN rebuild' = DOMAIN NoRebuild /\ RebuildCanEnd'
  BY <1>1 DEF EngineInv, RebuildCanEnd
<1> QED
  BY <1>1, <1>4, <1>5, MeddlingKeeps

\* A split, a dividend or a reset.
LEMMA EventKeeps ==
    ASSUME EngineInv, PayDividend \/ ResetAccount \/ \E t \in Tickers : SplitHolding(t)
    PROVE  EngineInv'
<1>1. /\ TradeTypes /\ DOMAIN rebuild = DOMAIN NoRebuild
      /\ quotes' = quotes /\ policy' = policy /\ rebuild' = rebuild /\ trades' = trades
      /\ ~rebuild.on /\ events' = events + 1 /\ Meddle
  BY DEF EngineInv, EngineTypeOK, TradeTypes, PayDividend, ResetAccount, SplitHolding, Event, Unlocked
<1>2. NoTrade \in [kind : {"none", "BUY", "SELL"}, ticker : Tickers \cup {0}, part : Nat]
  BY DEF NoTrade
<1>3. cash' \in Nat /\ IsPortfolio(holdings') /\ last' \in {last, NoTrade}
  <2>1. CASE PayDividend
    <3>1. PICK amount \in Payments : cash' = cash + amount \/ (amount <= cash /\ cash' = cash - amount)
      BY <2>1 DEF PayDividend
    <3>2. holdings' = holdings /\ last' = last
      BY <2>1 DEF PayDividend
    <3>3. amount \in Nat
      BY EventsAssumption
    <3> QED
      BY <1>1, <3>1, <3>2, <3>3 DEF TradeTypes
  <2>2. CASE ResetAccount
    BY <2>2, NothingHeld, AmountsAssumption DEF ResetAccount
  <2>3. ASSUME NEW t \in Tickers, SplitHolding(t)
        PROVE  cash' \in Nat /\ IsPortfolio(holdings') /\ last' \in {last, NoTrade}
    <3> DEFINE row(a, b) == [quantity |-> RoundHalfUp(holdings[t].quantity * a, b),
                             cost |-> RoundHalfUp(holdings[t].cost * b, a)]
    <3>1. PICK ratio \in Splits : holdings' = Put(holdings, t, row(ratio.shares, ratio.for))
      BY <2>3 DEF SplitHolding
    <3>2. cash' = cash /\ last' = last /\ t \in DOMAIN holdings
      BY <2>3 DEF SplitHolding, Open
    <3>3. ratio.shares \in Nat \ {0} /\ ratio.for \in Nat \ {0}
      BY EventsAssumption
    <3>4. holdings[t].quantity \in Nat /\ holdings[t].cost \in Nat
      BY <1>1, <3>2 DEF TradeTypes, IsPortfolio, Position
    <3>5. holdings[t].quantity * ratio.shares \in Nat /\ holdings[t].cost * ratio.for \in Nat
      BY <3>3, <3>4, Products
    <3>6. /\ RoundHalfUp(holdings[t].quantity * ratio.shares, ratio.for) \in Nat
          /\ RoundHalfUp(holdings[t].cost * ratio.for, ratio.shares) \in Nat
      BY <3>3, <3>5, Rounding
    <3>7. row(ratio.shares, ratio.for) \in Position
      BY <3>6 DEF Position
    <3> HIDE DEF row
    <3>8. IsPortfolio(holdings')
      BY <1>1, <3>1, <3>7 DEF TradeTypes, IsPortfolio, Put
    <3> QED
      BY <1>1, <3>2, <3>8 DEF TradeTypes
  <2> QED
    BY <2>1, <2>2, <2>3
<1>4. TradeTypes'
  BY <1>1, <1>2, <1>3 DEF TradeTypes
<1>5. DOMAIN rebuild' = DOMAIN NoRebuild /\ RebuildCanEnd'
  BY <1>1 DEF RebuildCanEnd
<1> QED
  BY <1>1, <1>4, <1>5, MeddlingKeeps

\* The steps of a rebuild.
LEMMA RebuildKeeps ==
    ASSUME EngineInv, StartRebuild \/ BuyLeg \/ AbandonRebuild \/ EndRebuild
    PROVE  EngineInv'
<1> DEFINE Legs == [ticker : Tickers, part : PlanParts]
<1>1. CASE StartRebuild
  <2>1. PICK plan \in Plans : rebuild' = [on |-> TRUE, left |-> plan, cash |-> cash, holdings |-> holdings]
    BY <1>1 DEF StartRebuild
  <2>2. plan \in Seq(Legs)
    <3>1. PICK n \in 1..Cardinality(Tickers) : plan \in [1..n -> Legs]
      BY DEF Plans
    <3>2. n \in Nat
      BY <3>1, TickersAssumption, FS_CardinalityType
    <3> HIDE DEF Legs
    <3> QED
      BY <3>1, <3>2
  <2>3. /\ quotes' \in Quotes /\ cash' = StartingCash /\ holdings' = << >> /\ Meddle
        /\ last' = NoTrade /\ policy' = policy /\ trades' = trades /\ events' = events
    BY <1>1 DEF StartRebuild
  <2>4. TradeTypes
    BY <2>3, AccountOf
  <2>5. last' \in [kind : {"none", "BUY", "SELL"}, ticker : Tickers \cup {0}, part : Nat]
    BY <2>3 DEF NoTrade
  <2>6. TradeTypes'
    BY <2>3, <2>4, <2>5, AmountsAssumption, NothingHeld DEF TradeTypes
  <2>7. /\ rebuild'.cash = cash /\ rebuild'.holdings = holdings /\ rebuild'.left = plan
        /\ DOMAIN rebuild' = DOMAIN NoRebuild
    BY <2>1 DEF NoRebuild
  <2>8. ~pass'.alone
    <3>1. pass' = [pass EXCEPT !.alone = FALSE] /\ DOMAIN pass = DOMAIN NoPass
      BY <2>3 DEF EngineInv, Meddle
    <3> QED
      BY <3>1 DEF NoPass
  <2>9. RebuildCanEnd'
    BY <2>2, <2>4, <2>7, <2>8 DEF RebuildCanEnd, TradeTypes
  <2> QED
    BY <2>3, <2>6, <2>7, <2>9, MeddlingKeeps
<1>2. CASE BuyLeg
  <2> DEFINE leg == Head(rebuild.left)
  <2>1. /\ rebuild.on /\ rebuild.left # << >> /\ quotes' = quotes /\ BuyFor(leg.ticker, leg.part)
        /\ rebuild' = [rebuild EXCEPT !.left = Tail(@)] /\ policy' = policy /\ pass' = pass
        /\ events' = events
    BY <1>2 DEF BuyLeg
  <2>2. ~pass.alone /\ rebuild.cash \in Nat /\ IsPortfolio(rebuild.holdings) /\ rebuild.left \in Seq(Legs)
    BY <2>1 DEF EngineInv, RebuildCanEnd
  <2>3. leg \in Legs /\ Tail(rebuild.left) \in Seq(Legs)
    <3> HIDE DEF Legs
    <3> QED
      BY <2>1, <2>2
  <2>4. leg.ticker \in Tickers /\ leg.part \in Nat
    BY <2>3, SharesAssumption
  <2>5. quotes' \in Quotes
    BY <2>1 DEF EngineInv, EngineTypeOK
  <2>6. Account
    BY <2>5, AccountOf
  <2> HIDE DEF leg
  <2>7. \E R \in Int : TradeMoves(leg.ticker, R)
    BY <2>1, <2>4, <2>6, PurchaseIsRight
  <2>8. TradeTypes'
    BY <2>1, <2>4, <2>6, <2>7, TradeIsRecorded, TradeIsTyped
  <2>9. DOMAIN rebuild = DOMAIN NoRebuild /\ DOMAIN pass = DOMAIN NoPass
    BY DEF EngineInv
  <2>10. /\ DOMAIN rebuild' = DOMAIN NoRebuild
         /\ rebuild'.cash = rebuild.cash /\ rebuild'.holdings = rebuild.holdings
         /\ rebuild'.left = Tail(rebuild.left)
    BY <2>1, <2>9 DEF NoRebuild
  <2>11. RebuildCanEnd'
    BY <2>1, <2>2, <2>3, <2>10 DEF RebuildCanEnd
  <2> QED
    BY <2>1, <2>2, <2>8, <2>9, <2>10, <2>11, NotAlone
<1>3. CASE AbandonRebuild \/ EndRebuild
  <2>1. /\ rebuild.on /\ quotes' = quotes /\ rebuild' = NoRebuild /\ policy' = policy /\ pass' = pass
        /\ trades' = trades /\ events' = events
        /\ \/ cash' = rebuild.cash /\ holdings' = rebuild.holdings /\ last' = NoTrade
           \/ cash' = cash /\ holdings' = holdings /\ last' = last
    BY <1>3 DEF AbandonRebuild, EndRebuild
  <2>2. ~pass.alone /\ rebuild.cash \in Nat /\ IsPortfolio(rebuild.holdings)
    BY <2>1 DEF EngineInv, RebuildCanEnd
  <2>3. TradeTypes /\ DOMAIN pass = DOMAIN NoPass
    BY DEF EngineInv, EngineTypeOK, TradeTypes
  <2>4. NoTrade \in [kind : {"none", "BUY", "SELL"}, ticker : Tickers \cup {0}, part : Nat]
    BY DEF NoTrade
  <2>5. TradeTypes'
    BY <2>1, <2>2, <2>3, <2>4 DEF TradeTypes
  <2>6. RebuildCanEnd' /\ DOMAIN rebuild' = DOMAIN NoRebuild
    BY <2>1, NothingInProgress DEF RebuildCanEnd
  <2> QED
    BY <2>1, <2>2, <2>3, <2>5, <2>6, NotAlone
<1> QED
  BY <1>1, <1>2, <1>3

\* What a forced sale of a position may leave, after n sales.
LeftBy(n) == 2 * (n - 1) * Fee * Scale + n * (Scale + Max(Prices))

\* The value of what is held, of an account that may have nothing to hold.
LEMMA ReadTotal ==
    ASSUME NEW c \in Nat, NEW h, IsPortfolio(h), NEW m \in Quotes
    PROVE  /\ ExactTotal(c, h, m) \in Nat
           /\ \A t \in Open(h) : /\ t \in DOMAIN h /\ t \in Tickers
                                 /\ Value(h[t].quantity, m[t]) \in Nat
                                 /\ Value(h[t].quantity, m[t]) <= ExactTotal(c, h, m)
<1>1. c * Scale \in Nat
  BY ScaleAssumption, Products
<1>2. ExactTotal(c, h, m) \in Nat
  <2>1. CASE Tickers = {}
    <3>1. Open(h) = {}
      BY <2>1 DEF IsPortfolio, Open
    <3> DEFINE f == [t \in Tickers |-> IF t \in {s \in Open(h) : m[s] > 0}
                                       THEN Value(h[t].quantity, m[t]) ELSE 0]
    <3>2. f \in [Tickers -> Nat]
      BY <2>1
    <3> HIDE DEF f
    <3>3. SumFunction(f) \in Nat
      BY <3>2, SumIsNatural
    <3> QED
      BY <1>1, <3>3 DEF ExactTotal, Worth, f
  <2>2. CASE Tickers # {}
    BY <2>2, TradeMovesTotal
  <2> QED
    BY <2>1, <2>2
<1>3. ASSUME NEW t \in Open(h)
      PROVE  /\ t \in DOMAIN h /\ t \in Tickers
             /\ Value(h[t].quantity, m[t]) \in Nat
             /\ Value(h[t].quantity, m[t]) <= ExactTotal(c, h, m)
  <2>1. t \in DOMAIN h /\ t \in Tickers
    BY DEF Open, IsPortfolio
  <2>2. /\ c * Scale + QuantityOf(h, t) * m[t] <= ExactTotal(c, h, m)
        /\ h[t].quantity = QuantityOf(h, t)
        /\ QuantityOf(h, t) * m[t] \in Nat
    BY <2>1, TradeMovesTotal, Quantities
  <2> QED
    BY <1>1, <1>2, <2>1, <2>2 DEF Value
<1> QED
  BY <1>2, <1>3

\* A risk pass begins.
LEMMA PassStarts ==
    ASSUME EngineInv, StartPass
    PROVE  EngineInv'
<1> DEFINE due == {t \in Open(holdings) : quotes'[t] > 0}
<1>1. /\ ~rebuild.on /\ quotes' \in Quotes
      /\ pass' = [NoPass EXCEPT !.on = TRUE, !.seen = holdings, !.market = quotes', !.left = due,
                                !.alone = TRUE]
      /\ cash' = cash /\ holdings' = holdings /\ policy' = policy /\ last' = last
      /\ rebuild' = rebuild /\ trades' = trades /\ events' = events
  BY DEF StartPass, Unlocked
<1> HIDE DEF due
<1>2. /\ pass'.on /\ pass'.left = due /\ pass'.seen = holdings /\ pass'.market = quotes'
      /\ ~pass'.valued /\ pass'.worth = 0 /\ pass'.fees = 0 /\ pass'.kept = {}
      /\ DOMAIN pass' = DOMAIN NoPass
  BY <1>1 DEF NoPass
<1>3. TradeTypes /\ Account
  BY <1>1, AccountOf
<1>4. /\ due \subseteq Open(holdings) /\ Open(holdings) \subseteq Tickers /\ Open(holdings) \subseteq DOMAIN holdings
      /\ \A t \in Open(holdings) : quotes'[t] > 0 => t \in due
      /\ \A t \in due : quotes'[t] > 0
  BY <1>3 DEF due, Open, Account, IsPortfolio
<1>5. EngineTypeOK'
  BY <1>1, <1>2, <1>3, <1>4 DEF EngineTypeOK, TradeTypes
<1>6. \A t \in Forced' : FALSE
  BY <1>1, <1>2, <1>4 DEF Forced, Open
<1>7. LittleIsLeft'
  BY <1>6 DEF LittleIsLeft
<1>8. PassIsRead'
  BY <1>1, <1>2, <1>3, <1>4 DEF PassIsRead, Account, Open
<1>9. PassIsCurrent'
  BY <1>1, <1>2, <1>4 DEF PassIsCurrent
<1>10. DOMAIN rebuild' = DOMAIN NoRebuild /\ RebuildCanEnd'
  BY <1>1 DEF EngineInv, RebuildCanEnd
<1> QED
  BY <1>2, <1>5, <1>7, <1>8, <1>9, <1>10 DEF EngineInv

\* A risk pass reads the balance.
LEMMA PassIsValued ==
    ASSUME EngineInv, ValuePass
    PROVE  EngineInv'
<1> DEFINE total == ExactTotal(cash, pass.seen, pass.market)
<1>1. /\ pass.on /\ ~pass.valued /\ ~rebuild.on
      /\ pass' = [pass EXCEPT !.valued = TRUE, !.worth = total]
      /\ cash' = cash /\ holdings' = holdings /\ quotes' = quotes /\ policy' = policy /\ last' = last
      /\ rebuild' = rebuild /\ trades' = trades /\ events' = events
  BY DEF ValuePass, Unlocked
<1>2. /\ EngineTypeOK /\ LittleIsLeft /\ PassIsRead /\ DOMAIN pass = DOMAIN NoPass
      /\ DOMAIN rebuild = DOMAIN NoRebuild /\ RebuildCanEnd /\ (pass.alone => PassIsCurrent)
  BY <1>1 DEF EngineInv
<1> HIDE DEF total
<1>3. /\ pass'.on = pass.on /\ pass'.left = pass.left /\ pass'.seen = pass.seen
      /\ pass'.market = pass.market /\ pass'.valued /\ pass'.worth = total /\ pass'.fees = pass.fees
      /\ pass'.kept = pass.kept /\ pass'.alone = pass.alone /\ DOMAIN pass' = DOMAIN NoPass
  BY <1>1, <1>2 DEF NoPass
<1>4. EngineTypeOK'
  BY <1>1, <1>2, <1>3 DEF EngineTypeOK
<1>5. LittleIsLeft'
  BY <1>1, <1>2, <1>3 DEF LittleIsLeft, Forced
<1>6. /\ total \in Nat
      /\ \A t \in Open(pass.seen) : Value(pass.seen[t].quantity, pass.market[t]) <= total
  BY <1>2, ReadTotal DEF total, PassIsRead, EngineTypeOK
<1>7. PassIsRead'
  BY <1>2, <1>3, <1>6 DEF PassIsRead, Share
<1>8. ASSUME pass'.alone PROVE PassIsCurrent'
  <2>1. /\ holdings = pass.seen /\ pass.fees = 0
        /\ \A t \in pass.left : t \in DOMAIN holdings /\ holdings[t] = pass.seen[t]
    BY <1>1, <1>2, <1>3, <1>8 DEF PassIsCurrent
  <2>2. ExactTotal(cash', holdings', pass'.market) = total
    BY <1>1, <1>3, <2>1 DEF total
  <2>3. Lost(0) = 0
    BY OneMoreSale
  <2> QED
    BY <1>1, <1>3, <1>6, <2>1, <2>2, <2>3 DEF PassIsCurrent
<1>9. RebuildCanEnd'
  BY <1>1 DEF RebuildCanEnd
<1> QED
  BY <1>1, <1>2, <1>3, <1>4, <1>5, <1>7, <1>8, <1>9 DEF EngineInv

\* The next holding of a pass.
LEMMA NextIsLeft ==
    ASSUME EngineInv, pass.on, pass.valued, pass.left # {}
    PROVE  /\ NextDue \in pass.left /\ NextDue \in Open(pass.seen) /\ NextDue \in Tickers
           /\ pass.worth \in Nat /\ pass.fees \in Nat /\ IsPortfolio(pass.seen) /\ pass.market \in Quotes
           /\ Share(NextDue) \in Nat /\ Share(NextDue) <= pass.worth
           /\ pass.market[NextDue] \in Prices /\ pass.market[NextDue] \in Nat
           /\ pass.alone => QuantityOf(holdings, NextDue) * pass.market[NextDue] = Share(NextDue)
<1>1. EngineTypeOK /\ PassIsRead /\ (pass.alone => PassIsCurrent)
  BY DEF EngineInv
<1>2. pass.left \subseteq Tickers
  BY <1>1 DEF EngineTypeOK
<1>3. pass.left \in SUBSET Nat
  BY <1>2, TickersAssumption
<1>4. \E x \in pass.left : \A y \in pass.left : x <= y
  BY <1>3, LeastNumber
<1>5. NextDue \in pass.left
  BY <1>4 DEF NextDue, Min
<1> DEFINE t == NextDue
<1> HIDE DEF t
<1>6. t \in pass.left /\ t \in Tickers
  BY <1>2, <1>5 DEF t
<1>7. /\ t \in Open(pass.seen) /\ Share(t) <= pass.worth /\ pass.market \in Quotes
      /\ pass.worth \in Nat /\ pass.fees \in Nat /\ IsPortfolio(pass.seen)
  BY <1>1, <1>6 DEF PassIsRead
<1>8. Share(t) = QuantityOf(pass.seen, t) * pass.market[t] /\ Share(t) \in Nat /\ pass.market[t] \in Nat
  BY <1>6, <1>7, Quantities DEF Share, Value, Open
<1>9. pass.market[t] \in Prices
  BY <1>6, <1>7 DEF Quotes
<1>10. ASSUME pass.alone PROVE QuantityOf(holdings, t) * pass.market[t] = Share(t)
  <2>1. t \in DOMAIN holdings /\ holdings[t] = pass.seen[t]
    BY <1>1, <1>6, <1>10 DEF PassIsCurrent
  <2>2. QuantityOf(holdings, t) = QuantityOf(pass.seen, t)
    BY <1>7, <2>1 DEF QuantityOf, Open
  <2> QED
    BY <1>8, <2>2
<1> QED
  BY <1>6, <1>7, <1>8, <1>9, <1>10 DEF t

\* A holding is passed over, or the pass ends.
LEMMA PassGoesOn ==
    ASSUME EngineInv, PassOver \/ EndPass
    PROVE  EngineInv'
<1>1. TradeTypes /\ DOMAIN pass = DOMAIN NoPass /\ DOMAIN rebuild = DOMAIN NoRebuild
  BY DEF EngineInv, EngineTypeOK, TradeTypes
<1>2. CASE PassOver
  <2> DEFINE t == NextDue
  <2> HIDE DEF t
  <2>1. /\ pass.on /\ pass.valued /\ pass.left # {} /\ ~rebuild.on
        /\ pass' = [pass EXCEPT !.left = @ \ {t}, !.kept = @ \cup {t}]
        /\ cash' = cash /\ holdings' = holdings /\ quotes' = quotes /\ policy' = policy /\ last' = last
        /\ rebuild' = rebuild /\ trades' = trades /\ events' = events
    BY <1>2 DEF PassOver, Visit, Unlocked, t
  <2>2. t \in pass.left /\ t \in Tickers
    BY <2>1, NextIsLeft DEF t
  <2>3. /\ pass'.on = pass.on /\ pass'.left = pass.left \ {t} /\ pass'.seen = pass.seen
        /\ pass'.market = pass.market /\ pass'.valued = pass.valued
        /\ pass'.worth = pass.worth /\ pass'.fees = pass.fees /\ pass'.kept = pass.kept \cup {t}
        /\ pass'.alone = pass.alone /\ DOMAIN pass' = DOMAIN NoPass
    BY <1>1, <2>1 DEF NoPass
  <2>4. EngineTypeOK /\ LittleIsLeft /\ PassIsRead /\ (pass.alone => PassIsCurrent)
    BY <2>1 DEF EngineInv
  <2>5. EngineTypeOK'
    BY <2>1, <2>2, <2>3, <2>4 DEF EngineTypeOK
  <2>6. Forced' \subseteq Forced
    BY <2>1, <2>3 DEF Forced, Open
  <2>7. LittleIsLeft'
    BY <2>1, <2>3, <2>4, <2>6 DEF LittleIsLeft
  <2>8. PassIsRead'
    BY <2>1, <2>3, <2>4 DEF PassIsRead, Share
  <2>9. pass'.alone => PassIsCurrent'
    BY <2>1, <2>3, <2>4 DEF PassIsCurrent
  <2>10. RebuildCanEnd'
    BY <2>1 DEF RebuildCanEnd
  <2> QED
    BY <1>1, <2>1, <2>3, <2>5, <2>7, <2>8, <2>9, <2>10 DEF EngineInv
<1>3. CASE EndPass
  <2>1. /\ pass.on /\ pass' = NoPass
        /\ cash' = cash /\ holdings' = holdings /\ quotes' = quotes /\ policy' = policy /\ last' = last
        /\ rebuild' = rebuild /\ trades' = trades /\ events' = events
    BY <1>3 DEF EndPass
  <2>2. TradeTypes'
    BY <1>1, <2>1 DEF TradeTypes
  <2>3. RebuildCanEnd'
    BY <2>1, NothingInProgress DEF EngineInv, RebuildCanEnd
  <2> QED
    BY <1>1, <2>1, <2>2, <2>3, WithoutPass
<1> QED
  BY <1>2, <1>3

\* A forced sale: what it leaves, and what it lowers the worth by, whoever acted on the
\* account since the pass read it.
LEMMA ForcedSaleLeaves ==
    ASSUME EngineInv, ForcedSell
    PROVE  LET t == NextDue
               quote == pass.market[t]
               before == ExactTotal(cash, holdings, pass.market)
               after == ExactTotal(cash', holdings', pass.market)
               x == QuantityOf(holdings', t) * quote
               y == QuantityOf(holdings, t) * quote
           IN /\ Account /\ quotes' = pass.market /\ \E R \in Int : TradeMoves(t, R)
              /\ \A s \in DOMAIN holdings \ {t} : s \in DOMAIN holdings' /\ holdings'[s] = holdings[s]
              /\ before \in Nat /\ after \in Nat /\ x \in Nat /\ y \in Nat
              /\ \A b \in Nat : pass.worth <= before + b =>
                    x = 0 \/ 2 * x <= 2 * (y - Share(t)) + 2 * b + Scale + quote
              /\ 2 * before <= ((2 * after + 2 * (Fee * Scale)) + Scale) + quote
<1> DEFINE t == NextDue
           w == pass.worth
           before == ExactTotal(cash, holdings, pass.market)
           after == ExactTotal(cash', holdings', pass.market)
           total == Total(cash, holdings, pass.market)
           v == Share(t)
           quote == pass.market[t]
           x == QuantityOf(holdings', t) * quote
           y == QuantityOf(holdings, t) * quote
<1>1. /\ pass.on /\ pass.valued /\ pass.left # {} /\ quotes' = pass.market
      /\ t \in Open(holdings)
      /\ SellShares(t, quotes'[t], total, v, w, FALSE)
  BY DEF ForcedSell, Visit, SaleAccepted, Now
<1>2. /\ t \in Tickers /\ w \in Nat /\ v \in Nat /\ v <= w
      /\ quote \in Prices /\ quote \in Nat /\ pass.market \in Quotes
  BY <1>1, NextIsLeft
<1> HIDE DEF t
<1>3. Account
  BY <1>1, <1>2, AccountOf
<1>4. total \in Nat /\ before \in Nat
  BY <1>2, <1>3, TotalIsNatural
<1>5. 2 * before < 2 * (total * Scale) + Scale
  BY <1>4, ScaleAssumption, Rounding DEF Total
<1> HIDE DEF v, w, total
<1>6. /\ w # 0
      /\ \E r \in Nat : TradeMoves(t, r)
      /\ \A s \in DOMAIN holdings \ {t} : s \in DOMAIN holdings' /\ holdings'[s] = holdings[s]
      /\ \/ QuantityOf(holdings', t) = 0
         \/ 2 * (w * x) <= 2 * (w * y) - 2 * Target(total, v) + w * quote
  BY <1>1, <1>2, <1>3, <1>4, SaleIsRight
<1>7. /\ after \in Nat
      /\ -(Scale + quote) <= 2 * ((after - before) + Fee * Scale)
  BY <1>1, <1>2, <1>3, <1>6, TradeCosts
<1>8. x \in Nat /\ y \in Nat /\ (QuantityOf(holdings', t) = 0 => x = 0)
  <2>1. QuantityOf(holdings', t) \in Nat /\ QuantityOf(holdings, t) \in Nat
    BY <1>2, <1>3, <1>6, Quantities DEF TradeMoves, Account
  <2>2. QuantityOf(holdings', t) * quote \in Nat /\ QuantityOf(holdings, t) * quote \in Nat
    BY <1>2, <2>1, Products
  <2>3. QuantityOf(holdings', t) = 0 => QuantityOf(holdings', t) * quote = 0
    BY <1>2
  <2> QED
    BY <2>2, <2>3
<1> HIDE DEF x, y, quote, before, after
<1>9. Scale \in Nat /\ Fee * Scale \in Nat
  BY ScaleAssumption, AmountsAssumption, Products
<1>10. ASSUME NEW b \in Nat, w <= before + b
       PROVE  x = 0 \/ 2 * x <= 2 * (y - v) + 2 * b + Scale + quote
  <2>1. CASE QuantityOf(holdings', t) = 0
    BY <1>8, <2>1
  <2>2. CASE QuantityOf(holdings', t) # 0
    <3> DEFINE s == total * Scale
               k == 2 * b + Scale
               z == x - (y - v)
    <3>1. s \in Nat /\ Target(total, v) = s * v
      BY <1>2, <1>4, <1>9, Products DEF Target
    <3>2. k \in Nat /\ z \in Int
      BY <1>2, <1>8, <1>9
    <3>3. 2 * w <= 2 * s + k
      <4>1. 2 * before < 2 * s + Scale
        BY <1>5
      <4> HIDE DEF s
      <4> QED
        BY <1>2, <1>4, <1>9, <1>10, <3>1, <4>1
    <3>4. 2 * (w * z) <= 2 * (w * v) - 2 * (s * v) + w * quote
      <4>1. 2 * (w * x) <= 2 * (w * y) - 2 * (s * v) + w * quote
        BY <1>6, <2>2, <3>1
      <4>2. w * z = (w * x - w * y) + w * v /\ w * x \in Int /\ w * y \in Int /\ w * v \in Int /\ w * quote \in Int
        BY <1>2, <1>8
      <4>3. s * v \in Int
        <5> HIDE DEF s
        <5> QED
          BY <1>2, <3>1
      <4> HIDE DEF s, z
      <4> QED
        BY <4>1, <4>2, <4>3
    <3> HIDE DEF s, k, z
    <3>5. 2 * z <= k + quote
      BY <1>2, <1>6, <3>1, <3>2, <3>3, <3>4, LeftOver
    <3> QED
      BY <1>2, <1>8, <1>9, <3>2, <3>5 DEF k, z
  <2> QED
    BY <2>1, <2>2
<1>11. 2 * before <= ((2 * after + 2 * (Fee * Scale)) + Scale) + quote
  BY <1>2, <1>4, <1>7, <1>9
<1> QED
  BY <1>1, <1>3, <1>4, <1>6, <1>7, <1>8, <1>10, <1>11 DEF t, v, w, x, y, quote, before, after

\* A forced sale of a pass that is alone with the account.
LEMMA LoneSaleLeaves ==
    ASSUME EngineInv, ForcedSell, pass.alone
    PROVE  LET t == NextDue IN
           /\ 2 * (QuantityOf(holdings', t) * pass.market[t]) <= LeftBy(pass.fees + 1)
           /\ 2 * pass.worth <= 2 * ExactTotal(cash', holdings', pass.market) + Lost(pass.fees + 1)
<1> DEFINE t == NextDue
           n == pass.fees
           w == pass.worth
           before == ExactTotal(cash, holdings, pass.market)
           after == ExactTotal(cash', holdings', pass.market)
           v == Share(t)
           quote == pass.market[t]
           x == QuantityOf(holdings', t) * quote
           y == QuantityOf(holdings, t) * quote
           m == Max(Prices)
           b == IF w <= before THEN 0 ELSE w - before
<1>1. pass.on /\ pass.valued /\ pass.left # {}
  BY DEF ForcedSell, Visit
<1>2. /\ w \in Nat /\ n \in Nat /\ v \in Nat /\ quote \in Prices /\ quote \in Nat /\ y = v
  BY <1>1, NextIsLeft
<1>3. 2 * w <= 2 * before + Lost(n)
  BY <1>1 DEF EngineInv, PassIsCurrent
<1>4. /\ before \in Nat /\ after \in Nat /\ x \in Nat /\ y \in Nat
      /\ \A c \in Nat : w <= before + c => x = 0 \/ 2 * x <= 2 * (y - v) + 2 * c + Scale + quote
      /\ 2 * before <= ((2 * after + 2 * (Fee * Scale)) + Scale) + quote
  BY ForcedSaleLeaves
<1>5. /\ m \in Nat /\ quote <= m /\ Lost(n) \in Nat
      /\ Lost(n + 1) = ((Lost(n) + 2 * (Fee * Scale)) + Scale) + m
      /\ LeftBy(n + 1) = (Lost(n) + Scale) + m
  BY <1>2, OneMoreSale DEF LeftBy
<1> HIDE DEF t, n, w, before, after, v, quote, x, y, m
<1>6. Scale \in Nat /\ Fee * Scale \in Nat
  BY ScaleAssumption, AmountsAssumption, Products
<1>7. b \in Nat /\ w <= before + b /\ 2 * b <= Lost(n)
  BY <1>2, <1>3, <1>4, <1>5
<1>8. 2 * x <= LeftBy(n + 1)
  <2>1. x = 0 \/ 2 * x <= 2 * (y - v) + 2 * b + Scale + quote
    BY <1>4, <1>7
  <2> HIDE DEF b
  <2> QED
    BY <1>2, <1>4, <1>5, <1>6, <1>7, <2>1
<1>9. 2 * w <= 2 * after + Lost(n + 1)
  BY <1>2, <1>3, <1>4, <1>5, <1>6
<1> QED
  BY <1>8, <1>9 DEF t, n, w, x, quote, after

\* A forced sale keeps the invariant.
LEMMA ForcedSellKeeps ==
    ASSUME EngineInv, ForcedSell
    PROVE  EngineInv'
<1> DEFINE t == NextDue
<1>1. /\ pass.on /\ pass.valued /\ pass.left # {} /\ ~rebuild.on
      /\ policy' = policy /\ rebuild' = rebuild /\ events' = events
      /\ pass' = [pass EXCEPT !.left = @ \ {t}, !.fees = @ + 1]
      /\ \E total, d : SellShares(t, pass.market[t], total, Share(t), d, FALSE)
  BY DEF ForcedSell, Visit, Unlocked
<1>2. /\ Account /\ quotes' = pass.market /\ \E R \in Int : TradeMoves(t, R)
      /\ \A s \in DOMAIN holdings \ {t} : s \in DOMAIN holdings' /\ holdings'[s] = holdings[s]
  BY ForcedSaleLeaves
<1>3. pass.alone =>
      /\ 2 * (QuantityOf(holdings', t) * pass.market[t]) <= LeftBy(pass.fees + 1)
      /\ 2 * pass.worth <= 2 * ExactTotal(cash', holdings', pass.market) + Lost(pass.fees + 1)
  BY LoneSaleLeaves
<1>4. /\ t \in pass.left /\ t \in Tickers
      /\ pass.worth \in Nat /\ pass.fees \in Nat /\ IsPortfolio(pass.seen) /\ Share(t) \in Nat
  BY <1>1, NextIsLeft
<1> HIDE DEF t
<1>5. /\ EngineTypeOK /\ LittleIsLeft /\ PassIsRead /\ (pass.alone => PassIsCurrent)
      /\ DOMAIN pass = DOMAIN NoPass /\ DOMAIN rebuild = DOMAIN NoRebuild
  BY <1>1 DEF EngineInv
<1>6. /\ pass'.on = pass.on /\ pass'.left = pass.left \ {t} /\ pass'.seen = pass.seen
      /\ pass'.market = pass.market /\ pass'.valued = pass.valued /\ pass'.worth = pass.worth
      /\ pass'.fees = pass.fees + 1 /\ pass'.kept = pass.kept /\ pass'.alone = pass.alone
      /\ DOMAIN pass' = DOMAIN NoPass
  BY <1>1, <1>5 DEF NoPass
<1>7. TradeTypes'
  BY <1>1, <1>2, <1>4, TradeIsRecorded, TradeIsTyped
<1>8. EngineTypeOK'
  BY <1>5, <1>6, <1>7 DEF EngineTypeOK, TradeTypes
<1>9. LittleIsLeft'
  <2> SUFFICES ASSUME pass.alone, NEW s \in Forced'
               PROVE  2 * (QuantityOf(holdings', s) * pass.market[s]) <= LeftBy(pass.fees + 1)
    BY <1>1, <1>6 DEF LittleIsLeft, LeftBy, Value
  <2>1. s \in Tickers /\ (s = t \/ s \in Forced)
    BY <1>1, <1>4, <1>6 DEF Forced, IsPortfolio, Open
  <2>2. CASE s = t
    BY <1>3, <2>2
  <2>3. CASE s # t
    <3>1. s \in Forced
      BY <2>1, <2>3
    <3>2. 2 * (QuantityOf(holdings, s) * pass.market[s]) <= LeftBy(pass.fees)
      BY <1>1, <1>5, <3>1 DEF LittleIsLeft, LeftBy, Value
    <3>3. QuantityOf(holdings', s) = QuantityOf(holdings, s)
      BY <1>2, <2>1, <2>3 DEF TradeMoves
    <3>4. LeftBy(pass.fees) <= LeftBy(pass.fees + 1) /\ LeftBy(pass.fees) \in Int
          /\ LeftBy(pass.fees + 1) \in Int
      <4>1. LeftBy(pass.fees + 1) \in Int
        <5>1. pass.fees + 1 \in Nat
          BY <1>4
        <5> QED
          BY <5>1, OneMoreSale DEF LeftBy
      <4> QED
        BY <1>4, <4>1, OneMoreSale DEF LeftBy
    <3>5. 2 * (QuantityOf(holdings, s) * pass.market[s]) \in Int
      <4>1. IsPortfolio(holdings) /\ pass.market \in Quotes
        BY <1>5 DEF EngineTypeOK, PassIsRead
      <4>2. QuantityOf(holdings, s) * pass.market[s] \in Nat
        BY <2>1, <4>1, Quantities
      <4> QED
        BY <4>2
    <3> QED
      BY <3>2, <3>3, <3>4, <3>5
  <2> QED
    BY <2>2, <2>3
<1>10. PassIsRead'
  BY <1>4, <1>5, <1>6 DEF PassIsRead, Share
<1>11. ASSUME pass'.alone PROVE PassIsCurrent'
  <2>1. pass.alone /\ \A s \in pass.left : s \in DOMAIN holdings /\ holdings[s] = pass.seen[s]
    BY <1>5, <1>6, <1>11 DEF PassIsCurrent
  <2>2. \A s \in pass'.left : s \in DOMAIN holdings' /\ holdings'[s] = pass'.seen[s]
    BY <1>2, <1>6, <2>1
  <2>3. 2 * pass'.worth <= 2 * ExactTotal(cash', holdings', pass'.market) + Lost(pass'.fees)
    BY <1>3, <1>6, <2>1
  <2> QED
    BY <1>1, <1>6, <2>2, <2>3 DEF PassIsCurrent
<1>12. RebuildCanEnd' /\ DOMAIN rebuild' = DOMAIN NoRebuild
  BY <1>1, <1>5 DEF RebuildCanEnd
<1> QED
  BY <1>1, <1>6, <1>8, <1>9, <1>10, <1>11, <1>12 DEF EngineInv

\* Nothing of the account changes.
LEMMA EngineRests ==
    ASSUME EngineInv, UNCHANGED engineVars
    PROVE  EngineInv'
<1>1. /\ cash' = cash /\ holdings' = holdings /\ quotes' = quotes /\ policy' = policy /\ last' = last
      /\ pass' = pass /\ rebuild' = rebuild /\ trades' = trades /\ events' = events
  BY DEF engineVars
<1>2. EngineTypeOK' = EngineTypeOK
  BY <1>1 DEF EngineTypeOK
<1>3. LittleIsLeft'
  BY <1>1 DEF EngineInv, LittleIsLeft, Forced, Open
<1>4. (pass'.on => PassIsRead') /\ (pass'.on /\ pass'.alone => PassIsCurrent') /\ RebuildCanEnd'
  BY <1>1 DEF EngineInv, PassIsRead, PassIsCurrent, RebuildCanEnd, Share
<1> QED
  BY <1>1, <1>2, <1>3, <1>4 DEF EngineInv

\* The invariant is inductive.
LEMMA EngineStep ==
    EngineInv /\ [EngineNext]_engineVars => EngineInv'
<1> SUFFICES ASSUME EngineInv, [EngineNext]_engineVars PROVE EngineInv'
  OBVIOUS
<1>1. ASSUME NEW t \in Tickers, NEW part \in Allocations, Buy(t, part) PROVE EngineInv'
  BY <1>1, BuyKeeps
<1>2. ASSUME NEW t \in Tickers, NEW part \in Allocations, Sell(t, part) PROVE EngineInv'
  BY <1>2, SellKeeps
<1>3. CASE PayDividend \/ ResetAccount \/ \E t \in Tickers : SplitHolding(t)
  BY <1>3, EventKeeps
<1>4. CASE StartPass
  BY <1>4, PassStarts
<1>5. CASE ValuePass
  BY <1>5, PassIsValued
<1>6. CASE ForcedSell
  BY <1>6, ForcedSellKeeps
<1>7. CASE PassOver \/ EndPass
  BY <1>7, PassGoesOn
<1>8. CASE StartRebuild \/ BuyLeg \/ AbandonRebuild \/ EndRebuild
  BY <1>8, RebuildKeeps
<1>9. CASE EngineFinished \/ UNCHANGED engineVars
  BY <1>9, EngineRests DEF EngineFinished
<1> QED
  BY <1>1, <1>2, <1>3, <1>4, <1>5, <1>6, <1>7, <1>8, <1>9 DEF EngineNext

\* The invariant of an account that trades holds, and what it was strengthened for.
THEOREM EngineInductive == EngineSpec => []EngineInv
<1> QED
  BY EngineStart, EngineStep, PTL DEF EngineSpec

\* A step that counts a forced sale is one, and leaves little.
LEMMA SaleLeavesLittle ==
    ASSUME EngineInv, [EngineNext]_engineVars, IsForcedSale
    PROVE  LeavesLittle
<1>1. DOMAIN pass = DOMAIN NoPass /\ pass.on /\ pass'.on /\ pass'.fees # pass.fees
  BY DEF EngineInv, IsForcedSale
<1>2. ASSUME Meddle PROVE FALSE
  <2>1. pass' = [pass EXCEPT !.alone = FALSE]
    BY <1>2 DEF Meddle
  <2>2. pass'.fees = pass.fees
    BY <1>1, <2>1 DEF NoPass
  <2> QED
    BY <1>1, <2>2
<1>3. ASSUME ValuePass \/ PassOver PROVE FALSE
  <2>1. \/ \E worth : pass' = [pass EXCEPT !.valued = TRUE, !.worth = worth]
        \/ \E left, kept : pass' = [pass EXCEPT !.left = left, !.kept = kept]
    BY <1>3 DEF ValuePass, PassOver
  <2>2. pass'.fees = pass.fees
    BY <1>1, <2>1 DEF NoPass
  <2> QED
    BY <1>1, <2>2
<1>4. ASSUME pass' = pass \/ StartPass \/ EndPass PROVE FALSE
  BY <1>1, <1>4, NothingInProgress DEF StartPass, EndPass
<1>5. ASSUME EngineNext \/ UNCHANGED engineVars, ~ForcedSell PROVE FALSE
  BY <1>2, <1>3, <1>4, <1>5 DEF EngineNext, Buy, Sell, SplitHolding, PayDividend, ResetAccount, StartRebuild,
     BuyLeg, AbandonRebuild, EndRebuild, EngineFinished, engineVars
<1>6. ForcedSell
  BY <1>5
<1> DEFINE t == NextDue
           quote == pass.market[t]
           before == ExactTotal(cash, holdings, pass.market)
           x == QuantityOf(holdings', t) * quote
           y == QuantityOf(holdings, t) * quote
           w == pass.worth
           b == Max({0, w - before})
<1>7. w \in Nat /\ quote \in Nat /\ Share(t) \in Nat
  BY <1>6, NextIsLeft DEF ForcedSell, Visit
<1>8. /\ before \in Nat /\ x \in Nat /\ y \in Nat
      /\ \A c \in Nat : w <= before + c => x = 0 \/ 2 * x <= 2 * (y - Share(t)) + 2 * c + Scale + quote
  BY <1>6, ForcedSaleLeaves
<1> HIDE DEF t, quote, before, x, y, w
<1>9. b \in Nat /\ w <= before + b
  <2> DEFINE k == w - before
             S == {0, k}
  <2>1. k \in Int
    BY <1>7, <1>8
  <2> HIDE DEF k
  <2>2. \E g \in S : \A h \in S : g >= h
    <3>1. CASE k >= 0
      BY <2>1, <3>1
    <3>2. CASE ~(k >= 0)
      BY <2>1, <3>2
    <3> QED
      BY <3>1, <3>2
  <2>3. Max(S) \in S /\ \A h \in S : Max(S) >= h
    BY <2>2 DEF Max
  <2>4. Max(S) \in Nat /\ Max(S) >= k
    BY <2>1, <2>3
  <2>5. b = Max(S)
    BY DEF k
  <2> HIDE DEF S, b
  <2> QED
    BY <1>7, <1>8, <2>4, <2>5 DEF k
<1> HIDE DEF b
<1>10. x = 0 \/ 2 * x <= 2 * (y - Share(t)) + 2 * b + Scale + quote
  BY <1>8, <1>9
<1> QED
  BY <1>10 DEF LeavesLittle, Value, t, quote, before, x, y, w, b

-----------------------------------------------------------------------------
(* What follows from it *)

\* A step that counts as a trade is a purchase or a sale.
LEMMA TradedIsTrade ==
    ASSUME EngineInv, [EngineNext]_engineVars, Traded
    PROVE  /\ Account
           /\ \/ \E t \in Tickers, part \in Nat : BuyFor(t, part)
              \/ \E t \in Open(holdings), total \in Nat, n \in Nat, d \in Nat, exact \in BOOLEAN :
                    SellShares(t, quotes'[t], total, n, d, exact)
<1> DEFINE Goal == /\ Account
                   /\ \/ \E t \in Tickers, part \in Nat : BuyFor(t, part)
                      \/ \E t \in Open(holdings), total \in Nat, n \in Nat, d \in Nat, exact \in BOOLEAN :
                            SellShares(t, quotes'[t], total, n, d, exact)
<1>0. quotes \in Quotes
  BY DEF EngineInv, EngineTypeOK
<1>1. ASSUME NEW t \in Tickers, NEW part \in Allocations, Buy(t, part) PROVE Goal
  <2>1. quotes' \in Quotes /\ BuyFor(t, part) /\ part \in Nat
    BY <1>1, SharesAssumption DEF Buy
  <2> QED
    BY <2>1, AccountOf
<1>2. ASSUME NEW t \in Tickers, NEW part \in Allocations, Sell(t, part) PROVE Goal
  <2>1. /\ quotes' \in Quotes /\ t \in Open(holdings) /\ part \in Nat /\ Ratio \in Nat
        /\ SellShares(t, quotes'[t], Total(cash, holdings, quotes'), part, Ratio, policy # NoPolicy)
    BY <1>2, SharesAssumption, AmountsAssumption DEF Sell
  <2>2. Account
    BY <2>1, AccountOf
  <2>3. Total(cash, holdings, quotes') \in Nat
    BY <2>1, <2>2, TotalIsNatural
  <2>4. (policy # NoPolicy) \in BOOLEAN
    OBVIOUS
  <2> QED
    BY <2>1, <2>2, <2>3, <2>4
<1>3. ASSUME ForcedSell PROVE Goal
  <2>1. /\ pass.on /\ pass.valued /\ pass.left # {} /\ quotes' = pass.market
        /\ NextDue \in Open(holdings)
        /\ SellShares(NextDue, quotes'[NextDue], Total(cash, holdings, pass.market),
                      Share(NextDue), pass.worth, FALSE)
    BY <1>3 DEF ForcedSell, Visit, SaleAccepted, Now
  <2>2. NextDue \in Tickers /\ Share(NextDue) \in Nat /\ pass.worth \in Nat /\ pass.market \in Quotes
    BY <2>1, NextIsLeft
  <2>3. Account
    BY <2>1, <2>2, AccountOf
  <2>4. Total(cash, holdings, pass.market) \in Nat
    BY <2>2, <2>3, TotalIsNatural
  <2> QED
    BY <2>1, <2>2, <2>3, <2>4
<1>4. ASSUME BuyLeg PROVE Goal
  <2> DEFINE leg == Head(rebuild.left)
             Legs == [ticker : Tickers, part : PlanParts]
  <2>1. rebuild.on /\ rebuild.left # << >> /\ quotes' = quotes /\ BuyFor(leg.ticker, leg.part)
    BY <1>4 DEF BuyLeg
  <2>2. rebuild.left \in Seq(Legs)
    BY <2>1 DEF EngineInv, RebuildCanEnd
  <2>3. leg \in Legs
    <3> HIDE DEF Legs
    <3> QED
      BY <2>1, <2>2
  <2>4. leg.ticker \in Tickers /\ leg.part \in Nat
    BY <2>3, SharesAssumption
  <2> HIDE DEF leg
  <2> QED
    BY <1>0, <2>1, <2>4, AccountOf
<1>5. ASSUME \/ StartPass \/ ValuePass \/ PassOver \/ EndPass
             \/ StartRebuild \/ AbandonRebuild \/ EndRebuild
             \/ PayDividend \/ ResetAccount \/ \E t \in Tickers : SplitHolding(t)
             \/ EngineFinished \/ UNCHANGED engineVars
      PROVE  Goal
  <2>1. trades' = trades
    BY <1>5 DEF StartPass, ValuePass, PassOver, EndPass, StartRebuild, AbandonRebuild, EndRebuild,
                PayDividend, ResetAccount, SplitHolding, EngineFinished, engineVars
  <2> QED
    BY <2>1 DEF Traded
<1> HIDE DEF Goal
<1>6. Goal
  BY <1>1, <1>2, <1>3, <1>4, <1>5 DEF EngineNext
<1> QED
  BY <1>6 DEF Goal

\* Every trade is accounted for.
LEMMA TradeIsAccounted ==
    ASSUME EngineInv, [EngineNext]_engineVars, Traded
    PROVE  MoneyIsKept /\ (last'.kind = "BUY" => CostIsBetween(last'.ticker))
<1>1. Account
  BY TradedIsTrade
<1>2. ASSUME NEW t \in Tickers, NEW part \in Nat, BuyFor(t, part)
      PROVE  /\ last'.ticker = t /\ \E R \in Int : TradeMoves(t, R)
             /\ CostIsBetween(t)
  <2>1. last'.ticker = t
    BY <1>2, TradeIsRecorded
  <2>2. /\ \E R \in Int : TradeMoves(t, R)
        /\ CostIsBetween(t)
    BY <1>1, <1>2, PurchaseIsRight
  <2> QED
    BY <2>1, <2>2
<1>3. ASSUME NEW t \in Open(holdings), NEW total \in Nat, NEW n \in Nat, NEW d \in Nat, NEW exact \in BOOLEAN,
             SellShares(t, quotes'[t], total, n, d, exact)
      PROVE  t \in Tickers /\ last'.ticker = t /\ last'.kind = "SELL" /\ \E R \in Int : TradeMoves(t, R)
  <2>1. last'.ticker = t /\ last'.kind = "SELL"
    BY <1>3 DEF SellShares, Record
  <2>2. t \in Tickers /\ \E r \in Nat : TradeMoves(t, r)
    BY <1>1, <1>3, SaleIsRight
  <2> QED
    BY <2>1, <2>2
<1>4. /\ last'.ticker \in Tickers /\ \E R \in Int : TradeMoves(last'.ticker, R)
      /\ last'.kind = "BUY" => CostIsBetween(last'.ticker)
  <2>1. CASE \E t \in Tickers, part \in Nat : BuyFor(t, part)
    BY <1>2, <2>1
  <2>2. CASE \E t \in Open(holdings), total \in Nat, n \in Nat, d \in Nat, exact \in BOOLEAN :
                SellShares(t, quotes'[t], total, n, d, exact)
    BY <1>3, <2>2
  <2> QED
    BY <2>1, <2>2, TradedIsTrade
<1>5. MoneyIsKept
  BY <1>1, <1>4, TradeCosts DEF MoneyIsKept
<1> QED
  BY <1>4, <1>5

\* Every purchase stays within the limits in force.
LEMMA PurchaseStaysWithin ==
    ASSUME Account, NEW t \in Tickers, NEW part \in Nat, BuyFor(t, part)
    PROVE  LET total == Total(cash, holdings, quotes')
               slack == Ratio * quotes'[t]
               worth == Value(holdings'[t].quantity, quotes'[t])
               bought == worth - Value(QuantityOf(holdings, t), quotes'[t])
           IN  /\ 2 * Ratio * bought <= 2 * Parts(total, part) + slack
               /\ ~Unbound => 2 * Ratio * worth <= 2 * Parts(total, PositionCap) + slack
               /\ Bound =>
                     /\ 2 * Whole(cash') + Whole(1) >= 2 * Parts(total, InForce.reserve)
                     /\ SectorOf[t] # Unclassified =>
                           2 * SectorWorth(holdings', t, quotes')
                              <= 2 * Parts(total, InForce.sector) + slack
<1> DEFINE total == Total(cash, holdings, quotes')
           quote == quotes'[t]
           old == QuantityOf(holdings, t) * quote
           new == QuantityOf(holdings', t) * quote
           asked == Parts(total, part)
           cap == Parts(total, PositionCap)
           reserve == Parts(total, InForce.reserve)
           sector == Parts(total, InForce.sector)
<1>1. /\ quote \in Nat \ {0} /\ t \in DOMAIN holdings' /\ total # 0
      /\ Bound => PolicyAllows(t, total, part)
      /\ \E amount \in Nat \ {0}, r \in Nat :
            /\ TradeMoves(t, -r)
            /\ amount <= asked
            /\ ~Unbound => amount + Ratio * old <= cap
            /\ Bound => amount + reserve <= Whole(cash - Fee)
            /\ Rounded(Ratio, Scale, quote, QuantityOf(holdings, t), amount, QuantityOf(holdings', t), r)
  BY PurchaseIsRight
<1>2. PICK amount \in Nat \ {0}, r \in Nat :
            /\ TradeMoves(t, -r)
            /\ amount <= asked
            /\ ~Unbound => amount + Ratio * old <= cap
            /\ Bound => amount + reserve <= Whole(cash - Fee)
            /\ Rounded(Ratio, Scale, quote, QuantityOf(holdings, t), amount, QuantityOf(holdings', t), r)
  BY <1>1
<1>3. holdings'[t].quantity = QuantityOf(holdings', t)
  BY <1>1 DEF QuantityOf
<1>4. total \in Nat
  BY TotalIsNatural DEF Account
<1>5. PositionCap \in Nat /\ (Bound => InForce.reserve \in Nat /\ InForce.sector \in Nat)
  BY LimitsInForce
<1> HIDE DEF total
<1>6. asked \in Nat /\ cap \in Nat /\ (Bound => reserve \in Nat /\ sector \in Nat)
  <2>1. ASSUME NEW y \in Nat PROVE Parts(total, y) \in Nat
    <3>1. total \in Int /\ y \in Int
      BY <1>4
    <3> QED
      BY <1>4, <3>1, PartsOfTotal
  <2> QED
    BY <1>5, <2>1
<1>7. /\ Ratio \in Nat \ {0} /\ Scale \in Nat \ {0} /\ Fee \in Nat /\ cash \in Nat /\ cash' \in Nat
      /\ cash' = (cash + (-r)) - Fee
  BY <1>2, AmountsAssumption, ScaleAssumption DEF Account, TradeMoves
<1>8. old \in Nat /\ new \in Nat
  <2>1. IsPortfolio(holdings) /\ IsPortfolio(holdings') /\ quotes' \in Quotes
    BY <1>2 DEF Account, TradeMoves
  <2> QED
    BY <2>1, Quantities
<1>9. /\ SectorWorth(holdings, t, quotes') \in Nat
      /\ SectorWorth(holdings', t, quotes') = SectorWorth(holdings, t, quotes') + (new - old) * Ratio
  <2>1. -r \in Int
    OBVIOUS
  <2> QED
    BY <1>2, <2>1, TradeCosts
<1>10. /\ 2 * (Ratio * new) <= 2 * (Ratio * old) + 2 * amount + Ratio * quote
       /\ 2 * (Ratio * (r * Scale)) <= 2 * amount + Ratio * Scale
  BY <1>2 DEF Rounded
<1> DEFINE slack == Ratio * quote
           rn == Ratio * new
           ro == Ratio * old
<1>11. slack \in Nat /\ rn \in Nat /\ ro \in Nat
  BY <1>1, <1>7, <1>8, Products
<1>12. /\ 2 * Ratio * (new - old) = 2 * rn - 2 * ro /\ 2 * Ratio * new = 2 * rn
       /\ (new - old) * Ratio = rn - ro
  <2> HIDE DEF new, old
  <2> QED
    BY <1>7, <1>8
<1>13. ASSUME Bound, SectorOf[t] # Unclassified
       PROVE  SectorWorth(holdings, t, quotes') + asked <= sector
  BY <1>1, <1>13 DEF PolicyAllows
<1>14. ASSUME Bound PROVE 2 * Whole(cash') + Whole(1) >= 2 * reserve
  <2> DEFINE q == Ratio * (r * Scale)
             f == Whole(cash - Fee)
  <2>1. /\ q \in Nat /\ f \in Int /\ Whole(cash') = f - q /\ Whole(1) = Ratio * Scale /\ Ratio * Scale \in Nat
    <3>1. \A y \in Int : (y * Ratio) * Scale \in Int /\ (y * Ratio) * Scale = Ratio * (y * Scale)
      BY <1>7
    <3>2. r * Scale \in Nat /\ Ratio * Scale \in Nat
      BY <1>7, Products
    <3>3. q \in Nat
      BY <1>7, <3>2, Products
    <3>4. cash - Fee \in Int /\ cash' = (cash - Fee) - r
      BY <1>7
    <3>5. ASSUME NEW y \in Int PROVE Ratio * ((y - r) * Scale) = Ratio * (y * Scale) - q
      <4>1. (y - r) * Scale = y * Scale - r * Scale
        BY <1>7
      <4>2. y * Scale \in Int
        BY <1>7
      <4>3. \A a, b \in Int : Ratio * (a - b) = Ratio * a - Ratio * b
        BY <1>7
      <4> QED
        BY <3>2, <4>1, <4>2, <4>3
    <3>6. Whole(cash') = Ratio * (((cash - Fee) - r) * Scale) /\ f = Ratio * ((cash - Fee) * Scale) /\ f \in Int
      BY <1>7, <3>1, <3>4 DEF Whole, Parts
    <3>7. Whole(1) = Ratio * Scale
      BY <1>7 DEF Whole, Parts
    <3> QED
      BY <3>2, <3>3, <3>4, <3>5, <3>6, <3>7
  <2>2. amount + reserve <= f /\ 2 * q <= 2 * amount + Ratio * Scale
    BY <1>2, <1>10, <1>14
  <2> HIDE DEF q, f, reserve
  <2> QED
    BY <1>6, <1>14, <2>1, <2>2
<1> HIDE DEF new, old, asked, cap, reserve, sector, quote
<1>15. /\ 2 * rn <= 2 * ro + 2 * amount + slack /\ amount <= asked
       /\ ~Unbound => amount + ro <= cap
  BY <1>2, <1>10
<1> DEFINE sw == SectorWorth(holdings, t, quotes')
           sn == SectorWorth(holdings', t, quotes')
<1>16. /\ sw \in Nat /\ sn = sw + (rn - ro)
       /\ Bound /\ SectorOf[t] # Unclassified => sw + asked <= sector
  BY <1>9, <1>12, <1>13
<1> HIDE DEF slack, rn, ro, sw, sn
<1>17. /\ 2 * rn - 2 * ro <= 2 * asked + slack
       /\ ~Unbound => 2 * rn <= 2 * cap + slack
       /\ Bound /\ SectorOf[t] # Unclassified => 2 * sn <= 2 * sector + slack
  BY <1>6, <1>11, <1>15, <1>16
<1>18. /\ 2 * Ratio * (new - old) <= 2 * asked + slack
       /\ ~Unbound => 2 * Ratio * new <= 2 * cap + slack
  BY <1>12, <1>17
<1> QED
  BY <1>3, <1>14, <1>17, <1>18 DEF Value, new, old, quote, slack, sn, asked, cap, reserve, sector, total

\* Purchases stay within the limits in force, whatever was asked for.
LEMMA BuyStaysWithin ==
    ASSUME EngineInv, [EngineNext]_engineVars, Traded, last'.kind = "BUY"
    PROVE  WithinLimits
<1>1. Account
  BY TradedIsTrade
<1>2. ASSUME NEW t \in Open(holdings), NEW total \in Nat, NEW n \in Nat, NEW d \in Nat, NEW exact \in BOOLEAN,
             SellShares(t, quotes'[t], total, n, d, exact)
      PROVE  FALSE
  BY <1>2 DEF SellShares, Record
<1>3. PICK t \in Tickers, part \in Nat : BuyFor(t, part)
  BY <1>2, TradedIsTrade
<1>4. last'.ticker = t /\ last'.part = part
  BY <1>3, TradeIsRecorded
<1> QED
  BY <1>1, <1>3, <1>4, PurchaseStaysWithin DEF WithinLimits

\* A risk pass leaves of a position no more than what happened since it read the account
\* accounts for: its own sales, and trades, rebuilds, splits, dividends and resets by others.
THEOREM ForcedSalesLittle == EngineSpec => ForcedSalesLeaveLittle
<1>1. EngineInv => EngineTypeOK /\ LittleIsLeft
  BY DEF EngineInv
<1>2. EngineInv /\ [EngineNext]_engineVars => [IsForcedSale => LeavesLittle]_engineVars
  BY SaleLeavesLittle
<1> QED
  BY <1>1, <1>2, EngineInductive, PTL DEF EngineSpec, ForcedSalesLeaveLittle

\* No trade makes or loses money.
THEOREM TradesAccounted == EngineSpec => TradesAreAccounted
<1>1. EngineInv /\ [EngineNext]_engineVars =>
        [Traded => MoneyIsKept /\ (last'.kind = "BUY" => CostIsBetween(last'.ticker))]_engineVars
  BY TradeIsAccounted
<1> QED
  BY <1>1, EngineInductive, PTL DEF EngineSpec, TradesAreAccounted

\* No sequence of purchases gets around the limits.
THEOREM BuysWithinPolicy == EngineSpec => BuysStayWithinPolicy
<1>1. EngineInv /\ [EngineNext]_engineVars =>
        [Traded /\ last'.kind = "BUY" => WithinLimits]_engineVars
  BY BuyStaysWithin
<1> QED
  BY <1>1, EngineInductive, PTL DEF EngineSpec, BuysStayWithinPolicy
=============================================================================
