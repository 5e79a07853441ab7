------------------------------ MODULE Trading ------------------------------
(***************************************************************************)
(* Concurrent operations on the portfolio ledger.                          *)
(*                                                                         *)
(*   Clients     threads that place orders under a client order identifier *)
(*               (Trading.execute for people, Trading.execute_decision for *)
(*               the decision batch),                                      *)
(*   Writers     threads that trade without an identifier and without the  *)
(*               portfolio lock (the forced sells of                       *)
(*               auto_enforce_risk_rules),                                 *)
(*   Rebuilders  threads that replace one portfolio (_replace_portfolio),  *)
(*   Resetters   threads that reset the simulation                         *)
(*               (SimulationOperations.reset).                             *)
(*                                                                         *)
(* They meet at three locks: the portfolio lock of application/trading.py  *)
(* (taken with a timeout), the scheduler's run lock (waited for without    *)
(* one) and SQLite's write lock (BEGIN IMMEDIATE, with a busy timeout).    *)
(* The order is not uniform: a client takes the portfolio lock, then the   *)
(* write lock; a rebuild holds the write lock when it asks for the         *)
(* portfolio lock.                                                         *)
(*                                                                         *)
(* db is what is committed; draft is the view of the one open write        *)
(* transaction.                                                            *)
(***************************************************************************)
EXTENDS PortfolioDb

CONSTANTS Clients, Writers, Rebuilders, Resetters,
          Nobody,      \* the holder of a free lock
          MaxOps,      \* bound on operations started
          MaxCrashes,  \* bound on crashes of the process
          MaxLegs      \* bound on the trades of a portfolio plan

Threads == Clients \cup Writers \cup Rebuilders \cup Resetters

ASSUME ThreadsAssumption ==
    /\ Nobody \notin Threads
    /\ Clients \cap (Writers \cup Rebuilders \cup Resetters) = {}
    /\ Writers \cap (Rebuilders \cup Resetters) = {}
    /\ Rebuilders \cap Resetters = {}
ASSUME BoundsAssumption == MaxOps \in Nat /\ MaxCrashes \in Nat /\ MaxLegs \in Nat \ {0}

VARIABLES db, draft,                         \* committed data, open transaction
          writeLock, portfolioLock, runLock, \* holders
          pc, req, reply,                    \* of every thread
          told,                              \* terminal answers given so far
          ops, crashes                       \* counters of the bounds

locks == <<writeLock, portfolioLock, runLock>>
vars == <<db, draft, locks, pc, req, reply, told, ops, crashes>>

NoReply == [kind |-> "none", tx |-> 0, epoch |-> 0]
Failed(kind) == [kind |-> kind, tx |-> 0, epoch |-> 0]

\* An answer that ends the retries of a client: the fill or the rejection.
Terminal(answer) == answer.kind \in {"executed", "rejected"}

Order(t) == req[t].order
Body(t) == req[t].body
Owner(t) == Body(t).user

Goto(t, label) == pc' = [pc EXCEPT ![t] = label]
Answer(t, answer) == reply' = [reply EXCEPT ![t] = answer]

Init ==
    /\ db = FreshDatabase
    /\ draft = FreshDatabase
    /\ writeLock = Nobody /\ portfolioLock = Nobody /\ runLock = Nobody
    /\ pc = [t \in Threads |-> "idle"]
    /\ req = [t \in Threads |-> CHOOSE r \in [order : OrderIds, body : Bodies] : TRUE]
    /\ reply = [t \in Threads |-> NoReply]
    /\ told = {}
    /\ ops = 0 /\ crashes = 0
-----------------------------------------------------------------------------
(* The outcome stored for an identifier, as the caller sees it *)

StoredReply(d, o) ==
    [kind |-> IF d.orders[o].status = "completed" THEN "executed" ELSE "rejected",
     tx |-> d.orders[o].tx, epoch |-> d.epoch[d.orders[o].body.user]]

ReplayedOrConflict(d, t) ==
    IF d.orders[Order(t)].body # Body(t) THEN Failed("conflict")
    ELSE StoredReply(d, Order(t))

Stored(d, t) == d.orders[Order(t)].status # "none"
-----------------------------------------------------------------------------
(* Starting an operation *)

Start(t, o, b, label) ==
    /\ pc[t] \in {"idle", "done"}
    /\ ops < MaxOps
    /\ ops' = ops + 1
    /\ req' = [req EXCEPT ![t] = [order |-> o, body |-> b]]
    /\ Answer(t, NoReply)
    /\ Goto(t, label)
    /\ UNCHANGED <<db, draft, locks, told, crashes>>

Submit(t) == t \in Clients /\ \E o \in OrderIds, b \in Bodies : Start(t, o, b, "check")

ForceSell(t) ==
    /\ t \in Writers
    /\ \E b \in Bodies : b.amount > 0 /\ Start(t, Order(t), b, "wbegin")

Replace(t) ==
    /\ t \in Rebuilders \cup Resetters
    /\ \E b \in Bodies : Start(t, Order(t), b, "runlock")
-----------------------------------------------------------------------------
(* Trading.execute and Trading.execute_decision *)

\* The outcome is looked up before anything is locked.
Check(t) ==
    /\ pc[t] = "check"
    /\ \/ Stored(db, t) /\ Answer(t, ReplayedOrConflict(db, t)) /\ Goto(t, "release")
       \/ ~Stored(db, t) /\ Goto(t, "quote") /\ UNCHANGED reply
    /\ UNCHANGED <<db, draft, locks, req, told, ops, crashes>>

\* Quotes are fetched with no lock held; a missing or stale one rejects.
Quote(t) ==
    /\ pc[t] = "quote"
    /\ \/ Goto(t, "lock")
       \/ Goto(t, "reject")
    /\ UNCHANGED <<db, draft, locks, req, reply, told, ops, crashes>>

\* "plan" is a rebuild between two trades of its plan.
TakePortfolioLock(t) ==
    /\ portfolioLock = Nobody
    /\ \/ pc[t] = "lock" /\ Goto(t, "begin")
       \/ pc[t] = "plan" /\ Goto(t, "leg")
    /\ portfolioLock' = t
    /\ UNCHANGED <<db, draft, writeLock, runLock, req, reply, told, ops, crashes>>

PortfolioBusy(t) ==
    /\ portfolioLock # Nobody
    /\ Answer(t, Failed("busy"))
    /\ \/ pc[t] = "lock" /\ Goto(t, "release")
       \/ pc[t] = "plan" /\ Goto(t, "rollback")
    /\ UNCHANGED <<db, draft, locks, req, told, ops, crashes>>

\* The lookup is repeated inside the transaction.
Replay(t) ==
    /\ pc[t] \in {"execute", "storing"}
    /\ Stored(draft, t)
    /\ Answer(t, ReplayedOrConflict(draft, t))
    /\ Goto(t, IF ReplayedOrConflict(draft, t).kind = "executed" THEN "commit" ELSE "rollback")
    /\ UNCHANGED <<db, draft, locks, req, told, ops, crashes>>

\* Mutant of ExecuteFreshOrder: the lookup before the lock is trusted.
ExecuteUnchecked(t) ==
    /\ pc[t] = "execute"
    /\ FeeAffordable(draft, Owner(t), Body(t).amount)
    /\ draft' = ExecuteFresh(draft, Order(t), Body(t))
    /\ Answer(t, [kind |-> "executed", tx |-> draft.next[Owner(t)],
                  epoch |-> draft.epoch[Owner(t)]])
    /\ Goto(t, "commit")
    /\ UNCHANGED <<db, locks, req, told, ops, crashes>>

ExecuteFreshOrder(t) ==
    /\ pc[t] = "execute"
    /\ ~Stored(draft, t)
    /\ Affordable(draft, Owner(t), Body(t).amount)
    /\ FeeAffordable(draft, Owner(t), Body(t).amount)
    /\ draft' = ExecuteFresh(draft, Order(t), Body(t))
    /\ Answer(t, [kind |-> "executed", tx |-> draft.next[Owner(t)],
                  epoch |-> draft.epoch[Owner(t)]])
    /\ Goto(t, "commit")
    /\ UNCHANGED <<db, locks, req, told, ops, crashes>>

\* A guardrail refuses the trade before it writes, or the fee cannot be paid
\* after the trade itself was written: an ExecutionError, the answer of which
\* is stored later.
ExecutionError(t) ==
    /\ \/ pc[t] = "execute" /\ ~Stored(draft, t)
       \/ pc[t] = "wtrade"
    /\ \/ UNCHANGED draft
       \/ /\ Affordable(draft, Owner(t), Body(t).amount)
          /\ ~FeeAffordable(draft, Owner(t), Body(t).amount)
          /\ draft' = Post(draft, Owner(t), IF t \in Clients THEN Order(t) ELSE NoOrder,
                           Body(t).amount)
    /\ Goto(t, "rollback")
    /\ UNCHANGED <<db, locks, req, reply, told, ops, crashes>>

\* A portfolio without value raises an error that is not stored.
TradingError(t) ==
    /\ pc[t] = "execute"
    /\ ~Stored(draft, t)
    /\ Answer(t, Failed("error"))
    /\ Goto(t, "rollback")
    /\ UNCHANGED <<db, draft, locks, req, told, ops, crashes>>

\* Mutant of StoreRejection: the outcome is not looked up again.
StoreUnchecked(t) ==
    /\ pc[t] = "storing"
    /\ draft' = RecordRejection(draft, Order(t), Body(t))
    /\ Answer(t, [kind |-> "rejected", tx |-> 0, epoch |-> draft.epoch[Owner(t)]])
    /\ Goto(t, "commit")
    /\ UNCHANGED <<db, locks, req, told, ops, crashes>>

\* The rejection is stored in a transaction of its own, after the portfolio
\* lock was released.
StoreRejection(t) ==
    /\ pc[t] = "storing"
    /\ ~Stored(draft, t)
    /\ draft' = RecordRejection(draft, Order(t), Body(t))
    /\ Answer(t, [kind |-> "rejected", tx |-> 0, epoch |-> draft.epoch[Owner(t)]])
    /\ Goto(t, "commit")
    /\ UNCHANGED <<db, locks, req, told, ops, crashes>>
-----------------------------------------------------------------------------
(* connection.transaction: BEGIN IMMEDIATE, commit, rollback *)

AfterBegin == [begin |-> "execute", reject |-> "storing",
               wbegin |-> "wtrade", rbegin |-> "replace"]

\* Mutant of Begin: BEGIN without IMMEDIATE locks nothing.
BeginDeferred(t) ==
    /\ pc[t] \in DOMAIN AfterBegin
    /\ writeLock' = t
    /\ draft' = db
    /\ Goto(t, AfterBegin[pc[t]])
    /\ UNCHANGED <<db, portfolioLock, runLock, req, reply, told, ops, crashes>>

Begin(t) ==
    /\ pc[t] \in DOMAIN AfterBegin
    /\ writeLock = Nobody
    /\ writeLock' = t
    /\ draft' = db
    /\ Goto(t, AfterBegin[pc[t]])
    /\ UNCHANGED <<db, portfolioLock, runLock, req, reply, told, ops, crashes>>

\* The busy timeout of the connection: sqlite3.OperationalError.
DatabaseLocked(t) ==
    /\ pc[t] \in DOMAIN AfterBegin
    /\ writeLock # Nobody
    /\ Answer(t, Failed("locked"))
    /\ Goto(t, "release")
    /\ UNCHANGED <<db, draft, locks, req, told, ops, crashes>>

Commit(t) ==
    /\ pc[t] = "commit"
    /\ db' = draft
    /\ writeLock' = Nobody
    /\ Goto(t, "release")
    /\ UNCHANGED <<draft, portfolioLock, runLock, req, reply, told, ops, crashes>>

Rollback(t) ==
    /\ pc[t] = "rollback"
    /\ draft' = db
    /\ writeLock' = Nobody
    /\ Goto(t, "release")
    /\ UNCHANGED <<db, portfolioLock, runLock, req, reply, told, ops, crashes>>

Freed(lock, t) == IF lock = t THEN Nobody ELSE lock

\* Mutant of Release: every answer but a fill is stored as a rejection.
ReleaseAndStore(t) ==
    /\ pc[t] = "release"
    /\ portfolioLock' = Freed(portfolioLock, t)
    /\ runLock' = Freed(runLock, t)
    /\ Goto(t, IF t \in Clients /\ reply[t].kind # "executed" THEN "reject" ELSE "done")
    /\ UNCHANGED <<db, draft, writeLock, req, reply, told, ops, crashes>>

\* The with statements are left: the locks go, a client whose trade failed
\* with an ExecutionError goes on to store the rejection, any other operation
\* ends and its answer reaches the caller.
Release(t) ==
    /\ pc[t] = "release"
    /\ portfolioLock' = Freed(portfolioLock, t)
    /\ runLock' = Freed(runLock, t)
    /\ Goto(t, IF t \in Clients /\ reply[t].kind = "none" THEN "reject" ELSE "done")
    /\ told' = IF t \in Clients /\ Terminal(reply[t])
               THEN told \cup {[req |-> req[t], reply |-> reply[t]]} ELSE told
    /\ UNCHANGED <<db, draft, writeLock, req, reply, ops, crashes>>
-----------------------------------------------------------------------------
(* execute_sell called by auto_enforce_risk_rules *)

WriterTrade(t) ==
    /\ pc[t] = "wtrade"
    /\ FeeAffordable(draft, Owner(t), Body(t).amount)
    /\ draft' = Trade(draft, Owner(t), NoOrder, Body(t).amount)
    /\ Goto(t, "commit")
    /\ UNCHANGED <<db, locks, req, reply, told, ops, crashes>>
-----------------------------------------------------------------------------
(* _replace_portfolio and SimulationOperations.reset *)

TakeRunLock(t) ==
    /\ pc[t] = "runlock"
    /\ runLock = Nobody
    /\ runLock' = t
    /\ Goto(t, "rbegin")
    /\ UNCHANGED <<db, draft, writeLock, portfolioLock, req, reply, told, ops, crashes>>

WipePortfolio(t) ==
    /\ pc[t] = "replace"
    /\ t \in Rebuilders
    /\ draft' = Wipe(draft, {Owner(t)})
    /\ Goto(t, "plan")
    /\ UNCHANGED <<db, locks, req, reply, told, ops, crashes>>

\* One trade of the plan, under the portfolio lock and inside the rebuild's
\* own transaction; its identifier is a fresh uuid4, so its row in orders is
\* never looked up again and is left out.
ExecuteLeg(t) ==
    /\ pc[t] = "leg"
    /\ \E b \in Bodies :
          /\ b.user = Owner(t) /\ b.amount < 0
          /\ Affordable(draft, Owner(t), b.amount)
          /\ FeeAffordable(draft, Owner(t), b.amount)
          /\ draft' = Trade(draft, Owner(t), NoOrder, b.amount)
    /\ portfolioLock' = Nobody
    /\ \/ Goto(t, "commit")
       \/ Len(draft'.ledger[Owner(t)]) < 2 * MaxLegs /\ Goto(t, "plan")
    /\ UNCHANGED <<db, writeLock, runLock, req, reply, told, ops, crashes>>

\* A trade of the plan is refused: the error leaves both with statements.
LegFails(t) ==
    /\ pc[t] = "leg"
    /\ portfolioLock' = Nobody
    /\ Goto(t, "rollback")
    /\ UNCHANGED <<db, draft, writeLock, runLock, req, reply, told, ops, crashes>>

\* Seeding is skipped when the index quote is missing.
ResetAll(t) ==
    /\ pc[t] = "replace"
    /\ t \in Resetters
    /\ \E S \in {{}, IndexUsers} : draft' = SeedIndex(Wipe(draft, Users), S)
    /\ Goto(t, "commit")
    /\ UNCHANGED <<db, locks, req, reply, told, ops, crashes>>

\* A constraint refuses a statement of the reset: a transaction that a ledger
\* repair or a dividend reversal references, an index account below zero.
ReplaceFails(t) ==
    /\ pc[t] = "replace"
    /\ \E U \in {{}, {Owner(t)}, Users} : draft' = Wipe(draft, U)
    /\ Goto(t, "rollback")
    /\ UNCHANGED <<db, locks, req, reply, told, ops, crashes>>
-----------------------------------------------------------------------------
(* The process dies: SQLite keeps what was committed, nobody was answered. *)

Crash ==
    /\ crashes < MaxCrashes
    /\ crashes' = crashes + 1
    /\ draft' = db
    /\ writeLock' = Nobody /\ portfolioLock' = Nobody /\ runLock' = Nobody
    /\ pc' = [t \in Threads |-> "idle"]
    /\ reply' = [t \in Threads |-> NoReply]
    /\ UNCHANGED <<db, req, told, ops>>

Begun(t) == Submit(t) \/ ForceSell(t) \/ Replace(t)

Step(t) ==
    \/ Check(t) \/ Quote(t) \/ TakePortfolioLock(t) \/ PortfolioBusy(t)
    \/ Replay(t) \/ ExecuteFreshOrder(t) \/ ExecutionError(t) \/ TradingError(t)
    \/ StoreRejection(t)
    \/ Begin(t) \/ DatabaseLocked(t) \/ Commit(t) \/ Rollback(t) \/ Release(t)
    \/ WriterTrade(t)
    \/ TakeRunLock(t) \/ WipePortfolio(t) \/ ExecuteLeg(t) \/ LegFails(t)
    \/ ResetAll(t) \/ ReplaceFails(t)

\* Every operation the bound allows has ended.
Finished ==
    /\ ops = MaxOps
    /\ \A t \in Threads : pc[t] \in {"idle", "done"}
    /\ UNCHANGED vars

Next ==
    \/ \E t \in Threads : Begun(t) \/ Step(t)
    \/ Crash
    \/ Finished

Spec == Init /\ [][Next]_vars

\* The operating system runs every thread that can go on; nothing makes a
\* caller start an operation or the process die.
FairSpec == Spec /\ \A t \in Threads : WF_vars(Step(t))
-----------------------------------------------------------------------------
Labels == {"idle", "check", "quote", "lock", "begin", "execute", "reject", "storing",
           "commit", "rollback", "release", "done", "wbegin", "wtrade",
           "runlock", "rbegin", "replace", "plan", "leg"}

Reply == [kind : {"none", "executed", "rejected", "conflict", "busy", "locked", "error"},
          tx : Nat, epoch : Nat]
Request == [order : OrderIds, body : Bodies]

\* The types of the variables.
TypeOK ==
    /\ db \in Database /\ draft \in Database
    /\ writeLock \in Threads \cup {Nobody}
    /\ portfolioLock \in Threads \cup {Nobody}
    /\ runLock \in Threads \cup {Nobody}
    /\ pc \in [Threads -> Labels]
    /\ req \in [Threads -> Request]
    /\ reply \in [Threads -> Reply]
    /\ told \in SUBSET [req : Request, reply : Reply]
    /\ ops \in 0..MaxOps /\ crashes \in 0..MaxCrashes

\* Whatever the interleaving, the crashes and the rollbacks, the committed
\* ledger is a chain of balances that ends in the account's cash, and an order
\* identifier has a trade in it exactly when its stored outcome says so, once.
CommittedConsistent == Consistent(db)

\* Only the holder of the write lock is inside a transaction, and what it has
\* written so far could be committed unless it is about to be rolled back.
InTransaction == {"execute", "storing", "commit", "rollback", "wtrade", "replace", "plan", "leg"}

OneTransaction == \A t \in Threads : pc[t] \in InTransaction => writeLock = t

DraftConsistent ==
    \A t \in Threads : pc[t] \in InTransaction \ {"rollback"} => Consistent(draft)

\* The inductive strengthening of CommittedConsistent.
IInv == TypeOK /\ CommittedConsistent /\ OneTransaction /\ DraftConsistent

\* Every terminal answer a client was given still agrees with the orders table
\* unless the portfolio was reset since: a fill names the transaction of the
\* completed order, a rejection was never followed by a trade.
Holds(d, request, answer) ==
    LET o == request.order b == request.body IN
    answer.epoch = d.epoch[b.user] =>
        /\ d.orders[o].status = (IF answer.kind = "executed" THEN "completed" ELSE "rejected")
        /\ d.orders[o].body = b
        /\ d.orders[o].tx = answer.tx

AnswersHold == \A a \in told : Holds(db, a.req, a.reply)

\* Between two resets the outcome stored for an identifier is never replaced
\* and the ledger of a user only grows.
IsPrefixOf(s, r) == Len(s) <= Len(r) /\ \A i \in 1..Len(s) : s[i] = r[i]

HistoryKept ==
    \A u \in Users : db'.epoch[u] = db.epoch[u] =>
        /\ IsPrefixOf(db.ledger[u], db'.ledger[u])
        /\ \A o \in OrderIds :
              db.orders[o].status # "none" /\ db.orders[o].body.user = u
                  => db'.orders[o] = db.orders[o]

HistoryIsKept == [][HistoryKept]_vars

\* The operations are serializable: every commit is one whole operation run
\* alone on the data committed before it, nothing else changes the database.
Serial == INSTANCE OrderBook WITH book <- db
OperationsAreSerial == Serial!Spec

\* What the open transaction has done so far, by how far its thread has come:
\* nothing, a wipe with the purchases of a plan that has room for one more, or a
\* whole operation of OrderBook.
PartOfPlan(t) ==
    \E n \in 0..(MaxLegs - 1) : \E plan \in [1..n -> Serial!Purchases(Owner(t))] :
        Serial!Planned(db, draft, Owner(t), plan, n)

WholeOperation ==
    \A t \in Threads :
        /\ pc[t] \in {"wbegin", "wtrade"} => Body(t).amount > 0
        /\ pc[t] \in {"execute", "storing", "wtrade", "replace"} => draft = db
        /\ pc[t] \in {"plan", "leg"} => PartOfPlan(t)
        /\ pc[t] = "commit" => draft = db \/ Serial!Operation(db, draft)

\* The inductive strengthening of OperationsAreSerial and HistoryIsKept.
SerialInv == IInv /\ WholeOperation

\* An answer is found when a transaction is about to end or no longer needed, and
\* from then on it agrees with what the transaction leaves behind; no answer is
\* from a later epoch than the account it is about.
Unanswered == Labels \ {"idle", "done", "commit", "rollback", "release"}

Earned(d, request, answer) ==
    answer.epoch <= d.epoch[request.body.user] /\ Holds(d, request, answer)

AnswersEarned ==
    /\ \A a \in told : Earned(db, a.req, a.reply)
    /\ \A t \in Threads :
          /\ pc[t] \in Unanswered => reply[t].kind = "none"
          /\ pc[t] \in {"commit", "rollback", "release"} /\ Terminal(reply[t])
                 => Earned(IF pc[t] = "commit" THEN draft ELSE db, req[t], reply[t])

\* The inductive strengthening of AnswersHold.
AnswersInv == SerialInv /\ AnswersEarned

\* Every operation ends, although clients and rebuilds ask for the portfolio
\* lock and the write lock in opposite orders: the timeouts break the cycle.
EveryOperationEnds ==
    \A t \in Threads : pc[t] \notin {"idle", "done"} ~> pc[t] \in {"idle", "done"}
=============================================================================
