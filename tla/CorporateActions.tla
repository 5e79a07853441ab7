-------------------------- MODULE CorporateActions --------------------------
(***************************************************************************)
(* Splits and dividends of one ticker over everybody's holdings and the    *)
(* ledger (services/corporate_actions, CorporateActionStore), the reversal *)
(* of a dividend, the reconciliation of an account with the ledger         *)
(* (LedgerRepairStore), and the cached price history that a split has to   *)
(* re-express (MarketFeatureStore).                                        *)
(*                                                                         *)
(* Threads: "scan" looks for actions before a batch, "gate" confirms a     *)
(* split that explains a suspect quote, "refresh" fetches daily history.   *)
(* Trades, reversals, repairs, resets and the rebuild of an agent's account *)
(* are single transactions of others.                                      *)
(*                                                                         *)
(* Abstractions: one split (two for one), one dividend (one per share), a  *)
(* share is traded for one unit of cash; one bar of history, dated before  *)
(* the split.  The clock is coarse: it is the day an action takes effect   *)
(* and the moment a transaction is stamped with.  A deleted transaction    *)
(* leaves its place in the ledger empty, as its id is never given again.   *)
(* Any account may be one of an agent.                                     *)
(***************************************************************************)
EXTENDS Integers, Sequences, SequencesExt, FiniteSets

CONSTANTS Users,
          Nobody,                \* whose a deleted transaction is
          SplitDay, ExDay,       \* effective dates of the two actions
          StartingCash,
          MaxDay, MaxRows,
          MaxFaults            \* bound on crashes, drifts, resets and rebuilds together

ASSUME DaysAssumption == {SplitDay, ExDay, StartingCash} \subseteq Nat
ASSUME UsersAreFinite == IsFiniteSet(Users) /\ Nobody \notin Users
ASSUME ActionBounds == {MaxDay, MaxRows, MaxFaults} \subseteq Nat

VARIABLES cash,       \* accounts.cash_balance
          shares,     \* holdings: quantity and opened_at, 0 shares being no row
          ledger,     \* transactions in the order of their ids
          actions,    \* corporate_actions
          reversals,  \* dividend_reversals: original and reversing transaction
          repairs,    \* ledger_repairs, with the transaction they reference
          history,    \* ohlcv_cache: how often the bar was divided, adjusted_through
          threads,    \* program counters, and what a thread has read
          now,
          splitAt,    \* the length of the ledger when the split was applied
          count       \* counters of the bounds

actionVars == <<cash, shares, ledger, actions, reversals, repairs, history, threads, now, splitAt, count>>
accounts == <<cash, shares, ledger>>
records == <<actions, reversals, repairs>>

ActionsInit ==
    /\ cash = [u \in Users |-> StartingCash]
    /\ shares = [u \in Users |-> [quantity |-> 0, opened |-> 0]]
    /\ ledger = <<>> /\ actions = {} /\ reversals = {} /\ repairs = {}
    /\ history = [divided |-> 0, through |-> -1]
    /\ threads = [t \in {"scan", "gate", "refresh"} |-> [pc |-> "idle", read |-> 0]]
    /\ now = 0 /\ splitAt = 0
    /\ count = [crashes |-> 0, drifts |-> 0, resets |-> 0]

At(t, label) == threads[t].pc = label
Goto(t, label, read) == threads' = [threads EXCEPT ![t] = [pc |-> label, read |-> read]]

Row(u, kind, quantity, total, before, stamp) ==
    [user |-> u, kind |-> kind, quantity |-> quantity, total |-> total,
     before |-> before, after |-> before + total, at |-> stamp]

\* A transaction that was deleted, and those of an account.
Gone == Row(Nobody, "DELETED", 0, 0, 0, 0)
Rows(u) == {i \in DOMAIN ledger : ledger[i].user = u}

Room == Cardinality({i \in DOMAIN ledger : ledger[i] # Gone}) < MaxRows

\* A balance changes with the row that says so, in one transaction.
Post(u, kind, quantity, total, stamp) ==
    /\ cash' = [cash EXCEPT ![u] = @ + total]
    /\ ledger' = Append(ledger, Row(u, kind, quantity, total, cash[u], stamp))

Fault(kind) ==
    /\ count.crashes + count.drifts + count.resets < MaxFaults
    /\ count' = [count EXCEPT ![kind] = @ + 1]

Sum(s) ==
    LET upTo[n \in 0..Len(s)] == IF n = 0 THEN 0 ELSE upTo[n - 1] + s[n]
    IN  upTo[Len(s)]

\* What a row of the ledger did to the shares of a user.
Gained(u, i) ==
    IF ledger[i].user # u THEN 0
    ELSE CASE ledger[i].kind = "BUY" -> ledger[i].quantity
           [] ledger[i].kind = "SELL" -> -ledger[i].quantity
           [] OTHER -> 0
-----------------------------------------------------------------------------
(* Trades: a purchase keeps opened_at, a complete sale deletes the row *)

Buy(u) ==
    /\ Room /\ cash[u] >= 1
    /\ Post(u, "BUY", 1, -1, now)
    /\ shares' = [shares EXCEPT ![u] =
            [quantity |-> @.quantity + 1, opened |-> IF @.quantity = 0 THEN now ELSE @.opened]]
    /\ UNCHANGED <<records, history, threads, now, splitAt, count>>

Sell(u) ==
    /\ Room /\ shares[u].quantity > 0
    /\ \E n \in 1..shares[u].quantity :
          /\ Post(u, "SELL", n, n, now)
          /\ shares' = [shares EXCEPT ![u] =
                IF n = @.quantity THEN [quantity |-> 0, opened |-> 0]
                ELSE [quantity |-> @.quantity - n, opened |-> @.opened]]
    /\ UNCHANGED <<records, history, threads, now, splitAt, count>>
-----------------------------------------------------------------------------
(* A split: record_split *)

\* scan_all_holdings_for_splits: only of tickers somebody holds, and that is not
\* known to be applied already.
ScanSplits ==
    /\ At("scan", "idle")
    /\ IF /\ now >= SplitDay /\ "split" \notin actions
          /\ \E u \in Users : shares[u].quantity > 0
       THEN Goto("scan", "split", 0)
       ELSE Goto("scan", "dividends", 0)
    /\ UNCHANGED <<accounts, records, history, now, splitAt, count>>

\* _confirm_split: the gate does not ask whether the split is known.
ConfirmSplit ==
    /\ At("gate", "idle") /\ now >= SplitDay
    /\ Goto("gate", "split", 0)
    /\ UNCHANGED <<accounts, records, history, now, splitAt, count>>

\* INSERT ... ON CONFLICT DO NOTHING: one transaction owns an action.
Unclaimed(action) == action \notin actions

\* Mutant of PreSplit: holdings opened on the day itself are adjusted as well.
PreSplitOrSameDay(u) == shares[u].quantity > 0 /\ shares[u].opened <= SplitDay

PreSplit(u) == shares[u].quantity > 0 /\ shares[u].opened < SplitDay

AfterSplit(t) == IF t = "scan" THEN "dividends" ELSE "idle"

ApplySplit(t) ==
    /\ At(t, "split")
    /\ IF Unclaimed("split")
       THEN /\ actions' = actions \cup {"split"}
            /\ shares' = [u \in Users |->
                  IF PreSplit(u) THEN [shares[u] EXCEPT !.quantity = 2 * @] ELSE shares[u]]
            /\ splitAt' = Len(ledger)
            /\ Goto(t, "adjust", 0)
       ELSE /\ Goto(t, AfterSplit(t), 0)
            /\ UNCHANGED <<actions, shares, splitAt>>
    /\ UNCHANGED <<cash, ledger, reversals, repairs, history, now, count>>

Unadjusted == history.through < SplitDay

\* A transaction of its own: after a crash nobody comes back to it.
AdjustHistory(t) ==
    /\ At(t, "adjust")
    /\ history' = IF Unadjusted THEN [divided |-> history.divided + 1, through |-> SplitDay] ELSE history
    /\ Goto(t, AfterSplit(t), 0)
    /\ UNCHANGED <<accounts, records, now, splitAt, count>>

\* capture_market_features: the provider adjusts for splits that are effective,
\* and the bars are stored with the date of the moment they are stored.
FetchHistory ==
    /\ At("refresh", "idle")
    /\ Goto("refresh", "store", IF now >= SplitDay THEN 1 ELSE 0)
    /\ UNCHANGED <<accounts, records, history, now, splitAt, count>>

StoreHistory ==
    /\ At("refresh", "store")
    /\ history' = [divided |-> threads["refresh"].read, through |-> now]
    /\ Goto("refresh", "idle", 0)
    /\ UNCHANGED <<accounts, records, now, splitAt, count>>
-----------------------------------------------------------------------------
(* A dividend *)

\* The moment the payment is stamped with is read before the write lock is asked
\* for.
ScanDividends ==
    /\ At("scan", "dividends")
    /\ IF now >= ExDay /\ "dividend" \notin actions /\ \E u \in Users : Rows(u) # {}
       THEN Goto("scan", "pay", now)
       ELSE Goto("scan", "idle", 0)
    /\ UNCHANGED <<accounts, records, history, now, splitAt, count>>

\* Net shares bought before the ex-date, as the ledger counts them.
Entitled(u) == Sum([i \in DOMAIN ledger |-> IF ledger[i].at >= ExDay THEN 0 ELSE Gained(u, i)])

Credited(holders) == [u \in Users |-> IF u \in holders THEN cash[u] + Entitled(u) ELSE cash[u]]

ApplyDividend ==
    /\ At("scan", "pay")
    /\ IF Unclaimed("dividend")
       THEN LET holders == {u \in Users : Entitled(u) > 0} IN
            /\ actions' = actions \cup {"dividend"}
            /\ cash' = Credited(holders)
            /\ ledger' = ledger \o [i \in 1..Cardinality(holders) |->
                  LET u == SetToSeq(holders)[i] IN
                  Row(u, "DIVIDEND", Entitled(u), Entitled(u), cash[u], threads["scan"].read)]
       ELSE UNCHANGED <<actions, cash, ledger>>
    /\ Goto("scan", "idle", 0)
    /\ UNCHANGED <<shares, reversals, repairs, history, now, splitAt, count>>

\* Mutant of NotReversed: the dividend may be reversed again.
ReversedOrNot(i) == TRUE

NotReversed(i) == \A r \in reversals : r.original # i

\* reverse_dividend, stamped like a payment.
ReverseDividend ==
    /\ \E i \in DOMAIN ledger : \E stamp \in 0..now :
          LET row == ledger[i] IN
          /\ row.kind = "DIVIDEND"
          /\ NotReversed(i)
          /\ cash[row.user] >= row.total
          /\ now - stamp <= 1 /\ row.at <= stamp
          /\ Post(row.user, "DIVIDEND_REVERSAL", row.quantity, -row.total, stamp)
          /\ reversals' = reversals \cup {[original |-> i, reversal |-> Len(ledger) + 1]}
    /\ UNCHANGED <<shares, actions, repairs, history, threads, now, splitAt, count>>
-----------------------------------------------------------------------------
(* Repairs, resets, faults *)

\* The balance was changed from outside of the program.
Drift(u) ==
    /\ Fault("drifts")
    /\ cash' = [cash EXCEPT ![u] = @ + 1]
    /\ UNCHANGED <<shares, ledger, records, history, threads, now, splitAt>>

\* ORDER BY datetime(executed_at) DESC, id DESC LIMIT 1
LatestRow(u) ==
    CHOOSE i \in Rows(u) : \A j \in Rows(u) :
        ledger[j].at < ledger[i].at \/ (ledger[j].at = ledger[i].at /\ j <= i)

\* reconcile_cash_balances(apply=True) for one account; without a transaction, or
\* when the balances match, nothing is done.
Reconcile(u) ==
    /\ Rows(u) # {}
    /\ cash[u] # ledger[LatestRow(u)].after
    /\ cash' = [cash EXCEPT ![u] = ledger[LatestRow(u)].after]
    /\ repairs' = repairs \cup {[user |-> u, source |-> LatestRow(u),
                                 previous |-> cash[u], repaired |-> ledger[LatestRow(u)].after]}
    /\ UNCHANGED <<shares, ledger, actions, reversals, history, threads, now, splitAt, count>>

\* The transactions that a repair or a reversal names.
Referenced == {r.source : r \in repairs} \cup UNION {{r.original, r.reversal} : r \in reversals}

\* Mutant of NotReferenced: foreign keys are not enforced.
ForeignKeysOff(us) == TRUE

\* The DELETE of a referenced transaction fails, and with it the whole operation.
NotReferenced(us) == \A i \in Referenced : ledger[i].user \notin us

\* Accounts lose transactions and holdings and get the starting cash back; what is bought
\* anew in the same transaction follows.
Clear(us, n, bought) ==
    /\ NotReferenced(us)
    /\ ledger' = [i \in DOMAIN ledger |-> IF ledger[i].user \in us THEN Gone ELSE ledger[i]] \o bought
    /\ cash' = [w \in Users |-> IF w \in us THEN StartingCash - n ELSE cash[w]]
    /\ shares' = [w \in Users |->
          IF w \in us THEN [quantity |-> n, opened |-> IF n = 0 THEN 0 ELSE now] ELSE shares[w]]
    /\ UNCHANGED <<records, history, threads, now, splitAt>>

\* reset_mutable_simulation_state
Reset == Fault("resets") /\ Clear(Users, 0, <<>>)

\* _replace_portfolio: AgentPortfolioStore.reset and the purchases of the plan, of which one
\* may be of this ticker.
Rebuild(u) ==
    /\ Fault("resets")
    /\ \/ Clear({u}, 0, <<>>)
       \/ StartingCash >= 1 /\ Clear({u}, 1, <<Row(u, "BUY", 1, -1, StartingCash, now)>>)

Tick ==
    /\ now < MaxDay
    /\ now' = now + 1
    /\ UNCHANGED <<accounts, records, history, threads, splitAt, count>>

Crash ==
    /\ Fault("crashes")
    /\ threads' = [t \in DOMAIN threads |-> [pc |-> "idle", read |-> 0]]
    /\ UNCHANGED <<accounts, records, history, now, splitAt>>

ActionsNext ==
    \/ \E u \in Users : Buy(u) \/ Sell(u) \/ Drift(u) \/ Reconcile(u) \/ Rebuild(u)
    \/ ScanSplits \/ ConfirmSplit \/ FetchHistory \/ StoreHistory
    \/ \E t \in {"scan", "gate"} : ApplySplit(t) \/ AdjustHistory(t)
    \/ ScanDividends \/ ApplyDividend \/ ReverseDividend
    \/ Reset \/ Tick \/ Crash

ActionsSpec == ActionsInit /\ [][ActionsNext]_actionVars
-----------------------------------------------------------------------------
\* The trades of a user that the split was applied after, before its day and since.
Early(u) == {i \in Rows(u) : i <= splitAt /\ ledger[i].at < SplitDay}
Late(u) == {i \in Rows(u) : i <= splitAt /\ ledger[i].at >= SplitDay}

\* What a user owns by the ledger: what was traded before the day of the split
\* counts twice from its application on.
OwnedByLedger(u) == Sum([i \in DOMAIN ledger |-> (IF i \in Early(u) THEN 2 ELSE 1) * Gained(u, i)])

DividedOnce == history.divided <= 1

\* A split, detected by several threads and as often as it may be, doubles what
\* was held before its day, once, and leaves alone what was bought later, also in an account
\* that was reset or rebuilt before or since; and the price
\* history is never divided twice, whether a refresh that brings adjusted bars or the
\* adjustment of the old ones comes first.  (Not covered: a user who held the share and
\* traded it again on the day or later, before the split was detected; the code doubles
\* such a holding as a whole.)
SplitIsCountedOnce ==
    /\ \A u \in Users : Early(u) = {} \/ Late(u) = {} => shares[u].quantity = OwnedByLedger(u)
    /\ DividedOnce

\* What a user has after the first n rows: what the last of them left.
IsBalance(u, n, amount) ==
    /\ (\A i \in Rows(u) : i > n) => amount = StartingCash
    /\ \A i \in Rows(u) :
          i <= n /\ (\A j \in Rows(u) : j <= i \/ j > n) => amount = ledger[i].after

\* Unless somebody changed it from outside, a balance is what the ledger says: the rows
\* of a user continue one another from the starting cash to the balance, each by its
\* total; a dividend is paid once and taken back once.
LedgerExplainsCash ==
    count.drifts = 0 /\ repairs = {} =>
        \A u \in Users :
            /\ IsBalance(u, Len(ledger), cash[u])
            /\ \A i \in Rows(u) : /\ IsBalance(u, i - 1, ledger[i].before)
                                  /\ ledger[i].after = ledger[i].before + ledger[i].total
            /\ \A i, j \in Rows(u) : i # j /\ ledger[i].kind = ledger[j].kind =>
                  ledger[i].kind \notin {"DIVIDEND", "DIVIDEND_REVERSAL"}

\* While the rows of a user are stamped in the order they were written.
StampsInOrder(u) == \A i, j \in Rows(u) : i < j => ledger[i].at <= ledger[j].at

\* The evidence of a correction is never lost, whatever is reset or rebuilt: neither the row
\* of a repair or of a reversal, nor a transaction of an account with a transaction it
\* names.  And an account nobody changed from outside, whose rows are stamped in their
\* order, is never repaired.
CorrectionsAreSound ==
    [][/\ repairs \subseteq repairs' /\ reversals \subseteq reversals'
       /\ \A i \in Referenced : \A j \in Rows(ledger[i].user) :
             j \in DOMAIN ledger' /\ ledger'[j] = ledger[j]
       /\ repairs' # repairs /\ count.drifts = 0 => \E u \in Users : ~StampsInOrder(u)]_actionVars

\* A transaction of a user, or a deleted one.
Entry(row) == row = Gone \/ (row.user \in Users /\ row.at \in Nat)

ActionsTypeOK ==
    /\ cash = [u \in Users |-> cash[u]]
    /\ ledger \in Seq(ToSet(ledger))
    /\ \A i \in DOMAIN ledger : Entry(ledger[i])
    /\ now \in Nat /\ threads["scan"].read \in Nat
    /\ threads = [t \in {"scan", "gate", "refresh"} |-> threads[t]]
    /\ count \in [crashes : Nat, drifts : Nat, resets : Nat]

\* A balance is what the last row left, even after repairs if the rows of the user are
\* stamped in their order: then there was nothing to repair.
BalancesFollow ==
    /\ \A u \in Users : count.drifts = 0 /\ (StampsInOrder(u) \/ repairs = {}) =>
          IsBalance(u, Len(ledger), cash[u])
    /\ \A u \in Users : \A i \in Rows(u) :
          /\ count.drifts = 0 /\ repairs = {} => IsBalance(u, i - 1, ledger[i].before)
          /\ ledger[i].after = ledger[i].before + ledger[i].total

\* Every row that takes a dividend back has a record of the one that paid it.
DividendsPaidOnce ==
    LET OfKind(kind) == {i \in DOMAIN ledger : ledger[i].kind = kind} IN
    /\ OfKind("DIVIDEND") # {} => "dividend" \in actions
    /\ \A i, j \in OfKind("DIVIDEND") : ledger[i].user = ledger[j].user => i = j
    /\ \A r, s \in reversals : r.original = s.original => r = s
    /\ \A i \in OfKind("DIVIDEND_REVERSAL") : \E r \in reversals :
          /\ r.reversal = i /\ r.original \in OfKind("DIVIDEND")
          /\ ledger[r.original].user = ledger[i].user

\* Bars that were divided are known to be adjusted, and a refresh brings divided bars only
\* from the day of the split on.
BarsAreKnown ==
    /\ history \in [divided : {0, 1}, through : Int]
    /\ history.divided = 1 => ~Unadjusted
    /\ At("refresh", "store") =>
          threads["refresh"].read = 0 \/ (threads["refresh"].read = 1 /\ now >= SplitDay)

\* Somebody who owns shares bought some on the day that the holding is dated with.
Dated(u) ==
    shares[u].quantity > 0 =>
        \E i \in Rows(u) : ledger[i].kind = "BUY" /\ ledger[i].at = shares[u].opened

\* Holdings move with the ledger, and the split with its place in it.
HoldingsFollow ==
    /\ shares \in [Users -> [quantity : Nat, opened : Nat]]
    /\ \A i \in DOMAIN ledger : ledger[i].kind \in {"BUY", "SELL"} => ledger[i].quantity \in Nat
    /\ splitAt \in Nat /\ ("split" \notin actions => splitAt = 0)
    /\ splitAt <= Len(ledger)
    /\ \A u \in Users :
          /\ Dated(u)
          /\ Early(u) = {} \/ Late(u) = {} => shares[u].quantity = OwnedByLedger(u)

\* The inductive invariant; BarsAreKnown and HoldingsFollow are others beside it, which
\* need its types.
ActionsInv == ActionsTypeOK /\ BalancesFollow /\ DividendsPaidOnce
=============================================================================
