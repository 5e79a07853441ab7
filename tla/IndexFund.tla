----------------------------- MODULE IndexFund -----------------------------
(***************************************************************************)
(* The accounts that the initialization of the database creates, where     *)
(* every write is a transaction of its own, and the passive index account  *)
(* among them, which is seeded there and again by every reset of the       *)
(* simulation, inside the one transaction of the reset.                    *)
(* services/index_fund.py is the same code in both: holding, balance,      *)
(* ledger row, in this order.                                              *)
(*                                                                         *)
(* db is what is committed; draft is the view of the operation in          *)
(* progress, which is db itself unless a transaction is open.              *)
(*                                                                         *)
(* Abstractions: one account owner of each kind; a person is a default     *)
(* agent without the strategy.  Of the accounts only the cash of the index *)
(* account is told, since nobody else trades here.                         *)
(***************************************************************************)
EXTENDS Money, Sequences

CONSTANTS FundCash,    \* in units of 1 / Scale, like every amount here
          FundPrices,  \* quotes of the fund, 0 for none
          MaxOps, MaxCrashes

ASSUME FundCashAssumption == FundCash \in Nat \ {0}
ASSUME FundPricesAssumption == FundPrices \subseteq Nat
ASSUME FundBoundsAssumption == MaxOps \in Nat /\ MaxCrashes \in Nat

\* A row of the ledger: the purchase of the fund.
Purchase == [quantity : Nat, price : Nat, before : Nat, after : Nat]

\* The account owners in the order of initialize: a default agent, the index account,
\* a comparison profile, the committee.
Order == <<"default", "index", "profile", "committee">>
Owners == {Order[i] : i \in DOMAIN Order}

\* Who the strategy of an owner is by: nobody, the seeding, or the operator.
Owner == [user : BOOLEAN, account : BOOLEAN, strategy : {"none", "seeded", "own"}]
NoOwner == [user |-> FALSE, account |-> FALSE, strategy |-> "none"]

Data == [owners : [Owners -> Owner], cash : Nat, shares : Nat, ledger : Seq(Purchase)]

Empty == [owners |-> [o \in Owners |-> NoOwner], cash |-> 0, shares |-> 0, ledger |-> << >>]

VARIABLES db, draft,
          op,            \* the operation in progress: "none", "initialize", "reset"
          step, price,   \* its next step and its quote
          next,          \* the place in Order of the owner that is seeded
          ops, crashes   \* counters of the bounds

fundVars == <<db, draft, op, step, price, next, ops, crashes>>

FundInit ==
    /\ db = Empty /\ draft = Empty
    /\ op = "none" /\ step = "idle" /\ price = 0 /\ next = 1
    /\ ops = 0 /\ crashes = 0

\* Mutant of Write: every statement is its own transaction.
WriteThrough(data) == draft' = data /\ db' = data

\* get_db: the statement commits at once unless a transaction is open.
Write(data) ==
    /\ draft' = data
    /\ db' = IF op = "reset" THEN db ELSE data

End == step' = "idle" /\ op' = "none" /\ next' = 1

Advance(label) == step' = label /\ UNCHANGED <<op, next>>

NextOwner == IF next < Len(Order) THEN step' = "owner" /\ next' = next + 1 /\ UNCHANGED op ELSE End

\* The seeding returns: what is left to do is the commit of the reset, or the
\* next account owner.
Seeded == IF op = "reset" THEN Advance("commit") ELSE NextOwner

\* An exception: the transaction, if there is one, is rolled back.
Fail == End /\ draft' = db /\ UNCHANGED db
-----------------------------------------------------------------------------
(* initialize: an account owner that exists is not given an account again *)

owner == draft.owners[Order[next]]
SetOwner(fields) == Write([draft EXCEPT !.owners = [@ EXCEPT ![Order[next]] = fields]])

Initialize ==
    /\ step = "idle" /\ ops < MaxOps
    /\ ops' = ops + 1
    /\ op' = "initialize" /\ step' = "owner"
    /\ UNCHANGED <<db, draft, price, next, crashes>>

\* Mutant of Refreshed: who exists gets the strategy of the seeding.
RefreshedAlways(o) == "seeded"

\* A missing strategy of a default user is repaired, that of the committee replaced.
Refreshed(o) ==
    IF o = "committee" \/ (o \in {"default", "index"} /\ owner.strategy = "none")
    THEN "seeded" ELSE owner.strategy

OwnerExists ==
    /\ step = "owner" /\ owner.user
    /\ SetOwner([owner EXCEPT !.strategy = Refreshed(Order[next])])
    /\ NextOwner
    /\ UNCHANGED <<price, ops, crashes>>

\* create_agent writes the strategy with the user, create does not.
CreateOwner ==
    /\ step = "owner" /\ ~owner.user
    /\ IF Order[next] \in {"default", "index"}
       THEN SetOwner([owner EXCEPT !.user = TRUE]) /\ Advance("strategy")
       ELSE SetOwner([owner EXCEPT !.user = TRUE, !.strategy = "seeded"]) /\ Advance("account")
    /\ UNCHANGED <<price, ops, crashes>>

SetStrategy ==
    /\ step = "strategy"
    /\ SetOwner([owner EXCEPT !.strategy = "seeded"]) /\ Advance("account")
    /\ UNCHANGED <<price, ops, crashes>>

CreateAccount ==
    /\ step = "account"
    /\ IF Order[next] = "index"
       THEN /\ Write([draft EXCEPT !.owners = [@ EXCEPT !["index"] = [owner EXCEPT !.account = TRUE]],
                                !.cash = FundCash])
            /\ Advance("quote")
       ELSE SetOwner([owner EXCEPT !.account = TRUE]) /\ NextOwner
    /\ UNCHANGED <<price, ops, crashes>>

FetchQuote ==
    /\ step = "quote"
    /\ price' \in FundPrices
    /\ IF price' > 0 THEN Advance("hold") ELSE Seeded
    /\ UNCHANGED <<db, draft, ops, crashes>>

\* AgentCommands.create: user and account in one transaction, under a name that may
\* be one the seeding wants.
CreateAgent ==
    /\ step = "idle" /\ ops < MaxOps
    /\ ops' = ops + 1
    /\ \E o \in Owners \ {"index"} :
          /\ ~db.owners[o].user
          /\ Write([db EXCEPT !.owners = [@ EXCEPT ![o] = [user |-> TRUE, account |-> TRUE, strategy |-> "own"]]])
    /\ UNCHANGED <<op, step, price, next, crashes>>
-----------------------------------------------------------------------------
(* SimulationOperations.reset: the quote, then everything in a transaction *)

Cleared(data) ==
    [owners |-> data.owners,
     cash |-> IF data.owners["index"].account THEN FundCash ELSE data.cash,
     shares |-> 0, ledger |-> << >>]

Reset ==
    /\ step = "idle" /\ ops < MaxOps
    /\ ops' = ops + 1
    /\ price' \in FundPrices
    /\ draft' = Cleared(db)
    /\ op' = "reset"
    /\ step' = IF price' > 0 /\ db.owners["index"].account THEN "hold" ELSE "commit"
    /\ UNCHANGED <<db, next, crashes>>

Commit ==
    /\ step = "commit"
    /\ db' = draft
    /\ End
    /\ UNCHANGED <<draft, price, ops, crashes>>
-----------------------------------------------------------------------------
(* seed_index_fund: the whole balance, rounded to a quantity and back *)

\* Mutant of Quantity: only whole shares are bought.
WholeShares(balance) == (balance \div price) * Scale

Quantity(balance) == RoundHalfUp(balance * Scale, price)
Cost(quantity) == RoundHalfUp(Value(quantity, price), Scale)

UpsertHolding ==
    /\ step = "hold"
    /\ Write([draft EXCEPT !.shares = Quantity(draft.cash)])
    /\ Advance("pay")
    /\ UNCHANGED <<price, ops, crashes>>

\* CHECK(cash_balance_e8 >= 0) refuses to pay more than there is.
UpdateBalance ==
    /\ step = "pay"
    /\ Cost(draft.shares) <= draft.cash
    /\ Write([draft EXCEPT !.cash = @ - Cost(draft.shares)])
    /\ Advance("record")
    /\ UNCHANGED <<price, ops, crashes>>

BalanceRefused ==
    /\ step = "pay"
    /\ Cost(draft.shares) > draft.cash
    /\ Fail
    /\ UNCHANGED <<price, ops, crashes>>

CreateTransaction ==
    /\ step = "record"
    /\ Write([draft EXCEPT !.ledger = Append(@,
                 [quantity |-> draft.shares, price |-> price,
                  before |-> draft.cash + Cost(draft.shares), after |-> draft.cash])])
    /\ Seeded
    /\ UNCHANGED <<price, ops, crashes>>
-----------------------------------------------------------------------------
Crash ==
    /\ crashes < MaxCrashes
    /\ crashes' = crashes + 1
    /\ Fail
    /\ UNCHANGED <<price, ops>>

FundFinished == step = "idle" /\ ops = MaxOps /\ UNCHANGED fundVars

FundNext ==
    \/ Initialize \/ OwnerExists \/ CreateOwner \/ SetStrategy \/ CreateAccount \/ FetchQuote
    \/ CreateAgent
    \/ Reset \/ Commit
    \/ UpsertHolding \/ UpdateBalance \/ BalanceRefused \/ CreateTransaction
    \/ Crash
    \/ FundFinished

FundSpec == FundInit /\ [][FundNext]_fundVars
-----------------------------------------------------------------------------
\* The types of the variables; the cash is never below zero.
FundTypeOK ==
    /\ db \in Data /\ draft \in Data
    /\ op \in {"none", "initialize", "reset"}
    /\ step \in {"idle", "owner", "strategy", "account", "quote", "hold", "pay", "record", "commit"}
    /\ price \in FundPrices \cup {0} /\ next \in DOMAIN Order
    /\ ops \in 0..MaxOps /\ crashes \in 0..MaxCrashes

\* An account in which nothing is half done: all cash and no position, or one
\* position that one ledger row explains.
WholeAccount(data) ==
    \/ data.shares = 0 /\ data.ledger = << >>
          /\ data.cash = (IF data.owners["index"].account THEN FundCash ELSE 0)
    \/ /\ Len(data.ledger) = 1
       /\ data.ledger[1].quantity = data.shares
       /\ data.ledger[1].before = FundCash
       /\ data.ledger[1].after = data.cash

\* A reset changes the committed data once, to a whole account, whatever state
\* a crashed initialization left behind and wherever the reset itself stops.
ResetStep == op = "reset" /\ db' # db => op' = "none" /\ WholeAccount(db')

\* An initialization takes nobody's account and replaces no strategy but the committee's,
\* and does not invest the index account twice.  When it ends, and none ever crashed or was
\* refused the balance of the index account, every owner has an account and a strategy.
InitializationStep ==
    op = "initialize" =>
        /\ \A o \in Owners : db.owners[o].user =>
              /\ db'.owners[o].user
              /\ db.owners[o].account => db'.owners[o].account
              /\ o # "committee" /\ db.owners[o].strategy # "none" =>
                    db'.owners[o].strategy = db.owners[o].strategy
        /\ db.ledger # << >> => <<db'.cash, db'.shares, db'.ledger>> = <<db.cash, db.shares, db.ledger>>
        /\ op' = "none" /\ crashes' = 0 /\ step # "pay" =>
              \A o \in Owners : db'.owners[o].account /\ db'.owners[o].strategy # "none"

\* "Make a database ready for use, including default accounts", again and again, and
\* "Reset mutable simulation state": what each step may do to the accounts.
SeedingIsSafe == [][ResetStep /\ InitializationStep]_fundVars

\* A seeding that got as far as its ledger row neither made nor lost money, but
\* for the rounding of one amount, and left less cash than half of the smallest
\* tradable quantity costs, but never less than none (FundTypeOK).
SeedKeepsTheBalance ==
    /\ FundTypeOK
    /\ \A i \in 1..Len(db.ledger) :
          LET row == db.ledger[i]
              drift == 2 * (Value(row.quantity, row.price) + db.cash * Scale - FundCash * Scale)
          IN  /\ -Scale <= drift /\ drift <= Scale
              /\ 2 * db.cash * Scale <= row.price + Scale

\* What the seeding leaves at any time: nothing without an account, and with a ledger
\* row the purchase for all of the starting cash.
AccountIsSound(data) ==
    /\ ~data.owners["index"].account => data.cash = 0 /\ data.shares = 0 /\ data.ledger = << >>
    /\ data.ledger # << >> =>
          /\ Len(data.ledger) = 1
          /\ LET row == data.ledger[1]
             IN  /\ row.price > 0 /\ row.before = FundCash /\ row.after = data.cash
                 /\ row.quantity = RoundHalfUp(FundCash * Scale, row.price)
                 /\ data.shares = row.quantity
                 /\ data.cash = FundCash - RoundHalfUp(Value(row.quantity, row.price), Scale)

\* An operation and its steps: what is not committed is a reset's.
OperationInOrder ==
    /\ op = "none" <=> step = "idle"
    /\ op # "initialize" => next = 1
    /\ op # "reset" => draft = db
    /\ op = "reset" => step \in {"hold", "pay", "record", "commit"} /\ draft.owners = db.owners
    /\ op = "initialize" => step # "commit"
    /\ op = "initialize" /\ step \in {"quote", "hold", "pay", "record"} => Order[next] = "index"

\* How far the purchase is.
PurchaseInOrder ==
    /\ step \in {"quote", "hold", "pay", "record"} =>
          draft.owners["index"].account /\ draft.ledger = << >>
    /\ step \in {"hold", "pay", "record"} => price > 0
    /\ step \in {"quote", "hold", "pay"} => draft.cash = FundCash
    /\ step \in {"pay", "record"} => draft.shares = Quantity(FundCash)
    /\ step = "record" => draft.cash = FundCash - Cost(draft.shares)
    /\ step = "commit" => WholeAccount(draft)

\* How far the owners are: nothing is left half done but by a crash.
Complete(o) == db.owners[o].account /\ db.owners[o].strategy # "none"
OwnersInOrder ==
    /\ \A o \in Owners : ~db.owners[o].user => db.owners[o] = NoOwner
    /\ op = "initialize" =>
          /\ \A i \in 1..(next - 1) : db.owners[Order[i]].user
          /\ step # "owner" => db.owners[Order[next]].user
    /\ step \in {"strategy", "account"} => ~db.owners[Order[next]].account
    /\ step = "strategy" => db.owners[Order[next]].strategy = "none"
    /\ step = "account" => db.owners[Order[next]].strategy # "none"
    /\ crashes = 0 =>
          \A o \in Owners : db.owners[o].user =>
              Complete(o) \/ (step \in {"strategy", "account"} /\ o = Order[next])

\* The inductive invariant.
FundInv ==
    /\ FundTypeOK /\ AccountIsSound(db) /\ AccountIsSound(draft)
    /\ OperationInOrder /\ PurchaseInOrder /\ OwnersInOrder

\* With a quote of the fund, a reset invests the index account again.
ResetReinvests ==
    [][op = "reset" /\ op' = "none" /\ crashes' = crashes /\ price > 0 /\ db.owners["index"].account
         => db'.ledger # << >>]_fundVars
=============================================================================
