---------------------------- MODULE PortfolioDb ----------------------------
(***************************************************************************)
(* The part of the SQLite database that a trade touches: one cash account  *)
(* per user, the transactions (the ledger, which stores the cash balance   *)
(* before and after every row), and the orders table with the terminal     *)
(* outcome of every client order identifier.  A database is a value; the   *)
(* statements a transaction executes are operators from a database to the  *)
(* next one.                                                               *)
(*                                                                         *)
(* Abstractions: an order body is what the request hash tells apart, the   *)
(* user it is for and the cash it moves (a BUY a negative amount, a SELL a *)
(* positive one); holdings, prices and quantities are in ExecutionEngine.  *)
(***************************************************************************)
EXTENDS Integers, Sequences

CONSTANTS Users,         \* the accounts
          IndexUsers,    \* the passive benchmark accounts among them
          OrderIds,      \* client order identifiers a request may carry
          Bodies,        \* what a request may ask for under an identifier
          NoOrder,       \* a ledger row that no client identifier stands for
          StartingCash,  \* the balance an account is created and reset with
          Fee            \* the fixed transaction fee

ASSUME UsersAssumption == IndexUsers \subseteq Users
ASSUME BodiesAssumption == Bodies \subseteq [user : Users, amount : Int] /\ Bodies # {}
ASSUME OrderIdsAssumption == OrderIds # {}
ASSUME NoOrderAssumption == NoOrder \notin OrderIds
ASSUME MoneyAssumption == StartingCash \in Nat /\ Fee \in Nat

\* Transaction identifiers: AUTOINCREMENT, so a row deleted by a reset never
\* gives its identifier to a later row.  Counted per user here.
Row == [id : Nat, order : OrderIds \cup {NoOrder}, before : Nat, after : Nat]

\* A row of the orders table; "none" stands for no row.  tx is the identifier
\* of the transaction of a completed order and 0 otherwise.
Outcome == [status : {"none", "completed", "rejected"}, body : Bodies, tx : Nat]

NoOutcome == [status |-> "none", body |-> CHOOSE b \in Bodies : TRUE, tx |-> 0]

Database == [orders : [OrderIds -> Outcome],
             ledger : [Users -> Seq(Row)],
             cash   : [Users -> Nat],
             next   : [Users -> Nat],
             epoch  : [Users -> Nat]]

FreshDatabase == [orders |-> [o \in OrderIds |-> NoOutcome],
                  ledger |-> [u \in Users |-> << >>],
                  cash   |-> [u \in Users |-> StartingCash],
                  next   |-> [u \in Users |-> 1],
                  epoch  |-> [u \in Users |-> 0]]
-----------------------------------------------------------------------------
(* Statements of a trade *)

\* Move amount on the account of u and record the row: the two statements that
\* execute_buy, execute_sell and _charge_transaction_fee always issue together.
Post(d, u, o, amount) ==
    LET row == [id |-> d.next[u], order |-> o,
                before |-> d.cash[u], after |-> d.cash[u] + amount]
    IN [orders |-> d.orders,
        ledger |-> [d.ledger EXCEPT ![u] = Append(d.ledger[u], row)],
        cash   |-> [d.cash EXCEPT ![u] = d.cash[u] + amount],
        next   |-> [d.next EXCEPT ![u] = d.next[u] + 1],
        epoch  |-> d.epoch]

\* The guardrail on cash and CHECK(cash_balance_e8 >= 0).
Affordable(d, u, amount) == d.cash[u] + amount >= 0

\* Mutant of FeeAffordable: only the trade has to be paid.
FeeForgotten(d, u, amount) == Affordable(d, u, amount)

FeeAffordable(d, u, amount) == d.cash[u] + amount >= Fee

\* The trade row, then the fee row.
Trade(d, u, o, amount) == Post(Post(d, u, o, amount), u, NoOrder, -Fee)

Decide(d, o, outcome) ==
    [orders |-> [d.orders EXCEPT ![o] = outcome],
     ledger |-> d.ledger, cash |-> d.cash, next |-> d.next, epoch |-> d.epoch]

RecordCompleted(d, o, b, tx) ==
    Decide(d, o, [status |-> "completed", body |-> b, tx |-> tx])

RecordRejection(d, o, b) ==
    Decide(d, o, [status |-> "rejected", body |-> b, tx |-> 0])

\* A fresh order that passes every guardrail: trade, fee and terminal outcome.
ExecuteFresh(d, o, b) ==
    RecordCompleted(Trade(d, b.user, o, b.amount), o, b, d.next[b.user])
-----------------------------------------------------------------------------
(* Statements of a reset *)

\* Delete the orders and the ledger of the users in U and restore their cash.
\* The epoch counts the deletions; the code keeps no such counter.
Wipe(d, U) ==
    [orders |-> [o \in OrderIds |->
                    IF d.orders[o].status # "none" /\ d.orders[o].body.user \in U
                    THEN NoOutcome ELSE d.orders[o]],
     ledger |-> [u \in Users |-> IF u \in U THEN << >> ELSE d.ledger[u]],
     cash   |-> [u \in Users |-> IF u \in U THEN StartingCash ELSE d.cash[u]],
     next   |-> d.next,
     epoch  |-> [u \in Users |-> IF u \in U THEN d.epoch[u] + 1 ELSE d.epoch[u]]]

\* Invest the whole balance of every user in S, free of charge.
SeedIndex(d, S) ==
    LET row(u) == [id |-> d.next[u], order |-> NoOrder, before |-> d.cash[u], after |-> 0]
    IN [orders |-> d.orders,
        ledger |-> [u \in Users |-> IF u \in S THEN Append(d.ledger[u], row(u)) ELSE d.ledger[u]],
        cash   |-> [u \in Users |-> IF u \in S THEN 0 ELSE d.cash[u]],
        next   |-> [u \in Users |-> IF u \in S THEN d.next[u] + 1 ELSE d.next[u]],
        epoch  |-> d.epoch]
-----------------------------------------------------------------------------
(* What the schema and the transactions together promise of a database *)

\* Every row starts from the balance the previous row of the same user left,
\* the first one from the starting balance, and the account shows the last.
BalanceBefore(d, u, i) == IF i = 1 THEN StartingCash ELSE d.ledger[u][i - 1].after

LedgerChained(d) ==
    \A u \in Users :
        /\ \A i \in 1..Len(d.ledger[u]) : d.ledger[u][i].before = BalanceBefore(d, u, i)
        /\ d.cash[u] = BalanceBefore(d, u, Len(d.ledger[u]) + 1)

\* Identifiers are handed out in order and never twice.
IdsIncrease(d) ==
    \A u \in Users : \A i \in 1..Len(d.ledger[u]) :
        /\ d.ledger[u][i].id < d.next[u]
        /\ \A j \in 1..(i - 1) : d.ledger[u][j].id < d.ledger[u][i].id

\* An order traded exactly when its outcome says so: the row a completed order
\* points to is there, and a row that stands for an order belongs to the one
\* completed outcome of that order.
CompletedHasRow(d) ==
    \A o \in OrderIds : d.orders[o].status = "completed" =>
        \E i \in 1..Len(d.ledger[d.orders[o].body.user]) :
            /\ d.ledger[d.orders[o].body.user][i].order = o
            /\ d.ledger[d.orders[o].body.user][i].id = d.orders[o].tx

RowHasCompleted(d) ==
    \A u \in Users : \A i \in 1..Len(d.ledger[u]) :
        d.ledger[u][i].order \in OrderIds =>
            /\ d.orders[d.ledger[u][i].order].status = "completed"
            /\ d.orders[d.ledger[u][i].order].body.user = u
            /\ d.orders[d.ledger[u][i].order].tx = d.ledger[u][i].id

Consistent(d) ==
    /\ LedgerChained(d)
    /\ IdsIncrease(d)
    /\ CompletedHasRow(d)
    /\ RowHasCompleted(d)
=============================================================================
