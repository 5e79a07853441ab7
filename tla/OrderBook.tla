----------------------------- MODULE OrderBook -----------------------------
(***************************************************************************)
(* What the trading operations promise together: they might as well have   *)
(* been run one at a time, each as a single step on the database, in some  *)
(* order.  No locks, no threads, no retries, no partial writes.  An        *)
(* operation is a relation between the database d before and e after it.   *)
(***************************************************************************)
EXTENDS PortfolioDb

CONSTANTS MaxLegs  \* bound on the trades of a portfolio plan

VARIABLE book

Init == book = FreshDatabase

Undecided(d, o) == d.orders[o].status = "none"

\* An identifier that has no outcome is decided once: traded or rejected.
Fill(d, e, o, b) ==
    /\ Undecided(d, o)
    /\ FeeAffordable(d, b.user, b.amount)
    /\ e = ExecuteFresh(d, o, b)

Reject(d, e, o, b) == Undecided(d, o) /\ e = RecordRejection(d, o, b)

ForcedSell(d, e, b) ==
    /\ b.amount > 0
    /\ FeeAffordable(d, b.user, b.amount)
    /\ e = Trade(d, b.user, NoOrder, b.amount)

\* The amounts that a plan of u may consist of, and the databases that making the
\* n purchases of a plan one after the other goes through.
Purchases(u) == {b.amount : b \in {c \in Bodies : c.user = u /\ c.amount < 0}}

Emptied(d, u, plan, n) ==
    LET after[k \in 0..n] == IF k = 0 THEN Wipe(d, {u})
                             ELSE Trade(after[k - 1], u, NoOrder, plan[k])
    IN after

\* The account of u was emptied and n purchases of the plan were made.
Planned(d, e, u, plan, n) ==
    /\ \A k \in 1..n : FeeAffordable(Emptied(d, u, plan, n)[k - 1], u, plan[k])
    /\ e = Emptied(d, u, plan, n)[n]

\* A portfolio is emptied and every purchase of the plan is made, in one step.
Rebuild(d, e, u) ==
    \E n \in 1..MaxLegs : \E plan \in [1..n -> Purchases(u)] : Planned(d, e, u, plan, n)

Reset(d, e) == \E S \in {{}, IndexUsers} : e = SeedIndex(Wipe(d, Users), S)

Operation(d, e) ==
    \/ \E o \in OrderIds, b \in Bodies : Fill(d, e, o, b) \/ Reject(d, e, o, b)
    \/ \E b \in Bodies : ForcedSell(d, e, b)
    \/ \E u \in Users : Rebuild(d, e, u)
    \/ Reset(d, e)

Next == Operation(book, book')

Spec == Init /\ [][Next]_book
=============================================================================
