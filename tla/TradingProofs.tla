--------------------------- MODULE TradingProofs ---------------------------
(***************************************************************************)
(* The committed database is well typed and consistent in every reachable  *)
(* state of Trading, for any number of threads, users, orders and retries. *)
(* The induction is on IInv: what is committed is consistent because it    *)
(* was the draft of the one open transaction, and that draft is consistent *)
(* at every step that can still reach a commit.                            *)
(***************************************************************************)
EXTENDS Trading, TLAPS

-----------------------------------------------------------------------------
(* What the statements of PortfolioDb preserve: every one of them keeps the database *)
(* well typed and, where it is used, consistent.                                      *)

\* A value is a database when each of its tables has its type.
LEMMA DatabaseFields ==
    ASSUME NEW d \in Database
    PROVE  /\ d.orders \in [OrderIds -> Outcome]
           /\ d.ledger \in [Users -> Seq(Row)]
           /\ d.cash \in [Users -> Nat]
           /\ d.next \in [Users -> Nat]
           /\ d.epoch \in [Users -> Nat]
BY DEF Database

\* The row that a posting appends.
PostedRow(d, u, o, amount) ==
    [id |-> d.next[u], order |-> o, before |-> d.cash[u], after |-> d.cash[u] + amount]

\* A posting that the account can pay keeps the types.
LEMMA PostType ==
    ASSUME NEW d \in Database, NEW u \in Users, NEW o \in OrderIds \cup {NoOrder},
           NEW amount \in Int, Affordable(d, u, amount)
    PROVE  /\ Post(d, u, o, amount) \in Database
           /\ PostedRow(d, u, o, amount) \in Row
<1>1. d.cash[u] + amount \in Nat
  BY DatabaseFields DEF Affordable
<1>2. PostedRow(d, u, o, amount) \in Row
  BY <1>1, DatabaseFields DEF Row, PostedRow
<1>3. Append(d.ledger[u], PostedRow(d, u, o, amount)) \in Seq(Row)
  BY <1>2, DatabaseFields
<1>4. [d.ledger EXCEPT ![u] = Append(d.ledger[u], PostedRow(d, u, o, amount))]
        \in [Users -> Seq(Row)]
  BY <1>3, DatabaseFields
<1>5. [d.cash EXCEPT ![u] = d.cash[u] + amount] \in [Users -> Nat]
  BY <1>1, DatabaseFields
<1>6. [d.next EXCEPT ![u] = d.next[u] + 1] \in [Users -> Nat]
  BY DatabaseFields
<1>7. Post(d, u, o, amount) \in Database
  BY <1>4, <1>5, <1>6, DatabaseFields DEF Post, Database, PostedRow
<1> QED
  BY <1>2, <1>7

\* A posting extends the chain of balances and takes a fresh identifier,
\* whatever order the row stands for.
LEMMA PostChained ==
    ASSUME NEW d \in Database, NEW u \in Users, NEW o \in OrderIds \cup {NoOrder},
           NEW amount \in Int, Affordable(d, u, amount),
           LedgerChained(d), IdsIncrease(d)
    PROVE  /\ LedgerChained(Post(d, u, o, amount))
           /\ IdsIncrease(Post(d, u, o, amount))
<1> DEFINE e == Post(d, u, o, amount)
           row == PostedRow(d, u, o, amount)
           n == Len(d.ledger[u])
<1>1. /\ e.ledger = [d.ledger EXCEPT ![u] = Append(d.ledger[u], row)]
      /\ e.cash = [d.cash EXCEPT ![u] = d.cash[u] + amount]
      /\ e.next = [d.next EXCEPT ![u] = d.next[u] + 1]
  BY DEF Post, PostedRow
<1>2. d.ledger[u] \in Seq(Row) /\ row \in Row /\ n \in Nat
  <2>1. d.ledger[u] \in Seq(Row)
    BY DatabaseFields
  <2>2. row \in Row
    BY PostType
  <2> QED
    BY <2>1, <2>2
<1>3. /\ Len(e.ledger[u]) = n + 1
      /\ \A i \in 1..n : e.ledger[u][i] = d.ledger[u][i]
      /\ e.ledger[u][n + 1] = row
  BY <1>1, <1>2, DatabaseFields
<1>4. \A v \in Users : v # u => /\ e.ledger[v] = d.ledger[v]
                                /\ e.cash[v] = d.cash[v]
                                /\ e.next[v] = d.next[v]
  BY <1>1, DatabaseFields
<1>5. e.cash[u] = row.after /\ e.next[u] = d.next[u] + 1
  BY <1>1, DatabaseFields DEF PostedRow
<1>6. /\ row.before = d.cash[u] /\ row.id = d.next[u] /\ row.after \in Nat
      /\ d.next \in [Users -> Nat]
  BY <1>2, DatabaseFields DEF PostedRow, Row
<1> HIDE DEF e, row, n
<1>7. LedgerChained(e)
  <2> SUFFICES ASSUME NEW v \in Users
               PROVE  /\ \A i \in 1..Len(e.ledger[v]) : e.ledger[v][i].before = BalanceBefore(e, v, i)
                      /\ e.cash[v] = BalanceBefore(e, v, Len(e.ledger[v]) + 1)
    BY DEF LedgerChained
  <2>1. CASE v # u
    BY SMTT(30), <2>1, <1>4 DEF LedgerChained, BalanceBefore
  <2>2. CASE v = u
    <3>1. ASSUME NEW i \in 1..(n + 1)
          PROVE  BalanceBefore(e, u, i) = BalanceBefore(d, u, i)
      <4>1. i = 1 \/ i - 1 \in 1..n
        BY <1>2
      <4> QED
        BY <4>1, <1>3 DEF BalanceBefore
    <3>2. \A i \in 1..n : e.ledger[u][i].before = BalanceBefore(e, u, i)
      <4>1. \A i \in 1..n : i \in 1..(n + 1) /\ d.ledger[u][i].before = BalanceBefore(d, u, i)
        BY <1>2 DEF LedgerChained, n
      <4> QED
        BY <4>1, <1>3, <3>1
    <3>3. row.before = BalanceBefore(e, u, n + 1)
      <4>1. d.cash[u] = BalanceBefore(d, u, n + 1)
        BY DEF LedgerChained, n
      <4>2. n + 1 \in 1..(n + 1)
        BY <1>2
      <4> QED
        BY <4>1, <4>2, <1>6, <3>1
    <3>4. e.cash[u] = BalanceBefore(e, u, n + 2)
      <4>1. n + 2 # 1 /\ (n + 2) - 1 = n + 1 
        BY <1>2
      <4> QED
        BY <4>1, <1>3, <1>5 DEF BalanceBefore
    <3>5. \A i \in 1..(n + 1) : i \in 1..n \/ i = n + 1
      BY <1>2
    <3>6. (n + 1) + 1 = n + 2
      BY <1>2
    <3> QED
      BY <2>2, <1>3, <3>2, <3>3, <3>4, <3>5, <3>6
  <2> QED
    BY <2>1, <2>2
<1>8. IdsIncrease(e)
  <2> SUFFICES ASSUME NEW v \in Users, NEW i \in 1..Len(e.ledger[v])
               PROVE  /\ e.ledger[v][i].id < e.next[v]
                      /\ \A j \in 1..(i - 1) : e.ledger[v][j].id < e.ledger[v][i].id
    BY DEF IdsIncrease
  <2>1. CASE v # u
    BY <2>1, <1>4 DEF IdsIncrease
  <2>2. CASE v = u
    <3>1. \A k \in 1..n : d.ledger[u][k].id \in Nat /\ d.ledger[u][k].id < d.next[u]
      <4>1. \A k \in 1..n : d.ledger[u][k] \in Row
        BY <1>2 DEF n
      <4> QED
        BY <4>1 DEF IdsIncrease, Row, n
    <3>2. CASE i = n + 1
      <4>1. \A j \in 1..(i - 1) : j \in 1..n
        BY <3>2, <1>2
      <4> QED
        <5>1. e.ledger[u][i].id = d.next[u] /\ e.next[u] = d.next[u] + 1 /\ d.next[u] \in Nat
          BY <3>2, <1>3, <1>5, <1>6
        <5>2. \A j \in 1..(i - 1) : e.ledger[u][j].id < d.next[u]
          BY <3>1, <4>1, <1>3
        <5> QED
          BY <2>2, <5>1, <5>2
    <3>3. CASE i \in 1..n
      <4>1. \A j \in 1..(i - 1) : j \in 1..n /\ d.ledger[u][j].id < d.ledger[u][i].id
        BY <3>3, <1>2 DEF IdsIncrease, n
      <4> QED
        <5>1. e.ledger[u][i].id < d.next[u] /\ e.next[u] = d.next[u] + 1 /\ d.next[u] \in Nat
              /\ e.ledger[u][i].id \in Nat
          BY <3>1, <3>3, <1>3, <1>5, <1>6
        <5>2. \A j \in 1..(i - 1) : e.ledger[u][j].id < e.ledger[u][i].id
          BY <3>3, <4>1, <1>3
        <5> QED
          BY <2>2, <5>1, <5>2
    <3> QED
      BY <2>2, <3>2, <3>3, <1>2, <1>3
  <2> QED
    BY <2>1, <2>2
<1> QED
  BY <1>7, <1>8 DEF e

\* e has the orders of d, the rows of d, and one more row of the user u.
OneRowMore(d, e, u, row) ==
    /\ e.orders = d.orders
    /\ \A v \in Users : \A i \in 1..Len(d.ledger[v]) :
          i \in 1..Len(e.ledger[v]) /\ e.ledger[v][i] = d.ledger[v][i]
    /\ \A v \in Users : \A i \in 1..Len(e.ledger[v]) :
          i \in 1..Len(d.ledger[v]) \/ (v = u /\ e.ledger[v][i] = row)
    /\ \E i \in 1..Len(e.ledger[u]) : e.ledger[u][i] = row

\* The rows after a posting: the old ones and the posted one.
LEMMA PostRows ==
    ASSUME NEW d \in Database, NEW u \in Users, NEW o \in OrderIds \cup {NoOrder},
           NEW amount \in Int, Affordable(d, u, amount)
    PROVE  OneRowMore(d, Post(d, u, o, amount), u, PostedRow(d, u, o, amount))
<1> DEFINE row == PostedRow(d, u, o, amount)
           n == Len(d.ledger[u])
           e == Post(d, u, o, amount)
<1>1. e.ledger = [d.ledger EXCEPT ![u] = Append(d.ledger[u], row)] /\ e.orders = d.orders
  BY DEF Post, PostedRow
<1>2. d.ledger[u] \in Seq(Row) /\ row \in Row /\ n \in Nat
  <2>1. d.ledger[u] \in Seq(Row)
    BY DatabaseFields
  <2>2. row \in Row
    BY PostType
  <2> QED
    BY <2>1, <2>2
<1>3. /\ Len(e.ledger[u]) = n + 1
      /\ \A i \in 1..n : e.ledger[u][i] = d.ledger[u][i]
      /\ e.ledger[u][n + 1] = row
  BY <1>1, <1>2, DatabaseFields
<1>4. \A v \in Users : v # u => e.ledger[v] = d.ledger[v]
  BY <1>1, DatabaseFields
<1> HIDE DEF row, e
<1>5. \A i \in 1..(n + 1) : i \in 1..n \/ i = n + 1
  BY <1>2
<1>6. n + 1 \in 1..(n + 1) /\ \A i \in 1..n : i \in 1..(n + 1)
  BY <1>2
<1>7. /\ \A v \in Users : \A i \in 1..Len(d.ledger[v]) :
            i \in 1..Len(e.ledger[v]) /\ e.ledger[v][i] = d.ledger[v][i]
      /\ \A v \in Users : \A i \in 1..Len(e.ledger[v]) :
            i \in 1..Len(d.ledger[v]) \/ (v = u /\ e.ledger[v][i] = row)
  BY <1>3, <1>4, <1>5, <1>6
<1>8. \E i \in 1..Len(e.ledger[u]) : e.ledger[u][i] = row
  BY <1>3, <1>6
<1> QED
  BY <1>1, <1>7, <1>8 DEF OneRowMore, row, e

\* A row that stands for no order leaves every order with its trade.
LEMMA PostConsistent ==
    ASSUME NEW d \in Database, NEW u \in Users, NEW amount \in Int,
           Affordable(d, u, amount), Consistent(d)
    PROVE  Consistent(Post(d, u, NoOrder, amount))
<1> DEFINE e == Post(d, u, NoOrder, amount)
<1>1. LedgerChained(e) /\ IdsIncrease(e)
  BY PostChained DEF Consistent
<1>2. PostedRow(d, u, NoOrder, amount).order = NoOrder
  BY DEF PostedRow
<1>3. /\ e.orders = d.orders
      /\ \A v \in Users : \A i \in 1..Len(d.ledger[v]) :
            i \in 1..Len(e.ledger[v]) /\ e.ledger[v][i] = d.ledger[v][i]
      /\ \A v \in Users : \A i \in 1..Len(e.ledger[v]) :
            \/ i \in 1..Len(d.ledger[v])
            \/ v = u /\ e.ledger[v][i] = PostedRow(d, u, NoOrder, amount)
  <2>1. OneRowMore(d, e, u, PostedRow(d, u, NoOrder, amount))
    BY PostRows
  <2> QED
    BY <2>1 DEF OneRowMore
<1> HIDE DEF e
<1>4. CompletedHasRow(e)
  <2> SUFFICES ASSUME NEW o \in OrderIds, e.orders[o].status = "completed"
               PROVE  \E i \in 1..Len(e.ledger[e.orders[o].body.user]) :
                         /\ e.ledger[e.orders[o].body.user][i].order = o
                         /\ e.ledger[e.orders[o].body.user][i].id = e.orders[o].tx
    BY DEF CompletedHasRow
  <2>0. e.orders[o] = d.orders[o]
    BY <1>3
  <2>1. d.orders[o].body.user \in Users
    BY DatabaseFields, BodiesAssumption DEF Outcome
  <2> QED
    <3>1. PICK i \in 1..Len(d.ledger[d.orders[o].body.user]) :
             /\ d.ledger[d.orders[o].body.user][i].order = o
             /\ d.ledger[d.orders[o].body.user][i].id = d.orders[o].tx
      BY <2>0 DEF Consistent, CompletedHasRow
    <3> QED
      BY <2>0, <2>1, <3>1, <1>3
<1>5. RowHasCompleted(e)
  <2> SUFFICES ASSUME NEW v \in Users, NEW i \in 1..Len(e.ledger[v]),
                      e.ledger[v][i].order \in OrderIds
               PROVE  /\ e.orders[e.ledger[v][i].order].status = "completed"
                      /\ e.orders[e.ledger[v][i].order].body.user = v
                      /\ e.orders[e.ledger[v][i].order].tx = e.ledger[v][i].id
    BY DEF RowHasCompleted
  <2>1. i \in 1..Len(d.ledger[v])
    BY <1>2, <1>3, NoOrderAssumption
  <2> QED
    <3>1. d.ledger[v][i] = e.ledger[v][i]
      BY <2>1, <1>3
    <3>2. /\ d.orders[d.ledger[v][i].order].status = "completed"
          /\ d.orders[d.ledger[v][i].order].body.user = v
          /\ d.orders[d.ledger[v][i].order].tx = d.ledger[v][i].id
      BY <2>1, <3>1 DEF Consistent, RowHasCompleted
    <3> QED
      BY <3>1, <3>2, <1>3
<1> QED
  BY <1>1, <1>4, <1>5 DEF Consistent, e

\* A trade with its fee, for no client order.
LEMMA TradeConsistent ==
    ASSUME NEW d \in Database, NEW u \in Users, NEW amount \in Int,
           FeeAffordable(d, u, amount), Consistent(d)
    PROVE  /\ Trade(d, u, NoOrder, amount) \in Database
           /\ Consistent(Trade(d, u, NoOrder, amount))
<1> DEFINE e == Post(d, u, NoOrder, amount)
<1>1. Affordable(d, u, amount)
  BY DatabaseFields, MoneyAssumption DEF FeeAffordable, Affordable
<1>2. e \in Database /\ Consistent(e)
  BY <1>1, PostType, PostConsistent
<1>3. e.cash[u] = d.cash[u] + amount
  BY DatabaseFields DEF Post
<1>4. Affordable(e, u, -Fee) /\ -Fee \in Int
  BY <1>3, DatabaseFields, MoneyAssumption DEF FeeAffordable, Affordable
<1> HIDE DEF e
<1>5. Post(e, u, NoOrder, -Fee) \in Database /\ Consistent(Post(e, u, NoOrder, -Fee))
  BY <1>2, <1>4, PostType, PostConsistent
<1> QED
  BY <1>5 DEF Trade, e

\* Deciding an order touches the orders table alone.
LEMMA DecideType ==
    ASSUME NEW d \in Database, NEW o \in OrderIds, NEW outcome \in Outcome
    PROVE  /\ Decide(d, o, outcome) \in Database
           /\ LedgerChained(d) => LedgerChained(Decide(d, o, outcome))
           /\ IdsIncrease(d) => IdsIncrease(Decide(d, o, outcome))
<1> DEFINE e == Decide(d, o, outcome)
<1>1. e.ledger = d.ledger /\ e.cash = d.cash /\ e.next = d.next
  BY DEF Decide
<1>2. [d.orders EXCEPT ![o] = outcome] \in [OrderIds -> Outcome]
  BY DatabaseFields
<1>3. e \in Database
  BY <1>2, DatabaseFields DEF Decide, Database
<1> HIDE DEF e
<1>4. LedgerChained(d) => LedgerChained(e)
  <2>1. \A u \in Users, i \in Int : BalanceBefore(e, u, i) = BalanceBefore(d, u, i)
    BY <1>1 DEF BalanceBefore
  <2>2. \A u \in Users : Len(d.ledger[u]) + 1 \in Int /\ \A i \in 1..Len(d.ledger[u]) : i \in Int
    BY DatabaseFields
  <2> QED
    BY <2>1, <2>2, <1>1 DEF LedgerChained
<1>5. IdsIncrease(d) => IdsIncrease(e)
  BY <1>1 DEF IdsIncrease
<1> QED
  BY <1>3, <1>4, <1>5 DEF e

\* An order without an outcome that passes every guardrail: trade, fee and
\* outcome together keep the database consistent.
LEMMA ExecuteFreshConsistent ==
    ASSUME NEW d \in Database, NEW o \in OrderIds, NEW b \in Bodies,
           d.orders[o].status = "none", FeeAffordable(d, b.user, b.amount), Consistent(d)
    PROVE  /\ ExecuteFresh(d, o, b) \in Database
           /\ Consistent(ExecuteFresh(d, o, b))
<1> DEFINE u == b.user
           charge == -Fee
           traded == Post(d, u, o, b.amount)
           charged == Post(traded, u, NoOrder, charge)
           outcome == [status |-> "completed", body |-> b, tx |-> d.next[u]]
           decided == Decide(charged, o, outcome)
           row == PostedRow(d, u, o, b.amount)
<1>1. u \in Users /\ b.amount \in Int /\ charge \in Int
  BY BodiesAssumption, MoneyAssumption
<1>2. Affordable(d, u, b.amount)
  BY <1>1, DatabaseFields, MoneyAssumption DEF FeeAffordable, Affordable
<1>3. traded \in Database /\ LedgerChained(traded) /\ IdsIncrease(traded)
  BY <1>1, <1>2, PostType, PostChained DEF Consistent
<1>4. traded.cash[u] = d.cash[u] + b.amount
  BY <1>1, DatabaseFields DEF Post
<1>5. Affordable(traded, u, charge)
  BY <1>1, <1>4, DatabaseFields, MoneyAssumption DEF FeeAffordable, Affordable
<1>6. /\ traded.orders = d.orders
      /\ \A v \in Users : \A i \in 1..Len(d.ledger[v]) :
            i \in 1..Len(traded.ledger[v]) /\ traded.ledger[v][i] = d.ledger[v][i]
      /\ \A v \in Users : \A i \in 1..Len(traded.ledger[v]) :
            i \in 1..Len(d.ledger[v]) \/ (v = u /\ traded.ledger[v][i] = row)
      /\ \E i \in 1..Len(traded.ledger[u]) : traded.ledger[u][i] = row
  <2>1. OneRowMore(d, traded, u, row)
    BY <1>1, <1>2, PostRows
  <2> QED
    BY <2>1 DEF OneRowMore
<1>7. outcome \in Outcome
  BY <1>1, DatabaseFields DEF Outcome
<1>8. row.order = o /\ row.id = outcome.tx
  BY DEF PostedRow
<1>9. \A v \in Users : \A i \in 1..Len(d.ledger[v]) :
         d.ledger[v][i].order \in OrderIds =>
            /\ d.ledger[v][i].order # o
            /\ d.orders[d.ledger[v][i].order].status = "completed"
            /\ d.orders[d.ledger[v][i].order].body.user = v
            /\ d.orders[d.ledger[v][i].order].tx = d.ledger[v][i].id
  BY DEF Consistent, RowHasCompleted
<1>10. \A p \in OrderIds : d.orders[p].status = "completed" =>
          \E i \in 1..Len(d.ledger[d.orders[p].body.user]) :
             /\ d.ledger[d.orders[p].body.user][i].order = p
             /\ d.ledger[d.orders[p].body.user][i].id = d.orders[p].tx
  BY DEF Consistent, CompletedHasRow
<1>11. \A p \in OrderIds : d.orders[p].body.user \in Users
  BY DatabaseFields, BodiesAssumption DEF Outcome
<1>12. outcome.status = "completed" /\ outcome.body.user = u
  OBVIOUS
<1> HIDE DEF traded, row
<1>13. charged \in Database /\ LedgerChained(charged) /\ IdsIncrease(charged)
  BY <1>1, <1>3, <1>5, PostType, PostChained
<1>13a. charged = Post(traded, u, NoOrder, charge) /\ NoOrder \in OrderIds \cup {NoOrder}
  OBVIOUS
<1> HIDE DEF charged, charge, u
<1>14. /\ charged.orders = traded.orders
       /\ \A v \in Users : \A i \in 1..Len(traded.ledger[v]) :
             i \in 1..Len(charged.ledger[v]) /\ charged.ledger[v][i] = traded.ledger[v][i]
       /\ \A v \in Users : \A i \in 1..Len(charged.ledger[v]) :
             \/ i \in 1..Len(traded.ledger[v])
             \/ v = u /\ charged.ledger[v][i] = PostedRow(traded, u, NoOrder, charge)
  <2>1. OneRowMore(traded, charged, u, PostedRow(traded, u, NoOrder, charge))
    BY <1>1, <1>3, <1>5, <1>13a, PostRows
  <2> QED
    BY <2>1 DEF OneRowMore
<1>15. PostedRow(traded, u, NoOrder, charge).order = NoOrder
  BY DEF PostedRow
<1>16. decided \in Database /\ LedgerChained(decided) /\ IdsIncrease(decided)
  BY <1>7, <1>13, DecideType
<1>17. decided.ledger = charged.ledger /\ decided.orders = [d.orders EXCEPT ![o] = outcome]
  BY <1>6, <1>14 DEF Decide
<1>18. decided.orders[o] = outcome /\ \A p \in OrderIds : p # o => decided.orders[p] = d.orders[p]
  BY <1>17, DatabaseFields
<1> HIDE DEF decided, outcome
<1>19. CompletedHasRow(decided)
  <2> SUFFICES ASSUME NEW p \in OrderIds, decided.orders[p].status = "completed"
               PROVE  \E i \in 1..Len(decided.ledger[decided.orders[p].body.user]) :
                         /\ decided.ledger[decided.orders[p].body.user][i].order = p
                         /\ decided.ledger[decided.orders[p].body.user][i].id = decided.orders[p].tx
    BY DEF CompletedHasRow
  <2>1. CASE p = o
    <3>1. PICK i \in 1..Len(traded.ledger[u]) : traded.ledger[u][i] = row
      BY <1>6
    <3>2. i \in 1..Len(decided.ledger[u]) /\ decided.ledger[u][i] = row
      BY <3>1, <1>1, <1>14, <1>17
    <3> QED
      BY <2>1, <3>2, <1>8, <1>12, <1>18
  <2>2. CASE p # o
    <3> DEFINE v == d.orders[p].body.user
    <3>1. decided.orders[p] = d.orders[p] /\ v \in Users
      BY <2>2, <1>11, <1>18
    <3>2. PICK i \in 1..Len(d.ledger[v]) : d.ledger[v][i].order = p /\ d.ledger[v][i].id = d.orders[p].tx
      BY <3>1, <1>10
    <3>3. i \in 1..Len(decided.ledger[v]) /\ decided.ledger[v][i] = d.ledger[v][i]
      BY <3>1, <1>6, <1>14, <1>17
    <3> QED
      BY <3>1, <3>2, <3>3
  <2> QED
    BY <2>1, <2>2
<1>20. RowHasCompleted(decided)
  <2> SUFFICES ASSUME NEW v \in Users, NEW i \in 1..Len(decided.ledger[v]),
                      decided.ledger[v][i].order \in OrderIds
               PROVE  /\ decided.orders[decided.ledger[v][i].order].status = "completed"
                      /\ decided.orders[decided.ledger[v][i].order].body.user = v
                      /\ decided.orders[decided.ledger[v][i].order].tx = decided.ledger[v][i].id
    BY DEF RowHasCompleted
  <2>1. i \in 1..Len(traded.ledger[v]) /\ decided.ledger[v][i] = traded.ledger[v][i]
    BY <1>14, <1>15, <1>17, NoOrderAssumption
  <2>2. CASE i \in 1..Len(d.ledger[v])
    <3>1. decided.ledger[v][i] = d.ledger[v][i]
      BY <2>1, <2>2, <1>6
    <3>2. /\ d.ledger[v][i].order # o
          /\ d.orders[d.ledger[v][i].order].status = "completed"
          /\ d.orders[d.ledger[v][i].order].body.user = v
          /\ d.orders[d.ledger[v][i].order].tx = d.ledger[v][i].id
      BY <2>2, <3>1, <1>9
    <3>3. decided.orders[d.ledger[v][i].order] = d.orders[d.ledger[v][i].order]
      BY <3>1, <3>2, <1>18
    <3> QED
      BY <3>1, <3>2, <3>3
  <2>3. CASE v = u /\ traded.ledger[v][i] = row
    BY <2>1, <2>3, <1>8, <1>12, <1>18
  <2> QED
    BY <2>1, <2>2, <2>3, <1>6
<1> QED
  BY <1>16, <1>19, <1>20
     DEF Consistent, ExecuteFresh, Trade, RecordCompleted, decided, charged, charge, traded, outcome, u

\* A rejection is stored for an order that has no outcome: no row stands for it.
LEMMA RejectionConsistent ==
    ASSUME NEW d \in Database, NEW o \in OrderIds, NEW b \in Bodies,
           d.orders[o].status = "none", Consistent(d)
    PROVE  /\ RecordRejection(d, o, b) \in Database
           /\ Consistent(RecordRejection(d, o, b))
<1> DEFINE outcome == [status |-> "rejected", body |-> b, tx |-> 0]
           e == Decide(d, o, outcome)
<1>1. outcome \in Outcome /\ outcome.status = "rejected"
  BY DEF Outcome
<1>2. /\ e.ledger = d.ledger
      /\ e.orders[o] = outcome
      /\ \A p \in OrderIds : p # o => e.orders[p] = d.orders[p]
  BY DatabaseFields DEF Decide
<1> HIDE DEF outcome
<1>3. e \in Database /\ LedgerChained(e) /\ IdsIncrease(e)
  BY <1>1, DecideType DEF Consistent
<1> HIDE DEF e
<1>4. CompletedHasRow(e)
  <2> SUFFICES ASSUME NEW p \in OrderIds, e.orders[p].status = "completed"
               PROVE  \E i \in 1..Len(e.ledger[e.orders[p].body.user]) :
                         /\ e.ledger[e.orders[p].body.user][i].order = p
                         /\ e.ledger[e.orders[p].body.user][i].id = e.orders[p].tx
    BY DEF CompletedHasRow
  <2>1. e.orders[p] = d.orders[p]
    BY <1>1, <1>2
  <2>2. \E i \in 1..Len(d.ledger[d.orders[p].body.user]) :
           /\ d.ledger[d.orders[p].body.user][i].order = p
           /\ d.ledger[d.orders[p].body.user][i].id = d.orders[p].tx
    BY <2>1 DEF Consistent, CompletedHasRow
  <2> QED
    BY <2>1, <2>2, <1>2
<1>5. RowHasCompleted(e)
  <2> SUFFICES ASSUME NEW v \in Users, NEW i \in 1..Len(d.ledger[v]),
                      d.ledger[v][i].order \in OrderIds
               PROVE  /\ e.orders[d.ledger[v][i].order].status = "completed"
                      /\ e.orders[d.ledger[v][i].order].body.user = v
                      /\ e.orders[d.ledger[v][i].order].tx = d.ledger[v][i].id
    BY SMTT(30), <1>2 DEF RowHasCompleted
  <2>1. /\ d.orders[d.ledger[v][i].order].status = "completed"
        /\ d.orders[d.ledger[v][i].order].body.user = v
        /\ d.orders[d.ledger[v][i].order].tx = d.ledger[v][i].id
    BY ZenonT(60) DEF Consistent, RowHasCompleted
  <2>2. e.orders[d.ledger[v][i].order] = d.orders[d.ledger[v][i].order]
    BY <2>1, <1>2
  <2> QED
    BY <2>1, <2>2
<1> QED
  BY <1>3, <1>4, <1>5 DEF Consistent, RecordRejection, e, outcome

\* The data an installation starts with.
LEMMA FreshConsistent == FreshDatabase \in Database /\ Consistent(FreshDatabase)
<1>1. NoOutcome \in Outcome /\ NoOutcome.status = "none"
  <2>1. (CHOOSE b \in Bodies : TRUE) \in Bodies
    BY BodiesAssumption
  <2> QED
    BY <2>1 DEF NoOutcome, Outcome
<1>2. FreshDatabase \in Database
  BY <1>1, MoneyAssumption DEF FreshDatabase, Database
<1>3. \A u \in Users : FreshDatabase.ledger[u] = << >> /\ FreshDatabase.cash[u] = StartingCash
  BY DEF FreshDatabase
<1>4. \A o \in OrderIds : FreshDatabase.orders[o].status = "none"
  BY <1>1 DEF FreshDatabase
<1>5. \A u \in Users : Len(FreshDatabase.ledger[u]) = 0
  <2>1. \A s : s = << >> => Len(s) = 0
    OBVIOUS
  <2> QED
    BY ZenonT(60), <1>3, <2>1
<1> DEFINE d == FreshDatabase
<1> HIDE DEF d
<1>6. LedgerChained(d)
  <2> SUFFICES ASSUME NEW u \in Users
               PROVE  /\ \A i \in 1..Len(d.ledger[u]) : d.ledger[u][i].before = BalanceBefore(d, u, i)
                      /\ d.cash[u] = BalanceBefore(d, u, Len(d.ledger[u]) + 1)
    BY DEF LedgerChained
  <2>1. Len(d.ledger[u]) = 0 /\ d.cash[u] = StartingCash
    BY <1>3, <1>5 DEF d
  <2> QED
    BY <2>1 DEF BalanceBefore
<1>7. IdsIncrease(d)
  BY <1>5 DEF IdsIncrease, d
<1>8. CompletedHasRow(d)
  BY <1>4 DEF CompletedHasRow, d
<1>9. RowHasCompleted(d)
  BY <1>5 DEF RowHasCompleted, d
<1> QED
  BY <1>2, <1>6, <1>7, <1>8, <1>9 DEF Consistent, d

\* A reset of the users in U takes their orders together with their rows.
LEMMA WipeConsistent ==
    ASSUME NEW d \in Database, NEW U \in SUBSET Users, Consistent(d)
    PROVE  Wipe(d, U) \in Database /\ Consistent(Wipe(d, U))
<1> DEFINE e == Wipe(d, U)
           gone(o) == d.orders[o].status # "none" /\ d.orders[o].body.user \in U
<1>1. NoOutcome \in Outcome /\ NoOutcome.status = "none"
  <2>1. (CHOOSE b \in Bodies : TRUE) \in Bodies
    BY BodiesAssumption
  <2> QED
    BY <2>1 DEF NoOutcome, Outcome
<1>2. /\ \A o \in OrderIds : e.orders[o] = IF gone(o) THEN NoOutcome ELSE d.orders[o]
      /\ \A u \in Users : e.ledger[u] = IF u \in U THEN << >> ELSE d.ledger[u]
      /\ \A u \in Users : e.cash[u] = IF u \in U THEN StartingCash ELSE d.cash[u]
      /\ e.next = d.next
  BY DEF Wipe
<1>3. e \in Database
  <2>1. e.orders \in [OrderIds -> Outcome]
    BY <1>1, DatabaseFields DEF Wipe
  <2>2. e.ledger \in [Users -> Seq(Row)]
    BY DatabaseFields DEF Wipe
  <2>3. e.cash \in [Users -> Nat] /\ e.next \in [Users -> Nat] /\ e.epoch \in [Users -> Nat]
    BY MoneyAssumption, DatabaseFields DEF Wipe
  <2>4. e = [orders |-> e.orders, ledger |-> e.ledger, cash |-> e.cash,
             next |-> e.next, epoch |-> e.epoch]
    BY DEF Wipe
  <2> HIDE DEF e
  <2> QED
    BY <2>1, <2>2, <2>3, <2>4 DEF Database
<1> HIDE DEF e
<1>4. LedgerChained(e)
  <2> SUFFICES ASSUME NEW v \in Users
               PROVE  /\ \A i \in 1..Len(e.ledger[v]) : e.ledger[v][i].before = BalanceBefore(e, v, i)
                      /\ e.cash[v] = BalanceBefore(e, v, Len(e.ledger[v]) + 1)
    BY DEF LedgerChained
  <2>1. CASE v \in U
    <3>1. Len(e.ledger[v]) = 0 /\ e.cash[v] = StartingCash
      BY <2>1, <1>2
    <3> QED
      BY <3>1 DEF BalanceBefore
  <2>2. CASE v \notin U
    <3>1. e.ledger[v] = d.ledger[v] /\ e.cash[v] = d.cash[v]
      BY <2>2, <1>2
    <3>2. \A i \in Int : BalanceBefore(e, v, i) = BalanceBefore(d, v, i)
      BY <3>1 DEF BalanceBefore
    <3>3. Len(d.ledger[v]) + 1 \in Int /\ \A i \in 1..Len(d.ledger[v]) : i \in Int
      BY DatabaseFields
    <3>4. /\ \A i \in 1..Len(d.ledger[v]) : d.ledger[v][i].before = BalanceBefore(d, v, i)
          /\ d.cash[v] = BalanceBefore(d, v, Len(d.ledger[v]) + 1)
      BY DEF Consistent, LedgerChained
    <3> QED
      BY <3>1, <3>2, <3>3, <3>4
  <2> QED
    BY <2>1, <2>2
<1>5. IdsIncrease(e)
  BY <1>2 DEF Consistent, IdsIncrease
<1>6. CompletedHasRow(e)
  <2> SUFFICES ASSUME NEW o \in OrderIds, e.orders[o].status = "completed"
               PROVE  \E i \in 1..Len(e.ledger[e.orders[o].body.user]) :
                         /\ e.ledger[e.orders[o].body.user][i].order = o
                         /\ e.ledger[e.orders[o].body.user][i].id = e.orders[o].tx
    BY DEF CompletedHasRow
  <2>1. e.orders[o] = d.orders[o] /\ d.orders[o].body.user \notin U
    BY <1>1, <1>2
  <2>2. d.orders[o].body.user \in Users
    BY DatabaseFields, BodiesAssumption DEF Outcome
  <2>3. e.ledger[d.orders[o].body.user] = d.ledger[d.orders[o].body.user]
    BY <2>1, <2>2, <1>2
  <2>4. \E i \in 1..Len(d.ledger[d.orders[o].body.user]) :
           /\ d.ledger[d.orders[o].body.user][i].order = o
           /\ d.ledger[d.orders[o].body.user][i].id = d.orders[o].tx
    BY <2>1 DEF Consistent, CompletedHasRow
  <2> QED
    BY <2>1, <2>3, <2>4
<1>7. RowHasCompleted(e)
  <2> SUFFICES ASSUME NEW v \in Users, NEW i \in 1..Len(e.ledger[v]),
                      e.ledger[v][i].order \in OrderIds
               PROVE  /\ e.orders[e.ledger[v][i].order].status = "completed"
                      /\ e.orders[e.ledger[v][i].order].body.user = v
                      /\ e.orders[e.ledger[v][i].order].tx = e.ledger[v][i].id
    BY DEF RowHasCompleted
  <2>1. v \notin U /\ e.ledger[v] = d.ledger[v]
    BY <1>2
  <2> DEFINE row == d.ledger[v][i]
  <2>0. i \in 1..Len(d.ledger[v]) /\ row.order \in OrderIds
    BY <2>1
  <2>2. /\ d.orders[row.order].status = "completed"
        /\ d.orders[row.order].body.user = v
        /\ d.orders[row.order].tx = row.id
    BY ZenonT(60), <2>0 DEF Consistent, RowHasCompleted
  <2>3. e.orders[d.ledger[v][i].order] = d.orders[d.ledger[v][i].order]
    BY <2>1, <2>2, <1>2
  <2> QED
    BY <2>1, <2>2, <2>3
<1> QED
  BY <1>3, <1>4, <1>5, <1>6, <1>7 DEF Consistent, e

\* The row of an index purchase takes the whole balance.
SeedRow(d, u) == [id |-> d.next[u], order |-> NoOrder, before |-> d.cash[u], after |-> 0]

\* Seeding a user is a posting of minus the balance; seeding none changes nothing.
LEMMA SeedRows ==
    ASSUME NEW d \in Database, NEW S \in SUBSET Users, NEW u \in Users
    PROVE  LET p == Post(d, u, NoOrder, -d.cash[u])
               e == SeedIndex(d, S) IN
           /\ e.ledger[u] = IF u \in S THEN p.ledger[u] ELSE d.ledger[u]
           /\ e.cash[u] = IF u \in S THEN p.cash[u] ELSE d.cash[u]
           /\ e.next[u] = IF u \in S THEN p.next[u] ELSE d.next[u]
<1>1. d.cash[u] + -d.cash[u] = 0
  BY DatabaseFields
<1>2. PostedRow(d, u, NoOrder, -d.cash[u]) = SeedRow(d, u)
  BY <1>1 DEF PostedRow, SeedRow
<1>3. /\ Post(d, u, NoOrder, -d.cash[u]).ledger[u] = Append(d.ledger[u], SeedRow(d, u))
      /\ Post(d, u, NoOrder, -d.cash[u]).cash[u] = 0
      /\ Post(d, u, NoOrder, -d.cash[u]).next[u] = d.next[u] + 1
  BY <1>1, <1>2, DatabaseFields DEF Post, PostedRow
<1> QED
  BY <1>3 DEF SeedIndex, SeedRow

\* Seeding the index users keeps the database consistent.
LEMMA SeedConsistent ==
    ASSUME NEW d \in Database, NEW S \in SUBSET Users, Consistent(d)
    PROVE  SeedIndex(d, S) \in Database /\ Consistent(SeedIndex(d, S))
<1> DEFINE e == SeedIndex(d, S)
           p(u) == Post(d, u, NoOrder, -d.cash[u])
<1>1. \A u \in Users :
         /\ e.ledger[u] = IF u \in S THEN p(u).ledger[u] ELSE d.ledger[u]
         /\ e.cash[u] = IF u \in S THEN p(u).cash[u] ELSE d.cash[u]
         /\ e.next[u] = IF u \in S THEN p(u).next[u] ELSE d.next[u]
  BY SeedRows
<1>2. e.orders = d.orders
  BY DEF SeedIndex
<1>3. ASSUME NEW u \in Users
      PROVE  /\ p(u) \in Database
             /\ LedgerChained(p(u)) /\ IdsIncrease(p(u))
             /\ OneRowMore(d, p(u), u, PostedRow(d, u, NoOrder, -d.cash[u]))
  <2>1. -d.cash[u] \in Int /\ Affordable(d, u, -d.cash[u])
    BY DatabaseFields DEF Affordable
  <2> QED
    BY <2>1, PostType, PostChained, PostRows DEF Consistent
<1>4. e \in Database
  <2>1. \A u \in Users : SeedRow(d, u) \in Row
    BY DatabaseFields DEF SeedRow, Row
  <2>2. ASSUME NEW u \in Users PROVE Append(d.ledger[u], SeedRow(d, u)) \in Seq(Row)
    <3>1. d.ledger[u] \in Seq(Row) /\ SeedRow(d, u) \in Row
      BY <2>1, DatabaseFields
    <3> QED
      BY <3>1
  <2>3. e.ledger = [u \in Users |-> IF u \in S THEN Append(d.ledger[u], SeedRow(d, u))
                                               ELSE d.ledger[u]]
    BY DEF SeedIndex, SeedRow
  <2>4. e.ledger \in [Users -> Seq(Row)]
    BY <2>2, <2>3, DatabaseFields
  <2>5. /\ e.orders \in [OrderIds -> Outcome] /\ e.cash \in [Users -> Nat]
        /\ e.next \in [Users -> Nat] /\ e.epoch \in [Users -> Nat]
    BY DatabaseFields DEF SeedIndex
  <2>6. e = [orders |-> e.orders, ledger |-> e.ledger, cash |-> e.cash,
             next |-> e.next, epoch |-> e.epoch]
    BY DEF SeedIndex
  <2> HIDE DEF e
  <2> QED
    BY <2>4, <2>5, <2>6 DEF Database
<1> HIDE DEF e
<1>5. LedgerChained(e)
  <2> SUFFICES ASSUME NEW v \in Users
               PROVE  /\ \A i \in 1..Len(e.ledger[v]) : e.ledger[v][i].before = BalanceBefore(e, v, i)
                      /\ e.cash[v] = BalanceBefore(e, v, Len(e.ledger[v]) + 1)
    BY DEF LedgerChained
  <2>1. PICK f \in Database : /\ e.ledger[v] = f.ledger[v] /\ e.cash[v] = f.cash[v]
                              /\ LedgerChained(f)
    <3>1. LedgerChained(d)
      BY DEF Consistent
    <3> QED
      BY <3>1, <1>1, <1>3
  <2>2. \A i \in Int : BalanceBefore(e, v, i) = BalanceBefore(f, v, i)
    BY <2>1 DEF BalanceBefore
  <2>3. Len(f.ledger[v]) + 1 \in Int /\ \A i \in 1..Len(f.ledger[v]) : i \in Int
    BY DatabaseFields
  <2>4. /\ \A i \in 1..Len(f.ledger[v]) : f.ledger[v][i].before = BalanceBefore(f, v, i)
        /\ f.cash[v] = BalanceBefore(f, v, Len(f.ledger[v]) + 1)
    BY <2>1 DEF LedgerChained
  <2> QED
    BY <2>1, <2>2, <2>3, <2>4
<1>6. IdsIncrease(e)
  <2> SUFFICES ASSUME NEW v \in Users
               PROVE  \A i \in 1..Len(e.ledger[v]) :
                         /\ e.ledger[v][i].id < e.next[v]
                         /\ \A j \in 1..(i - 1) : e.ledger[v][j].id < e.ledger[v][i].id
    BY DEF IdsIncrease
  <2>1. PICK f \in Database : /\ e.ledger[v] = f.ledger[v] /\ e.next[v] = f.next[v]
                              /\ IdsIncrease(f)
    <3>1. IdsIncrease(d)
      BY DEF Consistent
    <3> QED
      BY <3>1, <1>1, <1>3
  <2> QED
    BY <2>1 DEF IdsIncrease
<1>7. \A v \in Users : \A i \in 1..Len(d.ledger[v]) :
         i \in 1..Len(e.ledger[v]) /\ e.ledger[v][i] = d.ledger[v][i]
  BY <1>1, <1>3 DEF OneRowMore
<1>8. \A v \in Users : \A i \in 1..Len(e.ledger[v]) :
         \/ i \in 1..Len(d.ledger[v])
         \/ e.ledger[v][i].order = NoOrder
  <2>1. \A v \in Users : PostedRow(d, v, NoOrder, -d.cash[v]).order = NoOrder
    BY DEF PostedRow
  <2> QED
    BY <2>1, <1>1, <1>3 DEF OneRowMore
<1>9. CompletedHasRow(e)
  <2> SUFFICES ASSUME NEW o \in OrderIds, e.orders[o].status = "completed"
               PROVE  \E i \in 1..Len(e.ledger[e.orders[o].body.user]) :
                         /\ e.ledger[e.orders[o].body.user][i].order = o
                         /\ e.ledger[e.orders[o].body.user][i].id = e.orders[o].tx
    BY DEF CompletedHasRow
  <2>0. e.orders[o] = d.orders[o]
    BY <1>2
  <2>1. d.orders[o].body.user \in Users
    BY DatabaseFields, BodiesAssumption DEF Outcome
  <2>2. PICK i \in 1..Len(d.ledger[d.orders[o].body.user]) :
           /\ d.ledger[d.orders[o].body.user][i].order = o
           /\ d.ledger[d.orders[o].body.user][i].id = d.orders[o].tx
    BY <2>0 DEF Consistent, CompletedHasRow
  <2> QED
    BY <2>0, <2>1, <2>2, <1>7
<1>10. RowHasCompleted(e)
  <2> SUFFICES ASSUME NEW v \in Users, NEW i \in 1..Len(e.ledger[v]),
                      e.ledger[v][i].order \in OrderIds
               PROVE  /\ d.orders[e.ledger[v][i].order].status = "completed"
                      /\ d.orders[e.ledger[v][i].order].body.user = v
                      /\ d.orders[e.ledger[v][i].order].tx = e.ledger[v][i].id
    BY SMTT(30), <1>2 DEF RowHasCompleted
  <2>1. i \in 1..Len(d.ledger[v])
    BY <1>8, NoOrderAssumption
  <2>2. e.ledger[v][i] = d.ledger[v][i]
    BY <2>1, <1>7
  <2> DEFINE row == d.ledger[v][i]
  <2>3. row.order \in OrderIds => /\ d.orders[row.order].status = "completed"
                                 /\ d.orders[row.order].body.user = v
                                 /\ d.orders[row.order].tx = row.id
    BY ZenonT(60), <2>1 DEF Consistent, RowHasCompleted
  <2> QED
    BY <2>2, <2>3
<1> QED
  BY <1>4, <1>5, <1>6, <1>9, <1>10 DEF Consistent, e
-----------------------------------------------------------------------------
(* The threads *)

\* A request asks for an order of a user.
LEMMA RequestFacts ==
    ASSUME TypeOK, NEW t \in Threads
    PROVE  /\ Order(t) \in OrderIds /\ Body(t) \in Bodies
           /\ Owner(t) \in Users /\ Body(t).amount \in Int
BY BodiesAssumption DEF TypeOK, Request, Order, Body, Owner

\* A step of t that leaves the write lock alone, inside a transaction if it
\* writes or stays in one, keeps the two invariants on the open transaction.
LEMMA StepInPlace ==
    ASSUME IInv, NEW t \in Threads, NEW label \in Labels,
           Goto(t, label), writeLock' = writeLock,
           label \in InTransaction => pc[t] \in InTransaction,
           draft' = draft \/ pc[t] \in InTransaction,
           label \in InTransaction \ {"rollback"} => Consistent(draft')
    PROVE  pc' \in [Threads -> Labels] /\ OneTransaction' /\ DraftConsistent'
<1>1. pc \in [Threads -> Labels] /\ pc' = [pc EXCEPT ![t] = label]
  BY DEF IInv, TypeOK, Goto
<1>2. pc' \in [Threads -> Labels] /\ pc'[t] = label /\ \A u \in Threads : u # t => pc'[u] = pc[u]
  BY <1>1
<1>3. OneTransaction'
  BY <1>2 DEF IInv, OneTransaction
<1>4. ASSUME NEW u \in Threads, pc'[u] \in InTransaction \ {"rollback"}
      PROVE  Consistent(draft')
  <2>1. CASE u = t
    BY <2>1, <1>2, <1>4
  <2>2. CASE u # t
    <3>1. pc[u] = pc'[u] /\ writeLock = u
      BY <2>2, <1>2, <1>4 DEF IInv, OneTransaction
    <3>2. pc[t] \notin InTransaction
      BY <2>2, <3>1 DEF IInv, OneTransaction
    <3>3. Consistent(draft)
      BY <3>1, <1>4 DEF IInv, DraftConsistent
    <3> QED
      BY <3>2, <3>3
  <2> QED
    BY <2>1, <2>2
<1> QED
  BY <1>2, <1>3, <1>4 DEF DraftConsistent

\* A stored outcome gives an answer.
LEMMA ReplyType ==
    ASSUME NEW d \in Database, TypeOK, NEW t \in Threads
    PROVE  ReplayedOrConflict(d, t) \in Reply
<1>1. Order(t) \in OrderIds
  BY RequestFacts
<1>2. d.orders[Order(t)] \in Outcome
  BY <1>1, DatabaseFields
<1>3. d.orders[Order(t)].body.user \in Users /\ d.orders[Order(t)].tx \in Nat
  BY <1>2, BodiesAssumption DEF Outcome
<1>4. d.epoch[d.orders[Order(t)].body.user] \in Nat
  BY <1>3, DatabaseFields
<1> QED
  BY <1>3, <1>4 DEF ReplayedOrConflict, StoredReply, Failed, Reply

\* An operation is started by a thread that is in no transaction.
LEMMA StartKeeps ==
    ASSUME IInv, NEW t \in Threads, NEW o \in OrderIds, NEW b \in Bodies,
           NEW label \in {"check", "wbegin", "runlock"}, Start(t, o, b, label)
    PROVE  IInv'
<1>1. label \in Labels /\ label \notin InTransaction
  BY DEF Labels, InTransaction
<1>2. pc' \in [Threads -> Labels] /\ OneTransaction' /\ DraftConsistent'
  BY <1>1, StepInPlace DEF Start, locks
<1>3. NoReply \in Reply /\ [order |-> o, body |-> b] \in Request
  BY DEF NoReply, Reply, Request
<1>4. ops' \in 0..MaxOps
  BY BoundsAssumption DEF Start, IInv, TypeOK
<1>5. TypeOK'
  BY <1>2, <1>3, <1>4 DEF Start, Answer, IInv, TypeOK, locks
<1>6. CommittedConsistent'
  BY DEF Start, IInv, CommittedConsistent
<1> QED
  BY <1>2, <1>5, <1>6 DEF IInv

\* The steps that neither write nor take or give back the write lock.
ControlStep(t) ==
    \/ Check(t) \/ Quote(t) \/ TakePortfolioLock(t) \/ PortfolioBusy(t)
    \/ Replay(t) \/ TradingError(t) \/ DatabaseLocked(t) \/ Release(t)
    \/ TakeRunLock(t) \/ LegFails(t)

LEMMA ControlStepKeeps ==
    ASSUME IInv, NEW t \in Threads, ControlStep(t)
    PROVE  IInv'
<1>1. TypeOK
  BY DEF IInv
<1>2. draft' = draft /\ db' = db /\ writeLock' = writeLock /\ ops' = ops /\ crashes' = crashes
      /\ req' = req
  BY DEF ControlStep, Check, Quote, TakePortfolioLock, PortfolioBusy, Replay, TradingError,
         DatabaseLocked, Release, TakeRunLock, LegFails, locks
<1>3. PICK label \in Labels : /\ Goto(t, label)
                              /\ label \in InTransaction => pc[t] \in InTransaction
                              /\ label \in InTransaction \ {"rollback"} =>
                                    pc[t] \in InTransaction \ {"rollback"}
  <2>1. ASSUME Check(t) PROVE Goto(t, "release") \/ Goto(t, "quote")
    BY <2>1 DEF Check
  <2>2. ASSUME Quote(t) PROVE Goto(t, "lock") \/ Goto(t, "reject")
    BY <2>2 DEF Quote
  <2>3. ASSUME TakePortfolioLock(t) PROVE Goto(t, "begin") \/ (pc[t] = "plan" /\ Goto(t, "leg"))
    BY <2>3 DEF TakePortfolioLock
  <2>4. ASSUME PortfolioBusy(t) PROVE Goto(t, "release") \/ (pc[t] = "plan" /\ Goto(t, "rollback"))
    BY <2>4 DEF PortfolioBusy
  <2>5. ASSUME Replay(t) PROVE /\ Goto(t, "commit") \/ Goto(t, "rollback")
                               /\ pc[t] \in {"execute", "storing"}
    BY <2>5 DEF Replay
  <2>6. ASSUME TradingError(t) PROVE Goto(t, "rollback") /\ pc[t] = "execute"
    BY <2>6 DEF TradingError
  <2>7. ASSUME DatabaseLocked(t) PROVE Goto(t, "release")
    BY <2>7 DEF DatabaseLocked
  <2>8. ASSUME Release(t) PROVE Goto(t, "reject") \/ Goto(t, "done")
    BY <2>8 DEF Release
  <2>9. ASSUME TakeRunLock(t) PROVE Goto(t, "rbegin")
    BY <2>9 DEF TakeRunLock
  <2>10. ASSUME LegFails(t) PROVE Goto(t, "rollback") /\ pc[t] = "leg"
    BY <2>10 DEF LegFails
  <2> QED
    BY <2>1, <2>2, <2>3, <2>4, <2>5, <2>6, <2>7, <2>8, <2>9, <2>10
       DEF ControlStep, Labels, InTransaction
<1>4. label \in InTransaction \ {"rollback"} => Consistent(draft')
  BY <1>2, <1>3 DEF IInv, DraftConsistent
<1>5. pc' \in [Threads -> Labels] /\ OneTransaction' /\ DraftConsistent'
  BY <1>2, <1>3, <1>4, StepInPlace
<1>6. reply' \in [Threads -> Reply]
  <2>1. ReplayedOrConflict(db, t) \in Reply /\ ReplayedOrConflict(draft, t) \in Reply
    BY <1>1, ReplyType DEF TypeOK
  <2>2. Failed("busy") \in Reply /\ Failed("error") \in Reply /\ Failed("locked") \in Reply
    BY DEF Failed, Reply
  <2>3. \/ reply' = reply
        \/ \E answer \in Reply : reply' = [reply EXCEPT ![t] = answer]
    BY <2>1, <2>2 DEF ControlStep, Check, Quote, TakePortfolioLock, PortfolioBusy, Replay,
       TradingError, DatabaseLocked, Release, TakeRunLock, LegFails, Answer
  <2> QED
    BY <1>1, <2>3 DEF TypeOK
<1>7. told' \in SUBSET [req : Request, reply : Reply]
  <2>1. [req |-> req[t], reply |-> reply[t]] \in [req : Request, reply : Reply]
    BY <1>1 DEF TypeOK
  <2>2. told' = told \/ told' = told \cup {[req |-> req[t], reply |-> reply[t]]}
    BY DEF ControlStep, Check, Quote, TakePortfolioLock, PortfolioBusy, Replay,
       TradingError, DatabaseLocked, Release, TakeRunLock, LegFails
  <2> QED
    BY <1>1, <2>1, <2>2 DEF TypeOK
<1>8. portfolioLock' \in Threads \cup {Nobody} /\ runLock' \in Threads \cup {Nobody}
  BY <1>1 DEF TypeOK, ControlStep, Check, Quote, TakePortfolioLock, PortfolioBusy, Replay,
     TradingError, DatabaseLocked, Release, TakeRunLock, LegFails, Freed, locks
<1>9. TypeOK'
  BY <1>1, <1>2, <1>5, <1>6, <1>7, <1>8 DEF TypeOK
<1>10. CommittedConsistent'
  BY <1>2 DEF IInv, CommittedConsistent
<1> QED
  BY <1>5, <1>9, <1>10 DEF IInv

\* The steps that write in the open transaction of t.
WritingStep(t) ==
    \/ ExecuteFreshOrder(t) \/ ExecutionError(t) \/ StoreRejection(t)
    \/ WriterTrade(t) \/ WipePortfolio(t) \/ ExecuteLeg(t) \/ ResetAll(t) \/ ReplaceFails(t)

\* Whatever such a step writes is a database, and a consistent one if the
\* transaction may still commit.
LEMMA WritingStepDraft ==
    ASSUME IInv, NEW t \in Threads, WritingStep(t)
    PROVE  /\ draft' \in Database
           /\ Goto(t, "rollback") \/ Consistent(draft')
<1>1. TypeOK /\ draft \in Database
  BY DEF IInv, TypeOK
<1>2. Order(t) \in OrderIds /\ Body(t) \in Bodies /\ Owner(t) \in Users /\ Body(t).amount \in Int
  BY <1>1, RequestFacts
<1>3. pc[t] \in InTransaction \ {"rollback"} => Consistent(draft)
  BY DEF IInv, DraftConsistent
<1>4. CASE ExecuteFreshOrder(t)
  <2>1. /\ Consistent(draft) /\ draft.orders[Order(t)].status = "none"
        /\ FeeAffordable(draft, Body(t).user, Body(t).amount)
        /\ draft' = ExecuteFresh(draft, Order(t), Body(t))
    <3>1. draft.orders[Order(t)] \in Outcome
      BY <1>1, <1>2, DatabaseFields
    <3> QED
      BY <1>3, <1>4, <3>1 DEF ExecuteFreshOrder, Stored, InTransaction, Owner, Outcome
  <2> QED
    BY <2>1, <1>1, <1>2, ExecuteFreshConsistent
<1>5. CASE ExecutionError(t)
  <2>1. Goto(t, "rollback")
    BY <1>5 DEF ExecutionError
  <2>2. draft' \in Database
    <3>1. CASE draft' = draft
      BY <3>1, <1>1
    <3>2. CASE draft' # draft
      <4>1. PICK o \in OrderIds \cup {NoOrder} :
               /\ Affordable(draft, Owner(t), Body(t).amount)
               /\ draft' = Post(draft, Owner(t), o, Body(t).amount)
        BY <3>2, <1>2, <1>5 DEF ExecutionError
      <4> QED
        BY <4>1, <1>1, <1>2, PostType
    <3> QED
      BY <3>1, <3>2
  <2> QED
    BY <2>1, <2>2
<1>6. CASE StoreRejection(t)
  <2>1. /\ Consistent(draft) /\ draft.orders[Order(t)].status = "none"
        /\ draft' = RecordRejection(draft, Order(t), Body(t))
    BY <1>3, <1>6 DEF StoreRejection, Stored, InTransaction
  <2> QED
    BY <2>1, <1>1, <1>2, RejectionConsistent
<1>7. CASE WriterTrade(t)
  <2>1. /\ Consistent(draft) /\ FeeAffordable(draft, Owner(t), Body(t).amount)
        /\ draft' = Trade(draft, Owner(t), NoOrder, Body(t).amount)
    BY <1>3, <1>7 DEF WriterTrade, InTransaction
  <2> QED
    BY <2>1, <1>1, <1>2, TradeConsistent
<1>8. CASE WipePortfolio(t)
  <2>1. Consistent(draft) /\ draft' = Wipe(draft, {Owner(t)}) /\ {Owner(t)} \in SUBSET Users
    BY <1>2, <1>3, <1>8 DEF WipePortfolio, InTransaction
  <2> QED
    BY <2>1, <1>1, WipeConsistent
<1>9. CASE ExecuteLeg(t)
  <2>1. PICK b \in Bodies :
           /\ FeeAffordable(draft, Owner(t), b.amount)
           /\ draft' = Trade(draft, Owner(t), NoOrder, b.amount)
    BY <1>9 DEF ExecuteLeg
  <2>2. b.amount \in Int
    BY BodiesAssumption
  <2>3. Consistent(draft)
    BY <1>3, <1>9 DEF ExecuteLeg, InTransaction
  <2> QED
    BY <2>1, <2>2, <2>3, <1>1, <1>2, TradeConsistent
<1>10. CASE ResetAll(t)
  <2>1. PICK S \in {{}, IndexUsers} : draft' = SeedIndex(Wipe(draft, Users), S)
    BY <1>10 DEF ResetAll
  <2>2. S \in SUBSET Users /\ Users \in SUBSET Users
    BY UsersAssumption
  <2>3. Consistent(draft)
    BY <1>3, <1>10 DEF ResetAll, InTransaction
  <2>4. Wipe(draft, Users) \in Database /\ Consistent(Wipe(draft, Users))
    BY <2>2, <2>3, <1>1, WipeConsistent
  <2> QED
    BY <2>1, <2>2, <2>4, SeedConsistent
<1>11. CASE ReplaceFails(t)
  <2>1. PICK U \in {{}, {Owner(t)}, Users} : draft' = Wipe(draft, U)
    BY <1>11 DEF ReplaceFails
  <2>2. U \in SUBSET Users
    BY <1>2
  <2>3. Consistent(draft)
    BY <1>3, <1>11 DEF ReplaceFails, InTransaction
  <2> QED
    BY <2>1, <2>2, <2>3, <1>1, WipeConsistent
<1> QED
  BY <1>4, <1>5, <1>6, <1>7, <1>8, <1>9, <1>10, <1>11 DEF WritingStep

LEMMA WritingStepKeeps ==
    ASSUME IInv, NEW t \in Threads, WritingStep(t)
    PROVE  IInv'
<1>1. TypeOK
  BY DEF IInv
<1>2. draft' \in Database /\ (Goto(t, "rollback") \/ Consistent(draft'))
  BY WritingStepDraft
<1>3. /\ db' = db /\ writeLock' = writeLock /\ ops' = ops /\ crashes' = crashes
      /\ req' = req /\ told' = told /\ runLock' = runLock
      /\ pc[t] \in InTransaction
  BY DEF WritingStep, ExecuteFreshOrder, ExecutionError, StoreRejection, WriterTrade,
         WipePortfolio, ExecuteLeg, ResetAll, ReplaceFails, locks, InTransaction
<1>4. Goto(t, "commit") \/ Goto(t, "rollback") \/ Goto(t, "plan")
  BY DEF WritingStep, ExecuteFreshOrder, ExecutionError, StoreRejection, WriterTrade,
         WipePortfolio, ExecuteLeg, ResetAll, ReplaceFails
<1>5. PICK label \in Labels : /\ Goto(t, label)
                              /\ label \in InTransaction \ {"rollback"} => Consistent(draft')
  BY <1>2, <1>4 DEF Labels
<1>6. pc' \in [Threads -> Labels] /\ OneTransaction' /\ DraftConsistent'
  BY <1>3, <1>5, StepInPlace
<1>7. reply' \in [Threads -> Reply]
  <2>1. Owner(t) \in Users /\ draft \in Database
    BY <1>1, RequestFacts DEF TypeOK
  <2>2. draft.next[Owner(t)] \in Nat /\ draft.epoch[Owner(t)] \in Nat
    BY <2>1, DatabaseFields
  <2>3. /\ [kind |-> "executed", tx |-> draft.next[Owner(t)], epoch |-> draft.epoch[Owner(t)]] \in Reply
        /\ [kind |-> "rejected", tx |-> 0, epoch |-> draft.epoch[Owner(t)]] \in Reply
    BY <2>2 DEF Reply
  <2>4. reply' = reply \/ \E answer \in Reply : reply' = [reply EXCEPT ![t] = answer]
    BY <2>3 DEF WritingStep, ExecuteFreshOrder, ExecutionError, StoreRejection, WriterTrade,
         WipePortfolio, ExecuteLeg, ResetAll, ReplaceFails, Answer
  <2> QED
    BY <1>1, <2>4 DEF TypeOK
<1>8. portfolioLock' \in Threads \cup {Nobody}
  BY <1>1 DEF TypeOK, WritingStep, ExecuteFreshOrder, ExecutionError, StoreRejection, WriterTrade,
     WipePortfolio, ExecuteLeg, ResetAll, ReplaceFails, locks
<1>9. TypeOK'
  BY <1>1, <1>2, <1>3, <1>6, <1>7, <1>8 DEF TypeOK
<1>10. CommittedConsistent'
  BY <1>3 DEF IInv, CommittedConsistent
<1> QED
  BY <1>6, <1>9, <1>10 DEF IInv

\* A transaction starts from what is committed, when no other is open.
LEMMA BeginKeeps ==
    ASSUME IInv, NEW t \in Threads, Begin(t)
    PROVE  IInv'
<1>1. PICK label \in {"execute", "storing", "wtrade", "replace"} : Goto(t, label)
  BY DEF Begin, AfterBegin
<1>2. label \in Labels
  BY DEF Labels
<1>3. pc' \in [Threads -> Labels] /\ \A u \in Threads : u # t => pc'[u] = pc[u]
  BY <1>1, <1>2 DEF IInv, TypeOK, Goto
<1>4. \A u \in Threads : pc[u] \notin InTransaction
  BY ThreadsAssumption DEF Begin, IInv, OneTransaction
<1>5. OneTransaction' /\ DraftConsistent'
  BY <1>3, <1>4 DEF Begin, OneTransaction, DraftConsistent, IInv, CommittedConsistent
<1>6. TypeOK'
  BY <1>3 DEF Begin, IInv, TypeOK
<1>7. CommittedConsistent'
  BY DEF Begin, IInv, CommittedConsistent
<1> QED
  BY <1>5, <1>6, <1>7 DEF IInv

\* The end of a transaction.
LEMMA EndKeeps ==
    ASSUME IInv, NEW t \in Threads, Commit(t) \/ Rollback(t)
    PROVE  IInv'
<1>1. Goto(t, "release") /\ writeLock' = Nobody
  BY DEF Commit, Rollback
<1>2. /\ pc' \in [Threads -> Labels] /\ pc'[t] = "release"
      /\ \A u \in Threads : u # t => pc'[u] = pc[u]
  BY <1>1 DEF IInv, TypeOK, Goto, Labels
<1>3. \A u \in Threads : pc'[u] \notin InTransaction
  <2>1. pc[t] \in InTransaction
    BY DEF Commit, Rollback, InTransaction
  <2>2. \A u \in Threads : u # t => pc[u] \notin InTransaction
    BY <2>1 DEF IInv, OneTransaction
  <2> QED
    BY <1>2, <2>2 DEF InTransaction
<1>4. OneTransaction' /\ DraftConsistent'
  BY <1>3 DEF OneTransaction, DraftConsistent
<1>5. TypeOK'
  BY <1>1, <1>2 DEF Commit, Rollback, IInv, TypeOK
<1>6. CommittedConsistent'
  <2>1. ASSUME Commit(t) PROVE Consistent(draft)
    BY <2>1 DEF Commit, IInv, DraftConsistent, InTransaction
  <2> QED
    BY <2>1 DEF Commit, Rollback, IInv, CommittedConsistent
<1> QED
  BY <1>4, <1>5, <1>6 DEF IInv

LEMMA CrashKeeps == IInv /\ Crash => IInv'
<1> SUFFICES ASSUME IInv, Crash PROVE IInv'
  OBVIOUS
<1>1. pc' \in [Threads -> Labels] /\ \A u \in Threads : pc'[u] \notin InTransaction
  BY DEF Crash, Labels, InTransaction
<1>2. reply' \in [Threads -> Reply] /\ crashes' \in 0..MaxCrashes
  <2>1. NoReply \in Reply
    BY DEF NoReply, Reply
  <2> QED
    BY <2>1, BoundsAssumption DEF Crash, IInv, TypeOK
<1>3. TypeOK'
  BY <1>1, <1>2 DEF Crash, IInv, TypeOK
<1> QED
  BY <1>1, <1>3 DEF Crash, IInv, OneTransaction, DraftConsistent, CommittedConsistent

LEMMA InitEstablishes == Init => IInv
<1> SUFFICES ASSUME Init PROVE IInv
  OBVIOUS
<1>1. FreshDatabase \in Database /\ Consistent(FreshDatabase)
  BY FreshConsistent
<1>2. pc \in [Threads -> Labels] /\ \A t \in Threads : pc[t] = "idle"
  BY DEF Init, Labels
<1>3. req \in [Threads -> Request]
  <2>1. \E r \in [order : OrderIds, body : Bodies] : TRUE
    <3>1. PICK o \in OrderIds, b \in Bodies : TRUE
      BY OrderIdsAssumption, BodiesAssumption
    <3>2. [order |-> o, body |-> b] \in [order : OrderIds, body : Bodies]
      BY <3>1
    <3> QED
      BY <3>2
  <2>2. (CHOOSE r \in [order : OrderIds, body : Bodies] : TRUE) \in Request
    BY <2>1 DEF Request
  <2> QED
    BY <2>2 DEF Init
<1>4. reply \in [Threads -> Reply] /\ told \in SUBSET [req : Request, reply : Reply]
  BY DEF Init, NoReply, Reply
<1>5. TypeOK
  BY <1>1, <1>2, <1>3, <1>4, BoundsAssumption DEF Init, TypeOK
<1>6. OneTransaction /\ DraftConsistent /\ CommittedConsistent
  BY <1>1, <1>2 DEF Init, OneTransaction, DraftConsistent, CommittedConsistent, InTransaction
<1> QED
  BY <1>5, <1>6 DEF IInv

LEMMA NextKeeps == IInv /\ [Next]_vars => IInv'
<1> SUFFICES ASSUME IInv, [Next]_vars PROVE IInv'
  OBVIOUS
<1>1. ASSUME NEW t \in Threads, Begun(t) PROVE IInv'
  <2>1. \E o \in OrderIds, b \in Bodies, label \in {"check", "wbegin", "runlock"} :
           Start(t, o, b, label)
    <3>1. Order(t) \in OrderIds
      BY RequestFacts DEF IInv
    <3> QED
      BY <1>1, <3>1 DEF Begun, Submit, ForceSell, Replace
  <2> QED
    BY <2>1, StartKeeps
<1>2. ASSUME NEW t \in Threads, Step(t) PROVE IInv'
  <2>1. ControlStep(t) \/ WritingStep(t) \/ Begin(t) \/ Commit(t) \/ Rollback(t)
    BY <1>2 DEF Step, ControlStep, WritingStep
  <2> QED
    BY <2>1, ControlStepKeeps, WritingStepKeeps, BeginKeeps, EndKeeps
<1>3. CASE UNCHANGED vars
  BY <1>3 DEF vars, locks, IInv, TypeOK, CommittedConsistent, OneTransaction, DraftConsistent
<1> QED
  BY <1>1, <1>2, <1>3, CrashKeeps DEF Next, Finished

\* The strengthening holds in every reachable state.
THEOREM Inductive == Spec => []IInv
<1> QED
  BY InitEstablishes, NextKeeps, PTL DEF Spec

\* Every variable keeps its type: no balance below zero, no write lock held by
\* a thread that does not exist, whatever the threads, users and bounds.
THEOREM TypesHold == Spec => []TypeOK
<1>1. IInv => TypeOK
  BY DEF IInv
<1> QED
  BY <1>1, Inductive, PTL

\* What is committed is consistent: the ledger is a chain of balances and an
\* order has traded exactly when, and only once as, its stored outcome says.
THEOREM CommittedIsConsistent == Spec => []CommittedConsistent
<1>1. IInv => CommittedConsistent
  BY DEF IInv
<1> QED
  BY <1>1, Inductive, PTL
=============================================================================
