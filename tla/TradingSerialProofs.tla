------------------------ MODULE TradingSerialProofs ------------------------
(***************************************************************************)
(* The operations of Trading are serializable, for any number of threads,  *)
(* users and orders: Trading implements OrderBook.  From that follow the   *)
(* two promises to the outside: history is kept and answers hold.          *)
(*                                                                         *)
(* The induction is on WholeOperation: what the open transaction has done  *)
(* so far is nothing, a part of a plan, or one whole operation.  A commit  *)
(* can then only publish a whole operation, and only on the data that the  *)
(* transaction began with, since nobody else can commit while it is open.  *)
(***************************************************************************)
EXTENDS TradingProofs, WellFoundedInduction

(* Induction over the natural numbers, for sets *)

\* A nonempty set of natural numbers has a least element.
LEMMA LeastElement ==
    ASSUME NEW T \in SUBSET Nat, T # {}
    PROVE  \E x \in T : \A y \in T : x <= y
<1> DEFINE R == OpToRel(<, Nat)
<1>1. IsWellFoundedOn(R, Nat)
  BY NatLessThanWellFounded, Zenon
<1>2. \A x, y \in Nat : x < y => <<x, y>> \in R
  BY DEF OpToRel
<1> HIDE DEF R
<1>3. \E x \in T : \A y \in T : <<y, x>> \notin R
  BY <1>1, WFMin, Zenon
<1>4. \A x, y \in Nat : ~(y < x) => x <= y
  OBVIOUS
<1> QED
  BY <1>2, <1>3, <1>4

\* What holds at 0 and at the successor of every number it holds at.
LEMMA SetInduction ==
    ASSUME NEW T \in SUBSET Nat, 0 \in T, \A n \in T : n + 1 \in T
    PROVE  T = Nat
<1> SUFFICES ASSUME Nat \ T # {} PROVE FALSE
  OBVIOUS
<1>1. PICK x \in Nat \ T : \A y \in Nat \ T : x <= y
  BY LeastElement
<1>2. x # 0 /\ x - 1 \in Nat /\ ~(x <= x - 1) /\ (x - 1) + 1 = x
  <2>1. x # 0
    OBVIOUS
  <2> QED
    BY <2>1
<1>3. x - 1 \in T
  BY <1>1, <1>2
<1> QED
  BY <1>2, <1>3
-----------------------------------------------------------------------------
(* The statements of OrderBook are those of Trading *)

\* An instance has definitions of its own for what it shares with Trading.
LEMMA SameStatements ==
    /\ Serial!FreshDatabase = FreshDatabase
    /\ \A d, u, amount : Serial!FeeAffordable(d, u, amount) = FeeAffordable(d, u, amount)
    /\ \A d, u, o, amount : Serial!Trade(d, u, o, amount) = Trade(d, u, o, amount)
    /\ \A d, o, b : Serial!ExecuteFresh(d, o, b) = ExecuteFresh(d, o, b)
    /\ \A d, o, b : Serial!RecordRejection(d, o, b) = RecordRejection(d, o, b)
    /\ \A d, U : Serial!Wipe(d, U) = Wipe(d, U)
    /\ \A d, S : Serial!SeedIndex(d, S) = SeedIndex(d, S)
<1>1. Serial!NoOutcome = NoOutcome
  BY DEF Serial!NoOutcome, NoOutcome
<1>2. Serial!FreshDatabase = FreshDatabase
  BY <1>1 DEF Serial!FreshDatabase, FreshDatabase
<1>3. \A d, u, o, amount : Serial!Post(d, u, o, amount) = Post(d, u, o, amount)
  BY DEF Serial!Post, Post
<1>4. \A d, u, o, amount : Serial!Trade(d, u, o, amount) = Trade(d, u, o, amount)
  BY <1>3 DEF Serial!Trade, Trade
<1>5. \A d, o, outcome : Serial!Decide(d, o, outcome) = Decide(d, o, outcome)
  BY DEF Serial!Decide, Decide
<1>6. \A d, o, b : Serial!ExecuteFresh(d, o, b) = ExecuteFresh(d, o, b)
  BY <1>4, <1>5 DEF Serial!ExecuteFresh, ExecuteFresh, Serial!RecordCompleted, RecordCompleted
<1>7. \A d, o, b : Serial!RecordRejection(d, o, b) = RecordRejection(d, o, b)
  BY <1>5 DEF Serial!RecordRejection, RecordRejection
<1>8. \A d, U : Serial!Wipe(d, U) = Wipe(d, U)
  BY <1>1 DEF Serial!Wipe, Wipe
<1>9. \A d, S : Serial!SeedIndex(d, S) = SeedIndex(d, S)
  BY DEF Serial!SeedIndex, SeedIndex
<1>10. \A d, u, amount : Serial!FeeAffordable(d, u, amount) = FeeAffordable(d, u, amount)
  BY DEF Serial!FeeAffordable, FeeAffordable
<1> QED
  BY <1>2, <1>4, <1>6, <1>7, <1>8, <1>9, <1>10
-----------------------------------------------------------------------------
(* The purchases of a plan *)

\* One more state on the way through a plan.
Following(d, u, plan, s, k) ==
    IF k = 0 THEN Wipe(d, {u}) ELSE Trade(s[k - 1], u, NoOrder, plan[k])

\* The recursion of Emptied is well founded, so Emptied is what it says.
LEMMA EmptiedRuns ==
    ASSUME NEW d, NEW u, NEW plan, NEW n \in Nat
    PROVE  Serial!Emptied(d, u, plan, n) =
              [k \in 0..n |-> Following(d, u, plan, Serial!Emptied(d, u, plan, n), k)]
<1> DEFINE Runs(m, s) == s = [k \in 0..m |-> Following(d, u, plan, s, k)]
           T == {m \in Nat : \E s : Runs(m, s)}
<1>1. 0 \in T
  <2> DEFINE s == [k \in 0..0 |-> Wipe(d, {u})]
  <2>1. s = [k \in 0..0 |-> Following(d, u, plan, s, k)]
    BY DEF Following
  <2> QED
    BY <2>1
<1>2. \A m \in T : m + 1 \in T
  <2> SUFFICES ASSUME NEW m \in Nat, NEW s, Runs(m, s) PROVE \E r : Runs(m + 1, r)
    OBVIOUS
  <2> DEFINE r == [k \in 0..(m + 1) |-> IF k \in 0..m THEN s[k]
                                        ELSE Trade(s[m], u, NoOrder, plan[k])]
  <2>1. \A k \in 0..m : r[k] = s[k] /\ k \in 0..(m + 1)
    OBVIOUS
  <2>2. ASSUME NEW k \in 0..(m + 1) PROVE r[k] = Following(d, u, plan, r, k)
    <3>1. CASE k = 0
      BY <3>1, <2>1 DEF Following
    <3>2. CASE k \in 1..m
      <4>1. k # 0 /\ k - 1 \in 0..m /\ k \in 0..m
        BY <3>2
      <4>2. s[k] = Following(d, u, plan, s, k)
        BY <4>1
      <4> HIDE DEF r
      <4> QED
        BY <4>1, <4>2, <2>1 DEF Following
    <3>3. CASE k = m + 1
      <4>1. k # 0 /\ k - 1 = m /\ m \in 0..m /\ k \notin 0..m
        BY <3>3
      <4>2. r[k] = Trade(s[m], u, NoOrder, plan[k])
        BY <4>1
      <4> HIDE DEF r
      <4> QED
        BY <4>1, <4>2, <2>1 DEF Following
    <3> QED
      BY <3>1, <3>2, <3>3
  <2>3. r = [k \in 0..(m + 1) |-> r[k]]
    OBVIOUS
  <2> HIDE DEF r
  <2>4. r = [k \in 0..(m + 1) |-> Following(d, u, plan, r, k)]
    BY <2>2, <2>3
  <2> QED
    BY <2>4
<1> HIDE DEF T
<1>3. T = Nat
  BY <1>1, <1>2, SetInduction DEF T
<1>4. PICK s : Runs(n, s)
  BY <1>3 DEF T
<1>5. Serial!Emptied(d, u, plan, n) =
        CHOOSE f : f = [k \in 0..n |-> IF k = 0 THEN Serial!Wipe(d, {u})
                                       ELSE Serial!Trade(f[k - 1], u, NoOrder, plan[k])]
  BY DEF Serial!Emptied
<1> QED
  BY <1>4, <1>5, SameStatements DEF Following

\* The databases it goes through, one by one.
LEMMA EmptiedAt ==
    ASSUME NEW d, NEW u, NEW plan, NEW n \in Nat
    PROVE  \A k \in 0..n : Serial!Emptied(d, u, plan, n)[k] =
              Following(d, u, plan, Serial!Emptied(d, u, plan, n), k)
<1> DEFINE s == Serial!Emptied(d, u, plan, n)
<1>1. s = [k \in 0..n |-> Following(d, u, plan, s, k)]
  BY EmptiedRuns
<1> HIDE DEF s
<1>2. \A k \in 0..n : s[k] = Following(d, u, plan, s, k)
  BY <1>1
<1> QED
  BY <1>2 DEF s

\* The longer plan begins with the n purchases of the plan.
Continues(longer, plan, n) == \A k \in 1..n : longer[k] = plan[k]

\* Then it begins by doing what the plan does.
LEMMA EmptiedAgrees ==
    ASSUME NEW d, NEW u, NEW n \in Nat, NEW plan, NEW longer,
           Continues(longer, plan, n)
    PROVE  \A k \in 0..n :
              Serial!Emptied(d, u, longer, n + 1)[k] = Serial!Emptied(d, u, plan, n)[k]
<1> DEFINE short == Serial!Emptied(d, u, plan, n)
           long == Serial!Emptied(d, u, longer, n + 1)
           T == {k \in Nat : k \in 0..n => long[k] = short[k]}
<1>1. /\ \A k \in 0..n : short[k] = Following(d, u, plan, short, k)
      /\ \A k \in 0..(n + 1) : long[k] = Following(d, u, longer, long, k)
  <2>1. n + 1 \in Nat
    OBVIOUS
  <2> QED
    BY <2>1, EmptiedAt
<1> HIDE DEF short, long
<1>2. 0 \in T
  <2>1. 0 \in 0..n /\ 0 \in 0..(n + 1)
    OBVIOUS
  <2>2. long[0] = Wipe(d, {u}) /\ short[0] = Wipe(d, {u})
    BY <1>1, <2>1 DEF Following
  <2> QED
    BY <2>2
<1>3. \A k \in T : k + 1 \in T
  <2> SUFFICES ASSUME NEW k \in T, k + 1 \in 0..n PROVE long[k + 1] = short[k + 1]
    OBVIOUS
  <2>1. k \in 0..n /\ k + 1 # 0 /\ (k + 1) - 1 = k /\ k + 1 \in 1..n /\ k + 1 \in 0..(n + 1)
    OBVIOUS
  <2>2. long[k] = short[k] /\ longer[k + 1] = plan[k + 1]
    BY <2>1 DEF Continues
  <2> QED
    BY <1>1, <2>1, <2>2 DEF Following
<1> HIDE DEF T
<1>4. T = Nat
  BY <1>2, <1>3, SetInduction DEF T
<1>5. \A k \in 0..n : long[k] = short[k]
  BY <1>4 DEF T
<1> QED
  BY <1>5 DEF short, long

\* No purchase has been made yet.
LEMMA PlanStarts ==
    ASSUME NEW d, NEW u
    PROVE  \E plan \in [1..0 -> Serial!Purchases(u)] :
              Serial!Planned(d, Wipe(d, {u}), u, plan, 0)
<1> DEFINE plan == [k \in 1..0 |-> 0]
<1>1. plan \in [1..0 -> Serial!Purchases(u)]
  OBVIOUS
<1> HIDE DEF plan
<1>2. Serial!Emptied(d, u, plan, 0)[0] = Wipe(d, {u})
  <2>1. 0 \in Nat /\ 0 \in 0..0
    OBVIOUS
  <2>2. Serial!Emptied(d, u, plan, 0)[0] =
          Following(d, u, plan, Serial!Emptied(d, u, plan, 0), 0)
    BY <2>1, EmptiedAt
  <2> QED
    BY <2>2 DEF Following
<1>3. \A k \in 1..0 : FALSE
  OBVIOUS
<1>4. Serial!Planned(d, Wipe(d, {u}), u, plan, 0)
  BY <1>2, <1>3 DEF Serial!Planned
<1> QED
  BY <1>1, <1>4

\* One more purchase.
LEMMA PlanContinues ==
    ASSUME NEW d, NEW e, NEW u, NEW n \in Nat, NEW plan \in [1..n -> Serial!Purchases(u)],
           Serial!Planned(d, e, u, plan, n),
           NEW amount \in Serial!Purchases(u), FeeAffordable(e, u, amount)
    PROVE  \E longer \in [1..(n + 1) -> Serial!Purchases(u)] :
              Serial!Planned(d, Trade(e, u, NoOrder, amount), u, longer, n + 1)
<1>1. PICK longer \in [1..(n + 1) -> Serial!Purchases(u)] :
         longer[n + 1] = amount /\ \A k \in 1..n : longer[k] = plan[k]
  <2> DEFINE f == [k \in 1..(n + 1) |-> IF k = n + 1 THEN amount ELSE plan[k]]
  <2>1. f \in [1..(n + 1) -> Serial!Purchases(u)]
    <3>1. \A k \in 1..(n + 1) : k = n + 1 \/ k \in 1..n
      OBVIOUS
    <3> QED
      BY <3>1
  <2>2. f[n + 1] = amount /\ \A k \in 1..n : f[k] = plan[k]
    OBVIOUS
  <2> HIDE DEF f
  <2> QED
    BY <2>1, <2>2
<1> DEFINE short == Serial!Emptied(d, u, plan, n)
           long == Serial!Emptied(d, u, longer, n + 1)
<1>2. \A k \in 0..n : long[k] = short[k]
  <2>1. Continues(longer, plan, n)
    BY <1>1 DEF Continues
  <2> QED
    BY <2>1, EmptiedAgrees
<1>3. long[n + 1] = Trade(long[n], u, NoOrder, amount)
  <2>1. n + 1 \in Nat /\ n + 1 \in 0..(n + 1) /\ n + 1 # 0 /\ (n + 1) - 1 = n
    OBVIOUS
  <2>2. long[n + 1] = Following(d, u, longer, long, n + 1)
    BY <2>1, EmptiedAt
  <2> HIDE DEF long
  <2> QED
    BY <1>1, <2>1, <2>2 DEF Following
<1>4. /\ \A k \in 1..n : FeeAffordable(short[k - 1], u, plan[k])
      /\ e = short[n]
  BY SameStatements DEF Serial!Planned
<1> HIDE DEF short, long
<1>5. \A k \in 1..(n + 1) : FeeAffordable(long[k - 1], u, longer[k])
  <2> SUFFICES ASSUME NEW k \in 1..(n + 1) PROVE FeeAffordable(long[k - 1], u, longer[k])
    OBVIOUS
  <2>1. CASE k = n + 1
    <3>1. k - 1 = n /\ n \in 0..n
      BY <2>1
    <3> QED
      BY <2>1, <3>1, <1>1, <1>2, <1>4
  <2>2. CASE k \in 1..n
    <3>1. k - 1 \in 0..n
      BY <2>2
    <3> QED
      BY <2>2, <3>1, <1>1, <1>2, <1>4
  <2> QED
    BY <2>1, <2>2
<1>6. Trade(e, u, NoOrder, amount) = long[n + 1]
  BY <1>2, <1>3, <1>4
<1>7. Serial!Planned(d, Trade(e, u, NoOrder, amount), u, longer, n + 1)
  BY <1>5, <1>6, SameStatements DEF Serial!Planned, long
<1> QED
  BY <1>1, <1>7
-----------------------------------------------------------------------------
(* What an operation leaves as it was *)

\* The ledgers of e continue those of d.
LedgersContinue(d, e) == \A v \in Users : IsPrefixOf(d.ledger[v], e.ledger[v])

\* A prefix relation.
LEMMA PrefixFacts ==
    /\ \A s \in Seq(Row) : IsPrefixOf(s, s)
    /\ \A s, r, q \in Seq(Row) : IsPrefixOf(s, r) /\ IsPrefixOf(r, q) => IsPrefixOf(s, q)
    /\ \A s \in Seq(Row), row \in Row : IsPrefixOf(s, Append(s, row))
<1>1. \A s \in Seq(Row) : IsPrefixOf(s, s)
  BY DEF IsPrefixOf
<1>2. ASSUME NEW s \in Seq(Row), NEW r \in Seq(Row), NEW q \in Seq(Row),
             IsPrefixOf(s, r), IsPrefixOf(r, q)
      PROVE  IsPrefixOf(s, q)
  <2>1. Len(s) \in Nat /\ Len(r) \in Nat /\ Len(q) \in Nat
    OBVIOUS
  <2>2. Len(s) <= Len(r) /\ Len(r) <= Len(q) /\ \A i \in 1..Len(s) : i \in 1..Len(r)
    BY <1>2, <2>1 DEF IsPrefixOf
  <2> QED
    BY <1>2, <2>1, <2>2 DEF IsPrefixOf
<1>3. \A s \in Seq(Row), row \in Row : IsPrefixOf(s, Append(s, row))
  BY DEF IsPrefixOf
<1> QED
  BY <1>1, <1>2, <1>3

\* A posting adds one row to one ledger.
LEMMA PostContinues ==
    ASSUME NEW d \in Database, NEW u \in Users, NEW o \in OrderIds \cup {NoOrder},
           NEW amount \in Int, Affordable(d, u, amount)
    PROVE  LET e == Post(d, u, o, amount) IN
           /\ e \in Database
           /\ e.orders = d.orders /\ e.epoch = d.epoch
           /\ e.cash[u] = d.cash[u] + amount
           /\ Len(e.ledger[u]) = Len(d.ledger[u]) + 1
           /\ LedgersContinue(d, e)
           /\ \A v \in Users : v # u => e.ledger[v] = d.ledger[v]
<1> DEFINE e == Post(d, u, o, amount)
           row == PostedRow(d, u, o, amount)
<1>1. e \in Database /\ row \in Row
  BY PostType
<1>2. /\ e.ledger = [d.ledger EXCEPT ![u] = Append(d.ledger[u], row)]
      /\ e.cash = [d.cash EXCEPT ![u] = d.cash[u] + amount]
      /\ e.orders = d.orders /\ e.epoch = d.epoch
  BY DEF Post, PostedRow
<1> HIDE DEF e, row
<1>3. /\ e.ledger[u] = Append(d.ledger[u], row)
      /\ e.cash[u] = d.cash[u] + amount
      /\ \A v \in Users : v # u => e.ledger[v] = d.ledger[v]
  BY <1>2, DatabaseFields
<1>4. \A v \in Users : d.ledger[v] \in Seq(Row)
  BY DatabaseFields
<1>5. Len(e.ledger[u]) = Len(d.ledger[u]) + 1
  BY <1>1, <1>3, <1>4
<1>6. LedgersContinue(d, e)
  BY ZenonT(60), <1>1, <1>3, <1>4, PrefixFacts DEF LedgersContinue
<1> QED
  BY <1>1, <1>2, <1>3, <1>5, <1>6 DEF e

\* A trade with its fee adds two rows to one ledger.
LEMMA TradeContinues ==
    ASSUME NEW d \in Database, NEW u \in Users, NEW o \in OrderIds \cup {NoOrder},
           NEW amount \in Int, FeeAffordable(d, u, amount)
    PROVE  LET e == Trade(d, u, o, amount) IN
           /\ e \in Database
           /\ e.orders = d.orders /\ e.epoch = d.epoch
           /\ Len(e.ledger[u]) = Len(d.ledger[u]) + 2
           /\ LedgersContinue(d, e)
           /\ \A v \in Users : v # u => e.ledger[v] = d.ledger[v]
<1> DEFINE p == Post(d, u, o, amount)
           charge == -Fee
           e == Post(p, u, NoOrder, charge)
<1>1. Affordable(d, u, amount)
  BY DatabaseFields, MoneyAssumption DEF FeeAffordable, Affordable
<1>2. /\ p \in Database
      /\ p.orders = d.orders /\ p.epoch = d.epoch
      /\ p.cash[u] = d.cash[u] + amount
      /\ Len(p.ledger[u]) = Len(d.ledger[u]) + 1
      /\ LedgersContinue(d, p)
      /\ \A v \in Users : v # u => p.ledger[v] = d.ledger[v]
  BY <1>1, PostContinues
<1>3. Affordable(p, u, charge) /\ charge \in Int /\ NoOrder \in OrderIds \cup {NoOrder}
  BY <1>2, DatabaseFields, MoneyAssumption DEF FeeAffordable, Affordable
<1> HIDE DEF p, charge
<1>4. /\ e \in Database
      /\ e.orders = p.orders /\ e.epoch = p.epoch
      /\ Len(e.ledger[u]) = Len(p.ledger[u]) + 1
      /\ LedgersContinue(p, e)
      /\ \A v \in Users : v # u => e.ledger[v] = p.ledger[v]
  BY ZenonT(60), <1>2, <1>3, PostContinues
<1> HIDE DEF e
<1>5. LedgersContinue(d, e)
  <2>1. \A v \in Users : d.ledger[v] \in Seq(Row) /\ p.ledger[v] \in Seq(Row) /\ e.ledger[v] \in Seq(Row)
    BY <1>2, <1>4, DatabaseFields
  <2> QED
    BY <1>2, <1>4, <2>1, PrefixFacts DEF LedgersContinue
<1>6. Len(e.ledger[u]) = Len(d.ledger[u]) + 2
  <2>1. Len(d.ledger[u]) \in Nat
    BY DatabaseFields
  <2> QED
    BY <2>1, <1>2, <1>4
<1> QED
  BY <1>2, <1>4, <1>5, <1>6 DEF Trade, e, p, charge

\* The purchases of a plan are orders of some bodies.
LEMMA PurchaseType ==
    ASSUME NEW u PROVE Serial!Purchases(u) \subseteq Int
BY BodiesAssumption DEF Serial!Purchases

\* A plan empties one account, adds two rows per purchase and leaves the
\* others alone.
PlanDone(d, e, u, k) ==
    /\ e \in Database
    /\ e.orders = Wipe(d, {u}).orders /\ e.epoch = Wipe(d, {u}).epoch
    /\ Len(e.ledger[u]) = 2 * k
    /\ \A v \in Users : v # u => e.ledger[v] = d.ledger[v]

\* One purchase more is two rows more.
LEMMA OnePurchaseMore ==
    ASSUME NEW d \in Database, NEW a, NEW u \in Users, NEW k \in Nat, PlanDone(d, a, u, k),
           NEW amount \in Int, FeeAffordable(a, u, amount)
    PROVE  PlanDone(d, Trade(a, u, NoOrder, amount), u, k + 1)
<1> DEFINE b == Trade(a, u, NoOrder, amount)
<1>1. a \in Database /\ NoOrder \in OrderIds \cup {NoOrder}
  BY DEF PlanDone
<1>2. /\ b \in Database
      /\ b.orders = a.orders /\ b.epoch = a.epoch
      /\ Len(b.ledger[u]) = Len(a.ledger[u]) + 2
      /\ \A v \in Users : v # u => b.ledger[v] = a.ledger[v]
  BY <1>1, TradeContinues
<1> HIDE DEF b
<1>3. PlanDone(d, b, u, k + 1)
  BY <1>2 DEF PlanDone
<1> QED
  BY <1>3 DEF b

\* By induction over the purchases.
LEMMA PlanFacts ==
    ASSUME NEW d \in Database, Consistent(d), NEW e, NEW u \in Users, NEW n \in Nat,
           NEW plan \in [1..n -> Serial!Purchases(u)], Serial!Planned(d, e, u, plan, n)
    PROVE  PlanDone(d, e, u, n)
<1> DEFINE s == Serial!Emptied(d, u, plan, n)
           T == {k \in Nat : k \in 0..n => PlanDone(d, s[k], u, k)}
<1>1. \A k \in 0..n : s[k] = Following(d, u, plan, s, k)
  BY EmptiedAt
<1>2. (\A k \in 1..n : FeeAffordable(s[k - 1], u, plan[k])) /\ e = s[n]
  BY SameStatements DEF Serial!Planned
<1> HIDE DEF s
<1>3. 0 \in T
  <2>1. 0 \in 0..n
    OBVIOUS
  <2>2. s[0] = Wipe(d, {u})
    BY <1>1, <2>1 DEF Following
  <2>3. s[0] \in Database
    BY <2>2, WipeConsistent
  <2>4. s[0].ledger[u] = << >> /\ \A v \in Users : v # u => s[0].ledger[v] = d.ledger[v]
    BY <2>2 DEF Wipe
  <2>5. Len(s[0].ledger[u]) = 2 * 0
    BY <2>4
  <2>6. PlanDone(d, s[0], u, 0)
    BY <2>2, <2>3, <2>4, <2>5 DEF PlanDone
  <2> QED
    BY <2>6
<1>4. \A k \in T : k + 1 \in T
  <2> SUFFICES ASSUME NEW k \in T, k + 1 \in 0..n PROVE PlanDone(d, s[k + 1], u, k + 1)
    OBVIOUS
  <2>1. k \in Nat /\ k \in 0..n /\ k + 1 # 0 /\ (k + 1) - 1 = k /\ k + 1 \in 1..n
    OBVIOUS
  <2>2. PlanDone(d, s[k], u, k)
    BY <2>1
  <2>3. s[k + 1] = Trade(s[k], u, NoOrder, plan[k + 1])
    BY <1>1, <2>1 DEF Following
  <2>4. FeeAffordable(s[k], u, plan[k + 1])
    BY <1>2, <2>1
  <2>5. plan[k + 1] \in Int
    BY <2>1, PurchaseType
  <2> QED
    BY <2>1, <2>2, <2>3, <2>4, <2>5, OnePurchaseMore
<1> HIDE DEF T
<1>5. T = Nat
  BY <1>3, <1>4, SetInduction DEF T
<1>6. PlanDone(d, s[n], u, n)
  BY <1>5 DEF T
<1> QED
  BY <1>2, <1>6

\* HistoryKept, for any two databases: unless u was reset in between, its rows
\* and the outcomes of its orders are still there.  Epochs never go back.
KeptFor(d, e, u) ==
    /\ d.epoch[u] <= e.epoch[u]
    /\ e.epoch[u] = d.epoch[u] =>
          /\ IsPrefixOf(d.ledger[u], e.ledger[u])
          /\ \A o \in OrderIds :
                d.orders[o].status # "none" /\ d.orders[o].body.user = u
                    => e.orders[o] = d.orders[o]

Kept(d, e) == \A u \in Users : KeptFor(d, e, u)

\* A database keeps itself, and what grows without a new epoch is kept.
LEMMA GrowthKeeps ==
    ASSUME NEW d \in Database, NEW e, e.epoch = d.epoch, LedgersContinue(d, e),
           \A o \in OrderIds : d.orders[o].status # "none" => e.orders[o] = d.orders[o]
    PROVE  Kept(d, e)
<1>1. \A u \in Users : d.epoch[u] <= d.epoch[u]
  BY DatabaseFields
<1> QED
  BY <1>1 DEF Kept, KeptFor, LedgersContinue

\* The outcome of an order that had none.
LEMMA DecisionKeeps ==
    ASSUME NEW d \in Database, NEW e \in Database, e.epoch = d.epoch, e.orders = d.orders,
           LedgersContinue(d, e),
           NEW o \in OrderIds, d.orders[o].status = "none", NEW outcome
    PROVE  Kept(d, Decide(e, o, outcome))
<1> DEFINE f == Decide(e, o, outcome)
<1>1. f.epoch = d.epoch /\ f.ledger = e.ledger /\ \A p \in OrderIds : p # o => f.orders[p] = d.orders[p]
  BY DatabaseFields DEF Decide
<1> HIDE DEF f
<1>2. Kept(d, f)
  BY <1>1, GrowthKeeps DEF LedgersContinue
<1> QED
  BY <1>2 DEF f

\* Whatever an operation of OrderBook does, it keeps the history.
LEMMA OperationKeeps ==
    ASSUME NEW d \in Database, Consistent(d), NEW e, Serial!Operation(d, e)
    PROVE  Kept(d, e)
<1>1. ASSUME NEW o \in OrderIds, NEW b \in Bodies, Serial!Fill(d, e, o, b) PROVE Kept(d, e)
  <2> DEFINE t == Trade(d, b.user, o, b.amount)
             outcome == [status |-> "completed", body |-> b, tx |-> d.next[b.user]]
  <2>1. b.user \in Users /\ b.amount \in Int /\ o \in OrderIds \cup {NoOrder}
    BY BodiesAssumption
  <2>2. /\ d.orders[o].status = "none" /\ FeeAffordable(d, b.user, b.amount)
        /\ e = Decide(t, o, outcome)
    BY <1>1, SameStatements
       DEF Serial!Fill, Serial!Undecided, ExecuteFresh, RecordCompleted
  <2>3. t \in Database /\ t.orders = d.orders /\ t.epoch = d.epoch /\ LedgersContinue(d, t)
    BY <2>1, <2>2, TradeContinues
  <2> HIDE DEF t, outcome
  <2> QED
    BY <2>2, <2>3, DecisionKeeps
<1>2. ASSUME NEW o \in OrderIds, NEW b \in Bodies, Serial!Reject(d, e, o, b) PROVE Kept(d, e)
  <2>1. d.orders[o].status = "none" /\ e = Decide(d, o, [status |-> "rejected", body |-> b, tx |-> 0])
    BY <1>2, SameStatements DEF Serial!Reject, Serial!Undecided, RecordRejection
  <2>2. LedgersContinue(d, d)
    BY PrefixFacts, DatabaseFields DEF LedgersContinue
  <2> QED
    BY <2>1, <2>2, DecisionKeeps
<1>3. ASSUME NEW b \in Bodies, Serial!ForcedSell(d, e, b) PROVE Kept(d, e)
  <2>1. b.user \in Users /\ b.amount \in Int /\ NoOrder \in OrderIds \cup {NoOrder}
    BY BodiesAssumption
  <2>2. FeeAffordable(d, b.user, b.amount) /\ e = Trade(d, b.user, NoOrder, b.amount)
    BY <1>3, SameStatements DEF Serial!ForcedSell
  <2>3. e.orders = d.orders /\ e.epoch = d.epoch /\ LedgersContinue(d, e)
    BY <2>1, <2>2, TradeContinues
  <2> QED
    BY <2>3, GrowthKeeps
<1>4. ASSUME NEW u \in Users, Serial!Rebuild(d, e, u) PROVE Kept(d, e)
  <2>1. PICK n \in 1..MaxLegs :
           \E plan \in [1..n -> Serial!Purchases(u)] : Serial!Planned(d, e, u, plan, n)
    BY <1>4 DEF Serial!Rebuild
  <2>2. PlanDone(d, e, u, n)
    <3>1. n \in Nat
      OBVIOUS
    <3> QED
      BY <2>1, <3>1, PlanFacts
  <2>3. ASSUME NEW v \in Users PROVE KeptFor(d, e, v)
    <3>1. e.epoch[v] = IF v = u THEN d.epoch[v] + 1 ELSE d.epoch[v]
      BY <2>2 DEF PlanDone, Wipe
    <3>2. d.epoch[v] \in Nat
      BY DatabaseFields
    <3>3. CASE v = u
      BY <3>1, <3>2, <3>3 DEF KeptFor
    <3>4. CASE v # u
      <4>1. e.ledger[v] = d.ledger[v] /\ IsPrefixOf(d.ledger[v], d.ledger[v])
        BY <2>2, <3>4, PrefixFacts, DatabaseFields DEF PlanDone
      <4>2. \A o \in OrderIds : d.orders[o].body.user = v => e.orders[o] = d.orders[o]
        BY <2>2, <3>4 DEF PlanDone, Wipe
      <4> QED
        BY <3>1, <3>2, <3>4, <4>1, <4>2 DEF KeptFor
    <3> QED
      BY <3>3, <3>4
  <2> QED
    BY <2>3 DEF Kept
<1>5. CASE Serial!Reset(d, e)
  <2>1. \A u \in Users : e.epoch[u] = d.epoch[u] + 1
    BY <1>5, SameStatements DEF Serial!Reset, SeedIndex, Wipe
  <2>2. ASSUME NEW u \in Users PROVE KeptFor(d, e, u)
    <3>1. d.epoch[u] \in Nat /\ e.epoch[u] = d.epoch[u] + 1
      BY <2>1, DatabaseFields
    <3>2. d.epoch[u] <= e.epoch[u] /\ e.epoch[u] # d.epoch[u]
      BY <3>1
    <3> QED
      BY <3>2 DEF KeptFor
  <2> QED
    BY <2>2 DEF Kept
<1> QED
  BY <1>1, <1>2, <1>3, <1>4, <1>5 DEF Serial!Operation
-----------------------------------------------------------------------------
(* What the open transaction has done so far *)

\* PartOfPlan, for any two databases.
PartDone(d, e, u) ==
    \E n \in 0..(MaxLegs - 1) : \E plan \in [1..n -> Serial!Purchases(u)] :
        Serial!Planned(d, e, u, plan, n)

\* WholeOperation for one thread: what it needs to be at a label with a request,
\* when d is committed and e is the draft.
Fits(label, request, d, e) ==
    /\ label \in {"wbegin", "wtrade"} => request.body.amount > 0
    /\ label \in {"execute", "storing", "wtrade", "replace"} => e = d
    /\ label \in {"plan", "leg"} => PartDone(d, e, request.body.user)
    /\ label = "commit" => e = d \/ Serial!Operation(d, e)

\* WholeOperation is that of every thread, now and after a step.
LEMMA EachFits ==
    /\ WholeOperation <=> \A t \in Threads : Fits(pc[t], req[t], db, draft)
    /\ WholeOperation' <=> \A t \in Threads : Fits(pc'[t], req'[t], db', draft')
<1>1. WholeOperation <=> \A t \in Threads : Fits(pc[t], req[t], db, draft)
  BY DEF WholeOperation, Fits, PartOfPlan, PartDone, Owner, Body
<1>2. WholeOperation' <=> \A t \in Threads : Fits(pc'[t], req'[t], db', draft')
  BY DEF WholeOperation, Fits, PartOfPlan, PartDone, Owner, Body
<1> QED
  BY <1>1, <1>2

\* A thread that is in no transaction does not mind what others write.
LEMMA OutsideFits ==
    ASSUME NEW label, label \notin InTransaction, NEW request, NEW d, NEW e, NEW f, NEW g,
           Fits(label, request, d, e)
    PROVE  Fits(label, request, f, g)
BY DEF Fits, InTransaction

\* A step of t keeps WholeOperation if t does, provided that nobody else is in a
\* transaction when it writes.
LEMMA FittingStep ==
    ASSUME IInv, WholeOperation, NEW t \in Threads, NEW label \in Labels, Goto(t, label),
           \A u \in Threads : u # t => req'[u] = req[u],
           (db' = db /\ draft' = draft) \/ pc[t] \in InTransaction \/ writeLock = Nobody,
           Fits(label, req'[t], db', draft')
    PROVE  WholeOperation'
<1>1. pc'[t] = label /\ \A u \in Threads : u # t => pc'[u] = pc[u]
  BY DEF IInv, TypeOK, Goto
<1>2. ASSUME NEW u \in Threads, u # t PROVE Fits(pc'[u], req'[u], db', draft')
  <2>1. Fits(pc[u], req[u], db, draft)
    BY EachFits
  <2>2. CASE db' = db /\ draft' = draft
    BY <1>1, <1>2, <2>1, <2>2
  <2>3. CASE pc[t] \in InTransaction \/ writeLock = Nobody
    <3>1. pc[u] \notin InTransaction
      BY <1>2, <2>3, ThreadsAssumption DEF IInv, OneTransaction
    <3> QED
      BY <1>1, <1>2, <2>1, <3>1, OutsideFits
  <2> QED
    BY <2>2, <2>3
<1>3. Fits(pc'[t], req'[t], db', draft')
  BY <1>1
<1> QED
  BY <1>2, <1>3, EachFits

\* A label at which nothing is asked of a transaction.
Carefree == Labels \ {"wbegin", "execute", "storing", "wtrade", "replace", "plan", "leg", "commit"}

\* The steps that do not write keep it.
LEMMA ControlStepFits ==
    ASSUME IInv, WholeOperation, NEW t \in Threads, ControlStep(t)
    PROVE  WholeOperation'
<1>1. draft' = draft /\ db' = db /\ req' = req
  BY DEF ControlStep, Check, Quote, TakePortfolioLock, PortfolioBusy, Replay, TradingError,
         DatabaseLocked, Release, TakeRunLock, LegFails, locks
<1>2. Fits(pc[t], req[t], db, draft)
  BY EachFits
<1>3. \A label \in Carefree : Fits(label, req[t], db, draft)
  BY DEF Fits, Carefree
<1>4. PICK label \in Labels : Goto(t, label) /\ Fits(label, req[t], db, draft)
  <2>1. ASSUME Check(t) PROVE Goto(t, "release") \/ Goto(t, "quote")
    BY <2>1 DEF Check
  <2>2. ASSUME Quote(t) PROVE Goto(t, "lock") \/ Goto(t, "reject")
    BY <2>2 DEF Quote
  <2>3. ASSUME TakePortfolioLock(t) PROVE Goto(t, "begin") \/ (pc[t] = "plan" /\ Goto(t, "leg"))
    BY <2>3 DEF TakePortfolioLock
  <2>4. ASSUME PortfolioBusy(t) PROVE Goto(t, "release") \/ Goto(t, "rollback")
    BY <2>4 DEF PortfolioBusy
  <2>5. ASSUME Replay(t) PROVE /\ Goto(t, "commit") \/ Goto(t, "rollback")
                               /\ pc[t] \in {"execute", "storing"}
    BY <2>5 DEF Replay
  <2>6. ASSUME TradingError(t) PROVE Goto(t, "rollback")
    BY <2>6 DEF TradingError
  <2>7. ASSUME DatabaseLocked(t) PROVE Goto(t, "release")
    BY <2>7 DEF DatabaseLocked
  <2>8. ASSUME Release(t) PROVE Goto(t, "reject") \/ Goto(t, "done")
    BY <2>8 DEF Release
  <2>9. ASSUME TakeRunLock(t) PROVE Goto(t, "rbegin")
    BY <2>9 DEF TakeRunLock
  <2>10. ASSUME LegFails(t) PROVE Goto(t, "rollback")
    BY <2>10 DEF LegFails
  <2>11. pc[t] = "plan" => Fits("leg", req[t], db, draft)
    BY <1>2 DEF Fits
  <2>12. pc[t] \in {"execute", "storing"} => Fits("commit", req[t], db, draft)
    BY <1>2 DEF Fits
  <2> QED
    BY <1>3, <2>1, <2>2, <2>3, <2>4, <2>5, <2>6, <2>7, <2>8, <2>9, <2>10, <2>11, <2>12
       DEF ControlStep, Labels, Carefree
<1> QED
  BY <1>1, <1>4, FittingStep

\* The steps that begin or end an operation, a transaction or everything.
LEMMA StartFits ==
    ASSUME IInv, WholeOperation, NEW t \in Threads, Begun(t)
    PROVE  WholeOperation'
<1>1. db' = db /\ draft' = draft /\ \A u \in Threads : u # t => req'[u] = req[u]
  BY DEF IInv, TypeOK, Begun, Submit, ForceSell, Replace, Start
<1>2. PICK label \in Labels : Goto(t, label) /\ Fits(label, req'[t], db, draft)
  <2>1. \A label \in Carefree : Fits(label, req'[t], db, draft)
    BY DEF Fits, Carefree
  <2>2. ASSUME ForceSell(t) PROVE Goto(t, "wbegin") /\ Fits("wbegin", req'[t], db, draft)
    <3>1. PICK b \in Bodies : b.amount > 0 /\ Start(t, Order(t), b, "wbegin")
      BY <2>2 DEF ForceSell
    <3>2. req'[t].body = b
      BY <3>1 DEF IInv, TypeOK, Start
    <3> QED
      BY <3>1, <3>2 DEF Fits, Start
  <2>3. ASSUME Submit(t) PROVE Goto(t, "check")
    BY <2>3 DEF Submit, Start
  <2>4. ASSUME Replace(t) PROVE Goto(t, "runlock")
    BY <2>4 DEF Replace, Start
  <2> QED
    BY <2>1, <2>2, <2>3, <2>4 DEF Begun, Labels, Carefree
<1> QED
  BY <1>1, <1>2, FittingStep

LEMMA TransactionFits ==
    ASSUME IInv, WholeOperation, NEW t \in Threads, Begin(t) \/ Commit(t) \/ Rollback(t)
    PROVE  WholeOperation'
<1>1. CASE Begin(t)
  <2>1. draft' = db /\ db' = db /\ req' = req /\ writeLock = Nobody
    BY <1>1 DEF Begin
  <2>2. PICK label \in {"execute", "storing", "wtrade", "replace"} :
           Goto(t, label) /\ (label = "wtrade" => pc[t] = "wbegin")
    BY <1>1 DEF Begin, AfterBegin
  <2>3. Fits(label, req[t], db, db)
    <3>1. Fits(pc[t], req[t], db, draft)
      BY EachFits
    <3> QED
      BY <3>1, <2>2 DEF Fits
  <2>4. label \in Labels
    BY DEF Labels
  <2> QED
    BY <2>1, <2>2, <2>3, <2>4, FittingStep
<1>2. CASE Commit(t) \/ Rollback(t)
  <2>1. Goto(t, "release") /\ req' = req /\ pc[t] \in InTransaction
    BY <1>2 DEF Commit, Rollback, InTransaction
  <2>2. Fits("release", req'[t], db', draft') /\ "release" \in Labels
    BY DEF Fits, Labels
  <2> QED
    BY <2>1, <2>2, FittingStep
<1> QED
  BY <1>1, <1>2

\* A write of t in its transaction keeps WholeOperation if the draft then is what
\* the next label asks for.
LEMMA WriteFits ==
    ASSUME IInv, WholeOperation, NEW t \in Threads, NEW label \in Labels, Goto(t, label),
           req' = req, db' = db, pc[t] \in InTransaction, Fits(label, req[t], db, draft')
    PROVE  WholeOperation'
BY FittingStep

\* One step of t makes a whole operation out of nothing.
LEMMA WholeStepFits ==
    ASSUME IInv, WholeOperation, NEW t \in Threads, 
           ExecuteFreshOrder(t) \/ StoreRejection(t) \/ WriterTrade(t) \/ ResetAll(t)
    PROVE  WholeOperation'
<1>1. /\ Goto(t, "commit") /\ "commit" \in Labels /\ req' = req /\ db' = db
      /\ pc[t] \in {"execute", "storing", "wtrade", "replace"}
  BY DEF ExecuteFreshOrder, StoreRejection, WriterTrade, ResetAll, Labels
<1>2. draft = db /\ (pc[t] = "wtrade" => Body(t).amount > 0)
  BY <1>1 DEF WholeOperation
<1>3. Order(t) \in OrderIds /\ Body(t) \in Bodies /\ db.orders[Order(t)].status \in {"none", "completed", "rejected"}
  <2>1. Order(t) \in OrderIds /\ Body(t) \in Bodies /\ db \in Database
    BY RequestFacts DEF IInv, TypeOK
  <2> QED
    BY <2>1, DatabaseFields DEF Outcome
<1>4. Serial!Operation(db, draft')
  <2>1. CASE ExecuteFreshOrder(t)
    <3>1. Serial!Fill(db, draft', Order(t), Body(t))
      BY <2>1, <1>2, SameStatements
         DEF ExecuteFreshOrder, Stored, Owner, Serial!Fill, Serial!Undecided
    <3> QED
      BY <3>1, <1>3 DEF Serial!Operation
  <2>2. CASE StoreRejection(t)
    <3>1. Serial!Reject(db, draft', Order(t), Body(t))
      BY <2>2, <1>2, SameStatements DEF StoreRejection, Stored, Serial!Reject, Serial!Undecided
    <3> QED
      BY <3>1, <1>3 DEF Serial!Operation
  <2>3. CASE WriterTrade(t)
    <3>1. Serial!ForcedSell(db, draft', Body(t))
      BY <2>3, <1>2, SameStatements DEF WriterTrade, Owner, Serial!ForcedSell
    <3> QED
      BY <3>1, <1>3 DEF Serial!Operation
  <2>4. CASE ResetAll(t)
    <3>1. Serial!Reset(db, draft')
      BY <2>4, <1>2, SameStatements DEF ResetAll, Serial!Reset
    <3> QED
      BY <3>1 DEF Serial!Operation
  <2> QED
    BY <2>1, <2>2, <2>3, <2>4
<1>5. Fits("commit", req[t], db, draft')
  BY <1>4 DEF Fits
<1> QED
  BY <1>1, <1>5, WriteFits DEF InTransaction

\* A rebuild: the wipe starts a plan, every trade is one more purchase, and the
\* last one makes the plan whole.
LEMMA PlanStepFits ==
    ASSUME IInv, WholeOperation, NEW t \in Threads, WipePortfolio(t) \/ ExecuteLeg(t)
    PROVE  WholeOperation'
<1>1. /\ req' = req /\ db' = db /\ pc[t] \in InTransaction
      /\ "plan" \in Labels /\ "commit" \in Labels
  BY DEF WipePortfolio, ExecuteLeg, Labels, InTransaction
<1>2. Owner(t) \in Users /\ db \in Database /\ Consistent(db)
  BY RequestFacts DEF IInv, TypeOK, CommittedConsistent
<1>3. CASE WipePortfolio(t)
  <2>1. draft' = Wipe(db, {Owner(t)}) /\ Goto(t, "plan")
    BY <1>3 DEF WipePortfolio, WholeOperation
  <2>2. PartDone(db, draft', Owner(t))
    <3>1. 0 \in 0..(MaxLegs - 1)
      BY BoundsAssumption
    <3> QED
      BY <2>1, <3>1, PlanStarts DEF PartDone
  <2>3. Fits("plan", req[t], db, draft')
    BY <2>2 DEF Fits, Owner, Body
  <2> QED
    BY <1>1, <2>1, <2>3, WriteFits
<1>4. CASE ExecuteLeg(t)
  <2>1. PICK b \in Bodies : /\ b.user = Owner(t) /\ b.amount < 0
                            /\ FeeAffordable(draft, Owner(t), b.amount)
                            /\ draft' = Trade(draft, Owner(t), NoOrder, b.amount)
    BY <1>4 DEF ExecuteLeg
  <2>2. b.amount \in Serial!Purchases(Owner(t))
    BY <2>1 DEF Serial!Purchases
  <2>3. PICK n \in 0..(MaxLegs - 1) : \E plan \in [1..n -> Serial!Purchases(Owner(t))] :
           Serial!Planned(db, draft, Owner(t), plan, n)
    BY <1>4 DEF ExecuteLeg, WholeOperation, PartOfPlan
  <2>4. n \in Nat /\ n + 1 \in 1..MaxLegs /\ n + 1 \in Nat
    BY BoundsAssumption
  <2>5. PICK longer \in [1..(n + 1) -> Serial!Purchases(Owner(t))] :
           Serial!Planned(db, draft', Owner(t), longer, n + 1)
    BY <2>1, <2>2, <2>3, <2>4, PlanContinues
  <2>6. CASE Goto(t, "commit")
    <3>1. Serial!Rebuild(db, draft', Owner(t))
      BY <2>4, <2>5 DEF Serial!Rebuild
    <3>2. Fits("commit", req[t], db, draft')
      BY <3>1, <1>2 DEF Fits, Serial!Operation
    <3> QED
      BY <1>1, <2>6, <3>2, WriteFits
  <2>7. CASE Len(draft'.ledger[Owner(t)]) < 2 * MaxLegs /\ Goto(t, "plan")
    <3>1. Len(draft'.ledger[Owner(t)]) = 2 * (n + 1)
      <4>1. PlanDone(db, draft', Owner(t), n + 1)
        BY <1>2, <2>4, <2>5, PlanFacts
      <4> QED
        BY <4>1 DEF PlanDone
    <3>2. n + 1 \in 0..(MaxLegs - 1)
      BY <2>4, <2>7, <3>1, BoundsAssumption
    <3>3. PartDone(db, draft', Owner(t))
      BY <2>5, <3>2 DEF PartDone
    <3>4. Fits("plan", req[t], db, draft')
      BY <3>3 DEF Fits, Owner, Body
    <3> QED
      BY <1>1, <2>7, <3>4, WriteFits
  <2> QED
    BY <1>4, <2>6, <2>7 DEF ExecuteLeg
<1> QED
  BY <1>3, <1>4

\* An error gives the transaction up.
LEMMA FailedStepFits ==
    ASSUME IInv, WholeOperation, NEW t \in Threads, ExecutionError(t) \/ ReplaceFails(t)
    PROVE  WholeOperation'
<1>1. /\ Goto(t, "rollback") /\ "rollback" \in Labels /\ req' = req /\ db' = db
      /\ pc[t] \in InTransaction
  BY DEF ExecutionError, ReplaceFails, Labels, InTransaction
<1>2. Fits("rollback", req[t], db, draft')
  BY DEF Fits
<1> QED
  BY <1>1, <1>2, WriteFits

\* The strengthening of the refinement is inductive.
LEMMA SerialNext == SerialInv /\ [Next]_vars => SerialInv'
<1> SUFFICES ASSUME SerialInv, [Next]_vars PROVE SerialInv'
  OBVIOUS
<1>1. IInv /\ WholeOperation
  BY DEF SerialInv
<1>2. IInv'
  BY <1>1, NextKeeps
<1>3. WholeOperation'
  <2>1. ASSUME NEW t \in Threads, Begun(t) PROVE WholeOperation'
    BY <1>1, <2>1, StartFits
  <2>2. ASSUME NEW t \in Threads, Step(t) PROVE WholeOperation'
    <3>1. \/ ControlStep(t) \/ Begin(t) \/ Commit(t) \/ Rollback(t)
          \/ ExecuteFreshOrder(t) \/ StoreRejection(t) \/ WriterTrade(t) \/ ResetAll(t)
          \/ WipePortfolio(t) \/ ExecuteLeg(t) \/ ExecutionError(t) \/ ReplaceFails(t)
      BY <2>2 DEF Step, ControlStep
    <3> QED
      BY <3>1, <1>1, ControlStepFits, TransactionFits, WholeStepFits, PlanStepFits, FailedStepFits
  <2>3. CASE Crash
    BY <2>3 DEF Crash, WholeOperation
  <2>4. CASE UNCHANGED vars
    BY <1>1, <2>4, EachFits DEF vars
  <2> QED
    BY <2>1, <2>2, <2>3, <2>4 DEF Next, Finished
<1> QED
  BY <1>2, <1>3 DEF SerialInv

\* In every reachable state the open transaction has done nothing, a part of a
\* plan that can still grow, or one whole operation on what is committed.
THEOREM TransactionsAreWhole == Spec => []SerialInv
<1>1. Init => SerialInv
  BY InitEstablishes DEF Init, SerialInv, WholeOperation
<1> QED
  BY <1>1, SerialNext, PTL DEF Spec
-----------------------------------------------------------------------------
(* The operations are serializable *)

\* A commit changes the database by one whole operation or not at all, and
\* nothing else changes it.
LEMMA CommitsAreWhole ==
    SerialInv /\ [Next]_vars => db' = db \/ Serial!Operation(db, db')
<1> SUFFICES ASSUME SerialInv, [Next]_vars PROVE db' = db \/ Serial!Operation(db, db')
  OBVIOUS
<1>1. ASSUME NEW t \in Threads, Begun(t) PROVE db' = db
  BY <1>1 DEF Begun, Submit, ForceSell, Replace, Start
<1>2. ASSUME NEW t \in Threads, Step(t) PROVE db' = db \/ Serial!Operation(db, db')
  <2>1. CASE Commit(t)
    <3>1. db' = draft /\ (draft = db \/ Serial!Operation(db, draft))
      BY <2>1 DEF Commit, SerialInv, WholeOperation
    <3> QED
      BY <3>1
  <2>2. CASE WritingStep(t) \/ ControlStep(t) \/ Begin(t) \/ Rollback(t)
    BY <2>2 DEF WritingStep, ExecuteFreshOrder, ExecutionError, StoreRejection, WriterTrade,
       WipePortfolio, ExecuteLeg, ResetAll, ReplaceFails,
       ControlStep, Check, Quote, TakePortfolioLock, PortfolioBusy, Replay, TradingError,
       DatabaseLocked, Release, TakeRunLock, LegFails, Begin, Rollback
  <2> QED
    BY <1>2, <2>1, <2>2 DEF Step, WritingStep, ControlStep
<1>3. CASE Crash
  BY <1>3 DEF Crash
<1>4. CASE UNCHANGED vars
  BY <1>4 DEF vars
<1> QED
  BY <1>1, <1>2, <1>3, <1>4 DEF Next, Finished

\* Trading implements OrderBook: whatever the threads, locks, timeouts, retries
\* and crashes do, the database goes through whole operations, one at a time.
THEOREM Serializable == Spec => OperationsAreSerial
<1>1. Init => Serial!Init
  BY SameStatements DEF Init, Serial!Init
<1>2. SerialInv /\ [Next]_vars => [Serial!Next]_db
  BY CommitsAreWhole DEF Serial!Next
<1> QED
  BY <1>1, <1>2, TransactionsAreWhole, PTL DEF Spec, OperationsAreSerial, Serial!Spec
-----------------------------------------------------------------------------
(* History is kept *)

\* No step takes a row or an outcome back, except a reset.
LEMMA StepsKeep == SerialInv /\ [Next]_vars => Kept(db, db')
<1> SUFFICES ASSUME SerialInv, [Next]_vars PROVE Kept(db, db')
  OBVIOUS
<1>1. db \in Database /\ Consistent(db)
  BY DEF SerialInv, IInv, TypeOK, CommittedConsistent
<1>2. CASE db' = db
  <2>1. LedgersContinue(db, db)
    BY <1>1, PrefixFacts, DatabaseFields DEF LedgersContinue
  <2> QED
    BY <1>1, <1>2, <2>1, GrowthKeeps
<1>3. CASE Serial!Operation(db, db')
  BY <1>1, <1>3, OperationKeeps
<1> QED
  BY <1>2, <1>3, CommitsAreWhole

\* Between two resets of a portfolio its ledger only grows and the outcome of an
\* order, once stored, is never replaced.
THEOREM HistoryIsPreserved == Spec => HistoryIsKept
<1>1. SerialInv /\ [Next]_vars => [HistoryKept]_vars
  BY StepsKeep DEF Kept, KeptFor, HistoryKept
<1> QED
  BY <1>1, TransactionsAreWhole, PTL DEF Spec, HistoryIsKept
-----------------------------------------------------------------------------
(* Answers hold *)

\* A kept history keeps what an earned answer says.
LEMMA EarnedLasts ==
    ASSUME NEW d \in Database, NEW e \in Database, Kept(d, e),
           NEW request \in Request, NEW answer \in Reply, Earned(d, request, answer)
    PROVE  Earned(e, request, answer)
<1> DEFINE o == request.order
           u == request.body.user
<1>1. o \in OrderIds /\ u \in Users
  BY BodiesAssumption DEF Request
<1>2. d.epoch[u] \in Nat /\ e.epoch[u] \in Nat /\ answer.epoch \in Nat
  BY <1>1, DatabaseFields DEF Reply
<1>3. answer.epoch <= d.epoch[u] /\ d.epoch[u] <= e.epoch[u]
  BY <1>1 DEF Earned, Kept, KeptFor
<1>4. ASSUME answer.epoch = e.epoch[u] PROVE e.orders[o] = d.orders[o] /\ answer.epoch = d.epoch[u]
  <2>1. answer.epoch = d.epoch[u] /\ e.epoch[u] = d.epoch[u]
    BY <1>2, <1>3, <1>4
  <2>2. d.orders[o].status # "none" /\ d.orders[o].body.user = u
    BY <2>1 DEF Earned, Holds
  <2> QED
    BY <1>1, <2>1, <2>2 DEF Kept, KeptFor
<1>5. answer.epoch <= e.epoch[u]
  BY <1>2, <1>3
<1> QED
  BY <1>4, <1>5 DEF Earned, Holds

\* AnswersEarned for one thread.
Claim(label, request, answer, d, e) ==
    /\ label \in Unanswered => answer.kind = "none"
    /\ label \in {"commit", "rollback", "release"} /\ Terminal(answer)
          => Earned(IF label = "commit" THEN e ELSE d, request, answer)

\* AnswersEarned is about what was told and about every thread, now and after a step.
LEMMA EachClaim ==
    /\ AnswersEarned <=> /\ \A a \in told : Earned(db, a.req, a.reply)
                         /\ \A t \in Threads : Claim(pc[t], req[t], reply[t], db, draft)
    /\ AnswersEarned' <=> /\ \A a \in told' : Earned(db', a.req, a.reply)
                          /\ \A t \in Threads : Claim(pc'[t], req'[t], reply'[t], db', draft')
BY DEF AnswersEarned, Claim

\* Whatever t does, the answers of the others are not touched by what it writes,
\* and a commit keeps what they say.
LEMMA AnsweringStep ==
    ASSUME AnswersInv, NEW t \in Threads, NEW label, Goto(t, label),
           db' \in Database, Kept(db, db'),
           \A u \in Threads : u # t => req'[u] = req[u] /\ reply'[u] = reply[u],
           draft' = draft \/ pc[t] \in InTransaction \/ writeLock = Nobody,
           \A a \in told' : a \in told \/ Earned(db', a.req, a.reply),
           Claim(label, req'[t], reply'[t], db', draft')
    PROVE  AnswersEarned'
<1>1. TypeOK /\ OneTransaction /\ AnswersEarned
  BY DEF AnswersInv, SerialInv, IInv
<1>2. pc'[t] = label /\ \A u \in Threads : u # t => pc'[u] = pc[u]
  BY <1>1 DEF TypeOK, Goto
<1>3. \A a \in told' : Earned(db', a.req, a.reply)
  <2>1. \A a \in told : a.req \in Request /\ a.reply \in Reply
    BY <1>1 DEF TypeOK
  <2>2. db \in Database
    BY <1>1 DEF TypeOK
  <2> QED
    BY <1>1, <2>1, <2>2, EarnedLasts, EachClaim
<1>4. ASSUME NEW u \in Threads, u # t PROVE Claim(pc'[u], req'[u], reply'[u], db', draft')
  <2>1. Claim(pc[u], req[u], reply[u], db, draft)
    BY <1>1, EachClaim
  <2>2. req[u] \in Request /\ reply[u] \in Reply /\ db \in Database
    BY <1>1 DEF TypeOK
  <2>3. pc[u] = "commit" => draft' = draft
    BY <1>1, <1>4, ThreadsAssumption DEF OneTransaction, InTransaction
  <2>4. Earned(db, req[u], reply[u]) => Earned(db', req[u], reply[u])
    BY <2>2, EarnedLasts
  <2>5. Claim(pc[u], req[u], reply[u], db', draft')
    BY <2>1, <2>3, <2>4 DEF Claim
  <2> QED
    BY <1>2, <1>4, <2>5
<1>5. Claim(pc'[t], req'[t], reply'[t], db', draft')
  BY <1>2
<1> QED
  BY <1>3, <1>4, <1>5, EachClaim

\* What is stored for a request is an answer that agrees with it.
LEMMA StoredIsEarned ==
    ASSUME IInv, NEW d \in Database, NEW t \in Threads, Stored(d, t),
           Terminal(ReplayedOrConflict(d, t))
    PROVE  Earned(d, req[t], ReplayedOrConflict(d, t))
<1> DEFINE o == Order(t)
           answer == ReplayedOrConflict(d, t)
<1>1. /\ o \in OrderIds /\ Owner(t) \in Users
      /\ req[t].order = o /\ req[t].body = Body(t) /\ Body(t).user = Owner(t)
  BY RequestFacts DEF IInv, Order, Body, Owner
<1>2. d.orders[o].body = Body(t) /\ answer = StoredReply(d, o)
  BY DEF ReplayedOrConflict, Failed, Terminal
<1>3. d.orders[o].status \in {"completed", "rejected"}
  BY <1>1, DatabaseFields DEF Stored, Outcome
<1>4. /\ answer.epoch = d.epoch[Owner(t)] /\ answer.tx = d.orders[o].tx
      /\ answer.kind = "executed" <=> d.orders[o].status = "completed"
  BY <1>1, <1>2 DEF StoredReply
<1>5. d.epoch[Owner(t)] \in Nat
  BY <1>1, DatabaseFields
<1> HIDE DEF answer, o
<1>6. answer.epoch <= d.epoch[Owner(t)]
  BY <1>4, <1>5
<1>7. Earned(d, req[t], answer)
  BY <1>1, <1>2, <1>3, <1>4, <1>6 DEF Earned, Holds
<1> QED
  BY <1>7 DEF answer

\* The outcome a transaction stores is the answer it gives.
LEMMA DecidedIsEarned ==
    ASSUME IInv, NEW t \in Threads, NEW kind \in {"executed", "rejected"}, NEW tx,
           NEW e, e.epoch = draft.epoch,
           e.orders = [draft.orders EXCEPT ![Order(t)] =
                         [status |-> IF kind = "executed" THEN "completed" ELSE "rejected",
                          body |-> Body(t), tx |-> tx]]
    PROVE  Earned(e, req[t], [kind |-> kind, tx |-> tx, epoch |-> draft.epoch[Owner(t)]])
<1>1. /\ Order(t) \in OrderIds /\ Owner(t) \in Users /\ draft \in Database
      /\ req[t].order = Order(t) /\ req[t].body = Body(t) /\ Body(t).user = Owner(t)
  BY RequestFacts DEF IInv, TypeOK, Order, Body, Owner
<1>2. e.orders[Order(t)] = [status |-> IF kind = "executed" THEN "completed" ELSE "rejected",
                            body |-> Body(t), tx |-> tx]
  BY <1>1, DatabaseFields
<1>3. draft.epoch[Owner(t)] \in Nat
  BY <1>1, DatabaseFields
<1>4. draft.epoch[Owner(t)] <= e.epoch[Owner(t)]
  BY <1>3
<1> QED
  BY <1>1, <1>2, <1>4 DEF Earned, Holds

\* The steps by which an operation begins.
LEMMA StartAnswers ==
    ASSUME AnswersInv, NEW t \in Threads, Begun(t), Kept(db, db')
    PROVE  AnswersEarned'
<1>1. TypeOK
  BY DEF AnswersInv, SerialInv, IInv
<1>2. PICK o \in OrderIds, b \in Bodies, label \in {"check", "wbegin", "runlock"} :
         Start(t, o, b, label)
  <2>1. Order(t) \in OrderIds
    BY <1>1, RequestFacts
  <2> QED
    BY <2>1 DEF Begun, Submit, ForceSell, Replace
<1>3. /\ Goto(t, label) /\ db' = db /\ draft' = draft /\ told' = told
      /\ reply'[t] = NoReply
      /\ \A u \in Threads : u # t => req'[u] = req[u] /\ reply'[u] = reply[u]
  BY <1>1, <1>2 DEF Start, Answer, TypeOK
<1>4. Claim(label, req'[t], reply'[t], db', draft')
  BY <1>3 DEF Claim, NoReply
<1> QED
  BY <1>1, <1>3, <1>4, AnsweringStep DEF TypeOK

\* The steps that give or carry an answer without writing.
LEMMA ControlAnswers ==
    ASSUME AnswersInv, NEW t \in Threads, ControlStep(t), Kept(db, db')
    PROVE  AnswersEarned'
<1>1. IInv /\ TypeOK /\ WholeOperation /\ AnswersEarned
  BY DEF AnswersInv, SerialInv, IInv
<1>2. db' = db /\ draft' = draft /\ req' = req /\ db \in Database /\ draft \in Database
  BY <1>1 DEF TypeOK, ControlStep, Check, Quote, TakePortfolioLock, PortfolioBusy, Replay,
     TradingError, DatabaseLocked, Release, TakeRunLock, LegFails, locks
<1>3. Claim(pc[t], req[t], reply[t], db, draft) /\ \A a \in told : Earned(db, a.req, a.reply)
  BY <1>1, EachClaim
<1>4. ASSUME NEW label, Goto(t, label), told' = told,
             NEW answer, reply' = [reply EXCEPT ![t] = answer],
             Claim(label, req[t], answer, db, draft)
      PROVE  AnswersEarned'
  <2>1. reply'[t] = answer /\ \A u \in Threads : u # t => reply'[u] = reply[u]
    BY <1>1, <1>4 DEF TypeOK
  <2> QED
    BY <1>2, <1>4, <2>1, AnsweringStep
<1>5. ASSUME NEW kind, kind \notin {"executed", "rejected"}, NEW label, label \notin Unanswered
      PROVE  Claim(label, req[t], Failed(kind), db, draft)
  BY <1>5 DEF Claim, Failed, Terminal
<1>6. reply = [reply EXCEPT ![t] = reply[t]]
  BY <1>1 DEF TypeOK
<1>7. CASE Check(t)
  <2>1. told' = told /\ pc[t] = "check"
    BY <1>7 DEF Check
  <2>2. CASE Stored(db, t)
    <3>1. Goto(t, "release") /\ reply' = [reply EXCEPT ![t] = ReplayedOrConflict(db, t)]
      BY <1>7, <2>2 DEF Check, Answer
    <3>2. Claim("release", req[t], ReplayedOrConflict(db, t), db, draft)
      BY <1>1, <1>2, <2>2, StoredIsEarned DEF Claim, Unanswered
    <3> QED
      BY <2>1, <3>1, <3>2, <1>4
  <2>3. CASE ~Stored(db, t)
    <3>1. Goto(t, "quote") /\ reply' = [reply EXCEPT ![t] = reply[t]]
      BY <1>6, <1>7, <2>3 DEF Check
    <3>2. Claim("quote", req[t], reply[t], db, draft)
      BY <1>3, <2>1 DEF Claim, Unanswered, Labels
    <3> QED
      BY <2>1, <3>1, <3>2, <1>4
  <2> QED
    BY <2>2, <2>3
<1>8. CASE Quote(t) \/ TakePortfolioLock(t) \/ TakeRunLock(t)
  <2>1. /\ told' = told /\ reply' = [reply EXCEPT ![t] = reply[t]]
        /\ pc[t] \in {"quote", "lock", "plan", "runlock"}
    BY <1>6, <1>8 DEF Quote, TakePortfolioLock, TakeRunLock
  <2>2. PICK label \in {"lock", "reject", "begin", "leg", "rbegin"} : Goto(t, label)
    BY <1>8 DEF Quote, TakePortfolioLock, TakeRunLock
  <2>3. Claim(label, req[t], reply[t], db, draft)
    BY <1>3, <2>1 DEF Claim, Unanswered, Labels
  <2> QED
    BY <2>1, <2>2, <2>3, <1>4
<1>9. CASE PortfolioBusy(t) \/ DatabaseLocked(t) \/ TradingError(t)
  <2>1. PICK kind \in {"busy", "locked", "error"} : reply' = [reply EXCEPT ![t] = Failed(kind)]
    BY <1>9 DEF PortfolioBusy, DatabaseLocked, TradingError, Answer
  <2>2. told' = told
    BY <1>9 DEF PortfolioBusy, DatabaseLocked, TradingError
  <2>3. PICK label \in {"release", "rollback"} : Goto(t, label)
    BY <1>9 DEF PortfolioBusy, DatabaseLocked, TradingError
  <2>4. label \notin Unanswered
    BY DEF Unanswered
  <2> QED
    BY <2>1, <2>2, <2>3, <2>4, <1>4, <1>5
<1>10. CASE Replay(t)
  <2> DEFINE answer == ReplayedOrConflict(draft, t)
  <2>1. /\ Stored(draft, t) /\ told' = told /\ reply' = [reply EXCEPT ![t] = answer]
        /\ Goto(t, IF answer.kind = "executed" THEN "commit" ELSE "rollback")
        /\ draft = db
    BY <1>1, <1>10 DEF Replay, Answer, WholeOperation
  <2>2. PICK label \in {"commit", "rollback"} : Goto(t, label)
    BY <2>1
  <2>3. Claim(label, req[t], answer, db, draft)
    BY <1>1, <1>2, <2>1, StoredIsEarned DEF Claim, Unanswered
  <2> QED
    BY <2>1, <2>2, <2>3, <1>4
<1>11. CASE LegFails(t)
  <2>1. /\ told' = told /\ reply' = [reply EXCEPT ![t] = reply[t]]
        /\ pc[t] = "leg" /\ Goto(t, "rollback")
    BY <1>6, <1>11 DEF LegFails
  <2>2. Claim("rollback", req[t], reply[t], db, draft)
    BY <1>3, <2>1 DEF Claim, Unanswered, Labels, Terminal
  <2> QED
    BY <2>1, <2>2, <1>4
<1>12. CASE Release(t)
  <2>1. /\ pc[t] = "release" /\ reply' = reply
        /\ \/ Goto(t, "reject") /\ reply[t].kind = "none"
           \/ Goto(t, "done")
        /\ told' = IF t \in Clients /\ Terminal(reply[t])
                   THEN told \cup {[req |-> req[t], reply |-> reply[t]]} ELSE told
    BY <1>12 DEF Release
  <2>2. \A a \in told' : a \in told \/ Earned(db', a.req, a.reply)
    BY <1>2, <1>3, <2>1 DEF Claim
  <2>3. PICK label \in {"reject", "done"} : Goto(t, label) /\ (label = "reject" => reply[t].kind = "none")
    BY <2>1
  <2>4. Claim(label, req'[t], reply'[t], db', draft')
    BY <1>2, <2>1, <2>3 DEF Claim, Unanswered
  <2> QED
    BY <1>2, <2>1, <2>2, <2>3, <2>4, AnsweringStep
<1> QED
  BY <1>7, <1>8, <1>9, <1>10, <1>11, <1>12 DEF ControlStep

\* The steps that write: an order is decided with the answer it gets, nothing
\* else is answered.
LEMMA WritingAnswers ==
    ASSUME AnswersInv, NEW t \in Threads, WritingStep(t), Kept(db, db')
    PROVE  AnswersEarned'
<1>1. IInv /\ TypeOK /\ AnswersEarned
  BY DEF AnswersInv, SerialInv, IInv
<1>2. /\ db' = db /\ req' = req /\ told' = told
      /\ pc[t] \in InTransaction /\ pc[t] \in Unanswered /\ db \in Database
  BY <1>1 DEF TypeOK, WritingStep, ExecuteFreshOrder, ExecutionError, StoreRejection, WriterTrade,
         WipePortfolio, ExecuteLeg, ResetAll, ReplaceFails, InTransaction, Unanswered, Labels
<1>3. reply[t].kind = "none"
  BY <1>1, <1>2, EachClaim DEF Claim
<1>4. CASE ExecuteFreshOrder(t) \/ StoreRejection(t)
  <2> DEFINE Decided(kind, tx) ==
           /\ reply' = [reply EXCEPT ![t] = [kind |-> kind, tx |-> tx,
                                             epoch |-> draft.epoch[Owner(t)]]]
           /\ draft'.epoch = draft.epoch
           /\ draft'.orders = [draft.orders EXCEPT ![Order(t)] =
                 [status |-> IF kind = "executed" THEN "completed" ELSE "rejected",
                  body |-> Body(t), tx |-> tx]]
  <2>1. PICK kind, tx : kind \in {"executed", "rejected"} /\ Decided(kind, tx)
    <3>1. ASSUME ExecuteFreshOrder(t) PROVE Decided("executed", draft.next[Owner(t)])
      BY <3>1 DEF ExecuteFreshOrder, Answer, ExecuteFresh, RecordCompleted, Decide, Trade, Post,
                  Owner
    <3>2. ASSUME StoreRejection(t) PROVE Decided("rejected", 0)
      BY <3>2 DEF StoreRejection, Answer, RecordRejection, Decide
    <3> HIDE DEF Decided
    <3> QED
      BY <1>4, <3>1, <3>2
  <2>2. Goto(t, "commit")
    BY <1>4 DEF ExecuteFreshOrder, StoreRejection
  <2>3. /\ reply'[t] = [kind |-> kind, tx |-> tx, epoch |-> draft.epoch[Owner(t)]]
        /\ \A u \in Threads : u # t => reply'[u] = reply[u]
    BY <1>1, <2>1 DEF TypeOK
  <2>4. Claim("commit", req[t], reply'[t], db', draft')
    BY <1>1, <2>1, <2>3, DecidedIsEarned DEF Claim, Unanswered
  <2> QED
    BY <1>2, <2>2, <2>3, <2>4, AnsweringStep
<1>5. CASE ~(ExecuteFreshOrder(t) \/ StoreRejection(t))
  <2>1. reply' = reply
    BY <1>5 DEF WritingStep, ExecutionError, WriterTrade, WipePortfolio, ExecuteLeg, ResetAll,
                ReplaceFails
  <2>2. PICK label \in Labels : Goto(t, label)
    BY DEF WritingStep, ExecuteFreshOrder, ExecutionError, StoreRejection, WriterTrade,
         WipePortfolio, ExecuteLeg, ResetAll, ReplaceFails, Labels
  <2>3. Claim(label, req[t], reply'[t], db', draft')
    BY <1>3, <2>1 DEF Claim, Terminal
  <2> QED
    BY <1>2, <2>1, <2>2, <2>3, AnsweringStep
<1> QED
  BY <1>4, <1>5

\* A transaction begins without an answer; when it ends, what its answer says is
\* committed or was already.
LEMMA TransactionAnswers ==
    ASSUME AnswersInv, NEW t \in Threads, Begin(t) \/ Commit(t) \/ Rollback(t), Kept(db, db')
    PROVE  AnswersEarned'
<1>1. TypeOK /\ AnswersEarned
  BY DEF AnswersInv, SerialInv, IInv
<1>2. Claim(pc[t], req[t], reply[t], db, draft)
  BY <1>1, EachClaim
<1>3. req' = req /\ reply' = reply /\ told' = told
  BY DEF Begin, Commit, Rollback
<1>4. CASE Begin(t)
  <2>1. db' = db /\ writeLock = Nobody /\ pc[t] \in Unanswered
    BY <1>4 DEF Begin, AfterBegin, Unanswered, Labels
  <2>2. PICK label \in Labels : Goto(t, label)
    BY <1>4 DEF Begin, AfterBegin, Labels
  <2>3. Claim(label, req[t], reply[t], db', draft')
    BY <1>2, <2>1 DEF Claim, Terminal
  <2> QED
    BY <1>1, <1>3, <2>1, <2>2, <2>3, AnsweringStep DEF TypeOK
<1>5. CASE Commit(t)
  <2>1. pc[t] = "commit" /\ db' = draft /\ draft' = draft /\ Goto(t, "release")
    BY <1>5 DEF Commit
  <2>2. Claim("release", req[t], reply[t], db', draft')
    BY <1>2, <2>1 DEF Claim, Unanswered
  <2> QED
    BY <1>1, <1>3, <2>1, <2>2, AnsweringStep DEF TypeOK
<1>6. CASE Rollback(t)
  <2>1. pc[t] = "rollback" /\ db' = db /\ Goto(t, "release")
    BY <1>6 DEF Rollback
  <2>2. Claim("release", req[t], reply[t], db', draft')
    BY <1>2, <2>1 DEF Claim, Unanswered
  <2> QED
    BY <1>1, <1>3, <2>1, <2>2, AnsweringStep DEF TypeOK, InTransaction
<1> QED
  BY <1>4, <1>5, <1>6

\* The strengthening of AnswersHold is inductive.
LEMMA AnswersNext == AnswersInv /\ [Next]_vars => AnswersInv'
<1> SUFFICES ASSUME AnswersInv, [Next]_vars PROVE AnswersInv'
  OBVIOUS
<1>1. SerialInv /\ AnswersEarned
  BY DEF AnswersInv
<1>2. SerialInv' /\ Kept(db, db')
  BY <1>1, SerialNext, StepsKeep
<1>3. AnswersEarned'
  <2>1. ASSUME NEW t \in Threads, Begun(t) PROVE AnswersEarned'
    BY <1>2, <2>1, StartAnswers
  <2>2. ASSUME NEW t \in Threads, Step(t) PROVE AnswersEarned'
    <3>1. ControlStep(t) \/ WritingStep(t) \/ Begin(t) \/ Commit(t) \/ Rollback(t)
      BY <2>2 DEF Step, ControlStep, WritingStep
    <3> QED
      BY <1>2, <3>1, ControlAnswers, WritingAnswers, TransactionAnswers
  <2>3. CASE Crash
    BY <1>1, <2>3 DEF Crash, AnswersEarned, Unanswered
  <2>4. CASE UNCHANGED vars
    BY <1>1, <2>4, EachClaim DEF vars
  <2> QED
    BY <2>1, <2>2, <2>3, <2>4 DEF Next, Finished
<1> QED
  BY <1>2, <1>3 DEF AnswersInv

\* An answer that ended a client's retries stays true until the portfolio is
\* reset: a fill is the completed order of that transaction, a rejected order
\* never traded afterwards.
THEOREM AnswersAreTrue == Spec => []AnswersHold
<1>1. Init => AnswersInv
  <2>1. Init => SerialInv
    BY InitEstablishes DEF Init, SerialInv, WholeOperation
  <2>2. Init => AnswersEarned
    BY DEF Init, AnswersEarned, NoReply, Terminal
  <2> QED
    BY <2>1, <2>2 DEF AnswersInv
<1>2. AnswersInv => AnswersHold
  BY DEF AnswersInv, AnswersEarned, AnswersHold, Earned
<1> QED
  BY <1>1, <1>2, AnswersNext, PTL DEF Spec
=============================================================================
