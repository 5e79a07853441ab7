---------------------------- MODULE ChartHistory ----------------------------
(***************************************************************************)
(* Valuations of all accounts and the chart history that keeps them        *)
(* (services/leaderboard.py, adapters/sqlite/leaderboard.py): the daily    *)
(* point of a market refresh, which holds the run lock, and the points     *)
(* stored after a batch or a manual trade, which hold no lock.  Accounts   *)
(* are listed once and read one after the other, each in a transaction of  *)
(* its own.  Meanwhile agents are created, and one may be rebuilt, which   *)
(* deletes its points.                                                     *)
(*                                                                         *)
(* Abstractions: of a value only what was not quoted is kept, and of a     *)
(* time its day and its order.  A batch passes the quotes of its input;    *)
(* the model takes them for quotes of what is held when it values.  Any    *)
(* account may be one of an agent.                                         *)
(***************************************************************************)
EXTENDS Integers, Sequences, FiniteSets

CONSTANTS Accounts, Assets,
          Daily, Others,           \* who stores valuations
          Keep,                    \* leaderboard_snapshot_retention_per_user
          MaxChartDay, MaxStamp, MaxChartEvents

ASSUME ChartAssumption == Daily \notin Others /\ Keep \in Nat \ {0}

VARIABLES users,       \* the accounts there are
          positions,   \* the assets each account holds
          chart,       \* leaderboard_snapshots
          valuer,      \* the locals of each valuation
          today,
          stamps,      \* how many times were taken
          simulation,  \* counts the resets (history)
          rebuilt,     \* the last time taken before each account was rebuilt (history)
          chartEvents  \* counter of trades, resets, rebuilds and new agents

chartVars == <<users, positions, chart, valuer, today, stamps, simulation, rebuilt, chartEvents>>

NoValuation == [pc |-> "idle", day |-> 0, stamp |-> 0, asked |-> {}, quoted |-> {},
                users |-> {}, rows |-> {}]

ChartInit ==
    /\ \E a \in Accounts : users = {b \in Accounts : b <= a}
    /\ positions = [a \in Accounts |-> {}] /\ chart = {} /\ today = 0 /\ stamps = 0
    /\ valuer = [v \in {Daily} \cup Others |-> NoValuation]
    /\ simulation = 0 /\ rebuilt = [a \in Accounts |-> 0] /\ chartEvents = 0

ChartEvent == chartEvents < MaxChartEvents /\ chartEvents' = chartEvents + 1
HeldAssets == UNION {positions[a] : a \in Accounts}
HasPointOn(day) == \E row \in chart : row.day = day

\* An agent is created, under the next number.
NewAgent ==
    /\ ChartEvent
    /\ \E a \in Accounts \ users :
          (\A b \in Accounts : b < a => b \in users) /\ users' = users \cup {a}
    /\ UNCHANGED <<positions, chart, valuer, today, stamps, simulation, rebuilt>>

OpenOrClose(a, asset) ==
    /\ ChartEvent /\ a \in users
    /\ positions' = [positions EXCEPT ![a] = IF asset \in @ THEN @ \ {asset} ELSE @ \cup {asset}]
    /\ UNCHANGED <<users, chart, valuer, today, stamps, simulation, rebuilt>>

\* SimulationOperations.reset: it has the run lock, so no daily point is under way.
WipeSimulation ==
    /\ ChartEvent /\ valuer[Daily].pc = "idle"
    /\ chart' = {} /\ positions' = [a \in Accounts |-> {}] /\ simulation' = simulation + 1
    /\ UNCHANGED <<users, valuer, today, stamps, rebuilt>>

\* An agent's account is built anew under the run lock: its points go, and it holds what
\* its plan bought.
RebuildAgent(a) ==
    /\ ChartEvent /\ valuer[Daily].pc = "idle" /\ a \in users
    /\ chart' = {row \in chart : row.account # a} /\ rebuilt' = [rebuilt EXCEPT ![a] = stamps]
    /\ \E bought \in SUBSET Assets : positions' = [positions EXCEPT ![a] = bought]
    /\ UNCHANGED <<users, valuer, today, stamps, simulation>>

NextDay ==
    /\ today < MaxChartDay /\ today' = today + 1
    /\ UNCHANGED <<users, positions, chart, valuer, stamps, simulation, rebuilt, chartEvents>>

-----------------------------------------------------------------------------
\* held_tickers; the daily point is dated when it begins, and is begun once a day.
BeginValuation(v) ==
    /\ valuer[v].pc = "idle" /\ stamps < MaxStamp
    /\ v = Daily => ~HasPointOn(today)
    /\ stamps' = IF v = Daily THEN stamps + 1 ELSE stamps
    /\ valuer' = [valuer EXCEPT ![v] =
          [NoValuation EXCEPT !.pc = "fetch", !.day = today, !.stamp = stamps', !.asked = HeldAssets]]
    /\ UNCHANGED <<users, positions, chart, today, simulation, rebuilt, chartEvents>>

\* One missing quote and nothing is stored.  With them the accounts are listed.
QuotesArrive(v) ==
    /\ valuer[v].pc = "fetch"
    /\ \E answered \in SUBSET valuer[v].asked :
          valuer' = [valuer EXCEPT ![v] =
              IF valuer[v].asked \ answered # {} THEN NoValuation
              ELSE [@ EXCEPT !.pc = "value", !.quoted = answered, !.users = users]]
    /\ UNCHANGED <<users, positions, chart, today, stamps, simulation, rebuilt, chartEvents>>

Valued(v) == {row.account : row \in valuer[v].rows}

\* compute_portfolio_snapshot: what has no quote, since it was opened after they were
\* asked for, gets the last captured price, or what it cost.
ValueAccount(v, a) ==
    /\ valuer[v].pc = "value" /\ a \in valuer[v].users \ Valued(v)
    /\ \A b \in valuer[v].users : b < a => b \in Valued(v)
    /\ valuer' = [valuer EXCEPT ![v].rows = @ \cup
          {[account |-> a, by |-> v, users |-> valuer[v].users, simulation |-> simulation,
            asked |-> valuer[v].asked, fallback |-> positions[a] \ valuer[v].quoted]}]
    /\ UNCHANGED <<users, positions, chart, today, stamps, simulation, rebuilt, chartEvents>>

\* Mutant of Newest: the newest rows of all accounts together.
NewestOfAll(rows) ==
    {row \in rows : Cardinality({r \in rows : r.stamp > row.stamp \/ (r.stamp = row.stamp /\ r.account > row.account)})
        < Keep}

\* The rows that retention keeps: the newest of each account.
Newest(rows) ==
    {row \in rows : Cardinality({r \in rows : r.account = row.account /\ r.stamp > row.stamp}) < Keep}

Stamped(rows, day, stamp) ==
    {[account |-> r.account, by |-> r.by, users |-> r.users, simulation |-> r.simulation,
      asked |-> r.asked, fallback |-> r.fallback, day |-> day, stamp |-> stamp] : r \in rows}

\* retain: one transaction, for the daily point after a second look for one of its day.
Retain(v) ==
    /\ valuer[v].pc = "value" /\ Valued(v) = valuer[v].users
    /\ IF v = Daily
       THEN /\ chart' = IF HasPointOn(valuer[v].day) THEN chart
                        ELSE Newest(chart \cup Stamped(valuer[v].rows, valuer[v].day, valuer[v].stamp))
            /\ UNCHANGED stamps
       ELSE /\ stamps' = stamps + 1
            /\ chart' = Newest(chart \cup Stamped(valuer[v].rows, today, stamps'))
    /\ valuer' = [valuer EXCEPT ![v] = NoValuation]
    /\ UNCHANGED <<users, positions, today, simulation, rebuilt, chartEvents>>

ChartNext ==
    \/ NextDay \/ WipeSimulation \/ NewAgent
    \/ \E a \in Accounts : RebuildAgent(a)
    \/ \E a \in Accounts, asset \in Assets : OpenOrClose(a, asset)
    \/ \E v \in {Daily} \cup Others :
          BeginValuation(v) \/ QuotesArrive(v) \/ Retain(v) \/ \E a \in Accounts : ValueAccount(v, a)

ChartSpec == ChartInit /\ [][ChartNext]_chartVars
-----------------------------------------------------------------------------
\* How many points of an account are newer.
NewerPoints(rows, a, stamp) == Cardinality({r \in rows : r.account = a /\ r.stamp > stamp})

\* Every account that was valued with another has its point too, unless its own points up
\* to then were deleted by a rebuild, or it has as many newer ones as are kept.
NoneIsMissing(rows) ==
    \A row \in rows : \A a \in row.users :
        \/ \E r \in rows : r.account = a /\ r.stamp = row.stamp
        \/ row.stamp <= rebuilt[a]
        \/ NewerPoints(rows, a, row.stamp) >= Keep

\* Valuations of several threads overlap with trades, resets, rebuilds, new agents and
\* retention.  Still a valuation is stored for all the accounts it was made of, and none
\* of its points goes but for the newer points or the rebuild of that account; and what
\* the daily job stored is of the present simulation and at quotes, except what was
\* opened while it worked.
ChartIsSound ==
    /\ NoneIsMissing(chart)
    /\ \A row \in chart :
          row.by = Daily => row.simulation = simulation /\ row.fallback \cap row.asked = {}

\* The locals of a valuation, its rows, and the rows of the chart.
ValuedRow == [account : Accounts, by : {Daily} \cup Others, users : SUBSET Accounts,
              simulation : Nat, asked : SUBSET Assets, fallback : SUBSET Assets]
ChartRow == [account : Accounts, by : {Daily} \cup Others, users : SUBSET Accounts,
             simulation : Nat, asked : SUBSET Assets, fallback : SUBSET Assets, day : Nat, stamp : Nat]
Valuation == [pc : {"idle", "fetch", "value"}, day : Nat, stamp : Nat, asked : SUBSET Assets,
              quoted : SUBSET Assets, users : SUBSET Accounts, rows : SUBSET ValuedRow]

ChartTypeOK ==
    /\ users \subseteq Accounts /\ rebuilt \in [Accounts -> Nat]
    /\ positions \in [Accounts -> SUBSET Assets] /\ chart \subseteq ChartRow
    /\ valuer \in [{Daily} \cup Others -> Valuation]
    /\ {today, stamps, simulation, chartEvents} \subseteq Nat

\* An account has one row of an instant.
OnePoint(rows) ==
    /\ IsFiniteSet(rows)
    /\ \A r, s \in rows : r.account = s.account /\ r.stamp = s.stamp => r = s

\* A valuation has one row of an account, and says who made it, and of whom.
InOrder(valuation, v) ==
    /\ IsFiniteSet(valuation.rows)
    /\ \A r, s \in valuation.rows : r.account = s.account => r = s
    /\ \A r \in valuation.rows : r.by = v /\ r.users = valuation.users
    /\ valuation.pc = "fetch" => valuation.rows = {}
ValuationsInOrder == \A v \in {Daily} \cup Others : InOrder(valuer[v], v)

\* The daily valuation has an instant of its own, the quotes it asked for, and rows of
\* this simulation only.
DailyAtWork ==
    LET daily == valuer[Daily] IN
    /\ daily.pc # "idle" => daily.stamp <= stamps /\ \A row \in chart : row.stamp # daily.stamp
    /\ daily.pc = "value" => daily.quoted = daily.asked
    /\ daily.pc # "value" => daily.rows = {}
    /\ \A r \in daily.rows : r.simulation = simulation /\ r.fallback \cap r.asked = {}

\* The inductive invariant.
ChartInv ==
    /\ ChartTypeOK /\ OnePoint(chart) /\ NoneIsMissing(chart) /\ ValuationsInOrder /\ DailyAtWork
    /\ \A row \in chart :
          /\ row.stamp <= stamps
          /\ row.by = Daily => row.simulation = simulation /\ row.fallback \cap row.asked = {}
=============================================================================
