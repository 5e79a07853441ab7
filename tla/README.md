# A formal model of the Taaveti UPT simulator

Taaveti UPT is a paper-trading simulator: people and AI agents trade US stocks
with play money, a scheduler refreshes market data, a batch lets every agent
decide, and a passive index account is the benchmark. Everything is kept in one
SQLite database. This directory holds TLA+ modules that model the parts of the
program where concurrency, crashes, time and fixed-point arithmetic decide whether
it is right, TLC configurations that check them on small instances, and proofs, which
TLAPS checks, of almost all safety properties for instances of any size.

Paths below are relative to the repository (`src/`). Run the tools here:

    tlc -workers 2 -config MCTrading_orders.cfg MCTrading
    tlapm TradingProofs.tla        # or another of the modules *Proofs

## 1. Inventory

### 1.1 Components

| Component | State it keeps | Operations that change it | Talks to | Module |
|---|---|---|---|---|
| **Order execution** `application/trading.py`, `adapters/sqlite/trade_ledger.py` | `orders`, `transactions`, `execution_quotes`; the portfolio lock | `execute`, `execute_decision`, storing a rejection | engine, quotes, SQLite | `Trading` |
| **SQLite connections** `adapters/sqlite/connection.py` | a connection per thread, nesting depth | `transaction`, `get_db`, `init_db` | all stores | `Trading`, `SchemaUpgrade` |
| **Execution engine** `services/execution_engine.py`, `models/`, `db/money.py` | `accounts`, `holdings`, `transactions` | `execute_buy`, `execute_sell`, `auto_enforce_risk_rules` | called by orders, batches, rebuilds | `ExecutionEngine`, `Money` |
| **Portfolio rebuild** `services/agent_service.py` | the rows of one agent | `_replace_portfolio` | run lock, order execution, ledger, chart | `Trading`, `ExecutionEngine`, `CorporateActions`, `ChartHistory` |
| **Simulation reset** `application/simulation_operations.py` | all simulation tables | `reset` | run lock, index fund | `IndexFund`, `Trading`, `DecisionBatch` |
| **Index account, initialization** `services/index_fund.py`, `application/initialization.py` | users, accounts, the index holding | `seed_index_fund`, `initialize` | reset | `IndexFund` |
| **Agent accounts** `application/agent_commands.py` | users, accounts | `create` | batches, initialization, valuations | `IndexFund`, `DecisionBatch`, `ChartHistory` |
| **Decision batches** `application/decision_batches.py` and its stores | batches, agents, audits, quotes; a thread per batch | `start`, `run`, `recover_interrupted`, a turn's trades and audits, the backfill | funnel, providers, orders | `DecisionBatch`, `AgentTurn` |
| **Committee and providers** `services/investment_committee.py`, `services/llm_agent.py` | `ensemble_decision_steps` | reviews, chair | a subprocess per call | `AgentTurn` |
| **Scheduler** `services/scheduler.py` | loop thread, run lock, trigger lock, `_cycle_pending` | `start`, `stop`, `trigger`, `exclusive_portfolio_operation` | funnel, chart, resets, rebuilds | `Scheduler` |
| **Funnel** `services/funnel.py`, `adapters/sqlite/funnel.py` | `funnel_cycles`; cycle lock | `run_cycle`, `run_or_reuse_cycle`, `fail_stale` | scheduler, batches | `Funnel` |
| **Corporate actions, ledger repairs** `services/corporate_actions.py`, `adapters/sqlite/ledger_repairs.py` | actions, reversals, repairs, adjusted history | `record_split`, dividends, `reverse_dividend`, `reconcile_cash_balances`, `store_history` | ledger, holdings | `CorporateActions` |
| **Filing briefs** `services/filing_briefs.py`, `adapters/edgar/` | documents, briefs, scans; the pace of requests | `refresh` in the server and in a script | SEC, a provider | `FilingBriefs`, `EdgarThrottle`, `EvidenceText` |
| **News research** `services/news_research.py` | items, fetch status | `refresh` | funnel, batches | `NewsResearch`, `EvidenceText` |
| **Fundamentals** `services/fundamentals.py`, `adapters/edgar/companyfacts.py` | immutable facts, fetch status | `refresh`; `snapshot` reads | funnel, committee | `Fundamentals` |
| **Web runtime** `adapters/web/runtime.py` | clients, fingerprint, event queue | connect, broadcast, drain | everything | `WebRuntime` |
| **Display quotes** `adapters/market_data/display_quotes.py` | cache, one flag | `fetch`, `clear` | web | `DisplayQuotes` |
| **Leaderboard, chart** `services/leaderboard.py` | snapshots | `persist_leaderboard_snapshots`, the daily point, retention per user | scheduler, batches, trades | `ChartHistory` |
| **Maintenance** `adapters/sqlite/maintenance.py` | files, old rows | `backup`, `restore`, `prune` | funnel, operator | `DatabaseFiles`, `Retention` |
| **Schema** `db/schema.sql`, `adapters/sqlite/migrations/` | the schema and its version | `init_db`, 23 migrations, repairs | every start | `SchemaUpgrade` |
| Catalogue, reports, routers, settings, diagnostics, UI | none that others race on | | | none |

### 1.2 How they meet

* *Shared state.* One database. A thread has its own connection; a write
  transaction takes SQLite's single write lock at BEGIN and waits at most five
  seconds for it. Readers see what is committed (WAL).
* *Locks.* The portfolio lock (taken with a timeout, for one trade), the
  scheduler's run lock (held by a refresh, a reset or a rebuild), the trigger
  lock, the cycle lock of the funnel. Decision batches and evidence refreshes hold
  none of them from one step to the next.
* *Opposite orders.* A client takes the portfolio lock and then the write lock.
  A rebuild is inside its write transaction when it asks for the portfolio lock.
* *Threads.* Requests run in a thread pool; the scheduler's loop, every triggered
  refresh, every batch, the refresh of filing briefs and that of the quote cache
  have a thread of their own, all daemons that die with the process. The WebSocket
  side is an event loop, where a task runs alone until it awaits.
* *Processes.* Scripts (warm-up, maintenance, repairs, restore) work on the same
  files while the server runs or after it has stopped.

### 1.3 What is hard, and what makes each part right

| Part | Hard | Right means |
|---|---|---|
| Orders | one identifier submitted twice at once; retry after a timeout; the rejection stored after the lock is gone; a crash between trade, fee and outcome | an identifier trades at most once, what a caller was told stays true, every commit is one whole operation |
| Locks | opposite lock orders, timeouts | every operation ends |
| Engine | rounding, prices that change between trades, a risk pass that works, without a lock, on what it read at its start while others trade, rebuild or reset | no money appears or disappears, guardrails hold over sequences |
| Accounts | a dozen small commits at initialization; the same seeding in one transaction at a reset | all or nothing for a reset, nothing doubled by a second initialization |
| Batches | a crash, a reset or a new agent between any two of a dozen small transactions | one batch at a time, outcomes are final, completed means audited, every batch ends |
| Turns | reviews that fail, a rotation of two trades, a blocked purchase tried again | the committee fails closed, no purchase without its sale, every trade has its audit |
| Scheduler | several threads clear one flag; a skipped or failed refresh; stop while refreshing | mutual exclusion, no wedged flag, the loop goes on until stopped |
| Funnel | check, wait, look again; a sweep of stale cycles | one capture at a time, an ended cycle stays ended |
| Corporate actions | a split applied to holdings and to prices in two steps, found by two threads; corrections that block a reset | a split counts once, the ledger explains the cash, evidence stays |
| Evidence | two processes on one filing; a status recorded before what it is about; immutable facts that are restated | nothing is lost for good or summarised twice, the past is not rewritten |
| Web, quotes | a list that changes under an await; a flag passed between waiting threads | the last change is shown, every reader is answered |
| Files, retention, schema | renames, deletes and DDL that a crash can stop after any of them | the backup is restored exactly, evidence of trades is kept, every start ends with the current schema |

`PROJECT.json` lists the hazards line by line with the properties that watch them.

## 2. Plan

The order in which this was built: the ledger and its locks first, since everything
else trades through them; then what trades on its own (batches, turns, the funnel, the
scheduler), the arithmetic of one account, what is kept (files, retention, chart,
corporate actions, schema), and the evidence that decisions read. A component was
checked by TLC before anything was proved about it. All components that carry state
are modelled, and every safety property that a passing run checks is proved (section 5).

Abstract specifications worth stating next: a batch as a sequence of agent outcomes,
and the run lock as a mutual exclusion.

## 3. The modules and the code

### 3.1 `PortfolioDb`, `Trading`, `OrderBook`

`PortfolioDb` is the data a trade touches: per user a balance and a ledger whose
rows store the balance before and after, and the `orders` table. A database is a
value and the statements of a transaction are operators on it: `Post` is the pair
of an account update and a transaction row, `Trade` the trade row and the fee row,
`RecordCompleted` and `RecordRejection` the terminal outcome, `Wipe` the deletes of
`clear_simulation` or of a rebuild, `SeedIndex` the investment of index accounts.
`Consistent` is what the schema and the transactions promise together. `epoch` is a
history variable that counts resets of a user; the code keeps none.

`Trading` has a thread per operation in progress. The labels of `pc` are the places
between two calls that another thread can observe:

| Label | Code |
|---|---|
| `check`, `quote` | the lookup and the quotes before the lock (`Trading.execute`) |
| `lock`, `begin`, `execute` | portfolio lock, BEGIN IMMEDIATE, second lookup and the engine |
| `reject`, `storing` | the rejection's own transaction, after the lock was released |
| `commit`, `rollback`, `release` | how `transaction()` and the `with` statements are left |
| `wbegin`, `wtrade` | a forced sale, which calls `execute_sell` without the lock |
| `runlock`, `rbegin`, `replace`, `plan`, `leg` | rebuild and reset; a leg is one purchase of a plan |

`draft` is the view of the only open write transaction, `db` what is committed. A
lock that is held may be waited for or, where the code passes a timeout, given up
(`PortfolioBusy`, `DatabaseLocked`). `Crash` drops everything but `db`.

Abstractions: a request body is the user and the cash moved, which is all the
request hash has to tell apart; which guardrail refuses is a choice (`ExecutionError`
may happen at any order, before anything was written, and must happen when the fee
cannot be paid); transaction identifiers are counted per user, since only their
order matters. A rebuild's legs carry fresh identifiers that are never looked up,
so they have no row in `orders`.

`OrderBook` is the abstract specification: one step per operation, no locks, no
threads. Its operations are relations between the database before and after, so that
`Trading` can be shown to do one of them without repeating how; the plan of a rebuild
has at most `MaxLegs` purchases, as in `Trading`. `OperationsAreSerial` says that `db` of `Trading` behaves like its `book`.

### 3.2 `Money`, `ExecutionEngine`

`Money` is `db/money.py`: integers in units of 1/Scale and rounding half up when a
value is stored; products in between are exact, as they are in Decimal.
`ExecutionEngine` is one account with its holdings. A trade is one step because it
is one transaction. `Buy` cuts an order down to the position cap, cash, fee and
reserve and refuses it for the sector cap or the number of positions; `Sell` and
`ForcedSell` share `SellShares`. Ratios are parts of `Ratio`, so all comparisons are between whole numbers.
A quotient that Decimal cannot represent in 38 digits is a choice in `Removed`: the
row goes, or stays with zero shares. A rebuild is `_validate_portfolio_plan` and a
purchase per leg; `PlanParts` are the parts of the portfolio a leg may ask for.
`Put` writes a row of `holdings`; `Worth`, the value of a set of positions, is a sum over
the tickers. `EngineInv` is what the properties of the module rest on (section 5.3).

A risk pass (`auto_enforce_risk_rules`) holds no lock. It reads the holdings
(`StartPass`), then the balance (`ValuePass`), and visits what it read in order, one
transaction per sale (`ForcedSell`) or none (`PassOver`, which is also a sale that is
refused because the position is gone, a new holding has no quote or the fee cannot be
paid); `execute_sell` reads the account anew (`Now`, `SaleAccepted`). Between any two of
these steps come trades, a whole rebuild, a split (`SplitHolding`), a dividend or its
reversal (`PayDividend`) and a reset (`ResetAccount`); only the purchases of a rebuild,
which are one transaction, are not interrupted (`Unlocked`). `pass` has what was read;
its field `alone` is a history variable, whether anybody else (`Meddle`) has acted on the
account since the pass began. `ForcedSalesLeaveLittle` says two things: what a forced
sale leaves is at most what the position has grown by and what the portfolio has lost
since they were read, whatever came in between; and while the pass is alone that is at
most the fees of its own earlier sales and their rounding.

### 3.3 `IndexFund`

The owners of accounts that `initialize` creates, in their order: default agents, the
index account, the comparison profiles, the committee; every write commits at once
(`Write` on `db` and `draft`). The three writes of `seed_index_fund` are three steps,
inside an initialization or inside the one transaction of a reset, where they change
`draft` only and `Commit` publishes it. `OwnerExists` is the early return of a second
initialization, `BalanceRefused` the CHECK of the schema. An operator may create an
agent at any time.

### 3.4 `DecisionBatch`

A row per batch and a thread per batch. The thread's labels are the gaps between its
transactions: `cycle` (funnel), `record` (input snapshot), `agent` (next turn),
`risk` and `forced` (forced sale and its audit), `decide` (the decision's audit),
`execute`, then `executed` or `declined` (outcome of the audit), `mark` (status of
the agent), `fail`. `AgentFails` is the exception handler of one turn, `WorkerFails`
that of the batch, `FailLost` the case that the handler's own write raises. Updates
of rows that a reset has deleted do nothing (`Mark`, `EndBatch`); inserts that
reference a deleted cycle or audit raise (the guards of `RecordInput`, `Trade`,
`CompleteAudit`). `latest` remembers the start of the latest batch, which no column
does once the row is deleted; only the spacing property reads it.
`MCDecisionBatch` has two kinds of initial states: an empty one, and the last batch of
a series whose earlier rows a reset deleted (`LastOfSeries`), where there are several
agents and one may be created.

### 3.5 `AgentTurn`

One turn of one agent, `_process_agent` and what it calls, in the steps that each
commit something: forced sales with their audits and quotes; then a decision by one
model (`AskModel`, `AnswerReturned`), or by the committee (`Review` for each adviser
and, when the risk review fails and a fallback model is configured, once more; then
`Chair`); then the attempts (`Execute`, `RecordQuotes`, `RecordOutcome`), `SkipBuy`
when the sale of a rotation was not executed, `OfferRotation` with its follow-up, and
`RetryBlockedBuy`. `Quorate` is the test before the chair: two parsed proposals, and a
parsed review of the risk. `CallFails` is one failed call of a provider, of which
there are `Attempts`. `Raise` is an exception at any point, which ends the turn, or
inside `offer_rotation` only the offer (`Swallowed`). A rebuild may replace the
portfolio between any two steps, and a backfill audit forced sales after the turn.
`DecisionBatch` keeps what a turn is to a batch: a forced sale and a decision.

### 3.6 `Scheduler`

The loop, the threads of triggers and the portfolio operations, with the run lock.
`SkipCycle` and `Finally` clear `pending` whoever set it, as `_run_cycle` does.
`CycleRaises` is an exception that `_run_cycle` does not catch. Time is the age of
the last refresh, capped at the interval, and what is left of the loop's sleep;
`Tick` lets it pass. `caller` is the runtime, which starts and stops the scheduler
and waits for the thread no longer than ten seconds.

### 3.7 `Funnel`

The refresher is the thread of the scheduler's refresh, of which the run lock admits
one; a caller is the thread of a batch. The labels of `pc` are `look` (the first
`reuse_recent_cycle`), `peek` (`locked()`), `wait` and `waited` (`with _cycle_lock:
pass`), `again` (the second look), `lock` to `release` (`run_funnel_cycle`: `start`
inserts the row, `scan` ends with the quotes, `research` with the completion, `fail`
is the exception handler). Peeking and taking the lock are two steps, as they are in
the code. A reset deletes the rows under a caller, which then updates nothing or
fails on a foreign key. `Restart` sweeps what a dead process left running: `Swept`
compares dates and not times, because the text of `started_at` (its default has a T
between date and time) and of the cutoff (a space) agree in nothing after the date.
`Day` is how many units of time a date has. `inFlight` is a history variable: the
cycle that was being captured when a caller peeked.

### 3.8 `CorporateActions`

Users with a holding of one share class, the ledger, and the tables of actions,
reversals and repairs. `ScanSplits` and `ConfirmSplit` read whether a split is known,
`ApplySplit` is the transaction that records it and doubles the holdings opened before
its day (`PreSplit`), `AdjustHistory` is the second transaction; a refresh of daily
history is a fetch (`FetchHistory`) and a later store (`StoreHistory`) of bars that the
provider has adjusted or not. A time that the code reads before it waits for the write
lock is a local of the thread that stamps it (`ApplyDividend`, `ReverseDividend`), so
the order of the ledger by time and by id may differ; `Reconcile` takes the latest by
time. `Drift` is a balance changed from outside, the reason for repairs. `Reset` clears
all accounts, `Rebuild` that of one agent, which may buy shares in the same transaction
(`Clear`). Both fail while a repair or a reversal references a transaction of an account
they clear (`NotReferenced`); a rebuild of another account does not, and deletes its
ledger. A deleted row leaves its place in `ledger` to `Gone`, since identifiers are never
given twice. So `CorrectionsAreSound` is about the accounts that have a row a correction
names: all of their rows stay.
`LedgerExplainsCash` says row by row that the rows of a user continue one another up to
the balance. What a user owns by the ledger (`OwnedByLedger`) is a sum over its rows, a
recursive function of their positions.

### 3.9 `FilingBriefs`, `EdgarThrottle`, `NewsResearch`, `EvidenceText`, `Fundamentals`

`FilingBriefs` has two processes that run `refresh` on one database. A run goes through
the tickers whose scan is not fresh, lists a ticker's filings, and for each one looks
it up, fetches it, inserts it or loses the insert to the other process, looks for a
brief of the same content, asks the summariser and inserts the brief; the last step of
a ticker is the status of its scan (`ScanStatus`). Every one of these is a step.
`Abort` is an exception that ends a run, `Restart` a kill. The text of a filing is its
content hash, and two filings may have the same one.

`EdgarThrottle` is `get` and `_paced_get`: a slot is taken under the lock (`TakeSlot`),
the request leaves at the slot or later (`Send`), a refusal waits and takes another
slot. `NewsResearch` is `refresh` for one ticker by several threads: the status of a
source is written before its stories are stored, an error counts as fresh, of what was
fetched the newest `Limit` that are complete (title, link, date) are taken (`Normalized`),
stories are known by their canonical URL and filtered for near duplicates, the newest
first (`Batches`). A story that `Limit` others of a fetch outrank may never be stored, and
`EveryStoryIsKept` excepts it while that many are in the window (`Crowded`). `EvidenceText` has three
pure functions, `_select_diverse`, `_chunks` and what `_summarize` makes of its
chunks' answers, each with a property that says what is expected of the result without
computing it the same way. A loop of the code is a recursive function of the number of
its rounds (`FirstPass`, `SecondPass`, `Packed`).

`Fundamentals` is what EDGAR lists of one company (`FileReport`: a metric, tag, form,
period and value; a later report may restate a period, or use another tag), the
curation of `companyfacts` (`Curated`: form, then the first tag with entries), the
append-only store with its UNIQUE key (`PersistFacts`), the status of the fetch, and
`Snapshot` as of a day: `_latest_period`, `_latest_fact` and `_yoy_growth`.

### 3.10 `WebRuntime`, `DisplayQuotes`

`WebRuntime` has two tasks that broadcast and a task per client. The steps are the
stretches between two awaits. A broadcast walks through `_websocket_clients` by index
while the list may be shifted; `sending` is the order in which broadcasts began, since a
socket gets messages in the order of the writes. `Remembered` is the fingerprint.
`Vanish` is a client that is gone and not noticed, `LoadRaises` an error of the
database in a task.

`DisplayQuotes` is `fetch`: an answer from the cache, one with expired entries and a
background thread, or a wait on the condition and a fetch for everyone. `fetching` is
`_fetching`. `Notified` is whom `notify_all` wakes.

### 3.11 `ChartHistory`, `DatabaseFiles`, `Retention`, `SchemaUpgrade`

`ChartHistory`: a valuation asks which assets are held, quotes them, lists the accounts,
reads them one after the other and stores a point for each, with retention per user
(`Newest`). Trades, new agents (`NewAgent`), a rebuild, which deletes the points of its
agent (`RebuildAgent`), a reset and the next day come in between; a reset and a rebuild
take the run lock, which the daily valuation holds and the others do not. Of a value only
what was not quoted is kept (`fallback`). A row remembers which accounts it was valued
with (`users`, a history field), and `rebuilt` when an account last lost its points, so
that `ChartIsSound` can say of a missing point why it is missing.

`DatabaseFiles`: the main file and the write-ahead log, a checkpoint, backups with
rotation, and a restore rename by rename (`MoveTarget`, `PreserveSidecars`,
`ReplaceTarget`), of which any may be the last (`RestoreDies`); a database is the set of
its commits, and a log is replayed on whatever has the name it belongs to.

`Retention`: batches that write audit, trade, quote and outcome step by step, and
`Prune` with its deletes in their order, `Pruned` being what is left. A thread may stop
at once anywhere, and `RecoverInterrupted` follows.

`SchemaUpgrade`: `Migrations` is the list of the 23 migrations, each a sequence of
statements; DDL is durable at once, rows with the version at the end (`FinishMigration`).
The opening day of a holding is that of the last purchase that found it at zero
(`SharesAfter`). `Mislabelled` are databases whose version says more than
their schema has, for which `_helpers` and `repair` exist. A start may die between any two
statements, and the next start begins with what it left. A program that got through uses
the database before the next start.

### 3.12 Composition

`OrderBook` and `Trading`, `ExecutionEngine` with rebuilds, corporate actions and resets,
and `DecisionBatch` with resets, cycles and the cooldown, compose components that share
state. The other modules meet through tables that one
of them writes and the other only reads, or through locks that both have in their own
module: the run lock is in `Trading`, `Scheduler` and (as a reset that may come at any
moment) in `DecisionBatch`, `Funnel`, `CorporateActions`, `ChartHistory`, `Retention`.

`MCRecords`, `MCEvidence` and `MCServer` check several modules in one run:
`part` says which of them a behaviour is of, and the others rest in their initial
state. So the state space is the sum of theirs and not the product, every property is
checked on the behaviours of its own part, and nothing is claimed of their
interleaving.

## 4. The runs

| Run | Instance | Shows |
|---|---|---|
| `trading_orders` | 2 clients, 1 forced sale, 2 identifiers, 4 operations, 1 crash | An identifier trades once; answers stay true; outcomes and ledger are never rewritten. |
| `trading_replace` | a client, a forced sale, a rebuild of up to two purchases, a reset, 3 operations, 1 crash, a traded and an index account | Every commit is one operation of `OrderBook`, and every operation ends though locks are taken in opposite orders. |
| `agent_turns` | each kind of agent, 3 tickers, 2 positions, 2 attempts a call, answers of up to 2 decisions, 1 rebuild, 1 backfill | The committee fails closed; no purchase without its sale; one rotation; every trade is accounted for; every turn ends. |
| `batch_series` | 2 batches of 1 agent; and, from another initial state, 1 batch of 2 agents and a third created meanwhile; 1 reset, 1 crash, 1 lost write | One running row, completed means complete and audited, final outcomes, cooldown between starts, no trade in the new simulation by a batch of the old one, every batch ends. |
| `funnel_cycles` | the refresher and a batch, 3 calls, 1 reset, 1 crash, 4 instants on 2 dates | A batch that waited for a capture that succeeded does not capture again; outcomes are final and the recovery spares what is recent; every call ends. |
| `records_parts` | `CorporateActions`: 2 users, 2 ledger rows, 3 days, 1 crash, drift, reset or rebuild. `ChartHistory`: 2 accounts, of which one may be created later, 1 asset, the daily and one other valuation, 2 trades, resets, rebuilds or new agents. `DatabaseFiles`: 2 commits, 2 restores, 1 kill. `Retention`: 2 agents, one a committee, 2 batches, 3 decisions, 3 days. `SchemaUpgrade`: 13 legacy versions, 2 starts | A split is counted once; the ledger explains the cash; corrections keep their evidence; no point of the chart is missing without a reason; a restore is exact; evidence of trades is kept; every start ends with the current schema. |
| `evidence_parts` | `FilingBriefs`: 2 processes, 2 tickers, 3 documents of which 2 have one content, 1 fault. `EdgarThrottle`: 2 threads, 6 ticks. `NewsResearch`: 2 refreshers, 4 stories of which one is incomplete and 2 fit a fetch, 1 fault. `EvidenceText`: all inputs up to 5 headlines, 4 paragraphs, 3 answers. `Fundamentals`: a company that changes its tag and restates, 3 days | A clean scan is complete; a content is summarised once by a process; the pace of requests is kept; filings, and stories that are not crowded out, are not lost for good; what reaches a prompt fits its sources, and the past is not rewritten. |
| `server_parts` | `Scheduler`: the loop, 2 triggers, 2 operations, interval 3. `WebRuntime`: 2 clients, 1 change, 1 fault. `DisplayQuotes`: 3 readers, 2 symbols, 2 expiries. `ExecutionEngine`: 2 tickers of one sector, prices 0, 2, 5, 3 trades, one split, dividend or reset, rebuilds and risk passes at any moment, two policies and none. `IndexFund`: 3 operations, 2 crashes, 8 quotes | The locks and the pending flag never stay behind; the loop refreshes until stopped; the last change is shown; every fetch ends; forced sales leave little; purchases keep the policy; trades conserve value; seeding keeps the money and resets are all or nothing. |
| `execution_sellall` | as in `server_parts`, scale 1, 4 trades | *Violated:* the second forced sale of a pass is not whole, though nobody interferes. |
| `index_reset` | cash 100 at scale 10 | *Violated:* at some quotes a reset fails as a whole. |
| `funnel_sweep` | 5 instants on 2 dates | *Violated:* a stale cycle of the cutoff's own date is left running. |
| `fundamentals_tags` | as in `evidence_parts`, 4 days | *Violated:* a growth compares figures of two tags after the company changed to the preferred one. |

A run whose property is violated states what a document, a comment or a test of the
repository promises; `PROJECT.json` quotes the line under "findings". Every property
of a passing run has a mutant, an operator next to the definition it replaces, that
makes a plausible mistake in the modelled code and breaks the property.

`TypeOK` is an invariant of `trading_orders`. The type invariants of other modules
are kept in them; where a number's range is the point (`EngineTypeOK`: no cash below
zero; `FundTypeOK`) a property of the run includes it.

### 4.1 Bounds, and why they are enough

* *Operations and threads.* A race on an identifier needs two attempts and the third
  operation that retries; four operations of three threads contain them with a forced
  sale in between. A lock cycle needs one client and one rebuild; the reset is a third
  party on the run lock.
* *Amounts.* A balance of 4 with a fee of 2 admits a purchase that can be paid and
  whose fee then cannot, and a balance below the fee on a sale; with 8 and 1, a plan
  of two purchases.
* *Prices and scale.* 2 and 5 break both risk rules and make quantities that are
  rounded up and down at scales of 1 and 3; 0 is a missing quote. The quotes of
  `IndexFund` divide the balance exactly, round down, and round up.
* *Risk passes.* Three trades are a position, one bought or sold between a pass and its
  sale, and the sale; two tickers are a forced sale before another. One event (a two for
  one split, a payment of 3, a reset) or a rebuild may come at any of its steps. The trace of
  `execution_sellall` needs four trades of an account nobody interferes with.
* *Deletions.* One rebuild or reset is enough for an account to lose its rows or points while
  another account's corrections and points stay; a retention of one point makes every new
  one delete.
* *Batches and turns.* Two batches are what exclusion and spacing are about; three
  agents include one that is created late. Two positions and three tickers make the
  limit bind, a sale free a place, and a follow-up choose.
* *Crashes, resets, faults.* One of each, at every point. Two crashes in `IndexFund`,
  because a second initialization follows the first; two starts in `SchemaUpgrade`,
  of which the first may die anywhere.
* *Funnel.* Three calls are a capture, one that waits for it and one that comes after;
  a day of two units has two instants on each side of midnight.
* *Evidence.* Two processes and one content in two filings are what the hash is for;
  the amendment without an exhibit has none. Two of the complete stories fit a fetch, so one
  can be crowded out, and a fourth is incomplete. Six instants are three slots and the fourth
  request that two late risers can bring forward, where `InBudget` is tight. Two tags, figures of a period
  filed again later, two durations of one end, and a form that is not periodic.
* *Texts.* Paragraphs shorter than, as long as and longer than a chunk; three answers
  are a majority, a tie and a contradiction; a list of points is empty, repeats one,
  or is longer than a brief may have.
* *Retention.* A window of a day and three days have a row that is kept, one at the
  boundary and one that is old.
* *Time.* Only comparisons with the cooldown, the interval and the window matter; a
  cooldown of one tick and an interval of three have a before, a boundary and an after.

All of these are CONSTANTS that appear in guards (`MaxOps`, `MaxCrashes`, `MaxLegs`,
`MaxTrades`, `MaxEvents`, `MaxBatches`, `MaxCalls`, `MaxTime`, `MaxResets`, `MaxFaults`,
`MaxOperations`, `MaxAnswer`, `MaxRebuilds`, `MaxBackfills`, `MaxRows`, `MaxDay`,
`MaxScripts`, `MaxNow`, `MaxSent`, `MaxNewsFaults`, `MaxParagraphs`, `MaxAnswers`,
`LastDay`, `MaxFundamentalFaults`, `MaxBoard`, `MaxConnects`, `MaxRefreshes`,
`MaxWebFaults`, `MaxExpiries`, `MaxQuoteFaults`, `MaxChartDay`, `MaxStamp`,
`MaxChartEvents`, `MaxCommits`, `MaxRestores`, `MaxFileFaults`, `MaxDecisions`,
`MaxBatchFaults`, `MaxStarts`, `MaxLedger`).
Where the bounds stop a system, the action `Finished` stutters, so that any other
deadlock is reported. `records_parts`, `evidence_parts` and `server_parts` do not look
for deadlocks: their parts wait for nobody but in `Scheduler`, `WebRuntime` and
`DisplayQuotes`, whose liveness properties would be violated by one, and stop for good
where a counter ends.

### 4.2 Fairness

* `Trading`: weak fairness of each thread's steps. The operating system runs a
  thread that can go on; a lock that is held too long is given up where the code
  passes a timeout. Nothing forces a caller to begin or the process to die. The run
  lock has no timeout for a reset, and none is assumed.
* `DecisionBatch`: weak fairness of each worker's steps, every provider call having
  a timeout, and of `Restart`: a server that died is started again.
* `AgentTurn`: weak fairness of the turn (`TurnStep`), for the same reason.
* `Scheduler`: weak fairness of the loop, of refreshes and operations that are under
  way, of time, and of the return of `stop`, which waits ten seconds at most.
  Nobody has to start, stop or trigger anything.
* `Funnel`: weak fairness of each thread's steps: the cycle lock has no timeout, but
  its holder always gets to its release. Nobody has to call, and time need not pass.
* `FilingBriefs`: weak fairness of the server's work, with the trigger that every
  funnel cycle gives it, and of the end of a scan's freshness. The script need not
  run. EDGAR, the provider and the process fail a bounded number of times.
* `NewsResearch`: weak fairness of the refreshers and of the TTL.
* `WebRuntime`: weak fairness of the two tasks; sends to a client return or raise.
* `DisplayQuotes`: weak fairness of each thread; the fetch has the provider's timeout.

## 5. What is proved

Eight modules hold proofs. Each theorem is about the specification TLC runs (its own
component's, or `Spec` of the run), for every value of the constants that its assumptions
admit: any number of threads, users, agents, documents, operations, crashes and resets,
any amounts and times. Every property in the table is also checked by a run. An
invariant `...Inv` is the strengthening a property needs, defined in the component's
module next to it.

| Module | Inductive | Properties |
|---|---|---|
| `TradingProofs` | `IInv` | `TypeOK`, `CommittedConsistent` |
| `TradingSerialProofs` | `SerialInv`, `AnswersInv` | `OperationsAreSerial` (the refinement of `OrderBook`), `HistoryIsKept`, `AnswersHold` |
| `DecisionBatchProofs` | `BatchInv` | `OneRunningRow`, `CompletedIsComplete`, `NoTradeOutlivesReset`, `BatchesAreSettled` |
| `AgentTurnProofs` | `TurnInv` | `CommitteeFailsClosed`, `OneRotation`, `TurnIsAccountedFor`, `NoBuyWithoutItsSell` |
| `FunnelProofs` | `FunnelInv` | `WaitersReuse`, `OutcomesAreFinal` |
| `ServerProofs` | `LocksAreKept` itself; `FundInv`; `EngineInv` | `LocksAreKept`; `SeedKeepsTheBalance`, `SeedingIsSafe`; `ForcedSalesLeaveLittle` (with `EngineTypeOK`), `TradesAreAccounted`, `BuysStayWithinPolicy` |
| `EvidenceProofs` | `ThrottleInv`, `FilingInv`, `FundamentalsInv` | `InBudget`, `CleanScanIsComplete`, `SummarisedOnce`, `EvidenceIsSound` |
| `RecordsProofs` | `PartsInv`: `FilesInv`, `RetentionInv`, `ChartInv`, `ActionsInv`, `BarsAreKnown`, `HoldingsFollow`, `UpgradeInv` | `UpgradeIsSafe`, `MaintenanceIsSafe`, `ChartIsSound`, `LedgerExplainsCash`, `SplitIsCountedOnce`, `CorrectionsAreSound` |

### 5.1 The ledger

`CommittedConsistent` alone is not inductive. `Commit` publishes `draft`, so what is
written in an open transaction has to be consistent too, except when it is about to
be rolled back: after a fee that could not be paid the ledger has the row of an
order without an outcome. That is `DraftConsistent`. `Begin` resets `draft`, so a
thread in a transaction could have its draft taken away unless at most one thread is
in one, the holder of the write lock: that is `OneTransaction`. The first part of
`TradingProofs` has the lemmas about the statements of `PortfolioDb`: `Trade`,
`ExecuteFresh`, `RecordRejection`, `Wipe` and `SeedIndex` keep a database a database
and a consistent one consistent, under the guards the actions have. The second has a
lemma per group of actions that share their effect.

The refinement needs to know what an open transaction has done so far: nothing, the first
legs of a plan that may still grow, or one whole operation of `OrderBook` on what is
committed (`WholeOperation`). A commit then publishes one step of `OrderBook`; every
other step leaves `db` alone. From the same invariant follows `HistoryIsKept`. An
answer becomes a promise only when its transaction commits, so `AnswersEarned` says
of an answer in a thread's hands that it agrees with what that thread will leave
behind, and that it is of no later epoch than the account.

### 5.2 Batches, turns, the funnel

`BatchInv` adds that the thread of a batch and its rows go in step (`InStep`: agents
behind the one at work are done, of those ahead nothing is), and that identifiers are
never used twice (`IdentifiersAreFresh`), without which a thread that a reset has
overtaken could write into the next batch.

`TurnInv` is how far a turn is, by its program counter: which audits are open, what the
list of decisions has left, which purchase met the limit and that its audit is settled,
and that the reviews ended before the first order. `NoBuyWithoutItsSell` is an action
property proved from it.

`FunnelInv` says that whoever holds the cycle lock is the only one with a cycle of its
own (`LockIsHeld`, `CapturesAreOwn`); so a caller that got the lock knows that what it
finds of the cycle it waited for is all there will be (`WaitIsOver`).

### 5.3 The server, the account, evidence

`LocksAreKept` is inductive as it stands. `FundInv` says at each step of an operation
what the purchase has moved so far in `draft` and in `db`, and which owners a crash can
have left unfinished; the arithmetic of `RoundHalfUp` is in lemmas about products.

The account that trades (`ExecutionEngine`): what a portfolio is worth is a sum over the
tickers. That the sum is one at all, and what it becomes when one summand changes, is
proved by induction over how many tickers count, of which a trade changes one. So a
trade is accounted for by three roundings, of the amount of cash, of the shares and of
the average cost, and each limit of a purchase follows from the amount it was cut down
to. A forced sale sells the share that the position had of the portfolio when both were
read, applied to the portfolio as it is now. `EngineInv` knows of every pass only that what
it read was an account, of which a row is a part (`PassIsRead`); that alone bounds what one
sale leaves (`LeavesLittle`), whatever was traded, rebuilt, split, paid or reset since. Of
a pass that is alone it adds that the rows it has not visited are as it read them and that
the account has lost since then at most `Lost(fees)`, the fees of its sales and their
rounding (`PassIsCurrent`), from which `LittleIsLeft` follows. And a rebuild has kept a
portfolio it can be rolled back to, and no pass is alone while it works (`RebuildCanEnd`).

`ThrottleInv` counts: between two requests that left, a slot was taken for each one in
between but those of the threads that are late, so the budget is a statement about
`next_slot` (`SlotsAreCounted`, `LineGoesOn`). `FilingInv` says that what a run has
passed is done or was noted as a failure (`NothingLeftBehind`). `FundamentalsInv` says that
a fetched payload that is not stored yet already contains whatever the days it covers
had listed (`PayloadIsWhole`), which is why a later refresh changes no snapshot of them.

`EvidenceIsSound` is that and `TextIsFit`, three statements about functions of any list of
headlines, any excerpt and any answers, which no step changes. They are inductions over the
rounds of a loop. `LoopRuns` says once that a loop has a value after each round and what
it is; with `CountingUp`, an induction for sets of numbers, each proof is then an invariant of
its loop:

* the first pass has taken the best headline of each kind seen so far, or is full, and the
  second pass adds the best of what is left (`FirstPassIsDiverse`, `SecondPassFills`);
* the chunks done and the one at work are the pieces so far, in their order, and none
  is too large (`PackedFits`); pieces of a paragraph that is split have its length;
* what is kept of a list without repetitions is its first occurrences (`Dedupes`), so the
  order of the parts is the order of their points (`MergedPoints`). That guidance and tone
  do not depend on the order of the parts is a bijection between the parts and the
  parts from behind (`ReversedSummary`).

### 5.4 What is kept

`FilesInv` knows by the step of a restore which file has which name, and accounts for
every commit as long as no log was torn. `RetentionInv` follows a decision from its audit to
its quote and says that what is old in the tables is evidence. `ChartInv` needs more
than `ChartIsSound`: that an account has one point of an instant, that a valuation at work
has a row of each account it has come to and knows whom it is made of, and that the
instant of a daily valuation at work has no point yet. That retention keeps `Keep` newer
points of whatever it deletes is a fact about the `Keep` newest of a finite set.
`ActionsInv` restates `LedgerExplainsCash` for the states it does not speak of: the rows of a
user follow one another while nobody drifted, a balance that was repaired is the last row's as long as
the rows are stamped in order (`BalancesFollow`), and every row that takes a dividend back
has a record of the one that paid it (`DividendsPaidOnce`). `CorrectionsAreSound` is proved
from it: a reconciliation that finds a difference, without a change from outside,
is in an account with rows out of order, because otherwise the latest row is the last.

`SplitIsCountedOnce` has a part about price bars, for which `BarsAreKnown` knows which bars
the provider had adjusted, and one about holdings. `HoldingsFollow` keeps the equation
between a holding and the sum of its rows from trade to trade. The split is the one step
that changes both sides at once: the day a holding was opened decides whether it is
doubled, the day of each row whether the row counts twice, and the two agree (`Dated`)
unless the user traded on both sides of the day of the split. A deleted row counts nothing
in any sum, so an account that is cleared starts again from zero, and from the one
purchase of a rebuild, on both sides of the equation.

`UpgradeInv` says what a migration finds: what the version it starts from left behind
(`RowsAreOld`, `ColumnsAreThere`), and, after a death in the middle, what the statements
before the next one did (`StatementsAreDone`), so that nothing fails on what is there
already and no statement takes away what another has added for good. Only a version of 18 or later
may lack columns, those that the repairs add, because a mislabelled database says to be at
least that; when the repairs begin the version is 23, and each repair that is passed has
restored its own. `ScriptIsWhole` is about `schema.sql`, which meets either none of the
oldest tables or all of them. The opening day that migration 7 writes is the one that the
ledger gives, by an induction over the ledger (`OpeningIsLatest`), and so is the one that a
trade in the new schema keeps (`DatesAreKnown`). The 23 migrations are classed by what kinds of
statements they have (`MigrationsAreStatements`), and the rest of the proof is about the
kinds and not about positions.

### 5.5 Assumptions

Those named in the modules, which TLC evaluates in every run: sorts are disjoint
(`Nobody` is no thread and no user, `NoOrder` no identifier, kinds of threads do not overlap,
`Server # Script`), amounts, shares, limits, bounds and times are natural numbers,
intervals are positive, members of one set are members of the other (`IndexUsers`,
`Committee`, `Initial`), what exists once in a process or a database is finite (threads of
EDGAR, tickers, users), a list of key points is a sequence, and among the prices there is
a greatest one. The bounds of the
guards are arbitrary natural numbers.

### 5.6 What is only model-checked, and why

* All liveness properties: `EveryOperationEnds`, `EveryTurnEnds`, `EveryBatchEnds`,
  `EveryCallEnds`, `EveryFilingIsBriefed`, `EveryStoryIsKept`, `LoopRefreshesUntilStopped`,
  `LatestIsShown`, `EveryFetchEnds`. Fairness and ENABLED are out of the prover's reach.
* The four findings: their properties do not hold.

No induction theorem of the library is used for a predicate: they take an operator as a
parameter, which no installed prover can instantiate. `LeastNumber` and `CountingUp` state
the induction for sets of numbers instead, and every sum, loop and ledger rests on them.

## 6. What the models show beyond the runs

These behaviours were met while modelling. Most are in the models, where a reader who
adds the obvious property sees them; the project does not check for them.

Orders, engine, batches, scheduler, funnel:

* A forced sale may leave a row of zero shares, and a ticker with a row does not count
  against the number of positions when it is bought (`services/execution_engine.py:202`).
* Whatever comes between the reads of a risk pass and one of its sales changes what is sold:
  after a deposit or a gain it is more than the position was, up to all of it with what was
  bought meanwhile; after a loss, a rebuild or a reset a part is left, of a position that
  may be a new one (`services/execution_engine.py:84`, `:115`). `LeavesLittle` is the bound
  that remains.
* A seeding that the schema refuses during initialization leaves the whole balance
  next to a whole position; only a reset repairs it (`application/initialization.py:205`).
* The cooldown between batches is measured from a row that a reset deletes.
* A batch whose thread cannot be started, or whose last write is lost, blocks the next
  one until the server is restarted (`OneRunningRow` and `EveryBatchEnds` except it).
* An exception `_run_cycle` does not list ends the loop; a start during a stop that
  timed out starts nothing.
* A portfolio operation at the very start makes the loop sleep for a whole interval
  before the first refresh.
* Whoever leaves `_run_cycle` clears the pending flag, so while a triggered refresh is
  on its way the end of another one lets a second trigger be accepted
  (`services/scheduler.py:166`); the run lock makes the second skip or follow.
* `run_or_reuse_cycle` asks whether the cycle lock is held and takes it later, so it can
  queue behind a capture that began in between, which its docstring says it never does
  (`services/funnel.py:157`); it then captures a second cycle right after the first.
* While a batch is at work a reset deletes its row, and a second batch may start before
  the first has noticed (`application/simulation_operations.py:77`).
* A reminder that is moved from a weekend or holiday into the next week is in neither
  week's view (`application/decision_batches.py:597`).
* A plan of a rebuild that asks for all of the portfolio is accepted, though reserve and
  fees cut its last purchases down, or refuse one and with it the rebuild; a sum of
  fractions in floating point may refuse a plan of exactly all.

Turns:

* The backfill of audits (`adapters/sqlite/decision_audits.py:116`) is not idempotent for
  a forced sale whose quote was never written: every run audits it again.
* An answer with `"reasoning": null` raises after its audit was written, and an exception
  in the retry of a rotation is swallowed; both leave a pending audit, the second in a
  turn that counts as completed.

Corporate actions and initialization:

* A time that is stamped is read before the write lock is waited for, so the latest row
  by time need not be the last: a reconciliation may then take a balance from a row that
  is not (`adapters/sqlite/ledger_repairs.py:59`).
* A holding of before the split that is topped up on its day, before the split is found,
  is doubled as a whole; a dividend counts what is held when it is found.
* A crash between `apply_split` and `adjust_for_split` is repaired only by a later refresh
  of the history; a fetch before the effective date that is stored after it marks raw
  bars as adjusted.
* A crash between the creation of an owner and of its account leaves an owner without
  account, whom no later initialization repairs. The strategy of the committee is
  written anew by every initialization.

Evidence:

* A failure to load the map of tickers is kept for the life of the process, and every
  scan is then recorded as empty (`adapters/edgar/cik.py:27`; `EveryFilingIsBriefed`
  excepts it). A brief without a summary, after an outage of the model, is final and
  used for every filing of the same content.
* An answer of the summariser whose guidance or tone is a list raises in `_validate`
  (`services/filing_briefs.py:433`), which ends the whole run, and the next one, though
  every step is meant to fail open per filing.
* A brief of a filing that fits one chunk keeps a key point the model repeats; of a filing
  of several chunks it is dropped, because only `_merge` removes duplicates
  (`services/filing_briefs.py:331`).
* Two processes may each summarise one content; `SummarisedOnce` is about one process.
* As many requests as there are threads and one more may leave EDGAR's pacing at once,
  if they wake up late.
* A story is filtered for near duplicates within its batch only; `purge_expired` has no
  caller. Of a ticker with more news in the lookback window than fit a fetch, an older story
  that was not stored in time never is (`services/news_safety.py:47`).
* Fundamentals: a day is the unit of `as_of`, so what is filed later on the day of a
  decision is in what a repetition of it reads. The UNIQUE key of the facts lacks the
  start of the period, so of a quarter and a half-year with one end the first that is
  listed is kept. `_latest_period` takes the value filed first, `_latest_fact` the one
  filed last. An 8-K under the preferred tag hides what the other tag has.

Web, chart, files, retention, schema:

* A client that leaves during a broadcast makes it skip the next one in the list; a
  database error in a task ends it for good (`LatestIsShown` excepts both).
* A background thread that cannot be started leaves `_fetching` set for ever
  (`adapters/market_data/display_quotes.py:89`). A fetch that began before a `clear`
  stores after it.
* A valuation by a batch or after a manual trade holds no lock and may store points of the
  old simulation after a reset, and a point of the old portfolio after a rebuild; a position
  opened between the quotes and the valuation is valued without a quote.
* A restore killed between the renames of the database and of its log, and repeated,
  leaves the old log next to the restored database (`torn`; `README.md:246`). The
  rotation of backups also counts files of other names that share the prefix.
* An agent created while a batch runs trades without a row in it; when nobody else traded,
  `prune` deletes the batch, and the market data its audit refers to.
* A crash between a trade and its quote leaves a trade whose audit a later prune deletes.
* `schema.sql` runs before the repairs, so their tests for missing tables are never true.
  A database of a version from 15 to 17 without `users.decision_architecture` fails in
  migration 18, before its repair; one with an old CHECK on a later ledger loses the links
  of trades to quotes, or fails when rows are referenced. Two programs that upgrade one
  database at once are not kept apart. `Mislabelled` leaves these databases out.

## 7. What is not modelled, and why

* The arithmetic of market features, ratios of fundamentals, scores of stories, verdicts
  of trades and reports: functions of stored data whose definition is their meaning.
* Prompts, parsing, wording; quote, news, filing and model providers: external, a choice
  among what they may answer.
* The instrument catalogue and the watchlist: single upserts by an operator.
* Routers, settings, user interface, diagnostics, one-off scripts: a mapping of requests,
  constants, presentation.
* The read models (portfolio queries, rankings, views of a batch): they change nothing.
* Two programs that start at once on a database that has to be upgraded.
* The reconnection after a corrupt database file.
* The lookback window of filings: a filing that is listed stays listed.
* The statements of `schema.sql` one by one: those before `schema_version` and those after it
  are a step each (`RunScript`); every statement creates what is missing, and a script that
  died begins anew.
* Decimal's 38 digits, except where a quotient decides whether a row is deleted.
* `Trading.preview`, which writes nothing.
