---------------------------- MODULE SchemaUpgrade ----------------------------
(***************************************************************************)
(* The schema of a database at the start of a program: the schema script,  *)
(* the numbered migrations and the repairs (init_db, _migrate and the      *)
(* package adapters/sqlite/migrations), with crashes between any two       *)
(* commits and a program that uses the database between two starts.        *)
(*                                                                         *)
(* Python's sqlite3 commits CREATE, ALTER and DROP at once outside of a    *)
(* transaction; a change of rows waits for the commit that also stores the *)
(* new version.  A migration is therefore the sequence of its statements,  *)
(* each durable by itself, and at its end the rows and the version.        *)
(*                                                                         *)
(* Abstractions: of the tables those that a migration touches, and of      *)
(* their columns those that a migration adds; one agent and one open       *)
(* position; a transaction is one share.                                   *)
(***************************************************************************)
EXTENDS Integers, Sequences, SequencesExt, FiniteSets

CONSTANTS LegacyVersions,     \* the versions of the databases that are upgraded
          MaxStarts, MaxLedger

ASSUME UpgradeAssumption == LegacyVersions \subseteq 0..23 /\ {MaxStarts, MaxLedger} \subseteq Nat

VARIABLES db,        \* what is committed
          upgrade,   \* the process: stage, version at work, next statement
          written,   \* what people and the program wrote, to compare with
          starts     \* counter of the bound

upgradeVars == <<db, upgrade, written, starts>>

NoVersion == -1
NoDate == -1
-----------------------------------------------------------------------------
(* The migrations *)

\* Mutant of Needed: a column is added without a look at the table.
NeededAlways(s, d) == TRUE

Needed(s, d) == <<s.table, s.name>> \notin d.columns

Add(table, names) == [i \in DOMAIN names |-> [do |-> "add", table |-> table, name |-> names[i]]]
Create(names) == <<[do |-> "create", tables |-> names]>>
Drop(name) == <<[do |-> "drop", tables |-> {name}]>>
RebuildLedger(kinds, names) == <<[do |-> "ledger", kinds |-> kinds, tables |-> names]>>

Kinds == {"BUY", "SELL", "DIVIDEND", "FEE", "DIVIDEND_REVERSAL"}

M001 == Add("corporate_actions", <<"amount_per_share", "total_paid">>)
M002 == RebuildLedger({"BUY", "SELL", "DIVIDEND"}, {})
M003 == Add("users", <<"strategy_label", "strategy_summary", "strategy_config">>) \o <<[do |-> "users"]>>
M004 == Add("watchlist", <<"instrument_type", "exchange", "issuer", "category">>)
M005 == RebuildLedger({"BUY", "SELL", "DIVIDEND", "FEE"}, {})
M006 == Create({"decision_batches", "decision_batch_agents"})
M007 == Add("holdings", <<"opened_at">>)
M008 == RebuildLedger(Kinds, {"dividend_reversals"})
M009 == Add("users", <<"model_provider", "model_name">>)
M010 == Create({"decision_audits"})
M011 == Create({"decision_batch_snapshots"})
M012 == Create({"news_items", "news_item_tickers", "research_briefs"})
M013 == Create({"news_assessments", "news_fetch_status"})
        \o Add("research_briefs", <<"signal", "freshness_hours", "conflicting", "policy_version", "summary_json">>)
M014 == Drop("news_headlines")
M015 == Add("users", <<"decision_architecture">>) \o Create({"ensemble_decision_steps"})
M016 == Add("ensemble_decision_steps", <<"pi_session_id", "usage_json", "estimated_cost_usd">>)
M017 == Add("transactions", <<"execution_quote_audit_id">>)
        \o Add("decision_audits", <<"execution_quote_captured_at", "execution_rejection_reason">>)
        \o Create({"execution_quote_audits"})
M018 == <<>>
M019 == Create({"orders"})
M020 == Create({"ledger_repairs"})
M021 == Create({"fundamental_facts", "fundamental_fetch_status"})
M022 == Create({"filing_documents", "filing_briefs", "filing_scan_status"})
M023 == Add("ohlcv_cache", <<"adjusted_through">>)

Migrations == <<M001, M002, M003, M004, M005, M006, M007, M008, M009, M010, M011, M012,
                M013, M014, M015, M016, M017, M018, M019, M020, M021, M022, M023>>
Current == Len(Migrations)

ColumnsOf(v) == {<<s.table, s.name>> : s \in {t \in ToSet(Migrations[v]) : t.do = "add"}}
TablesOf(v) == UNION {s.tables : s \in {t \in ToSet(Migrations[v]) : t.do \in {"create", "ledger"}}}
UpTo(Of(_), v) == UNION {Of(w) : w \in 1..v}
AllColumns == UpTo(ColumnsOf, Current)
KindsOf(v) == CASE v < 2 -> {"BUY", "SELL"} [] v \in 2..4 -> {"BUY", "SELL", "DIVIDEND"}
                [] v \in 5..7 -> Kinds \ {"DIVIDEND_REVERSAL"} [] v >= 8 -> Kinds

\* The tables of schema.sql, before and after schema_version itself.
Oldest == {"users", "watchlist", "ohlcv_cache", "holdings", "transactions"}
Later == {"corporate_actions", "decision_batches", "decision_batch_snapshots",
          "decision_batch_agents", "decision_audits", "execution_quote_audits", "ensemble_decision_steps"}
Tables == Oldest \cup {"corporate_actions", "schema_version"} \cup UpTo(TablesOf, Current)
-----------------------------------------------------------------------------
(* Statements *)

\* A table the script creates has every column of today.
WithTables(d, names) ==
    [d EXCEPT !.tables = @ \cup names,
              !.columns = @ \cup {c \in AllColumns : c[1] \in names \ d.tables},
              !.kinds = IF "transactions" \in names \ d.tables THEN Kinds ELSE @]

After(s, d) ==
    CASE s.do = "add" -> [d EXCEPT !.columns = @ \cup {<<s.table, s.name>>}]
      [] s.do = "create" -> [d EXCEPT !.tables = @ \cup s.tables]
      [] s.do = "drop" -> [d EXCEPT !.tables = @ \ s.tables]
      [] s.do = "ledger" -> [d EXCEPT !.kinds = s.kinds,
                                      !.tables = @ \cup s.tables,
                                      !.columns = @ \ {<<"transactions", "execution_quote_audit_id">>},
                                      !.ledger = [i \in DOMAIN @ |-> [@[i] EXCEPT !.quote = FALSE]]]
      [] s.do = "users" -> [d EXCEPT !.columns = @ \ (ColumnsOf(9) \cup {<<"users", "decision_architecture">>}),
                                     !.bound = FALSE]

\* ALTER of a column that is there; the copy of a row violates the new CHECK; the
\* dropped table has a row that an order, a reversal or a repair references.
Fails(s, d) ==
    CASE s.do = "add" -> <<s.table, s.name>> \in d.columns
      [] s.do = "ledger" -> d.referenced \/ \E i \in DOMAIN d.ledger : d.ledger[i].kind \notin s.kinds
      [] OTHER -> FALSE

SharesIn(row) == CASE row.kind = "BUY" -> 1 [] row.kind = "SELL" -> -1 [] OTHER -> 0

\* The shares held after each number of transactions.
SharesAfter(ledger) ==
    LET held[n \in 0..Len(ledger)] == IF n = 0 THEN 0 ELSE held[n - 1] + SharesIn(ledger[n]) IN held

Shares(ledger) == SharesAfter(ledger)[Len(ledger)]

\* m007: the purchase that took the position from nothing, or the fallback 0.
Opening(ledger) ==
    LET opened[n \in 0..Len(ledger)] ==
            CASE n = 0 -> 0
              [] n > 0 /\ ledger[n].kind = "BUY" /\ SharesAfter(ledger)[n - 1] <= 0 -> n
              [] OTHER -> opened[n - 1]
    IN  opened[Len(ledger)]

\* What a migration does to rows: m007 dates open positions, m018 gives agents of
\* the one-model kind a target of deployment.
Rows7(d) == IF d.opened = NoDate THEN [d EXCEPT !.opened = Opening(d.ledger)] ELSE d
Rows18(d) == IF d.config = "untargeted" THEN [d EXCEPT !.config = "targeted"] ELSE d
RowsOf(v, d) == CASE v = 7 -> Rows7(d) [] v = 18 -> Rows18(d) [] OTHER -> d

RowsFail(v, d) == v = 18 /\ <<"users", "decision_architecture">> \notin d.columns
-----------------------------------------------------------------------------
(* The databases that a program starts with *)

Sound(ledger) == \A n \in DOMAIN ledger : SharesAfter(ledger)[n] >= 0

\* When the open position was opened: the last purchase that found no share; 0 without one.
OpenedAt(ledger) ==
    LET openings == {i \in DOMAIN ledger : ledger[i].kind = "BUY" /\ SharesAfter(ledger)[i - 1] = 0}
    IN  IF Shares(ledger) = 0 THEN 0 ELSE CHOOSE i \in openings : \A j \in openings : j <= i

Fresh == [tables |-> {}, columns |-> {}, kinds |-> {}, ledger |-> <<>>, referenced |-> FALSE,
          opened |-> 0, bound |-> FALSE, config |-> "targeted", version |-> NoVersion]

\* What version v of the program leaves behind.
LeftBy(v, ledger, referenced) ==
    [tables |-> Oldest \cup {"corporate_actions"} \cup UpTo(TablesOf, v)
                \cup (IF v < 14 THEN {"news_headlines"} ELSE {})
                \cup (IF v = 0 THEN {} ELSE {"schema_version"}),
     columns |-> UpTo(ColumnsOf, v), kinds |-> KindsOf(v),
     ledger |-> ledger, referenced |-> referenced /\ ledger # <<>>,
     opened |-> IF v < 7 /\ Shares(ledger) > 0 THEN NoDate ELSE OpenedAt(ledger),
     bound |-> v >= 9, config |-> IF v < 18 THEN "untargeted" ELSE "targeted",
     version |-> IF v = 0 THEN NoVersion ELSE v]

Ledgers(v) ==
    {ledger \in UNION {[1..n -> [kind : KindsOf(v), quote : {v >= 17}]] : n \in 0..MaxLedger} : Sound(ledger)}

Legacy ==
    UNION {UNION {{LeftBy(v, ledger, ref) : ref \in {r \in BOOLEAN : r => v >= 19}} : ledger \in Ledgers(v)} :
           v \in LegacyVersions}

\* What repair is there for: a database with a later version but without a column,
\* or with a position that has no date.
Mislabelled ==
    UNION {{[d EXCEPT !.columns = @ \ ColumnsOf(v),
                      !.opened = IF v \in {7, 18} /\ @ > 0 THEN NoDate ELSE @,
                      !.bound = IF v = 9 THEN FALSE ELSE @] :
                d \in {l \in Legacy : l.version >= 18 /\ (v = 17 => l.ledger = <<>>)}} :
           v \in {7, 9, 15, 16, 17, 18}}

UpgradeInit ==
    /\ db \in {Fresh} \cup Legacy \cup Mislabelled
    /\ upgrade = [stage |-> "off", found |-> {}, v |-> 0, i |-> 0]
    /\ written = [ledger |-> db.ledger, opened |-> OpenedAt(db.ledger), bound |-> db.bound]
    /\ starts = 0
-----------------------------------------------------------------------------
(* The process *)

InStage(s) == upgrade.stage = s
GoTo(s, v) == upgrade' = [upgrade EXCEPT !.stage = s, !.v = v, !.i = 1]

StartProgram ==
    /\ InStage("off") /\ starts < MaxStarts
    /\ starts' = starts + 1
    /\ upgrade' = [stage |-> "script", found |-> db.tables, v |-> 0, i |-> 0]
    /\ UNCHANGED <<db, written>>

\* executescript commits every CREATE ... IF NOT EXISTS; schema_version is in the middle.
\* The statements before it are one step here and those after it another: each creates what
\* is missing and the script always begins anew, so a death among them leaves it the same work.
RunScript ==
    /\ \/ InStage("script") /\ db' = WithTables(db, Tables \ Later) /\ GoTo("rest", 0)
       \/ InStage("rest") /\ db' = WithTables(db, Later) /\ GoTo("stamp", 0)
    /\ UNCHANGED <<written, starts>>

StampVersion ==
    /\ InStage("stamp")
    /\ db' = IF "schema_version" \in upgrade.found THEN db
             ELSE [db EXCEPT !.version = IF "users" \in upgrade.found THEN 0 ELSE Current]
    /\ GoTo("read", 0)
    /\ UNCHANGED <<written, starts>>

\* A process that died before it stored a version leaves a table without a row.
ReadVersion ==
    /\ InStage("read")
    /\ LET version == IF db.version = NoVersion THEN 0 ELSE db.version IN
          /\ db' = [db EXCEPT !.version = version]
          /\ IF version < Current THEN GoTo("migrate", version + 1) ELSE GoTo("repair", 1)
    /\ UNCHANGED <<written, starts>>

\* Which migrations repair runs again.
NeedsRepair(v, d) ==
    CASE v = 7 -> TRUE
      [] v = 8 -> "DIVIDEND_REVERSAL" \notin d.kinds
      [] v = 12 -> "news_items" \notin d.tables
      [] v = 13 -> "news_assessments" \notin d.tables
      [] v = 14 -> "news_headlines" \in d.tables
      [] v \in {9, 10, 11, 15, 16, 17, 19} ->
            ~(ColumnsOf(v) \subseteq d.columns /\ TablesOf(v) \subseteq d.tables)
      [] OTHER -> FALSE

Upgrading == InStage("migrate") \/ (InStage("repair") /\ NeedsRepair(upgrade.v, db)) \/ InStage("repairing")
Statements == Migrations[upgrade.v]

RunStatement ==
    /\ Upgrading /\ upgrade.i <= Len(Statements)
    /\ LET s == Statements[upgrade.i]
           skipped == s.do = "add" /\ ~Needed(s, db) IN
       IF ~skipped /\ Fails(s, db)
       THEN GoTo("failed", 0) /\ db' = db
       ELSE /\ db' = IF skipped THEN db ELSE After(s, db)
            /\ upgrade' = [upgrade EXCEPT !.i = @ + 1,
                                          !.stage = IF @ = "repair" THEN "repairing" ELSE @]
    /\ UNCHANGED <<written, starts>>

\* The rows of the migration and its version are one commit.
FinishMigration ==
    /\ InStage("migrate") /\ upgrade.i > Len(Statements)
    /\ IF RowsFail(upgrade.v, db)
       THEN GoTo("failed", 0) /\ db' = db
       ELSE /\ db' = [RowsOf(upgrade.v, db) EXCEPT !.version = upgrade.v]
            /\ IF upgrade.v < Current THEN GoTo("migrate", upgrade.v + 1) ELSE GoTo("repair", 1)
    /\ UNCHANGED <<written, starts>>

FinishRepair ==
    /\ \/ InStage("repairing") /\ upgrade.i > Len(Statements) /\ db' = RowsOf(upgrade.v, db)
       \/ InStage("repair") /\ ~NeedsRepair(upgrade.v, db) /\ db' = db
    /\ IF upgrade.v < Current THEN GoTo("repair", upgrade.v + 1) ELSE GoTo("ready", 0)
    /\ UNCHANGED <<written, starts>>

\* The program at work: a transaction, an agent with a model, a reference to a row.
UseDatabase ==
    /\ InStage("ready")
    /\ \/ /\ Len(db.ledger) < MaxLedger
          /\ \E kind \in Kinds :
                LET ledger == Append(db.ledger, [kind |-> kind, quote |-> TRUE]) IN
                /\ Sound(ledger)
                /\ db' = [db EXCEPT !.ledger = ledger, !.opened = OpenedAt(ledger), !.bound = TRUE]
                /\ written' = [ledger |-> ledger, opened |-> OpenedAt(ledger), bound |-> TRUE]
       \/ db.ledger # <<>> /\ db' = [db EXCEPT !.referenced = TRUE] /\ UNCHANGED written
    /\ UNCHANGED <<upgrade, starts>>

\* At the end of its work or in the middle of it.
StopProgram ==
    /\ upgrade.stage \notin {"off", "failed"}
    /\ upgrade' = [stage |-> "off", found |-> {}, v |-> 0, i |-> 0]
    /\ UNCHANGED <<db, written, starts>>

UpgradeNext ==
    \/ StartProgram \/ RunScript \/ StampVersion \/ ReadVersion
    \/ RunStatement \/ FinishMigration \/ FinishRepair
    \/ UseDatabase \/ StopProgram

UpgradeSpec == UpgradeInit /\ [][UpgradeNext]_upgradeVars
-----------------------------------------------------------------------------
\* Whatever the version a database was left with, and wherever an earlier start of
\* the program died, init_db does not fail, loses no transaction, no link to its quote
\* and no model of an agent; and when it returns, the schema is the one of a fresh
\* database, every position has the date it was opened and every agent its target.
UpgradeIsSafe ==
    /\ ~InStage("failed")
    /\ db.ledger = written.ledger /\ db.bound = written.bound
    /\ InStage("ready") =>
          /\ db.tables = Tables /\ db.columns = AllColumns /\ db.kinds = Kinds
          /\ db.version = Current
          /\ db.opened = written.opened /\ db.config = "targeted"

\* What UpgradeIsSafe rests on: a migration finds what the version it starts from left
\* behind, whatever an earlier start that died has already done of it.
Reached == IF db.version = NoVersion THEN 0 ELSE db.version

LedgerRow == [kind : Kinds, quote : BOOLEAN]
Stages == {"off", "script", "rest", "stamp", "read", "migrate", "repair", "repairing", "ready"}

Databases ==
    [tables : SUBSET (Tables \cup {"news_headlines"}), columns : SUBSET AllColumns, kinds : SUBSET Kinds,
     ledger : Seq(LedgerRow), referenced : BOOLEAN, opened : Nat \cup {NoDate}, bound : BOOLEAN,
     config : {"targeted", "untargeted"}, version : (0..Current) \cup {NoVersion}]
Processes == [stage : Stages, found : SUBSET (Tables \cup {"news_headlines"}), v : 0..Current, i : Nat]

UpgradeTypeOK ==
    /\ db \in Databases /\ upgrade \in Processes
    /\ DOMAIN written = {"ledger", "opened", "bound"}

\* Rows of a version that still has a rebuild of the ledger before it can be copied, and
\* lose nothing by it.
RowsAreOld ==
    Reached < 8 => /\ ~db.referenced /\ ~db.bound
                   /\ \A i \in DOMAIN db.ledger : db.ledger[i].kind \in KindsOf(Reached) /\ ~db.ledger[i].quote

\* Only a database that says to be of version 18 or later may lack what repair adds.
Repaired == {7, 9, 15, 16, 17}
ColumnsAreThere == \A v \in 1..Reached : ColumnsOf(v) \subseteq db.columns \/ (Reached >= 18 /\ v \in Repaired)

DatesAreKnown ==
    /\ Sound(db.ledger) /\ written.opened = OpenedAt(db.ledger)
    /\ db.opened # written.opened => db.opened = NoDate /\ Shares(db.ledger) > 0

\* The script meets all old tables or none, and stamps a version when it meets no
\* schema_version.
Began == WithTables(Fresh, Tables \ Later)

ScriptIsWhole ==
    /\ db.tables = {} => db = Fresh
    /\ db.tables # {} => Oldest \subseteq db.tables
    /\ "schema_version" \notin db.tables => db.version = NoVersion
    /\ InStage("script") => upgrade.found = db.tables
    /\ upgrade.stage \in {"rest", "stamp"} =>
          /\ upgrade.found # {} => Oldest \subseteq upgrade.found
          /\ "schema_version" \notin upgrade.found => db.version = NoVersion
          /\ upgrade.found = {} => db = IF InStage("rest") THEN Began ELSE WithTables(Began, Later)
    /\ upgrade.stage \notin {"off", "script"} => Tables \ Later \subseteq db.tables
    /\ upgrade.stage \notin {"off", "script", "rest"} => Tables \subseteq db.tables

Done(s) == CASE s.do = "add" -> <<s.table, s.name>> \in db.columns
             [] s.do = "drop" -> s.tables \cap db.tables = {}
             [] s.do = "ledger" -> s.kinds = db.kinds
             [] OTHER -> TRUE

StatementsAreDone ==
    /\ upgrade.stage \in {"migrate", "repair", "repairing"} =>
          /\ upgrade.v \in 1..Current /\ upgrade.i >= 1
          /\ \A i \in DOMAIN Statements : i < upgrade.i => Done(Statements[i])
    /\ InStage("migrate") => db.version = upgrade.v - 1
    /\ upgrade.stage \in {"repair", "repairing"} =>
          /\ db.version = Current
          /\ \A v \in 1..(upgrade.v - 1) : ColumnsOf(v) \subseteq db.columns
          /\ upgrade.v > 7 => db.opened = written.opened
    /\ InStage("repairing") => upgrade.v \notin {2, 3, 5, 8, 14}

UpgradeInv ==
    /\ UpgradeTypeOK /\ UpgradeIsSafe
    /\ RowsAreOld /\ ColumnsAreThere /\ DatesAreKnown
    /\ Reached >= 8 => db.kinds = Kinds
    /\ Reached >= 14 => "news_headlines" \notin db.tables
    /\ Reached >= 18 => db.config = "targeted"
    /\ ScriptIsWhole /\ StatementsAreDone
=============================================================================
