---------------------------- MODULE FilingBriefs ----------------------------
(***************************************************************************)
(* Filed-report briefs: refresh of services/filing_briefs.py, run by the   *)
(* server's FilingBriefRefresher (one detached thread at a time, started   *)
(* after a funnel cycle or by the operator) and by the warm-up script,     *)
(* which is another process on the same database.                          *)
(*                                                                         *)
(* Every read and every write of the store is a transaction of its own, so *)
(* the two processes interleave between any two of them, and an exception  *)
(* or a kill can end a run after any of them.                              *)
(*                                                                         *)
(* Abstractions: the text of an excerpt is its content, an excerpt hash;   *)
(* a brief is one of a few summaries; time is that a scan stops being      *)
(* fresh.  _refresh_lock is left out: in each process one thread refreshes.*)
(***************************************************************************)
EXTENDS Integers, Sequences, FiniteSets

CONSTANTS Server, Script,      \* the processes
          Scope,               \* the tickers in scope, sorted
          Docs,                \* accession numbers
          Old,                 \* the documents EDGAR lists when we begin to look
          TickerOf, ContentOf, \* of a document; a content may have two documents
          NoContent,           \* an 8-K without an earnings exhibit
          NoTicker, NoDoc,
          Summaries,           \* what the summariser may answer
          MaxFaults,           \* bound on errors, exceptions and kills
          MaxScripts           \* bound on runs of the script

Procs == {Server, Script}
Tickers == {Scope[i] : i \in DOMAIN Scope}

ASSUME FilingAssumption ==
    /\ Server # Script /\ Old \subseteq Docs /\ Scope \in Seq(Tickers)
    /\ NoDoc \notin Docs /\ NoTicker \notin Tickers
    /\ {MaxFaults, MaxScripts} \subseteq Nat /\ Summaries # {}

VARIABLES filed,      \* what EDGAR lists: the filings published so far
          documents,  \* filing_documents
          briefs,     \* filing_briefs: a set of [doc, text, by]; by is the process
                      \*   whose summariser wrote the text (history)
          scan,       \* filing_scan_status, by ticker; `seen' is what was listed (history)
          cikMap,     \* _ticker_to_cik of each process
          run,        \* the locals of refresh in each process
          count       \* counters of the bounds

filingVars == <<filed, documents, briefs, scan, cikMap, run, count>>

Summarised(d) == \E b \in briefs : b.doc = d

Idle == [pc |-> "idle", todo |-> <<>>, ticker |-> NoTicker, seen |-> {}, left |-> {},
         doc |-> NoDoc, failures |-> FALSE]

FilingInit ==
    /\ filed \in {{}, Old} /\ documents = {} /\ briefs = {}
    /\ scan = [t \in Tickers |-> [status |-> "none", fresh |-> FALSE, seen |-> {}]]
    /\ cikMap = [p \in Procs |-> "unknown"]
    /\ run = [p \in Procs |-> Idle]
    /\ count = [faults |-> 0, scripts |-> 0]

InRun(p, label) == run[p].pc = label
Set(p, r) == run' = [run EXCEPT ![p] = r]
Continue(p, label) == Set(p, [run[p] EXCEPT !.pc = label])
Fault == count.faults < MaxFaults /\ count' = [count EXCEPT !.faults = @ + 1]
-----------------------------------------------------------------------------
(* The world *)

Publish ==
    /\ \E d \in Docs \ filed : filed' = filed \cup {d}
    /\ UNCHANGED <<documents, briefs, scan, cikMap, run, count>>

\* A recorded scan becomes older than filing_scan_ttl_minutes.
Expire(t) ==
    /\ scan[t].fresh /\ scan' = [scan EXCEPT ![t].fresh = FALSE]
    /\ UNCHANGED <<filed, documents, briefs, cikMap, run, count>>
-----------------------------------------------------------------------------
(* A run *)

\* FilingBriefRefresher.trigger: refused while a run goes on.
Trigger ==
    /\ InRun(Server, "idle")
    /\ Set(Server, [Idle EXCEPT !.pc = "starting", !.todo = Scope])
    /\ UNCHANGED <<filed, documents, briefs, scan, cikMap, count>>

\* warmup_filing_briefs: the same run in the process of the script.
RunScript ==
    /\ InRun(Script, "idle") /\ count.scripts < MaxScripts
    /\ count' = [count EXCEPT !.scripts = @ + 1]
    /\ Set(Script, [Idle EXCEPT !.pc = "scan", !.todo = Scope])
    /\ UNCHANGED <<filed, documents, briefs, scan, cikMap>>

\* The thread starts, or cannot be started and `running' is taken back.
Start ==
    /\ InRun(Server, "starting")
    /\ \/ Continue(Server, "scan") /\ UNCHANGED count
       \/ Fault /\ Set(Server, Idle)
    /\ UNCHANGED <<filed, documents, briefs, scan, cikMap>>

\* is_scan_fresh: only clean scans count, for filing_scan_ttl_minutes.
ScanIsFresh(t) == scan[t].fresh /\ scan[t].status \in {"ok", "empty"}

NextTicker(p) ==
    /\ InRun(p, "scan") /\ run[p].todo # <<>>
    /\ LET t == Head(run[p].todo) IN
          Set(p, [run[p] EXCEPT !.todo = Tail(@), !.ticker = IF ScanIsFresh(t) THEN NoTicker ELSE t,
                                !.pc = IF ScanIsFresh(t) THEN "scan" ELSE "list"])
    /\ UNCHANGED <<filed, documents, briefs, scan, cikMap, count>>

\* The run is over; status() reports it.
EndRun(p) ==
    /\ InRun(p, "scan") /\ run[p].todo = <<>>
    /\ Set(p, Idle)
    /\ UNCHANGED <<filed, documents, briefs, scan, cikMap, count>>

Listed(p, listing) ==
    Set(p, [run[p] EXCEPT !.pc = "next", !.seen = listing, !.left = listing])

\* cik_for_ticker: the map is fetched once per process.  If it cannot be had, the
\* process finds no ticker in it from then on.
LoadTickerMap(p) ==
    \E answer \in {"loaded", "missing"} :
        /\ cikMap[p] \in {"unknown", answer}
        /\ cikMap' = [cikMap EXCEPT ![p] = answer]

\* fetch_filings.  Without the map the listing is empty, and no error.
ListFilings(p) ==
    /\ InRun(p, "list")
    /\ LoadTickerMap(p)
    /\ Listed(p, {d \in filed : cikMap'[p] = "loaded" /\ TickerOf[d] = run[p].ticker})
    /\ UNCHANGED <<filed, documents, briefs, scan, count>>

\* NewsSourceError: the scan is recorded as failed.
ListingFails(p) ==
    /\ InRun(p, "list")
    /\ LoadTickerMap(p) /\ cikMap'[p] = "loaded"
    /\ Fault
    /\ Set(p, [run[p] EXCEPT !.pc = "record", !.failures = TRUE])
    /\ UNCHANGED <<filed, documents, briefs, scan>>

\* Mutant of ScanStatus: the failures of single filings are not counted.
ScanStatusOfListing(p) == IF run[p].seen # {} THEN "ok" ELSE "empty"

ScanStatus(p) ==
    IF run[p].failures THEN "failed" ELSE IF run[p].seen # {} THEN "ok" ELSE "empty"

\* record_scan, when no filing is left or the listing failed.
RecordScan(p) ==
    /\ InRun(p, "record") \/ (InRun(p, "next") /\ run[p].left = {})
    /\ scan' = [scan EXCEPT ![run[p].ticker] =
                  [status |-> ScanStatus(p), fresh |-> ScanStatus(p) # "failed", seen |-> run[p].seen]]
    /\ Set(p, [Idle EXCEPT !.pc = "scan", !.todo = run[p].todo])
    /\ UNCHANGED <<filed, documents, briefs, cikMap, count>>
-----------------------------------------------------------------------------
(* One document *)

\* Mutant of AfterLookup: a stored document is taken to have its brief.
AfterLookupTrusting(d) == IF d \in documents THEN "next" ELSE "fetch"

\* A document that is stored already may be one whose run died before it was
\* summarised: it is healed from the stored excerpt.
AfterLookup(d) == IF d \in documents THEN "ensure" ELSE "fetch"

\* The next filing of the listing: is its document stored?
NextDocument(p) ==
    /\ InRun(p, "next")
    /\ \E d \in run[p].left :
          Set(p, [run[p] EXCEPT !.left = @ \ {d}, !.doc = d,
                                !.pc = AfterLookup(d)])
    /\ UNCHANGED <<filed, documents, briefs, scan, cikMap, count>>

\* fetch_filing_excerpt, then persist_document: INSERT OR IGNORE, so that the loser
\* of a race heals the stored copy.  A filing without a text is skipped.
FetchDocument(p) ==
    /\ InRun(p, "fetch")
    /\ \/ /\ ContentOf[run[p].doc] = NoContent
          /\ Continue(p, "next") /\ UNCHANGED documents
       \/ /\ ContentOf[run[p].doc] # NoContent
          /\ documents' = documents \cup {run[p].doc} /\ Continue(p, "ensure")
    /\ UNCHANGED <<filed, briefs, scan, cikMap, count>>

\* EdgarSourceError: this filing has failed, the others go on.
FetchFails(p) ==
    /\ InRun(p, "fetch") /\ Fault
    /\ Set(p, [run[p] EXCEPT !.pc = "next", !.failures = TRUE])
    /\ UNCHANGED <<filed, documents, briefs, scan, cikMap>>

\* Mutant of SameContent: nothing is ever reused.
SameContentOfNone(d) == {}

\* brief_for_hash: the briefs of documents with this content.
SameContent(d) == {b \in briefs : ContentOf[b.doc] = ContentOf[d]}

\* INSERT OR IGNORE
InsertBrief(d, text, by) ==
    briefs' = IF Summarised(d) THEN briefs ELSE briefs \cup {[doc |-> d, text |-> text, by |-> by]}

\* _ensure_brief, and brief_for_accession finds one.
BriefExists(p) ==
    /\ InRun(p, "ensure") /\ Summarised(run[p].doc)
    /\ Continue(p, "next")
    /\ UNCHANGED <<filed, documents, briefs, scan, cikMap, count>>

\* The copy of the brief of identical content; the newest one, whose order the
\* model does not keep.
ReuseBrief(p) ==
    /\ InRun(p, "ensure") /\ ~Summarised(run[p].doc)
    /\ \E b \in SameContent(run[p].doc) : InsertBrief(run[p].doc, b.text, b.by)
    /\ Continue(p, "next")
    /\ UNCHANGED <<filed, documents, scan, cikMap, count>>

\* No brief to reuse: the summariser is called, outside of any transaction.
Summarise(p) ==
    /\ InRun(p, "ensure") /\ ~Summarised(run[p].doc) /\ SameContent(run[p].doc) = {}
    /\ Continue(p, "insert")
    /\ UNCHANGED <<filed, documents, briefs, scan, cikMap, count>>

\* _summarize's answer: without one the brief is metadata only.  (An answer whose
\* guidance or tone is no text raises in _validate, which is Abort.)
PersistBrief(p) ==
    /\ InRun(p, "insert")
    /\ \E text \in Summaries : InsertBrief(run[p].doc, text, p)
    /\ Continue(p, "next")
    /\ UNCHANGED <<filed, documents, scan, cikMap, count>>
-----------------------------------------------------------------------------
(* What ends a run early *)

\* Any other exception: the run ends, and `running' with it.
Abort(p) ==
    /\ ~InRun(p, "idle") /\ Fault
    /\ Set(p, Idle)
    /\ UNCHANGED <<filed, documents, briefs, scan, cikMap>>

\* The process is killed, or ends and is started again.
Restart(p) ==
    /\ Fault
    /\ Set(p, Idle)
    /\ cikMap' = [cikMap EXCEPT ![p] = "unknown"]
    /\ UNCHANGED <<filed, documents, briefs, scan>>

\* A step of a run that makes progress.
Work(p) ==
    \/ NextTicker(p) \/ EndRun(p) \/ ListFilings(p) \/ RecordScan(p)
    \/ NextDocument(p) \/ FetchDocument(p) \/ BriefExists(p)
    \/ ReuseBrief(p) \/ Summarise(p) \/ PersistBrief(p)

FilingNext ==
    \/ Publish \/ Trigger \/ Start \/ RunScript
    \/ \E t \in Tickers : Expire(t)
    \/ \E p \in Procs :
          Work(p) \/ ListingFails(p) \/ FetchFails(p) \/ Abort(p) \/ Restart(p)

\* What the server does in the end: a funnel cycle triggers a run and its thread
\* works.  EDGAR fails a bounded number of times.
ServerWorks == Trigger \/ Start \/ Work(Server)
FilingFairness ==
    /\ WF_filingVars(ServerWorks)
    /\ \A t \in Tickers : WF_filingVars(Expire(t))

FilingSpec == FilingInit /\ [][FilingNext]_filingVars /\ FilingFairness
-----------------------------------------------------------------------------
RunOf == [pc : {"idle", "starting", "scan", "list", "next", "fetch", "ensure", "insert", "record"},
          todo : Seq(Tickers), ticker : Tickers \cup {NoTicker}, seen : SUBSET Docs,
          left : SUBSET Docs, doc : Docs \cup {NoDoc}, failures : BOOLEAN]

FilingTypeOK ==
    /\ filed \subseteq Docs /\ documents \subseteq Docs
    /\ briefs \subseteq [doc : Docs, text : Summaries, by : Procs]
    /\ scan \in [Tickers -> [status : {"none", "ok", "empty", "failed"}, fresh : BOOLEAN, seen : SUBSET Docs]]
    /\ cikMap \in [Procs -> {"unknown", "loaded", "missing"}]
    /\ run \in [Procs -> RunOf]
    /\ count \in [faults : Nat, scripts : Nat]

\* A scan that counts as clean left nothing behind: whatever it listed with a text
\* is stored and has its brief, in any interleaving with the other process and
\* after any crash of either (_refresh_ticker's status, _ensure_brief).
CleanScanIsComplete ==
    \A t \in Tickers : \A d \in scan[t].seen :
        scan[t].status = "ok" /\ ContentOf[d] # NoContent => d \in documents /\ Summarised(d)

\* "Each distinct document content is summarised exactly once", by each process:
\* of what one process wrote, one content has one summary.
\* (filing_briefs.py:5; between processes the summaries may differ.)
SummarisedOnce ==
    \A b, c \in briefs : b.by = c.by /\ ContentOf[b.doc] = ContentOf[c.doc] => b.text = c.text

\* A run that has met no failure has left nothing behind: what it listed is still to
\* be looked at, is the document at hand, or is stored and has its brief.
LeavesNothing(r) ==
    /\ r.pc \in {"fetch", "ensure", "insert"} => r.doc \in Docs
    /\ r.pc \in {"ensure", "insert"} => r.doc \in documents
    /\ r.pc = "record" => r.failures
    /\ r.pc \in {"next", "fetch", "ensure", "insert"} /\ ~r.failures =>
          \A d \in {x \in r.seen : ContentOf[x] # NoContent} :
              \/ d \in r.left
              \/ d = r.doc /\ r.pc # "next"
              \/ d \in documents /\ Summarised(d)

NothingLeftBehind == \A p \in Procs : LeavesNothing(run[p])

\* While a process asks for a summary nobody else can write one in its name: the other
\* process copies only what it finds.
SummaryIsOwn ==
    \A p \in Procs : run[p].pc = "insert" =>
        \A b \in briefs : b.by = p => ContentOf[b.doc] # ContentOf[run[p].doc]

\* The inductive invariant.
FilingInv ==
    FilingTypeOK /\ NothingLeftBehind /\ SummaryIsOwn /\ CleanScanIsComplete /\ SummarisedOnce

\* Every filing with a text gets its brief in the end, whatever run died half-way
\* before; unless the server never got EDGAR's ticker map, which it asks for once.
EveryFilingIsBriefed ==
    \A d \in {x \in Docs : ContentOf[x] # NoContent} :
        d \in filed ~> (Summarised(d) \/ cikMap[Server] = "missing")
=============================================================================
