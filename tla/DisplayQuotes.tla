---------------------------- MODULE DisplayQuotes ----------------------------
(***************************************************************************)
(* The cache of quotes for display (adapters/market_data/                  *)
(* display_quotes.py): requests that miss it are served by one fetch at a  *)
(* time, the others wait on a condition; a request whose quotes have all   *)
(* expired is answered with them while a thread fetches.                   *)
(*                                                                         *)
(* Abstractions: a quote is that there is an entry, and whether it has     *)
(* expired.  The condition's lock is held from one wait to the next, so    *)
(* what happens under it is one step.                                      *)
(***************************************************************************)
EXTENDS Integers, FiniteSets

CONSTANTS Symbols,
          Readers,          \* the threads of the requests
          Background,       \* the thread "display-quote-refresh"
          MaxExpiries,      \* bound on expiries and clears together
          MaxQuoteFaults

ASSUME QuoteAssumption == Background \notin Readers /\ {MaxExpiries, MaxQuoteFaults} \subseteq Nat

VARIABLES entry,        \* _entries: "none", "fresh" or "expired"
          fetching,     \* _fetching
          reader,       \* each thread: what it asked for and what it fetches
          expiries,
          quoteFaults   \* "start failed" is among them once a thread did not start

quoteVars == <<entry, fetching, reader, expiries, quoteFaults>>

Free == [pc |-> "free", asked |-> {}, missing |-> {}]

QuoteInit ==
    /\ entry = [s \in Symbols |-> "none"] /\ fetching = FALSE
    /\ reader = [r \in Readers \cup {Background} |-> Free]
    /\ expiries = 0 /\ quoteFaults = [count |-> 0, startFailed |-> FALSE]

Missing(asked) == {s \in asked : entry[s] # "fresh"}

QuoteFault(startFailed) ==
    /\ quoteFaults.count < MaxQuoteFaults
    /\ quoteFaults' = [count |-> quoteFaults.count + 1, startFailed |-> quoteFaults.startFailed \/ startFailed]

\* fetch: everything fresh, or expired and served as it is.  The flag is set before
\* the thread is started, and stays set when it cannot be.
ServeCached(r, asked) ==
    /\ reader[r].pc = "free" /\ asked # {} /\ \A s \in asked : entry[s] # "none"
    /\ \/ (Missing(asked) = {} \/ fetching) /\ UNCHANGED <<fetching, reader, quoteFaults>>
       \/ /\ Missing(asked) # {} /\ ~fetching /\ fetching' = TRUE
          /\ reader' = [reader EXCEPT ![Background] = [pc |-> "fetch", asked |-> {}, missing |-> Missing(asked)]]
          /\ UNCHANGED quoteFaults
       \/ /\ Missing(asked) # {} /\ ~fetching /\ fetching' = TRUE
          /\ QuoteFault(TRUE) /\ UNCHANGED reader
    /\ UNCHANGED <<entry, expiries>>

\* The loop on the condition: whoever holds the lock waits, is served, or fetches.
Proceed(r, asked) ==
    IF Missing(asked) = {} THEN reader' = [reader EXCEPT ![r] = Free] /\ UNCHANGED fetching
    ELSE IF fetching
         THEN /\ reader' = [reader EXCEPT ![r] = [pc |-> "wait", asked |-> asked, missing |-> {}]]
              /\ UNCHANGED fetching
         ELSE /\ reader' = [reader EXCEPT ![r] = [pc |-> "fetch", asked |-> asked, missing |-> Missing(asked)]]
              /\ fetching' = TRUE

Fetch(r, asked) ==
    /\ reader[r].pc = "free" /\ \E s \in asked : entry[s] = "none"
    /\ Proceed(r, asked)
    /\ UNCHANGED <<entry, expiries, quoteFaults>>

GoOn(r) ==
    /\ reader[r].pc = "notified" /\ Proceed(r, reader[r].asked)
    /\ UNCHANGED <<entry, expiries, quoteFaults>>

-----------------------------------------------------------------------------
\* Mutant of Notified: notify wakes one of those that wait.
NotifiedOne ==
    LET waiting == {r \in Readers : reader[r].pc = "wait"} IN
        {woken \in SUBSET waiting : Cardinality(woken) = IF waiting = {} THEN 0 ELSE 1}

\* notify_all.
Notified == {{r \in Readers : reader[r].pc = "wait"}}

\* The end of _refresh, of whatever thread: the flag is taken back and the others told.
LeaveFetch(r) ==
    /\ fetching' = FALSE
    /\ \E woken \in Notified :
          reader' = [x \in DOMAIN reader |->
              IF x = r THEN Free ELSE IF x \in woken THEN [reader[x] EXCEPT !.pc = "notified"] ELSE reader[x]]

\* Every symbol that was asked for has an entry now, also one without a quote.
FetchAnswers(r) ==
    /\ reader[r].pc = "fetch"
    /\ entry' = [s \in Symbols |-> IF s \in reader[r].missing THEN "fresh" ELSE entry[s]]
    /\ LeaveFetch(r) /\ UNCHANGED <<expiries, quoteFaults>>

FetchRaises(r) ==
    /\ reader[r].pc = "fetch" /\ QuoteFault(FALSE)
    /\ LeaveFetch(r) /\ UNCHANGED <<entry, expiries>>

TtlEnds(s) ==
    /\ entry[s] = "fresh" /\ expiries < MaxExpiries /\ expiries' = expiries + 1
    /\ entry' = [entry EXCEPT ![s] = "expired"]
    /\ UNCHANGED <<fetching, reader, quoteFaults>>

\* clear_display_quote_cache, by a reset.
ClearQuotes ==
    /\ expiries < MaxExpiries /\ expiries' = expiries + 1
    /\ entry' = [s \in Symbols |-> "none"]
    /\ UNCHANGED <<fetching, reader, quoteFaults>>

ReaderStep(r) == GoOn(r) \/ FetchAnswers(r)

QuoteNext ==
    \/ \E r \in Readers, asked \in SUBSET Symbols : ServeCached(r, asked) \/ Fetch(r, asked)
    \/ \E r \in Readers \cup {Background} : ReaderStep(r) \/ FetchRaises(r)
    \/ \E s \in Symbols : TtlEnds(s)
    \/ ClearQuotes

QuoteSpec ==
    QuoteInit /\ [][QuoteNext]_quoteVars /\ \A r \in Readers \cup {Background} : WF_quoteVars(ReaderStep(r))
-----------------------------------------------------------------------------
\* Requests pass one flag among them, through failed fetches, expiries and clears: no
\* wakeup is lost and the flag is always taken back, so that every request is answered,
\* unless the background thread could not be started.
EveryFetchEnds ==
    \A r \in Readers : reader[r].pc # "free" ~> (reader[r].pc = "free" \/ quoteFaults.startFailed)
=============================================================================
