---------------------------- MODULE NewsResearch ----------------------------
(***************************************************************************)
(* Retrieval of public news evidence for a ticker: refresh of              *)
(* services/news_research.py, as a funnel cycle, a decision batch and the  *)
(* warm-up script run it side by side.                                     *)
(*                                                                         *)
(* Abstractions: time is that a fetch stops being fresh and that a story   *)
(* leaves the lookback window, with all that were published before it;     *)
(* scores and texts are left to EvidenceText.  A story is a title at a URL.*)
(* The first lookup of persist_evidence precedes its transaction; the      *)
(* model takes them for one step.                                          *)
(***************************************************************************)
EXTENDS Integers, Sequences, FiniteSets

CONSTANTS Sources,       \* in order of ascending tier
          Stories,
          SourceOf, UrlOf, \* of a story
          TwinOf,        \* stories with nearly the same title
          Complete,      \* the stories with a title, a link and a date
          DateOf,        \* published_at
          Limit,         \* news_max_items_per_ticker
          Refreshers,    \* the threads and processes that refresh
          MaxNewsFaults

ASSUME NewsAssumption ==
    /\ Complete \subseteq Stories /\ DateOf \in [Stories -> Nat]
    /\ Limit \in Nat /\ MaxNewsFaults \in Nat

VARIABLES window,      \* of each story: "unpublished", "recent" or "old"
          fresh,       \* the sources whose news_fetch_status is within the TTL
          items,       \* news_items, with their link and assessment for the ticker
          refresher,   \* the locals of refresh
          newsFaults

newsVars == <<window, fresh, items, refresher, newsFaults>>

Waiting == [pc |-> "idle", todo |-> <<>>, raw |-> {}]

NewsInit ==
    /\ window = [s \in Stories |-> "unpublished"]
    /\ fresh = {} /\ items = {}
    /\ refresher = [r \in Refreshers |-> Waiting]
    /\ newsFaults = 0

NewsFault == newsFaults < MaxNewsFaults /\ newsFaults' = newsFaults + 1

Appear(s) ==
    /\ window[s] = "unpublished" /\ window' = [window EXCEPT ![s] = "recent"]
    /\ UNCHANGED <<fresh, items, refresher, newsFaults>>

\* Whatever was published no later leaves the window as well.
Age(s) ==
    /\ window[s] = "recent"
    /\ window' = [t \in Stories |-> IF DateOf[t] <= DateOf[s] THEN "old" ELSE window[t]]
    /\ UNCHANGED <<fresh, items, refresher, newsFaults>>

TtlPasses(source) ==
    /\ source \in fresh /\ fresh' = fresh \ {source}
    /\ UNCHANGED <<window, items, refresher, newsFaults>>

-----------------------------------------------------------------------------
Refresh(r) ==
    /\ refresher[r].pc = "idle"
    /\ refresher' = [refresher EXCEPT ![r] = [pc |-> "fetch", todo |-> Sources, raw |-> {}]]
    /\ UNCHANGED <<window, fresh, items, newsFaults>>

NextSource(r, raw) ==
    refresher' = [refresher EXCEPT ![r].todo = Tail(@), ![r].raw = @ \cup raw]

\* record_fetch: the status is dated before the articles are persisted.
MarkFetched(source) == fresh' = fresh \cup {source}

Recent(source) == {s \in Stories : SourceOf[s] = source /\ window[s] = "recent"}

\* One source: its last attempt is fresh, whatever came of it; or it answers; or it
\* raises NewsSourceError, and the error is as fresh as an answer.
FetchSource(r) ==
    /\ refresher[r].pc = "fetch" /\ refresher[r].todo # <<>>
    /\ LET source == Head(refresher[r].todo) IN
          \/ source \in fresh /\ NextSource(r, {}) /\ UNCHANGED <<fresh, newsFaults>>
          \/ /\ source \notin fresh
             /\ NextSource(r, Recent(source)) /\ MarkFetched(source) /\ UNCHANGED newsFaults
          \/ /\ source \notin fresh /\ NewsFault
             /\ NextSource(r, {}) /\ MarkFetched(source)
    /\ UNCHANGED <<window, items>>

\* normalize_news: of what is complete the newest, at most Limit of them.
Normalized(raw) ==
    LET stories == raw \cap Complete IN
    {cut \in SUBSET stories :
        /\ Cardinality(cut) = Limit \/ (Cardinality(cut) < Limit /\ cut = stories)
        /\ \A s \in cut, t \in stories \ cut : DateOf[s] >= DateOf[t]}

\* Mutant of Batches: whatever has a near duplicate is left out.
BatchesWithoutTwins(cut) == {{s \in cut : cut \cap TwinOf[s] = {}}}

\* The stories of a fetch, the newest first, without near duplicates of earlier ones.
Batches(cut) ==
    {b \in SUBSET cut :
        /\ \A s \in b : b \cap TwinOf[s] = {}
        /\ \A s \in cut \ b : \E t \in b \cap TwinOf[s] : DateOf[t] >= DateOf[s]}

\* _item_id: a story is the item that has its canonical URL, from whatever
\* provider, or a new item.
New(batch) ==
    {b \in SUBSET {s \in batch : \A i \in items : UrlOf[i] # UrlOf[s]} :
        /\ \A s, t \in b : UrlOf[s] = UrlOf[t] => s = t
        /\ \A s \in batch : \E t \in b \cup items : UrlOf[s] = UrlOf[t]}

\* normalize_news, the near-duplicate filter and persist_evidence: one transaction
\* with what is left of everything that was fetched for the ticker.
PersistEvidence(r) ==
    /\ refresher[r].pc = "fetch" /\ refresher[r].todo = <<>>
    /\ \E cut \in Normalized(refresher[r].raw) : \E batch \in Batches(cut) :
          \E new \in New(batch) : items' = items \cup new
    /\ refresher' = [refresher EXCEPT ![r] = Waiting]
    /\ UNCHANGED <<window, fresh, newsFaults>>

\* Any other exception, or the end of the process: what was fetched is lost.
RefreshDies(r) ==
    /\ refresher[r].pc = "fetch" /\ NewsFault
    /\ refresher' = [refresher EXCEPT ![r] = Waiting]
    /\ UNCHANGED <<window, fresh, items>>

NewsWork(r) == Refresh(r) \/ FetchSource(r) \/ PersistEvidence(r)

NewsNext ==
    \/ \E s \in Stories : Appear(s) \/ Age(s)
    \/ \E i \in DOMAIN Sources : TtlPasses(Sources[i])
    \/ \E r \in Refreshers : NewsWork(r) \/ RefreshDies(r)

\* Cycles go on, refreshers work and the TTL passes; the sources fail a bounded
\* number of times.
NewsFairness ==
    /\ \A r \in Refreshers : WF_newsVars(NewsWork(r))
    /\ \A i \in DOMAIN Sources : WF_newsVars(TtlPasses(Sources[i]))

NewsSpec == NewsInit /\ [][NewsNext]_newsVars /\ NewsFairness
-----------------------------------------------------------------------------
Kept(s) == \E i \in items : \E t \in TwinOf[s] \cup {s} : UrlOf[i] = UrlOf[t]

\* As many others as are stored of a fetch were published no earlier.
Crowded(s) ==
    Cardinality({t \in Complete \ {s} : window[t] = "recent" /\ DateOf[t] >= DateOf[s]}) >= Limit

\* The fetch is recorded as done before its articles are stored, and a failed fetch
\* counts as a fresh one; still every complete story, or one that says nearly the same, is
\* stored in the end, unless it leaves the lookback window before, or newer stories of a
\* busy ticker fill the fetch.
EveryStoryIsKept ==
    \A s \in Complete : window[s] = "recent" ~> (Kept(s) \/ window[s] = "old" \/ Crowded(s))
=============================================================================
