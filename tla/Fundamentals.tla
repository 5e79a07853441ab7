---------------------------- MODULE Fundamentals ----------------------------
(***************************************************************************)
(* Point-in-time fundamentals of one company: what SEC EDGAR lists         *)
(* (adapters/edgar/companyfacts.py), the immutable store of curated facts  *)
(* (adapters/sqlite/fundamentals.py), and the summary a committee reads of *)
(* it (services/fundamentals.py).  The refresh runs inside a funnel cycle, *)
(* one at a time; its read of the freshness, the storing of the facts and  *)
(* the record of the fetch are transactions of their own.                  *)
(*                                                                         *)
(* Abstractions: a date is a number, a quarter of a year the unit of a     *)
(* period; the refresh of one ticker does not touch another's; the ratios  *)
(* of the summary are functions of the facts chosen here, and left out; an *)
(* entry of the payload that _normalize cannot parse is left out.          *)
(***************************************************************************)
EXTENDS Integers, Sequences, FiniteSetsExt

CONSTANTS Reports,             \* what the company may file, by name: its form, its date, its
                               \*   entries [metric, tag, start, end, fp]
          MetricTags,          \* the tags of each metric, in the order of preference
          DurationMetrics,     \* the metrics of a period; the others are of an instant
          NoStart,             \* the start of an instant
          QuarterlyMax,        \* the longest quarter
          Year, YoyWindow,     \* the distance of two comparable quarters, and its tolerance
          LastDay, MaxFundamentalFaults   \* bounds

AllowedForms == {"10-K", "10-Q", "10-K/A", "10-Q/A"}
Metrics == DOMAIN MetricTags
Days == 0..LastDay

\* Entries of other metrics and tags are never looked at.
KnownTag(e) == \E k \in DOMAIN MetricTags[e.metric] : e.tag = MetricTags[e.metric][k]
Entry == {e \in [metric : Metrics, tag : STRING, start : Int \cup {NoStart}, end : Int, fp : STRING] :
             KnownTag(e)}

ASSUME FundamentalsAssumption ==
    /\ MetricTags \in [Metrics -> Seq(STRING)] /\ DurationMetrics \subseteq Metrics
    /\ Reports \in [DOMAIN Reports -> [form : STRING, date : Int, entries : Seq(Entry)]]
    /\ {QuarterlyMax, Year, YoyWindow, LastDay, MaxFundamentalFaults} \subseteq Nat

VARIABLES today,
          listing,     \* the entries EDGAR lists, each with its form and filing date
          facts,       \* fundamental_facts; `tag' is not stored (history)
          fetch,       \* fundamental_fetch_status
          refresh,     \* the locals of refresh: its next step, and the payload as places in the listing
          covered,     \* the day of the payload stored last (history)
          faults       \* counter of the bound

fundamentalVars == <<today, listing, facts, fetch, refresh, covered, faults>>

NoRefresh == [at |-> "idle", payload |-> {}, failed |-> FALSE, day |-> 0]

FundamentalsInit ==
    /\ today = 0 /\ listing = <<>> /\ facts = {}
    /\ fetch = [status |-> "none", fresh |-> FALSE]
    /\ refresh = NoRefresh /\ covered = 0 /\ faults = 0
-----------------------------------------------------------------------------
(* EDGAR *)

Filed(e, r) == [metric |-> e.metric, tag |-> e.tag, start |-> e.start, end |-> e.end, fp |-> e.fp,
                report |-> r, form |-> Reports[r].form, filed |-> today]

\* A report is filed once, on any day from the end of its period on.
FileReport(r) ==
    /\ Reports[r].date <= today /\ \A i \in DOMAIN listing : listing[i].report # r
    /\ listing' = listing \o [i \in DOMAIN Reports[r].entries |-> Filed(Reports[r].entries[i], r)]
    /\ UNCHANGED <<today, facts, fetch, refresh, covered, faults>>

NextDay ==
    /\ today < LastDay /\ today' = today + 1
    /\ UNCHANGED <<listing, facts, fetch, refresh, covered, faults>>

\* fundamentals_fetch_ttl_minutes have passed.
FetchExpires ==
    /\ fetch.fresh /\ fetch' = [fetch EXCEPT !.fresh = FALSE]
    /\ UNCHANGED <<today, listing, facts, refresh, covered, faults>>
-----------------------------------------------------------------------------
(* companyfacts *)

\* Mutant of TagsListed: the tag that was listed last wins.
LatestTagListed(metric) ==
    LET PlacesOf(tag) == {i \in DOMAIN listing : listing[i].metric = metric /\ listing[i].tag = tag}
    IN  {k \in DOMAIN MetricTags[metric] :
            /\ PlacesOf(MetricTags[metric][k]) # {}
            /\ Max(PlacesOf(MetricTags[metric][k])) = Max({i \in DOMAIN listing : listing[i].metric = metric})}

TagsListed(metric) ==
    {k \in DOMAIN MetricTags[metric] :
        \E i \in DOMAIN listing : listing[i].metric = metric /\ listing[i].tag = MetricTags[metric][k]}

\* fetch_company_facts: of each metric the entries of the first tag with any, those
\* of periodic reports.
Curated ==
    {i \in DOMAIN listing :
        LET e == listing[i]
        IN  e.tag = MetricTags[e.metric][Min(TagsListed(e.metric))] /\ e.form \in AllowedForms}

\* The rows that INSERT OR IGNORE adds: of a key the first, unless it is stored.
SameKey(f, g) == f.metric = g.metric /\ f.end = g.end /\ f.filed = g.filed
Stored(e) == \E f \in facts : SameKey(f, e)
Inserted(payload) ==
    {listing[i] : i \in {j \in payload :
        /\ ~Stored(listing[j])
        /\ \A k \in payload : k < j => ~SameKey(listing[k], listing[j])}}
-----------------------------------------------------------------------------
(* refresh *)

Refreshes(r) == refresh' = r /\ UNCHANGED <<today, listing>>

\* Not fresh: the request is made.  A ticker without a CIK has an empty payload.
FetchFacts ==
    /\ refresh.at = "idle" /\ ~fetch.fresh
    /\ \E payload \in {Curated, {}} :
          Refreshes([at |-> IF payload = {} THEN "record" ELSE "store", payload |-> payload,
                     failed |-> FALSE, day |-> today])
    /\ UNCHANGED <<facts, fetch, covered, faults>>

\* EdgarSourceError.
FactsFetchFails ==
    /\ refresh.at = "idle" /\ ~fetch.fresh
    /\ faults < MaxFundamentalFaults /\ faults' = faults + 1
    /\ Refreshes([at |-> "record", payload |-> {}, failed |-> TRUE, day |-> today])
    /\ UNCHANGED <<facts, fetch, covered>>

PersistFacts ==
    /\ refresh.at = "store"
    /\ facts' = facts \cup Inserted(refresh.payload) /\ covered' = refresh.day
    /\ Refreshes([refresh EXCEPT !.at = "record"])
    /\ UNCHANGED <<fetch, faults>>

\* A failed fetch is as fresh as any other.
RecordFetch ==
    /\ refresh.at = "record"
    /\ fetch' = [status |-> IF refresh.failed THEN "failed"
                            ELSE IF refresh.payload = {} THEN "empty" ELSE "ok",
                 fresh |-> TRUE]
    /\ Refreshes(NoRefresh)
    /\ UNCHANGED <<facts, covered, faults>>

\* A kill, or an exception that ends the refresh of this cycle.
FactsRefreshDies ==
    /\ refresh.at # "idle"
    /\ faults < MaxFundamentalFaults /\ faults' = faults + 1
    /\ Refreshes(NoRefresh)
    /\ UNCHANGED <<facts, fetch, covered>>

FundamentalsNext ==
    \/ \E r \in DOMAIN Reports : FileReport(r)
    \/ NextDay \/ FetchExpires
    \/ FetchFacts \/ FactsFetchFails \/ PersistFacts \/ RecordFetch \/ FactsRefreshDies
-----------------------------------------------------------------------------
(* snapshot *)

\* Mutant of FiledBefore: whatever ended by then.
EndedBefore(stored, day) == {f \in stored : f.end <= day}

FiledBefore(stored, day) == {f \in stored : f.filed <= day}

IsPeriodFact(f, annual) ==
    /\ f.metric \in DurationMetrics /\ f.start # NoStart
    /\ IF annual THEN f.fp = "FY"
       ELSE f.fp \in {"Q1", "Q2", "Q3", "Q4"} /\ f.end - f.start <= QuarterlyMax

\* Of the facts of one period, the one filed first of each metric.
FiledFirst(S) == {f \in S : \A g \in S : g.metric = f.metric => f.filed <= g.filed}

\* The newest period of a set of facts of periods, and nothing if there is none.
Newest(S) == {f \in S : \A g \in S : g.end <= f.end}
LatestPeriod(F, annual) == FiledFirst(Newest({f \in F : IsPeriodFact(f, annual)}))

LatestFact(F, metric) ==
    LET newest == Newest({f \in F : f.metric = metric})
    IN  {f \in newest : \A g \in newest : g.filed <= f.filed}

\* What the growth of a metric compares its newest quarter with.
YoyBase(F, metric) ==
    LET quarterly == LatestPeriod(F, FALSE)
        Comparable(f) == \E q \in quarterly :
            /\ q.metric = metric /\ f.metric = metric /\ IsPeriodFact(f, FALSE)
            /\ Year - YoyWindow <= q.end - f.end /\ q.end - f.end <= Year + YoyWindow
    IN  FiledFirst(Newest({f \in F : Comparable(f)}))

\* The facts a summary is computed from.
Summarize(F) ==
    [annual |-> LatestPeriod(F, TRUE), quarterly |-> LatestPeriod(F, FALSE),
     instants |-> UNION {LatestFact(F, m) : m \in Metrics \ DurationMetrics},
     yoyBases |-> UNION {YoyBase(F, m) : m \in DurationMetrics}]

Snapshot(stored, day) == Summarize(FiledBefore(stored, day))
-----------------------------------------------------------------------------
(* Properties *)

\* "No future information leaks into a decision": once a later day's facts are stored,
\* what a committee reads of a day never changes, whatever the company files, restates
\* or tags anew, and whatever refresh fails or dies.
SnapshotsSettle ==
    \A d \in Days : d < covered => Snapshot(facts, d)' = Snapshot(facts, d)

\* What SnapshotsSettle rests on.
ListedEntry == [metric : Metrics, tag : STRING, start : Int \cup {NoStart}, end : Int, fp : STRING,
                report : DOMAIN Reports, form : STRING, filed : 0..today]

ListingTypeOK ==
    /\ today \in Days /\ covered \in 0..today
    /\ listing \in Seq(ListedEntry) /\ \A i \in DOMAIN listing : KnownTag(listing[i])
    /\ refresh \in [at : {"idle", "store", "record"}, payload : SUBSET DOMAIN listing,
                     failed : BOOLEAN, day : 0..today]

\* Of what the listing says of the days before a day, every key is stored.  A tag that
\* becomes the preferred one hides what was listed, and brings nothing that is older.
StoredBefore(places, day) == \A i \in places : listing[i].filed < day => Stored(listing[i])

\* What was listed before the day of the payload, and still counts, is in it; and of it
\* nothing is new that is older than what was covered.
PayloadIsWhole ==
    refresh.at = "store" =>
        /\ covered <= refresh.day
        /\ \A i \in Curated : listing[i].filed < refresh.day => i \in refresh.payload
        /\ StoredBefore(refresh.payload, covered)

\* The inductive invariant.
FundamentalsInv == ListingTypeOK /\ PayloadIsWhole /\ StoredBefore(Curated, covered)

\* companyfacts.py:26: "one metric never mixes differing accounting standards across
\* periods": the growth of a metric compares two figures of one tag.
GrowthIsOfOneTag ==
    \A d \in Days :
        LET s == Snapshot(facts, d)
        IN  \A q \in s.quarterly, b \in s.yoyBases : q.metric = b.metric => q.tag = b.tag

FundamentalsSpec == FundamentalsInit /\ [][FundamentalsNext]_fundamentalVars
=============================================================================
