----------------------------- MODULE MCEvidence -----------------------------
(* The parts of the evidence pipeline side by side: a behaviour is one of one *)
(* part, while the others rest, so the state space is the sum of theirs.      *)
EXTENDS FilingBriefs, EdgarThrottle, NewsResearch, EvidenceText, Fundamentals

VARIABLE part

vars == <<filingVars, throttleVars, newsVars, text, fundamentalVars, part>>

SortedTickers == <<"AAA", "BBB">>
TickerOfDoc == [d \in Docs |-> IF d = "10-Q" THEN "AAA" ELSE "BBB"]
ContentOfDoc == [d \in Docs |-> IF d = "8-K/A" THEN NoContent ELSE "same text"]

TieredSources == <<"sec_edgar", "google_news">>
SourceOfStory == [filing |-> "sec_edgar", copy |-> "google_news", twin |-> "google_news",
                  bare |-> "google_news"]
UrlOfStory == [filing |-> "u1", copy |-> "u1", twin |-> "u2", bare |-> "no link"]
TwinOfStory == [filing |-> {"twin"}, copy |-> {}, twin |-> {"filing"}, bare |-> {}]
DateOfStory == [filing |-> 1, copy |-> 1, twin |-> 2, bare |-> 2]

ListsOfPoints == {<<>>, <<"p">>, <<"q", "q">>, <<"r", "q", "p">>}

\* A company that changes the tag of its revenue, with restated figures, a report
\* with two durations of one end, and a form that is not periodic.  A year is two
\* quarters here.
Revenue(tag, start, end, fp) == [metric |-> "revenue", tag |-> tag, start |-> start, end |-> end, fp |-> fp]
Equity(end, fp) == [metric |-> "equity", tag |-> "Equity", start |-> NoStart, end |-> end, fp |-> fp]

TagsOf == [revenue |-> <<"Contracts", "Revenues">>, equity |-> <<"Equity">>]

FiledReports ==
    [old |-> [form |-> "10-Q", date |-> 0,
              entries |-> <<Revenue("Revenues", -1, 0, "Q2"), Equity(0, "Q2")>>],
     event |-> [form |-> "8-K", date |-> 1, entries |-> <<Revenue("Contracts", 0, 1, "Q1")>>],
     annual |-> [form |-> "10-K", date |-> 1, entries |-> <<Revenue("Revenues", -1, 1, "FY")>>],
     new |-> [form |-> "10-Q", date |-> 2,
              entries |-> <<Revenue("Contracts", 1, 2, "Q2"), Revenue("Contracts", 0, 2, "Q2"),
                            Revenue("Contracts", -1, 0, "Q2"), Equity(0, "Q2")>>]]

Init ==
    /\ FilingInit /\ ThrottleInit /\ NewsInit /\ FundamentalsInit
    /\ \/ part \in {"filings", "throttle", "news", "fundamentals"} /\ text = [of |-> "none"]
       \/ part = "text" /\ TextInit
    /\ filed = IF part = "filings" THEN Old ELSE {}

Next ==
    \/ part = "filings" /\ FilingNext
                        /\ UNCHANGED <<throttleVars, newsVars, text, fundamentalVars, part>>
    \/ part = "throttle" /\ ThrottleNext
                         /\ UNCHANGED <<filingVars, newsVars, text, fundamentalVars, part>>
    \/ part = "news" /\ NewsNext
                     /\ UNCHANGED <<filingVars, throttleVars, text, fundamentalVars, part>>
    \/ part = "fundamentals" /\ FundamentalsNext
                             /\ UNCHANGED <<filingVars, throttleVars, newsVars, text, part>>

\* FilingFairness and NewsFairness, of the part that runs.
Fairness ==
    /\ WF_filingVars(part = "filings" /\ ServerWorks)
    /\ \A t \in Tickers : WF_filingVars(part = "filings" /\ Expire(t))
    /\ \A r \in Refreshers : WF_newsVars(part = "news" /\ NewsWork(r))
    /\ \A i \in DOMAIN Sources : WF_newsVars(part = "news" /\ TtlPasses(Sources[i]))

Spec == Init /\ [][Next]_vars /\ Fairness

\* What reaches a committee's prompt: headlines, chunks and merged briefs fit and say
\* what their sources say (EvidenceText), and what is read of the fundamentals of a day
\* that a later refresh covered never changes (Fundamentals).
EvidenceIsSound == []TextIsFit /\ [][SnapshotsSettle]_fundamentalVars
=============================================================================
