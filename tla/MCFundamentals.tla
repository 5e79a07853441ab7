--------------------------- MODULE MCFundamentals ---------------------------
(* Instances of Fundamentals for TLC: a company that changes the tag of its   *)
(* revenue, with restated figures, a report with two durations of one end,    *)
(* and a form that is not periodic.  A year is two quarters here.             *)
EXTENDS Fundamentals

Revenue(tag, start, end, fp) == [metric |-> "revenue", tag |-> tag, start |-> start, end |-> end, fp |-> fp]
Equity(end, fp) == [metric |-> "equity", tag |-> "Equity", start |-> NoStart, end |-> end, fp |-> fp]

TagsOf == [revenue |-> <<"Contracts", "Revenues">>, equity |-> <<"Equity">>]

FiledReports ==
    [old |-> [form |-> "10-Q", date |-> 0,
              entries |-> <<Revenue("Revenues", -1, 0, "Q2"), Equity(0, "Q2")>>],
     event |-> [form |-> "8-K", date |-> 1, entries |-> <<Revenue("Contracts", 0, 1, "Q1")>>],
     annual |-> [form |-> "10-K", date |-> 1, entries |-> <<Revenue("Revenues", -1, 1, "FY")>>],
     new |-> [form |-> "10-Q", date |-> 2,
              entries |-> <<Revenue("Contracts", 1, 2, "Q2"), Revenue("Contracts", 0, 2, "Q2"),
                            Revenue("Contracts", -1, 0, "Q2"), Equity(0, "Q2")>>]]
=============================================================================
