------------------------------ MODULE MCRecords ------------------------------
(* What is kept beyond a trade, side by side: corporate actions over holdings *)
(* and the ledger, the chart history, the files of the database, what is      *)
(* deleted from it, and its schema.  A behaviour is one of one part, while    *)
(* the others rest, so the state space is the sum of theirs.                  *)
EXTENDS CorporateActions, ChartHistory, DatabaseFiles, Retention, SchemaUpgrade

VARIABLE part

vars == <<actionVars, chartVars, fileVars, retentionVars, upgradeVars, part>>

Init ==
    /\ ActionsInit /\ ChartInit /\ FileInit /\ RetentionInit /\ UpgradeInit
    /\ part \in {"actions", "chart", "files", "retention", "upgrade"}
    /\ part # "upgrade" => db = Fresh
    /\ part # "chart" => users = Accounts

Next ==
    \/ part = "actions" /\ ActionsNext
          /\ UNCHANGED <<chartVars, fileVars, retentionVars, upgradeVars, part>>
    \/ part = "chart" /\ ChartNext
          /\ UNCHANGED <<actionVars, fileVars, retentionVars, upgradeVars, part>>
    \/ part = "files" /\ FileNext
          /\ UNCHANGED <<actionVars, chartVars, retentionVars, upgradeVars, part>>
    \/ part = "retention" /\ RetentionNext
          /\ UNCHANGED <<actionVars, chartVars, fileVars, upgradeVars, part>>
    \/ part = "upgrade" /\ UpgradeNext
          /\ UNCHANGED <<actionVars, chartVars, fileVars, retentionVars, part>>

Spec == Init /\ [][Next]_vars
-----------------------------------------------------------------------------
\* The maintenance of the database loses nothing it promises to keep: what was restored
\* and what was replaced by it, and the evidence of every trade.
MaintenanceIsSafe == RestoreIsExact /\ EvidenceIsKept
=============================================================================
