------------------------------- MODULE MCCase -------------------------------
(***************************************************************************)
(* Two instances for one case of one person in one run: "chains", every    *)
(* shape of chain with several sheets and bonuses, accounts as they are    *)
(* but for k, who works in HR; "churn", one sheet, accounts that change    *)
(* role, link and activity.                                                *)
(***************************************************************************)
EXTENDS MCEvaluationWorkflow

CONSTANT e1   \* the sheet of "churn"

VARIABLE part

CaseInit == Init /\ part \in {"chains", "churn"}

CaseNext ==
    /\ Next
    /\ part = "chains" =>
          /\ account' \in {account, [account EXCEPT ![k] = acc("hr", p)]}
          /\ staff'[p].access \in OfficeChains \cup {None}
    /\ part = "churn" =>
          /\ staff'[p].access \in ChurnChains \cup {None}
          /\ \A r \in Records : rec'[r].entries \in
                [sheet : {EmptySheet, e1}, bonus : {NoBonus}, comment : {None}]
    /\ UNCHANGED part

CaseSpec == CaseInit /\ [][CaseNext]_<<vars, part>>
=============================================================================
