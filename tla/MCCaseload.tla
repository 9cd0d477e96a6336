------------------------------ MODULE MCCaseload ------------------------------
(***************************************************************************)
(* Two instances of EvaluationWorkflow in one run: "team", two people and  *)
(* two cases without deadlines; "window", one person, one case, two        *)
(* periods and a calendar.  The two together are out of TLC's reach.       *)
(***************************************************************************)
EXTENDS MCEvaluationWorkflow

CONSTANT r2

VARIABLE part

CaseloadInit ==
    /\ Init
    /\ part \in {"team", "window"}
    /\ part = "window" => ~staff[q].is_manager

CaseloadNext ==
    /\ Next
    /\ part = "team" => UNCHANGED <<today, periods>> /\ \A r \in Records : rec'[r].extended_until = None
    /\ part = "window" => staff'[q] = staff[q] /\ rec'[r2] = rec[r2]
    /\ UNCHANGED part

CaseloadSpec == CaseloadInit /\ [][CaseloadNext]_<<vars, part>>
=============================================================================
