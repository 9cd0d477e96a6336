---------------------------- MODULE CaseLifecycle ----------------------------
(***************************************************************************)
(* What the evaluation workflow promises about a case, whoever sits in its *)
(* chain: a person has at most one live case; the outcome comes into being *)
(* when scoring ends, cannot change while the case is under review, is     *)
(* dropped only by sending the case back to its scorer, and is final once  *)
(* the case is closed; a closed or void case never moves again.            *)
(*                                                                         *)
(* Chains, accounts, deadlines and the individual review stages are absent *)
(* here: EvaluationWorkflow implements this module.                        *)
(***************************************************************************)
CONSTANTS Cases, People, Outcomes, None

VARIABLE case   \* [Cases -> a stage, the person evaluated, the outcome]

Stages == {"unopened", "scoring", "review", "closed", "void"}
Live == {"scoring", "review"}

Case == [stage : Stages, person : People \cup {None}, outcome : Outcomes \cup {None}]

Fresh(person) == [stage |-> "scoring", person |-> person, outcome |-> None]

HasLiveCase(person) == \E c \in Cases : case[c].stage \in Live /\ case[c].person = person

Init == case = [c \in Cases |-> [stage |-> "unopened", person |-> None, outcome |-> None]]

\* A batch of cases is opened for people who have none; a single case is a batch of one.
Open == \E batch \in SUBSET Cases : \E who \in [batch -> People] :
    /\ batch # {}
    /\ \A c \in batch : case[c].stage = "unopened" /\ ~HasLiveCase(who[c])
    /\ \A c, d \in batch : who[c] = who[d] => c = d
    /\ case' = [c \in Cases |-> IF c \in batch THEN Fresh(who[c]) ELSE case[c]]

\* Scoring ends with an outcome.
Decide(c) == \E outcome \in Outcomes :
    /\ case[c].stage = "scoring"
    /\ case' = [case EXCEPT ![c].stage = "review", ![c].outcome = outcome]

SendBack(c) ==
    /\ case[c].stage = "review"
    /\ case' = [case EXCEPT ![c].stage = "scoring", ![c].outcome = None]

Close(c) ==
    /\ case[c].stage = "review"
    /\ case' = [case EXCEPT ![c].stage = "closed"]

Cancel(c) ==
    /\ case[c].stage \in Live
    /\ case' = [case EXCEPT ![c].stage = "void", ![c].outcome = None]

Next ==
    \/ Open
    \/ \E c \in Cases : Decide(c) \/ SendBack(c) \/ Close(c) \/ Cancel(c)

Spec == Init /\ [][Next]_case
=============================================================================
