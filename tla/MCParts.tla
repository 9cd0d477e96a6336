------------------------------- MODULE MCParts -------------------------------
(***************************************************************************)
(* Six components that share no variable in one run: every interleaving   *)
(* of them looks to each of them like a run of its own.  "part" says which *)
(* one is running; the others rest in one of their initial states, the     *)
(* races after all of their requests.  Directory has two parts, which meet *)
(* in the personnel only: "imports", with the accounts, and "units".       *)
(***************************************************************************)
EXTENDS Questionnaire, Scoring, SchemeVersions, ImprovementPlans, Directory, RecordRaces, TLC

CONSTANTS
    g1, g2, s1,                      \* questions
    u1, u2,                          \* users of plans
    p1, p2, p3, d1, d2, d3, d4,      \* personnel codes; evaluators
    r1, r2, r3, r4, r5, r6, r7       \* requests

VARIABLE part

\* Equal weights and a bonus of 3 points at most; unequal ones, 5 points, two bands; sections
\* weighing 0.3335 and 0.6665.
MCSchemes ==
    {[general |-> 600, specialized |-> 400, weight |-> [q \in Questions |-> 1],
      bonus_max |-> 300, uppers |-> <<600, 800, 1001>>],
     [general |-> 800, specialized |-> 200, weight |-> g1 :> 3 @@ g2 :> 1 @@ s1 :> 2,
      bonus_max |-> 500, uppers |-> <<500, 1001>>],
     [general |-> 334, specialized |-> 667, weight |-> [q \in Questions |-> 1],
      bonus_max |-> 500, uppers |-> <<500, 1001>>]}

\* A clerk of HR; somebody who may be promoted, demoted and switched off.
MCRolesOf == u1 :> {"hr"} @@ u2 :> {"hr", "unit_supervisor", "employee", "inactive"}

evaluator(role, name) == [role |-> role, active |-> TRUE, full_name |-> name]

\* Two deputies have the same name; a file may give the chief executive's to a person.
MCProfiles ==
    d1 :> evaluator("unit_supervisor", "first") @@ d2 :> evaluator("deputy", "second")
    @@ d3 :> evaluator("ceo", "boss") @@ d4 :> evaluator("deputy", "second")

\* The first deputy may be demoted, the chief executive switched off.
MCProfilesOf ==
    d1 :> {} @@ d2 :> {MCProfiles[d2], evaluator("unit_supervisor", "second")}
    @@ d3 :> {[MCProfiles[d3] EXCEPT !.active = FALSE]} @@ d4 :> {}

line(code, username, is_manager, supervisor, deputy, ceo) ==
    [code |-> code, full_name |-> code, username |-> username, sound |-> TRUE,
     unit |-> IF is_manager THEN "hall" ELSE "shop", is_manager |-> is_manager,
     unit_supervisor |-> supervisor, deputy |-> deputy, ceo |-> ceo]

\* A user name twice; a seat held twice, an ambiguous name, one's own name; a row that shadows
\* another's user name; the account of one of the deputies, a person nobody knows.
MCFiles ==
    {<<line(p1, "ua", FALSE, d1, d2, None), line(p2, "ua", FALSE, d1, None, d3)>>,
     <<line(p1, "ub", TRUE, d2, d2, None), line(p1, None, FALSE, "first", "second", None),
       [line(p3, None, FALSE, None, d3, None) EXCEPT !.full_name = "boss"]>>,
     <<line(p2, None, FALSE, d3, None, d3), [line(p3, "ua", FALSE, "first", d4, None) EXCEPT !.sound = FALSE]>>,
     <<line(p3, "ub", FALSE, p3, None, None), line(p2, None, FALSE, None, d3, None)>>}

MCKind ==
    r1 :> "upsert_scores" @@ r2 :> "submit" @@ r3 :> "hr_approve" @@ r4 :> "ceo_finalize"
    @@ r5 :> "hr_return" @@ r6 :> "cancel" @@ r7 :> "depart"
-----------------------------------------------------------------------------
\* In "imports": at most one account is not as it was at the start.
one_account_edited == \A d, e \in Evaluators : d # e => profile[d] = InitialProfile[d] \/ profile[e] = InitialProfile[e]

\* In "units": the same person, in either of two units.
one_person == enrolled \subseteq {p1}

parts_vars == <<questionnaire_vars, scoring_vars, scheme_vars, plan_vars, directory_vars, race_vars>>

PartsInit ==
    /\ part \in {"questionnaire", "scoring", "schemes", "plans", "imports", "units", "races"}
    /\ QuestionnaireInit
    /\ part # "questionnaire" => indicator = [i \in Indicators |-> "active"] /\ contract = CHOOSE k \in Contracts : TRUE
    /\ ScoringInit
    /\ part # "scoring" => scores = [q \in Questions |-> 0] /\ scheme = CHOOSE s \in Schemes : TRUE
    /\ SchemeInit
    /\ PlanInit
    /\ part # "plans" => /\ result = [c \in PlanCases |-> CHOOSE p \in Percentages : TRUE]
                         /\ cap_of = [c \in PlanCases |-> Nobody] /\ active_cap = CHOOSE k \in Caps : TRUE
                         /\ role_of = [u \in PlanUsers |-> "hr"]
    /\ DirectoryInit
    /\ IF part = "races" THEN RaceInit
       ELSE /\ row = fresh /\ audit_log = <<>> /\ row_lock = None /\ chain_lock = None
            /\ pc = [r \in Requests |-> "done"]
            /\ seen = [r \in Requests |-> fresh] /\ tail = [r \in Requests |-> 0]

OthersThanQuestionnaire == UNCHANGED <<scoring_vars, scheme_vars, plan_vars, directory_vars, race_vars, part>>

PartsNext ==
    \/ part = "questionnaire" /\ QuestionnaireNext /\ OthersThanQuestionnaire
    \/ part = "scoring" /\ ScoringNext
       /\ UNCHANGED <<questionnaire_vars, scheme_vars, plan_vars, directory_vars, race_vars, part>>
    \/ part = "schemes" /\ SchemeNext
       /\ UNCHANGED <<questionnaire_vars, scoring_vars, plan_vars, directory_vars, race_vars, part>>
    \/ part = "plans" /\ PlanNext
       /\ UNCHANGED <<questionnaire_vars, scoring_vars, scheme_vars, directory_vars, race_vars, part>>
    \/ part = "imports" /\ DirectoryNext /\ UNCHANGED <<catalogue, unit_edit>> /\ one_account_edited'
       /\ UNCHANGED <<questionnaire_vars, scoring_vars, scheme_vars, plan_vars, race_vars, part>>
    \/ part = "units" /\ DirectoryNext /\ UNCHANGED <<profile, upload>> /\ one_person'
       /\ UNCHANGED <<questionnaire_vars, scoring_vars, scheme_vars, plan_vars, race_vars, part>>
    \/ part = "races" /\ RaceNext
       /\ UNCHANGED <<questionnaire_vars, scoring_vars, scheme_vars, plan_vars, directory_vars, part>>

\* QuestionnaireFairness.
PartsFairness ==
    /\ WF_parts_vars(part = "questionnaire" /\ (commit_publication \/ publication_fails) /\ OthersThanQuestionnaire)
    /\ \A c \in Cases :
          /\ SF_parts_vars(part = "questionnaire" /\ replace_scores(c, indicators_for_record(c)) /\ OthersThanQuestionnaire)
          /\ SF_parts_vars(part = "questionnaire" /\ finalize_scoring(c) /\ OthersThanQuestionnaire)

PartsSpec == PartsInit /\ [][PartsNext]_<<parts_vars, part>> /\ PartsFairness
=============================================================================
