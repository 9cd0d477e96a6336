---------------------------- MODULE Questionnaire ----------------------------
(***************************************************************************)
(* Which questions are asked.  HR edits the indicators; each change of the *)
(* active set publishes a new framework, a list of members that does not   *)
(* change any more.  A case is stamped with a framework when it is opened  *)
(* and scored by it; cases nobody has written in move to each new          *)
(* framework.  The employee answers the questions of one framework, once   *)
(* per contract.  One employee: others only add scores that protect an     *)
(* indicator from deletion, as this one's earlier cases do.                *)
(*                                                                         *)
(* A publication reads which cases are untouched and commits later;        *)
(* everything else is one step.                                            *)
(***************************************************************************)
EXTENDS Naturals, Sequences

CONSTANTS
    Indicators, Cases,
    Contracts,      \* start dates of the employee's contracts, the key of a self-assessment
    MaxVersions,    \* bound: frameworks published
    Idle

ASSUME QuestionnaireAssumption ==
    /\ MaxVersions \in Nat \ {0} /\ Contracts # {}

VARIABLES
    indicator,      \* "unused", "active", "inactive" or "deleted"
    frameworks,     \* member_ids of version 1, 2, ...
    publication,    \* the change being published, before its commit
    case,           \* the employee's cases
    contract,       \* the contract the employee is under
    assessment      \* contract_self_assessments, by contract

questionnaire_vars == <<indicator, frameworks, publication, case, contract, assessment>>

no_case == [status |-> "none", framework |-> 0, contract |-> CHOOSE k \in Contracts : TRUE, scores |-> {}]
no_assessment == [state |-> "none", framework |-> 0, answers |-> {}]

active_in(state) == {i \in Indicators : state[i] = "active"}
existing == {i \in Indicators : indicator[i] \in {"active", "inactive"}}

QuestionnaireInit ==
    /\ indicator \in {f \in [Indicators -> {"unused", "active"}] : active_in(f) # {}}
    /\ frameworks = <<active_in(indicator)>>
    /\ publication = Idle
    /\ case = [c \in Cases |-> no_case]
    /\ contract \in Contracts
    /\ assessment = [k \in Contracts |-> no_assessment]
-----------------------------------------------------------------------------
current_framework == Len(frameworks)
open_statuses == {"draft", "submitted"}

\* The questions a case is scored on: the members of its framework that still have a row.
indicators_for_record(c) == frameworks[case[c].framework] \cap existing

is_untouched(c) == case[c].scores = {} /\ assessment[case[c].contract].state = "none"

scored(i) == \E c \in Cases : i \in case[c].scores
answered(i) == \E k \in Contracts : i \in assessment[k].answers

\* A change of the active set is flushed, the next version made, and the untouched open cases
\* read.  The version number is unique: of two publications at once the later one fails.
publish(state) ==
    /\ publication = Idle /\ Len(frameworks) < MaxVersions
    /\ publication' = [indicator |-> state,
                       moves |-> {c \in Cases : case[c].status \in open_statuses /\ is_untouched(c)}]
    /\ UNCHANGED <<indicator, frameworks, case, contract, assessment>>

create_indicator(i) == indicator[i] = "unused" /\ publish([indicator EXCEPT ![i] = "active"])

update_indicator(i) ==
    \/ indicator[i] = "active" /\ publish([indicator EXCEPT ![i] = "inactive"])
    \/ indicator[i] = "inactive" /\ publish([indicator EXCEPT ![i] = "active"])

replace_indicator(old, new) ==
    /\ indicator[old] = "active" /\ indicator[new] = "unused"
    /\ publish([indicator EXCEPT ![old] = "inactive", ![new] = "active"])

\* The count of scores refuses the deletion; an employee's answer does so by its foreign key.
delete_indicator(i) ==
    /\ i \in existing /\ ~scored(i) /\ ~answered(i)
    /\ publish([indicator EXCEPT ![i] = "deleted"])

\* Rows of an indicator being deleted cannot be added: the foreign key waits, then fails.
being_deleted ==
    IF publication = Idle THEN {} ELSE {i \in existing : publication.indicator[i] = "deleted"}

\* The untouched cases read before are moved; another request may have touched them meanwhile.
commit_publication ==
    /\ publication # Idle
    /\ indicator' = publication.indicator
    /\ frameworks' = Append(frameworks, active_in(publication.indicator))
    /\ case' = [c \in Cases |-> IF c \in publication.moves
                                THEN [case[c] EXCEPT !.framework = Len(frameworks) + 1] ELSE case[c]]
    /\ publication' = Idle
    /\ UNCHANGED <<contract, assessment>>

publication_fails ==
    /\ publication # Idle
    /\ publication' = Idle
    /\ UNCHANGED <<indicator, frameworks, case, contract, assessment>>
-----------------------------------------------------------------------------
\* One open case per person; the framework is that of the self-assessment of the contract if
\* there is one, submitted or not, else the current one.
create_evaluation(c) ==
    /\ case[c].status = "none" /\ \A d \in Cases : case[d].status \notin open_statuses
    /\ case' = [case EXCEPT ![c] =
          [status |-> "draft", contract |-> contract, scores |-> {},
           framework |-> IF assessment[contract].state # "none"
                         THEN assessment[contract].framework ELSE current_framework]]
    /\ UNCHANGED <<indicator, frameworks, publication, contract, assessment>>

\* The scores of the form replace those there were.
replace_scores(c, scores) ==
    /\ case[c].status = "draft"
    /\ scores \subseteq indicators_for_record(c) \ being_deleted
    /\ case' = [case EXCEPT ![c].scores = scores]
    /\ UNCHANGED <<indicator, frameworks, publication, contract, assessment>>

\* Mutant: complete is what answers the questions of today.
is_complete_today(c) == case[c].scores = active_in(indicator)

is_complete(c) == case[c].scores = indicators_for_record(c)

finalize_scoring(c) ==
    /\ case[c].status = "draft" /\ is_complete(c)
    /\ case' = [case EXCEPT ![c].status = "submitted"]
    /\ UNCHANGED <<indicator, frameworks, publication, contract, assessment>>

\* The rest of the chain: the case is returned, finalized or cancelled.
decide(c) ==
    /\ \/ case[c].status = "submitted" /\ \E s \in {"draft", "ended"} : case' = [case EXCEPT ![c].status = s]
       \/ case[c].status = "draft" /\ case' = [case EXCEPT ![c].status = "ended"]
    /\ UNCHANGED <<indicator, frameworks, publication, contract, assessment>>
-----------------------------------------------------------------------------
\* There is one row per contract, and who comes second finds it.
open_form(version) ==
    /\ assessment[contract].state = "none"
    /\ assessment' = [assessment EXCEPT ![contract] = [@ EXCEPT !.state = "opened", !.framework = version]]
    /\ UNCHANGED <<indicator, frameworks, publication, case, contract>>

\* HR invites, or reminds of an invitation: the second time nothing changes here.
invite_to_self_assessment == open_form(current_framework)

\* The employee opens the form; an old tab opens it with the framework of a case.
ensure_current_assessment ==
    \/ open_form(current_framework)
    \/ \E c \in Cases : case[c].status # "none" /\ open_form(case[c].framework)

\* Mutant: the framework is the one of the day the form was opened.
pinned_when_opened ==
    IF assessment[contract].state = "none" THEN current_framework ELSE assessment[contract].framework

\* "Pin the version at submission".
pinned == current_framework

\* Every question of the current framework is answered, once per contract.
submit_self_assessment ==
    /\ assessment[contract].state # "submitted"
    /\ frameworks[current_framework] # {} /\ frameworks[current_framework] \cap being_deleted = {}
    /\ assessment' = [assessment EXCEPT ![contract] =
          [state |-> "submitted", framework |-> pinned, answers |-> frameworks[current_framework]]]
    /\ UNCHANGED <<indicator, frameworks, publication, case, contract>>

\* HR edits the dates of the contract; those of an open case stay.
update_contract(k) ==
    /\ k # contract
    /\ contract' = k
    /\ UNCHANGED <<indicator, frameworks, publication, case, assessment>>

QuestionnaireNext ==
    \/ \E i \in Indicators : create_indicator(i) \/ update_indicator(i) \/ delete_indicator(i)
    \/ \E old, new \in Indicators : replace_indicator(old, new)
    \/ commit_publication \/ publication_fails
    \/ \E c \in Cases : create_evaluation(c) \/ finalize_scoring(c) \/ decide(c)
    \/ \E c \in Cases, scores \in SUBSET Indicators : replace_scores(c, scores)
    \/ invite_to_self_assessment \/ ensure_current_assessment \/ submit_self_assessment
    \/ \E k \in Contracts : update_contract(k)

\* An evaluator who fills in the whole form again and again, and then hands it in; a request
\* that publishes ends one way or the other.
QuestionnaireFairness ==
    /\ WF_questionnaire_vars(commit_publication \/ publication_fails)
    /\ \A c \in Cases : /\ SF_questionnaire_vars(replace_scores(c, indicators_for_record(c)))
                        /\ SF_questionnaire_vars(finalize_scoring(c))

QuestionnaireSpec == QuestionnaireInit /\ [][QuestionnaireNext]_questionnaire_vars /\ QuestionnaireFairness
-----------------------------------------------------------------------------
\* A submitted self-assessment answers every question of the framework it names, and goes on
\* doing so, whatever HR changes and whenever the form was opened or its invitation repeated.
AnswersAreWhole ==
    \A k \in Contracts : assessment[k].state = "submitted" =>
        assessment[k].answers = frameworks[assessment[k].framework]

\* "Otherwise a form that asks the question but ... is a dead end" (indicators_for_record): who
\* keeps filling in the form gets his case out of draft, however the indicators change.
NoDeadEnd == \A c \in Cases : case[c].status = "draft" ~> case[c].status # "draft"

\* The employee answered "twenty questions", HR "put one aside", "the case went to the new
\* version, and the evaluator scored nineteen": _is_untouched is there so that no case is moved
\* to a framework without a question that its employee has answered.
MovedCasesKeepAnswers ==
    [][\A c \in Cases :
          case[c].status \in open_statuses /\ case'[c].framework # case[c].framework
            => assessment[case[c].contract].answers \subseteq frameworks'[case'[c].framework]]_questionnaire_vars
=============================================================================
