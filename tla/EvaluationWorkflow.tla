------------------------- MODULE EvaluationWorkflow -------------------------
(***************************************************************************)
(* The life of an evaluation case: opening it over a person's access       *)
(* chain, scoring it inside the submission window, sending it through HR,  *)
(* deputy and CEO and back, and the administrative operations that touch   *)
(* it from the side: cancelling, claiming, handing over, reassigning,      *)
(* editing accounts, chains, personnel and periods.                        *)
(*                                                                         *)
(* One action is one request, executed serially.  The evaluation handlers  *)
(* take a row lock (SELECT ... FOR UPDATE) before they look at the record, *)
(* so their interleavings are serial ones; the handlers that take no lock  *)
(* are the subject of RecordRaces.                                         *)
(***************************************************************************)
EXTENDS ChainRules, FiniteSets

CONSTANTS
    Users, Personnel,
    Records, Periods,      \* row ids that may be inserted
    LastDay,               \* the calendar runs from day 0 to LastDay
    Sheets,                \* score sheets: the rows of evaluation_scores of one record
    EmptySheet,            \* no row at all
    CompleteSheets,        \* every indicator of the framework scored, evidence valid
    Bonuses, NoBonus,      \* special scores; NoBonus is 0
    Comments,              \* evaluator comments
    Chains,                \* access rows that HR may write
    AccountEdits,          \* per user, the accounts an administrator may give him
    InitialAccounts,
    Administrators         \* holders of manage_users and manage_personnel

Days == 0 .. LastDay
Account == [role : Roles \cup {None}, active : BOOLEAN, personnel : Personnel \cup {None}]
Chain == [unit_supervisor : Users \cup {None}, deputy : Users \cup {None}, ceo : Users]
Employee == [employed : BOOLEAN, is_manager : BOOLEAN, access : Chain \cup {None}]
Period == [status : {"unused", "open", "closed"}, ends_on : Days]
Entries == [sheet : Sheets, bonus : Bonuses, comment : Comments \cup {None}]
Results == [sheet : CompleteSheets, bonus : Bonuses]
Snapshot == [entries : Entries, result : Results, evaluator : Users, single_decider : BOOLEAN]
Stages == Seats \cup {"hr"}
Signature == [by : Users, on : Results \cup {None}]

Record ==
    [subject : Personnel \cup {None},
     unit_supervisor : Users \cup {None}, deputy : Users \cup {None}, ceo : Users \cup {None},
     hr : Users \cup {None},
     status : Statuses \cup {"absent"},
     period : Periods \cup {None},
     extended_until : Days \cup {None},
     entries : Entries,
     result : Results \cup {None},
     snapshot : Snapshot \cup {None}]

ASSUME NullAssumption ==
    /\ None \notin Users \cup Personnel \cup Periods \cup Days
    /\ None \notin Chain \cup Results \cup Signature \cup Snapshot \cup Roles

ASSUME InputAssumption ==
    /\ LastDay \in Nat
    /\ EmptySheet \in Sheets /\ CompleteSheets \subseteq Sheets /\ NoBonus \in Bonuses
    /\ Chains \subseteq Chain
    /\ AccountEdits \in [Users -> SUBSET Account]
    /\ InitialAccounts \in [Users -> Account]
    /\ Administrators \subseteq Users

VARIABLES
    account,   \* users: role (None: no such account), is_active, personnel_id
    staff,     \* personnel: status, is_manager, and the evaluation_access row
    today,     \* date.today()
    periods,   \* evaluation_periods
    rec,       \* evaluation_records with their scores
    signed     \* history, from the status_changed audit rows: per record and stage, the
               \* signature that no return has sent the case back across

vars == <<account, staff, today, periods, rec, signed>>

no_entries == [sheet |-> EmptySheet, bonus |-> NoBonus, comment |-> None]

blank_record ==
    [subject |-> None, unit_supervisor |-> None, deputy |-> None, ceo |-> None, hr |-> None,
     status |-> "absent", period |-> None, extended_until |-> None,
     entries |-> no_entries, result |-> None, snapshot |-> None]

unsigned == [stage \in Stages |-> None]

Init ==
    /\ account = InitialAccounts
    /\ staff \in [Personnel -> [employed : {TRUE}, is_manager : BOOLEAN, access : {None}]]
    /\ today = 0
    /\ periods = [q \in Periods |-> [status |-> "unused", ends_on |-> 0]]
    /\ rec = [r \in Records |-> blank_record]
    /\ signed = [r \in Records |-> unsigned]
-----------------------------------------------------------------------------
(* Who is asking.  Every endpoint resolves the token to an active account. *)

authenticated(u) == account[u].role # None /\ account[u].active
is_hr(u) == authenticated(u) /\ account[u].role = "hr"
manages_personnel(u) == is_hr(u) \/ (authenticated(u) /\ u \in Administrators)
manages_users(u) == authenticated(u) /\ u \in Administrators

is_open(case) == case.status \in OPEN_STATUSES

\* Mutant: only drafts count as open cases.
has_open_record_in_draft(p) == \E r \in Records : rec[r].subject = p /\ rec[r].status = "draft"

has_open_record(p) == \E r \in Records : rec[r].subject = p /\ is_open(rec[r])

is_subject(u, case) == account[u].personnel # None /\ account[u].personnel = case.subject
ensure_not_deciding_about_oneself(u, case) == ~is_subject(u, case)
evaluators_are_not_the_subject(chain, p) == \A u \in evaluators(chain) : account[u].personnel # p

inactive_seats(chain) == {u \in evaluators(chain) : ~account[u].active}
-----------------------------------------------------------------------------
(* The submission window of a record: the end of its period, or an         *)
(* extension that is later.  A record without either is unlimited.         *)

\* Mutant: a closed period has no end.
period_end_while_open(case) ==
    IF case.period = None \/ periods[case.period].status # "open"
    THEN None ELSE periods[case.period].ends_on

period_end(case) ==
    IF case.period = None \/ periods[case.period].status = "unused"
    THEN None ELSE periods[case.period].ends_on

closes_on(case) ==
    LET extension == case.extended_until
    IN  IF extension # None /\ (period_end(case) = None \/ extension > period_end(case))
        THEN extension ELSE period_end(case)

window_open(case) == closes_on(case) # None => today <= closes_on(case)
-----------------------------------------------------------------------------
(* The transition engine: ensure_transition_allowed and apply_transition.  *)

ensure_transition_allowed(u, case, action) ==
    LET t == TRANSITIONS[action]
    IN  /\ case.status \in t.from_statuses
        /\ may_act_at(account[u].role, t.allowed_role)
        /\ guard(action, case)
        /\ t.assignee_field # None =>
             \/ case[t.assignee_field] = u
             \/ t.claimable_if_unassigned /\ case[t.assignee_field] = None

has_result(case) == case.result # None /\ case.entries.sheet # EmptySheet

\* The record after the step: its new status, and the owner of a claimed HR stage.
moved(u, case, action) ==
    [case EXCEPT
        !.status = TRANSITIONS[action].to_status,
        !.hr = IF TRANSITIONS[action].claimable_if_unassigned /\ @ = None THEN u ELSE @]

\* A forward step signs its stage; a return voids the signature that had brought the
\* case where it was sent back from.
signs(case, action) ==
    CASE action \in {"submit", "manager_submit", "direct_ceo_submit"} -> scorer_seat(case)
      [] action \in {"hr_approve", "hr_finalize_direct_ceo", "hr_approve_manager"} -> "hr"
      [] action = "deputy_approve" -> "deputy"
      [] action = "ceo_finalize" -> "ceo"
      [] OTHER -> None

voids(case, action) ==
    CASE action = "hr_return" -> scorer_seat(case)
      [] action \in {"deputy_return", "ceo_return_manager"} -> "hr"
      [] action = "ceo_return" -> "deputy"
      [] OTHER -> None

countersigned(signatures, u, case, action) ==
    [stage \in Stages |->
        IF stage = signs(case, action) THEN [by |-> u, on |-> case.result]
        ELSE IF stage = voids(case, action) THEN None ELSE signatures[stage]]

\* "case" is the record r as the handler's "before" callback leaves it.
apply_transition(u, r, action, case) ==
    /\ ensure_transition_allowed(u, rec[r], action)
    /\ TRANSITIONS[action].to_status = "finalized" => has_result(rec[r])
    /\ rec' = [rec EXCEPT ![r] = moved(u, case, action)]
    /\ signed' = [signed EXCEPT ![r] = countersigned(signed[r], u, case, action)]
-----------------------------------------------------------------------------
(* Opening a case.                                                         *)

\* The chain a record copies: a manager has no unit supervisor.
record_chain(p) ==
    LET access == staff[p].access
    IN  IF staff[p].is_manager THEN [access EXCEPT !.unit_supervisor = None] ELSE access

ready_to_open(p) ==
    /\ staff[p].employed
    /\ staff[p].access # None
    /\ inactive_seats(staff[p].access) = {}
    /\ staff[p].access.unit_supervisor = None => staff[p].is_manager \/ is_direct_ceo_path(staff[p].access)
    /\ ~has_open_record(p)

open_periods == {q \in Periods : periods[q].status = "open"}
active_period == IF open_periods = {} THEN None ELSE CHOOSE q \in open_periods : TRUE

new_record(p) ==
    LET chain == record_chain(p)
    IN  [subject |-> p,
         unit_supervisor |-> chain.unit_supervisor, deputy |-> chain.deputy, ceo |-> chain.ceo,
         hr |-> None, status |-> "draft", period |-> active_period, extended_until |-> None,
         entries |-> no_entries, result |-> None, snapshot |-> None]

create_evaluation(u, p, r) ==
    /\ authenticated(u)
    /\ ready_to_open(p)
    /\ LET seat == scorer_seat(record_chain(p))
       IN  record_chain(p)[seat] = u /\ may_act_at(account[u].role, seat)
    /\ rec[r].status = "absent"
    /\ rec' = [rec EXCEPT ![r] = new_record(p)]
    /\ UNCHANGED <<account, staff, today, periods, signed>>

\* HR opens a case for everyone of the cohort who is ready; the others are reported.
bulk_create(u, cohort) ==
    LET ready == {p \in cohort : ready_to_open(p)}
    IN  /\ is_hr(u)
        /\ ready # {}
        /\ \E row \in [ready -> {r \in Records : rec[r].status = "absent"}] :
              /\ \A p, q \in ready : row[p] = row[q] => p = q
              /\ rec' = [r \in Records |->
                           IF \E p \in ready : row[p] = r
                           THEN new_record(CHOOSE p \in ready : row[p] = r)
                           ELSE rec[r]]
        /\ UNCHANGED <<account, staff, today, periods, signed>>
-----------------------------------------------------------------------------
(* Scoring: three ways to write on the form, and submitting it.            *)

\* Mutant: the scorer may go on writing after submission.
is_the_scorer_in_any_status(u, case) ==
    /\ is_open(case)
    /\ case[scorer_seat(case)] = u
    /\ may_act_at(account[u].role, scorer_seat(case))

is_the_scorer(u, case) ==
    /\ case.status = "draft"
    /\ case[scorer_seat(case)] = u
    /\ may_act_at(account[u].role, scorer_seat(case))

enter(u, r, entries) ==
    /\ authenticated(u)
    /\ window_open(rec[r])
    /\ is_the_scorer(u, rec[r])
    /\ rec' = [rec EXCEPT ![r].entries = entries]
    /\ UNCHANGED <<account, staff, today, periods, signed>>

upsert_scores(u, r) ==
    \E sheet \in Sheets : enter(u, r, [rec[r].entries EXCEPT !.sheet = sheet])

set_evaluator_comment(u, r) ==
    \E comment \in Comments : enter(u, r, [rec[r].entries EXCEPT !.comment = comment])

set_special_score(u, r) ==
    \E bonus \in Bonuses : enter(u, r, [rec[r].entries EXCEPT !.bonus = bonus])

\* A result is kept as the data it is computed from.
compute_result(entries) == [sheet |-> entries.sheet, bonus |-> entries.bonus]

submit_action(case) ==
    IF is_direct_ceo_path(case) THEN "direct_ceo_submit"
    ELSE IF is_manager_path(case) THEN "manager_submit" ELSE "submit"

submit_evaluation(u, r) ==
    /\ authenticated(u)
    /\ window_open(rec[r])
    /\ rec[r].entries.sheet \in CompleteSheets
    /\ apply_transition(u, r, submit_action(rec[r]),
                        [rec[r] EXCEPT !.result = compute_result(rec[r].entries)])
    /\ UNCHANGED <<account, staff, today, periods>>
-----------------------------------------------------------------------------
(* Review.                                                                 *)

\* Mutant: the evaluator named in the document is the unit supervisor, on every path.
final_snapshot_by_supervisor(case) ==
    [entries |-> case.entries, result |-> case.result,
     evaluator |-> case.unit_supervisor, single_decider |-> single_decider(case)]

final_snapshot(case) ==
    [entries |-> case.entries, result |-> case.result,
     evaluator |-> case[scorer_seat(case)], single_decider |-> single_decider(case)]

\* Mutant: finalizing on the direct path leaves no document.
hr_approve_without_snapshot(u, r) ==
    /\ is_hr(u)
    /\ ensure_not_deciding_about_oneself(u, rec[r])
    /\ LET action == IF is_direct_ceo_path(rec[r]) THEN "hr_finalize_direct_ceo"
                     ELSE IF is_manager_path(rec[r]) THEN "hr_approve_manager" ELSE "hr_approve"
       IN  apply_transition(u, r, action, rec[r])
    /\ UNCHANGED <<account, staff, today, periods>>

hr_approve(u, r) ==
    /\ is_hr(u)
    /\ ensure_not_deciding_about_oneself(u, rec[r])
    /\ IF is_direct_ceo_path(rec[r])
       THEN apply_transition(u, r, "hr_finalize_direct_ceo",
                             [rec[r] EXCEPT !.snapshot = final_snapshot(rec[r])])
       ELSE apply_transition(u, r, IF is_manager_path(rec[r]) THEN "hr_approve_manager" ELSE "hr_approve",
                             rec[r])
    /\ UNCHANGED <<account, staff, today, periods>>

deputy_approve(u, r) ==
    /\ authenticated(u)
    /\ apply_transition(u, r, "deputy_approve", rec[r])
    /\ UNCHANGED <<account, staff, today, periods>>

ceo_finalize(u, r) ==
    /\ authenticated(u)
    /\ apply_transition(u, r, "ceo_finalize", [rec[r] EXCEPT !.snapshot = final_snapshot(rec[r])])
    /\ UNCHANGED <<account, staff, today, periods>>

\* Picked by the caller's own role, not by the seat he holds.
return_action(role, case) ==
    CASE role = "hr" -> "hr_return"
      [] role = "deputy" -> "deputy_return"
      [] role = "ceo" -> IF is_manager_path(case) THEN "ceo_return_manager" ELSE "ceo_return"

return_evaluation(u, r) ==
    /\ authenticated(u)
    /\ account[u].role \in {"hr", "deputy", "ceo"}
    /\ ~(account[u].role = "deputy" /\ is_manager_path(rec[r]))
    /\ apply_transition(u, r, return_action(account[u].role, rec[r]), rec[r])
    /\ UNCHANGED <<account, staff, today, periods>>

cancel_evaluation(u, r) ==
    /\ is_hr(u)
    /\ ensure_not_deciding_about_oneself(u, rec[r])
    /\ apply_transition(u, r, "cancel", rec[r])
    /\ UNCHANGED <<account, staff, today, periods>>
-----------------------------------------------------------------------------
(* HR on the side of an open case.                                         *)

extend_submission_window(u, r) ==
    /\ is_hr(u)
    /\ ensure_not_deciding_about_oneself(u, rec[r])
    /\ rec[r].status = "draft"
    /\ \E until \in Days : rec' = [rec EXCEPT ![r].extended_until = until]
    /\ UNCHANGED <<account, staff, today, periods, signed>>

hr_claim(u, r) ==
    /\ is_hr(u)
    /\ ensure_not_deciding_about_oneself(u, rec[r])
    /\ is_open(rec[r])
    /\ rec[r].hr = None
    /\ rec' = [rec EXCEPT ![r].hr = u]
    /\ UNCHANGED <<account, staff, today, periods, signed>>

\* Mutant: handing over does not look at the status.
hr_handover_of_any_case(u, r, new_owner) ==
    /\ is_hr(u)
    /\ ensure_not_deciding_about_oneself(u, rec[r])
    /\ rec[r].status # "absent"
    /\ is_hr(new_owner)
    /\ new_owner # rec[r].hr
    /\ ~is_subject(new_owner, rec[r])
    /\ rec' = [rec EXCEPT ![r].hr = new_owner]
    /\ UNCHANGED <<account, staff, today, periods, signed>>

hr_handover(u, r, new_owner) ==
    /\ is_hr(u)
    /\ ensure_not_deciding_about_oneself(u, rec[r])
    /\ is_open(rec[r])
    /\ is_hr(new_owner)
    /\ new_owner # rec[r].hr
    /\ ~is_subject(new_owner, rec[r])
    /\ rec' = [rec EXCEPT ![r].hr = new_owner]
    /\ UNCHANGED <<account, staff, today, periods, signed>>

\* Mutant: the chain is checked as it was before the change.
reassign_stage_owner_old_chain(u, r, seat, new_user) ==
    /\ is_hr(u)
    /\ is_open(rec[r])
    /\ rec[r][seat] # None
    /\ authenticated(new_user) /\ account[new_user].role = seat
    /\ account[new_user].personnel # rec[r].subject
    /\ ~redundant(rec[r])
    /\ rec' = [rec EXCEPT ![r][seat] = new_user]
    /\ UNCHANGED <<account, staff, today, periods, signed>>

\* Exactly the role of the seat: unlike upsert_access, no superior may be put here.
reassign_stage_owner(u, r, seat, new_user) ==
    /\ is_hr(u)
    /\ is_open(rec[r])
    /\ rec[r][seat] # None
    /\ authenticated(new_user) /\ account[new_user].role = seat
    /\ account[new_user].personnel # rec[r].subject
    /\ ~redundant([rec[r] EXCEPT ![seat] = new_user])
    /\ rec' = [rec EXCEPT ![r][seat] = new_user]
    /\ UNCHANGED <<account, staff, today, periods, signed>>
-----------------------------------------------------------------------------
(* Chains, personnel and accounts.                                         *)

upsert_access(u, p, chain) ==
    /\ manages_personnel(u)
    /\ staff[p].is_manager => chain.unit_supervisor = None
    /\ \A seat \in Seats : chain[seat] # None =>
          authenticated(chain[seat]) /\ may_act_at(account[chain[seat]].role, seat)
    /\ evaluators_are_not_the_subject(chain, p)
    /\ ~redundant(chain)
    /\ staff' = [staff EXCEPT ![p].access = chain]
    /\ UNCHANGED <<account, today, periods, rec, signed>>

linked_accounts(p) == {v \in Users : account[v].role # None /\ account[v].personnel = p}

\* Leaving: the open case is cancelled in the actor's name, and one linked account,
\* whichever row the unordered query returns, is switched off.
close_out_departure(u, p) ==
    /\ IF has_open_record(p)
       THEN \E r \in Records : rec[r].subject = p /\ is_open(rec[r]) /\ apply_transition(u, r, "cancel", rec[r])
       ELSE UNCHANGED <<rec, signed>>
    /\ IF linked_accounts(p) # {}
       THEN \E v \in linked_accounts(p) : account' = [account EXCEPT ![v].active = FALSE]
       ELSE UNCHANGED account

\* Mutant: the title may change while a case is open.
update_personnel_mid_case(u, p, employed, is_manager) ==
    /\ manages_personnel(u)
    /\ IF staff[p].employed /\ ~employed
       THEN close_out_departure(u, p)
       ELSE UNCHANGED <<account, rec, signed>>
    /\ staff' = [staff EXCEPT
          ![p].employed = employed,
          ![p].is_manager = is_manager,
          ![p].access = IF is_manager /\ @ # None THEN [@ EXCEPT !.unit_supervisor = None] ELSE @]
    /\ UNCHANGED <<today, periods>>

update_personnel(u, p, employed, is_manager) ==
    /\ manages_personnel(u)
    /\ is_manager # staff[p].is_manager => ~has_open_record(p)
    /\ IF staff[p].employed /\ ~employed
       THEN close_out_departure(u, p)
       ELSE UNCHANGED <<account, rec, signed>>
    /\ staff' = [staff EXCEPT
          ![p].employed = employed,
          ![p].is_manager = is_manager,
          ![p].access = IF is_manager /\ @ # None THEN [@ EXCEPT !.unit_supervisor = None] ELSE @]
    /\ UNCHANGED <<today, periods>>

\* Mutant: only the configured chain is looked at, not the records that copied an older one.
is_evaluator_of_by_access(u, p) == staff[p].access # None /\ u \in evaluators(staff[p].access)

is_evaluator_of(u, p) ==
    \/ staff[p].access # None /\ u \in evaluators(staff[p].access)
    \/ \E r \in Records : rec[r].subject = p /\ u \in evaluators(rec[r])

ensure_user_link_is_not_self_evaluation(u, p) == ~is_evaluator_of(u, p)

create_user(admin, u, new) ==
    /\ manages_users(admin)
    /\ account[u].role = None
    /\ new.role # None /\ new.active
    /\ account' = [account EXCEPT ![u] = new]
    /\ UNCHANGED <<staff, today, periods, rec, signed>>

update_user(admin, u, new) ==
    /\ manages_users(admin)
    /\ account[u].role # None /\ new.role # None
    /\ u = admin => new.active /\ new.role = account[u].role
    /\ new.personnel \notin {None, account[u].personnel} =>
          ensure_user_link_is_not_self_evaluation(u, new.personnel)
    /\ new.role = "employee" => new.personnel # None
    /\ account' = [account EXCEPT ![u] = new]
    /\ UNCHANGED <<staff, today, periods, rec, signed>>
-----------------------------------------------------------------------------
(* Periods and the calendar.                                               *)

next_day ==
    /\ today < LastDay
    /\ today' = today + 1
    /\ UNCHANGED <<account, staff, periods, rec, signed>>

create_period(u, q, ends_on) ==
    /\ is_hr(u)
    /\ open_periods = {}
    /\ periods[q].status = "unused"
    /\ periods' = [periods EXCEPT ![q] = [status |-> "open", ends_on |-> ends_on]]
    /\ UNCHANGED <<account, staff, today, rec, signed>>

update_period(u, q, ends_on) ==
    /\ is_hr(u)
    /\ periods[q].status # "unused"
    /\ periods' = [periods EXCEPT ![q].ends_on = ends_on]
    /\ UNCHANGED <<account, staff, today, rec, signed>>

close_period(u, q, force) ==
    /\ is_hr(u)
    /\ periods[q].status = "open"
    /\ force \/ \A r \in Records : rec[r].period = q => ~is_open(rec[r])
    /\ periods' = [periods EXCEPT ![q].status = "closed"]
    /\ UNCHANGED <<account, staff, today, rec, signed>>

\* Mutant: only open records keep a period from being deleted.
delete_period_of_closed_cases(u, q) ==
    /\ is_hr(u)
    /\ periods[q].status # "unused"
    /\ \A r \in Records : is_open(rec[r]) => rec[r].period # q
    /\ periods' = [periods EXCEPT ![q] = [status |-> "unused", ends_on |-> 0]]
    /\ UNCHANGED <<account, staff, today, rec, signed>>

\* The id is freed: no record refers to it.
delete_period(u, q) ==
    /\ is_hr(u)
    /\ periods[q].status # "unused"
    /\ \A r \in Records : rec[r].period # q
    /\ periods' = [periods EXCEPT ![q] = [status |-> "unused", ends_on |-> 0]]
    /\ UNCHANGED <<account, staff, today, rec, signed>>
-----------------------------------------------------------------------------
OpenCases ==
    \/ \E u \in Users, p \in Personnel, r \in Records : create_evaluation(u, p, r)
    \/ \E u \in Users, cohort \in SUBSET Personnel : bulk_create(u, cohort)

ScoreCases == \E u \in Users, r \in Records :
    \/ upsert_scores(u, r)
    \/ set_evaluator_comment(u, r)
    \/ set_special_score(u, r)
    \/ submit_evaluation(u, r)

ReviewCases == \E u \in Users, r \in Records :
    \/ hr_approve(u, r)
    \/ deputy_approve(u, r)
    \/ ceo_finalize(u, r)
    \/ return_evaluation(u, r)
    \/ cancel_evaluation(u, r)

ManageCases == \E u \in Users, r \in Records :
    \/ extend_submission_window(u, r)
    \/ hr_claim(u, r)
    \/ \E new_owner \in Users : hr_handover(u, r, new_owner)
    \/ \E seat \in Seats, new_user \in Users : reassign_stage_owner(u, r, seat, new_user)

ManageStaff == \E u \in Users, p \in Personnel :
    \/ \E chain \in Chains : upsert_access(u, p, chain)
    \/ \E employed, is_manager \in BOOLEAN : update_personnel(u, p, employed, is_manager)

ManageAccounts == \E admin, u \in Users : \E new \in AccountEdits[u] :
    \/ create_user(admin, u, new)
    \/ update_user(admin, u, new)

ManagePeriods == \E u \in Users, q \in Periods :
    \/ \E ends_on \in Days : create_period(u, q, ends_on) \/ update_period(u, q, ends_on)
    \/ \E force \in BOOLEAN : close_period(u, q, force)
    \/ delete_period(u, q)

Next ==
    \/ OpenCases \/ ScoreCases \/ ReviewCases \/ ManageCases
    \/ ManageStaff \/ ManageAccounts \/ ManagePeriods \/ next_day

Spec == Init /\ [][Next]_vars
-----------------------------------------------------------------------------
(* Safety.                                                                 *)

\* Every variable keeps its type: rows, seats and signatures are well formed.
TypeOK ==
    /\ account \in [Users -> Account]
    /\ staff \in [Personnel -> Employee]
    /\ today \in Days
    /\ periods \in [Periods -> Period]
    /\ rec \in [Records -> Record]
    /\ \A r \in Records : rec[r].status # "absent" => rec[r].subject \in Personnel /\ rec[r].ceo \in Users
    /\ signed \in [Records -> [Stages -> Signature \cup {None}]]

\* A person never has two open cases, whether they are opened one by one or in bulk and
\* however earlier ones ended (uq_open_evaluation_per_personnel).
OneOpenRecord ==
    \A r, s \in Records :
        is_open(rec[r]) /\ is_open(rec[s]) /\ rec[r].subject = rec[s].subject => r = s

\* The stages whose approval a record of this status rests on.
required_stages(case) ==
    CASE case.status = "submitted" -> {scorer_seat(case)}
      [] case.status = "hr_approved" -> {scorer_seat(case), "hr"}
      [] case.status = "deputy_approved" -> {scorer_seat(case), "hr", "deputy"}
      [] case.status = "finalized" -> {stage \in Stages : case[stage] # None} \cup {"hr"}
      [] OTHER -> {}

\* Wherever a case stands, every stage before it has approved, on the very result the
\* record carries now, and has not been overruled by a return since: nobody's approval
\* is skipped and nobody has signed a number that no longer exists.
EveryStageSigned ==
    \A r \in Records : \A stage \in required_stages(rec[r]) :
        signed[r][stage] # None /\ signed[r][stage].on = rec[r].result

\* Once submitted, the stored result is the one that the stored scores and special score
\* give, over a complete sheet; scores cannot slip in behind the computed result.
ResultMatchesScores ==
    \A r \in Records : rec[r].status \in Statuses \ {"draft", "cancelled"} =>
        /\ rec[r].result = compute_result(rec[r].entries)
        /\ rec[r].entries.sheet \in CompleteSheets

\* The final document is the record as it was finalized, and only a finalized case has one.
SnapshotIsFinal ==
    \A r \in Records :
        rec[r].snapshot = IF rec[r].status = "finalized" THEN final_snapshot(rec[r]) ELSE None

\* Nobody sits in the chain of his own evaluation: not in the access row, not in any record,
\* open or archived, however seats, links and roles are edited (P0-10).
NobodyEvaluatesHimself ==
    /\ \A p \in Personnel : staff[p].access # None => evaluators_are_not_the_subject(staff[p].access, p)
    /\ \A r \in Records : evaluators_are_not_the_subject(rec[r], rec[r].subject)

\* No chain, configured or in a record, gives one person two seats that could be merged.
NoRedundantChain ==
    /\ \A p \in Personnel : staff[p].access # None => ~redundant(staff[p].access)
    /\ \A r \in Records : ~redundant(rec[r])

\* The path of an open case agrees with its subject's title: a manager's case has no unit
\* supervisor, and a case without one belongs to a manager or goes straight to the CEO.
PathFollowsTitle ==
    /\ \A p \in Personnel : staff[p].is_manager /\ staff[p].access # None => is_manager_path(staff[p].access)
    /\ \A r \in Records : is_open(rec[r]) =>
          IF staff[rec[r].subject].is_manager
          THEN is_manager_path(rec[r])
          ELSE is_manager_path(rec[r]) => is_direct_ceo_path(rec[r])

\* Periods do not overlap, and no record loses its deadline by losing its period.
PeriodsInOrder ==
    /\ Cardinality(open_periods) <= 1
    /\ \A r \in Records : rec[r].period # None => periods[rec[r].period].status # "unused"

\* A finalized or cancelled case never changes again, by whatever door.
TerminalFrozen ==
    [][\A r \in Records : rec[r].status \in {"finalized", "cancelled"} =>
          rec'[r] = rec[r] /\ signed'[r] = signed[r]]_vars

\* The deadline of an open case moves only by an extension of that case or by moving the end
\* of its period: opening, closing or deleting a period leaves it where it is.
DeadlineMovesOnlyByDecision ==
    [][\A r \in Records : is_open(rec[r]) /\ closes_on(rec[r])' # closes_on(rec[r]) =>
          \/ rec'[r].extended_until # rec[r].extended_until
          \/ \E q \in Periods : /\ rec[r].period = q
                                /\ periods'[q] = [periods[q] EXCEPT !.ends_on = periods'[q].ends_on]]_vars

-----------------------------------------------------------------------------
(* Refinement: a case of CaseLifecycle is a record, its stages are groups  *)
(* of statuses, its outcome is the stored result while the case is under   *)
(* review or closed (a draft may still carry a stale one).                 *)

lifecycle_stage ==
    [absent |-> "unopened", draft |-> "scoring",
     submitted |-> "review", hr_approved |-> "review", deputy_approved |-> "review",
     finalized |-> "closed", cancelled |-> "void"]

lifecycle_case(case) ==
    [stage |-> lifecycle_stage[case.status],
     person |-> case.subject,
     outcome |-> IF lifecycle_stage[case.status] \in {"review", "closed"} THEN case.result ELSE None]

Lifecycle == INSTANCE CaseLifecycle WITH
    Cases <- Records, People <- Personnel, Outcomes <- Results,
    case <- [r \in Records |-> lifecycle_case(rec[r])]

\* The workflow keeps the promises of CaseLifecycle.
ImplementsLifecycle == Lifecycle!Spec
=============================================================================
