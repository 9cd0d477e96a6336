---------------------------- MODULE SweepsProofs ----------------------------
(***************************************************************************)
(* Who is told of a step (Notices), who is reminded of a stalled case and  *)
(* which cases are reported as stuck (Sweeps), for every set of users,     *)
(* personnel and records.                                                  *)
(*                                                                         *)
(* All three turn on one fact about the transition table, ForwardActor: in *)
(* each status exactly one seat, or HR, can take a case forward, and it is *)
(* the one that the notice or the reminder of that status goes to.         *)
(***************************************************************************)
EXTENDS Sweeps, EvaluationWorkflowProofs

\* Who can take a case forward, as a function of the case.
actors(case) ==
    {u \in Users : authenticated(u) /\ \E action \in forward_actions : ensure_transition_allowed(u, case, action)}

\* The rows of the table that lead forward.
LEMMA ForwardActions == forward_actions \subseteq Actions
BY ActionNames DEF forward_actions

\* In every status there is one seat whose holder can take the case forward; a submitted case
\* is for anybody of HR.
LEMMA ForwardActor ==
    ASSUME NEW case \in Record, NEW u \in actors(case)
    PROVE  /\ case.status \in OPEN_STATUSES
           /\ authenticated(u)
           /\ case.status = "draft" => u = case[scorer_seat(case)]
           /\ case.status = "submitted" => is_hr(u)
           /\ case.status = "hr_approved" => u = after_hr_id(case)
           /\ case.status = "deputy_approved" => u = case.ceo
<1>1. PICK action \in forward_actions : ensure_transition_allowed(u, case, action)
  BY DEF actors
<1>2. u \in Users /\ authenticated(u)
  BY DEF actors
<1>3. u # None
  BY <1>2, NullAssumption
<1>4. action \in Actions
  BY <1>1, ForwardActions
<1>5. /\ case.status \in TRANSITIONS[action].from_statuses
      /\ may_act_at(account[u].role, TRANSITIONS[action].allowed_role)
      /\ guard(action, case)
      /\ TRANSITIONS[action].assignee_field # None =>
           \/ case[TRANSITIONS[action].assignee_field] = u
           \/ /\ TRANSITIONS[action].claimable_if_unassigned
              /\ case[TRANSITIONS[action].assignee_field] = None
  BY <1>1 DEF ensure_transition_allowed
<1>6. case.status \in OPEN_STATUSES
  BY <1>4, <1>5, Table
<1>7. \A stage \in Stages : stage # None
  BY NullAssumption DEF Stages, Roles
<1>8. CASE action = "submit"
  BY <1>2, <1>5, <1>6, <1>7, <1>8
     DEF TRANSITIONS, Row, guard, scorer_seat, is_direct_ceo_path, is_manager_path, Stages, Seats
<1>9. CASE action = "manager_submit"
  BY <1>2, <1>3, <1>5, <1>6, <1>7, <1>9
     DEF TRANSITIONS, Row, guard, scorer_seat, is_direct_ceo_path, is_manager_path, Stages, Seats
<1>10. CASE action = "direct_ceo_submit"
  BY <1>2, <1>5, <1>6, <1>7, <1>10
     DEF TRANSITIONS, Row, guard, scorer_seat, is_direct_ceo_path, is_manager_path, Stages, Seats
<1>11. CASE action \in {"hr_approve", "hr_approve_manager", "hr_finalize_direct_ceo"}
  <2>1. TRANSITIONS[action].from_statuses = {"submitted"} /\ TRANSITIONS[action].allowed_role = "hr"
    BY <1>11 DEF TRANSITIONS, Row
  <2>2. case.status = "submitted" /\ account[u].role = "hr"
    BY <1>5, <2>1 DEF may_act_at
  <2> QED
    BY <1>2, <1>6, <2>2 DEF is_hr
<1>12. CASE action = "deputy_approve"
  BY <1>2, <1>3, <1>5, <1>6, <1>7, <1>12 DEF TRANSITIONS, Row, after_hr_id, Stages, Seats
<1>13. CASE action = "ceo_finalize"
  <2>1. /\ case.status \in {"deputy_approved", "hr_approved"}
        /\ case.ceo = u
    BY <1>5, <1>7, <1>13 DEF TRANSITIONS, Row, Stages, Seats
  <2>2. case.status = "hr_approved" => case.deputy = None
    BY <1>5, <1>13 DEF guard, skips_deputy
  <2> QED
    BY <1>2, <1>6, <2>1, <2>2 DEF after_hr_id
<1> QED
  BY <1>1, <1>8, <1>9, <1>10, <1>11, <1>12, <1>13 DEF forward_actions
-----------------------------------------------------------------------------
(* NextActorIsTold.                                                        *)

\* Accounts move in a step of case r only when it is the departure of its subject, which cancels it.
LEMMA AccountsStay ==
    ASSUME TypeOK, [Next]_vars, NEW r \in Records, rec'[r] # rec[r]
    PROVE  account' = account \/ rec'[r].status = "cancelled"
<1>1. ASSUME NEW u \in Users, NEW p \in Personnel, close_out_departure(u, p)
      PROVE  account' = account \/ rec'[r].status = "cancelled"
  <2>1. (rec' = rec) \/ \E y \in Records : apply_transition(u, y, "cancel", rec[y])
    BY <1>1 DEF close_out_departure
  <2>2. PICK y \in Records : apply_transition(u, y, "cancel", rec[y])
    BY <2>1
  <2>3. "cancel" \in Actions /\ rec[y] \in Record
    BY ActionNames DEF TypeOK
  <2>4. rec'[y] = moved(u, rec[y], "cancel") /\ \A x \in Records : x # y => rec'[x] = rec[x]
    BY <2>2, <2>3, ApplyTransition
  <2>5. rec'[y].status = "cancelled"
    BY <2>3, <2>4, MovedFields, Rows
  <2> QED
    BY <2>4, <2>5
<1>2. CASE OpenCases \/ ScoreCases \/ ReviewCases \/ ManageCases
  BY <1>2, CaseActionsFrame
<1>3. CASE ManageStaff
  BY <1>1, <1>3, StaffActionsFrame
<1>4. CASE ManageAccounts \/ ManagePeriods \/ next_day \/ UNCHANGED vars
  BY <1>4 DEF ManageAccounts, create_user, update_user, ManagePeriods, create_period, update_period,
              close_period, delete_period, next_day, vars
<1> QED
  BY <1>2, <1>3, <1>4 DEF Next

\* A case that exists has a scorer and a CEO, so every notice about it has a recipient.
LEMMA RecipientsExist ==
    ASSUME NEW case \in Record, case.ceo \in Users, NEW action \in Actions
    PROVE  None \notin workflow_recipients(action, case)
<1>1. /\ case.unit_supervisor \in Users \cup {None}
      /\ case.deputy \in Users \cup {None}
      /\ None \notin Users
  BY NullAssumption DEF Record
<1>2. case[scorer_seat(case)] # None
  BY <1>1 DEF scorer_seat, is_direct_ceo_path, is_manager_path
<1>3. after_hr_id(case) # None
  BY <1>1 DEF after_hr_id
<1>4. None \notin active_hr_ids /\ None \notin evaluators(case)
  BY <1>1 DEF active_hr_ids, evaluators
<1> QED
  BY <1>1, <1>2, <1>3, <1>4, ActionNames DEF workflow_recipients

\* After a row of the table, those who can take the case on are among the recipients of its notice.
LEMMA RowTellsNextActor ==
    ASSUME NEW case \in Record, NEW action \in Actions, case.status = TRANSITIONS[action].to_status
    PROVE  actors(case) \subseteq workflow_recipients(action, case)
<1> SUFFICES ASSUME NEW u \in actors(case) PROVE u \in workflow_recipients(action, case)
  OBVIOUS
<1>1. /\ case.status \in OPEN_STATUSES
      /\ case.status = "draft" => u = case[scorer_seat(case)]
      /\ case.status = "submitted" => is_hr(u)
      /\ case.status = "hr_approved" => u = after_hr_id(case)
      /\ case.status = "deputy_approved" => u = case.ceo
  BY ForwardActor
<1>2. u \in Users
  BY DEF actors
<1> QED
  BY <1>1, <1>2, ActionNames DEF TRANSITIONS, Row, OPEN_STATUSES, workflow_recipients, active_hr_ids

\* What NextActorIsTold asks of a case, its accounts standing still.
Told(before, after) ==
    /\ actors(after) \subseteq actors(before) \cup told(before, after)
    /\ None \notin told(before, after)

\* A row of the table leads somewhere else.
LEMMA RowsMove == \A action \in Actions : TRANSITIONS[action].to_status \notin TRANSITIONS[action].from_statuses
BY ActionNames DEF TRANSITIONS, Row, OPEN_STATUSES

\* A case that takes a row tells the next actors.
LEMMA SteppedTells ==
    ASSUME TypeOK, TypeOK', NEW r \in Records, Stepped(r)
    PROVE  Told(rec[r], rec'[r])
<1>1. PICK u \in Users, action \in Actions, case \in Record :
        /\ rec[r].status \in TRANSITIONS[action].from_statuses
        /\ guard(action, rec[r])
        /\ Copied(case, rec[r])
        /\ rec'[r] = moved(u, case, action)
  BY DEF Stepped
<1>2. rec'[r].status = TRANSITIONS[action].to_status
  BY <1>1, SteppedFields
<1>3. action \in actions_between(rec[r], rec'[r])
  BY <1>1, <1>2 DEF actions_between
<1>4. rec[r].status \in OPEN_STATUSES /\ rec'[r].status \in Statuses
  BY <1>1, <1>2, Table
<1>5. rec'[r] \in Record /\ rec'[r].ceo \in Users
  BY <1>4 DEF TypeOK, Statuses, OPEN_STATUSES
<1>6. new_owners(rec[r], rec'[r]) = {}
  BY <1>1, <1>2, RowsMove DEF new_owners
<1>7. told(rec[r], rec'[r]) =
        UNION {workflow_recipients(a, rec'[r]) : a \in actions_between(rec[r], rec'[r])}
  BY <1>4, <1>6 DEF told, OPEN_STATUSES
<1>8. None \notin told(rec[r], rec'[r])
  BY <1>5, <1>7, RecipientsExist DEF actions_between
<1>9. actors(rec'[r]) \subseteq workflow_recipients(action, rec'[r])
  BY <1>2, <1>5, RowTellsNextActor
<1> QED
  BY <1>3, <1>7, <1>8, <1>9 DEF Told

\* Those who can take a case on are a matter of its status, its seats and its HR owner.
LEMMA ActorsLookAt ==
    ASSUME NEW before \in Record, NEW after \in Record, before.status = after.status,
           \A stage \in Stages : after[stage] = before[stage]
    PROVE  actors(after) = actors(before)
<1>1. /\ after.unit_supervisor = before.unit_supervisor /\ after.deputy = before.deputy
      /\ after.ceo = before.ceo /\ after.hr = before.hr
  BY DEF Stages, Seats
<1>2. \A action \in Actions : guard(action, after) <=> guard(action, before)
  BY <1>1 DEF guard, is_manager_path, is_direct_ceo_path, skips_deputy
<1>3. \A action \in Actions : TRANSITIONS[action].assignee_field \in Stages \cup {None}
  BY ActionNames DEF TRANSITIONS, Row, Stages, Seats
<1>4. ASSUME NEW u \in Users, NEW action \in forward_actions
      PROVE  ensure_transition_allowed(u, after, action) <=> ensure_transition_allowed(u, before, action)
  <2>1. action \in Actions
    BY ForwardActions
  <2>2. guard(action, after) <=> guard(action, before)
    BY <1>2, <2>1
  <2>3. TRANSITIONS[action].assignee_field # None =>
          after[TRANSITIONS[action].assignee_field] = before[TRANSITIONS[action].assignee_field]
    BY <1>3, <2>1
  <2> QED
    BY <2>2, <2>3 DEF ensure_transition_allowed
<1> QED
  BY <1>4 DEF actors

\* While the status stays, a notice goes to the new holders of stages and to nobody else.
LEMMA SameStatusTold ==
    ASSUME NEW before \in Record, NEW after \in Record, before.status = after.status
    PROVE  told(before, after) = {after[stage] : stage \in {stage \in Stages : before[stage] # after[stage]}}
<1>1. actions_between(before, after) = {}
  BY RowsMove DEF actions_between
<1>2. ~(before.status = "absent" /\ after.status = "draft")
  OBVIOUS
<1> QED
  BY <1>1, <1>2 DEF told, new_owners

\* Giving a stage to u can only make an actor of u.
LEMMA GivenStageActors ==
    ASSUME NEW before \in Record, NEW after \in Record, before.status = after.status,
           NEW stage \in Stages, NEW u \in Users, after[stage] = u,
           stage \in Seats => before[stage] # None,
           \A other \in Stages : other # stage => after[other] = before[other]
    PROVE  actors(after) \subseteq actors(before) \cup {u}
<1>0. u # None
  BY NullAssumption
<1>1. \A seat \in Seats : after[seat] = None <=> before[seat] = None
  BY <1>0 DEF Stages
<1>2. /\ after.unit_supervisor = None <=> before.unit_supervisor = None
      /\ after.deputy = None <=> before.deputy = None
  BY <1>1 DEF Seats
<1>3. \A action \in Actions : guard(action, after) <=> guard(action, before)
  BY <1>2 DEF guard, is_manager_path, is_direct_ceo_path, skips_deputy
<1>4. \A action \in Actions : TRANSITIONS[action].assignee_field \in Stages \cup {None}
  BY ActionNames DEF TRANSITIONS, Row, Stages, Seats
<1>5. ASSUME NEW v \in Users, v # u, NEW action \in forward_actions, ensure_transition_allowed(v, after, action)
      PROVE  ensure_transition_allowed(v, before, action)
  <2> DEFINE field == TRANSITIONS[action].assignee_field
  <2>1. action \in Actions
    BY ForwardActions
  <2>2. guard(action, before)
    BY <1>3, <1>5, <2>1 DEF ensure_transition_allowed
  <2>3. CASE field # None /\ after[field] = v
    <3>1. before[field] = v
      BY <1>4, <1>5, <2>1, <2>3
    <3> QED
      BY <1>5, <2>2, <3>1 DEF ensure_transition_allowed
  <2>4. CASE field # None /\ TRANSITIONS[action].claimable_if_unassigned /\ after[field] = None
    <3>1. before[field] = None
      BY <1>0, <1>4, <2>1, <2>4
    <3> QED
      BY <1>5, <2>2, <2>4, <3>1 DEF ensure_transition_allowed
  <2>5. CASE field = None
    BY <1>5, <2>2, <2>5 DEF ensure_transition_allowed
  <2> QED
    BY <1>5, <2>3, <2>4, <2>5 DEF ensure_transition_allowed
<1> QED
  BY <1>5 DEF actors

\* A case whose stage changes hands tells its new owner.
LEMMA ReseatedTells ==
    ASSUME TypeOK, TypeOK', NEW r \in Records, Reseated(r), rec'[r] # rec[r]
    PROVE  Told(rec[r], rec'[r])
<1>1. rec[r] \in Record /\ rec'[r] \in Record
  BY DEF TypeOK
<1>2. PICK u \in Users, stage \in Stages :
        /\ stage \in Seats => rec[r][stage] # None
        /\ rec'[r] = [rec[r] EXCEPT ![stage] = u]
  <2>1. ASSUME NEW u \in Users, rec' = [rec EXCEPT ![r].hr = u]
        PROVE  rec'[r] = [rec[r] EXCEPT !["hr"] = u]
    BY <2>1 DEF TypeOK
  <2>2. ASSUME NEW u \in Users, NEW seat \in Seats, rec' = [rec EXCEPT ![r][seat] = u]
        PROVE  rec'[r] = [rec[r] EXCEPT ![seat] = u]
    BY <2>2 DEF TypeOK
  <2>3. \/ \E u \in Users : rec' = [rec EXCEPT ![r].hr = u]
        \/ \E u \in Users, seat \in Seats : rec[r][seat] # None /\ rec' = [rec EXCEPT ![r][seat] = u]
    BY DEF Reseated
  <2>4. CASE \E u \in Users : rec' = [rec EXCEPT ![r].hr = u]
    <3>1. PICK u \in Users : rec' = [rec EXCEPT ![r].hr = u]
      BY <2>4
    <3>2. "hr" \in Stages /\ "hr" \notin Seats
      BY DEF Stages, Seats
    <3> QED
      BY <2>1, <3>1, <3>2
  <2>5. CASE \E u \in Users, seat \in Seats : rec[r][seat] # None /\ rec' = [rec EXCEPT ![r][seat] = u]
    <3>1. PICK u \in Users, seat \in Seats : rec[r][seat] # None /\ rec' = [rec EXCEPT ![r][seat] = u]
      BY <2>5
    <3>2. seat \in Stages
      BY DEF Stages
    <3>3. rec'[r] = [rec[r] EXCEPT ![seat] = u]
      BY <2>2, <3>1
    <3> QED
      BY <3>1, <3>2, <3>3
  <2> QED
    BY <2>3, <2>4, <2>5
<1>3. /\ rec'[r].status = rec[r].status /\ rec'[r][stage] = u
      /\ \A other \in Stages : other # stage => rec'[r][other] = rec[r][other]
  BY <1>1, <1>2 DEF Record, Stages, Seats
<1>4. actors(rec'[r]) \subseteq actors(rec[r]) \cup {u}
  <2>1. PICK before \in Record, after \in Record : before = rec[r] /\ after = rec'[r]
    BY <1>1
  <2>2. /\ before.status = after.status /\ after[stage] = u
        /\ stage \in Seats => before[stage] # None
        /\ \A other \in Stages : other # stage => after[other] = before[other]
    BY <1>2, <1>3, <2>1
  <2>3. actors(after) \subseteq actors(before) \cup {u}
    BY <2>2, GivenStageActors
  <2> QED
    BY <2>1, <2>3
<1>5. rec[r][stage] # u
  BY <1>1, <1>2 DEF Record, Stages, Seats
<1>6. told(rec[r], rec'[r]) = {u}
  BY <1>1, <1>3, <1>5, SameStatusTold
<1> QED
  BY <1>4, <1>6, NullAssumption DEF Told

\* Writing on the form or moving the deadline changes no actor and tells nobody.
LEMMA EditedTells ==
    ASSUME TypeOK, TypeOK', NEW r \in Records, Edited(r)
    PROVE  Told(rec[r], rec'[r])
<1>1. rec[r] \in Record /\ rec'[r] \in Record
  BY DEF TypeOK
<1>2. rec'[r].status = rec[r].status /\ \A stage \in Stages : rec'[r][stage] = rec[r][stage]
  <2>1. ASSUME NEW entries \in Entries, rec' = [rec EXCEPT ![r].entries = entries]
        PROVE  rec'[r] = [rec[r] EXCEPT !.entries = entries]
    BY <2>1 DEF TypeOK
  <2>2. ASSUME NEW until \in Days, rec' = [rec EXCEPT ![r].extended_until = until]
        PROVE  rec'[r] = [rec[r] EXCEPT !.extended_until = until]
    BY <2>2 DEF TypeOK
  <2> QED
    BY <1>1, <2>1, <2>2 DEF Edited, Record, Stages, Seats
<1>3. told(rec[r], rec'[r]) = {}
  BY <1>1, <1>2, SameStatusTold
<1> QED
  BY <1>1, <1>2, <1>3, ActorsLookAt DEF Told

\* A case that is opened is on the desk of its scorer, who knows.
LEMMA OpenedTells ==
    ASSUME TypeOK, TypeOK', Opened, NEW r \in Records, rec'[r] # rec[r]
    PROVE  Told(rec[r], rec'[r])
<1>1. rec[r].status = "absent" /\ rec'[r].status = "draft"
  BY OpenedFields DEF Same
<1>2. rec'[r] \in Record /\ rec'[r].ceo \in Users
  BY <1>1 DEF TypeOK
<1>3. told(rec[r], rec'[r]) = {rec'[r][scorer_seat(rec'[r])]}
  BY <1>1 DEF told
<1>4. rec'[r][scorer_seat(rec'[r])] # None
  BY <1>2, NullAssumption DEF scorer_seat, is_direct_ceo_path, is_manager_path, Record
<1>5. actors(rec'[r]) \subseteq told(rec[r], rec'[r])
  BY <1>1, <1>2, <1>3, ForwardActor
<1> QED
  BY <1>3, <1>4, <1>5 DEF Told

\* Whoever a step puts in a position to move a case on is told of it, and no notice lacks its
\* recipient: opening, every row of the table, every reassignment and every hand-over.
THEOREM NextActorsAreTold == Spec => NextActorIsTold
<1>1. ASSUME TypeOK, TypeOK', [Next]_vars, NEW r \in Records, rec'[r] # rec[r] PROVE Told(rec[r], rec'[r])
  <2>1. ASSUME NEW y \in Records, Stepped(y), \A x \in Records : x # y => Same(x) PROVE Told(rec[r], rec'[r])
    BY <1>1, <2>1, SteppedTells DEF Same
  <2>2. ASSUME NEW y \in Records, Edited(y) PROVE Told(rec[r], rec'[r])
    BY <1>1, <2>2, EditedTells, EditedKeeps DEF OneCase, Same
  <2>3. ASSUME NEW y \in Records, Reseated(y) PROVE Told(rec[r], rec'[r])
    BY <1>1, <2>3, ReseatedTells, ReseatedKeeps DEF OneCase, Same
  <2>4. ASSUME NEW u \in Users, NEW y \in Records, Submitted(u, y) \/ Reviewed(u, y) \/ Finalized(u, y)
        PROVE  Told(rec[r], rec'[r])
    BY <1>1, <2>1, <2>4, SubmittedSteps, ReviewedSteps, FinalizedSteps
  <2> QED
    BY <1>1, <2>2, <2>3, <2>4, StepShape, OpenedTells DEF TableStep, TablesUntouched
<1>2. ASSUME TypeOK, TypeOK', [Next]_vars, NEW r \in Records, rec'[r] # rec[r]
      PROVE  /\ next_actors(r)' \subseteq next_actors(r) \cup told(rec[r], rec'[r])
             /\ None \notin told(rec[r], rec'[r])
  <2>1. Told(rec[r], rec'[r])
    BY <1>1, <1>2
  <2>2. next_actors(r) = actors(rec[r])
    BY DEF next_actors, actors
  <2>3. CASE account' = account
    <3>1. next_actors(r)' = actors(rec'[r])
      BY <2>3 DEF next_actors, actors, ensure_transition_allowed, authenticated
    <3> QED
      BY <2>1, <2>2, <3>1 DEF Told
  <2>4. CASE rec'[r].status = "cancelled"
    <3>1. next_actors(r)' = {}
      BY <2>4, ForwardActions, Table DEF next_actors, ensure_transition_allowed, OPEN_STATUSES
    <3> QED
      BY <2>1, <3>1 DEF Told
  <2> QED
    BY <1>2, <2>3, <2>4, AccountsStay
<1>3. TypeOK /\ TypeOK' /\ [Next]_vars =>
        [\A r \in Records : rec'[r] # rec[r] =>
            /\ next_actors(r)' \subseteq next_actors(r) \cup told(rec[r], rec'[r])
            /\ None \notin told(rec[r], rec'[r])]_vars
  BY <1>2
<1> QED
  BY <1>3, TypeCorrect, PTL DEF Spec, NextActorIsTold
-----------------------------------------------------------------------------
(* The sweeps.                                                             *)

\* The jobs look at the workflow and leave it alone: beside them, it goes on as it is specified,
\* and all that is proved of it still holds.
THEOREM SweepsOnlyLook == SweepSpec => Spec
<1>1. SweepInit => Init
  BY DEF SweepInit
<1>2. [SweepNext]_sweep_vars => [Next]_vars
  BY DEF SweepNext, request, run_all_sweeps, archive_final_pdf_detached, archive_final_pdf,
         evaluation_summary_pdf, sweep_vars, vars
<1> QED
  BY <1>1, <1>2, PTL DEF SweepSpec, Spec

\* The report of the last run is that of the present state: a request withdraws it, and nothing
\* else moves the cases.
ReportIsCurrent ==
    /\ last_run.outcome = "succeeded" => last_run.reminded = run_sla_sweep /\ ~sla_sweep_fails
    /\ last_run.reported \in {{}, run_orphaned_case_sweep}

\* ReportIsCurrent is inductive by itself.
LEMMA ReportStep ==
    ASSUME ReportIsCurrent, [SweepNext]_sweep_vars PROVE ReportIsCurrent'
<1> USE DEF ReportIsCurrent
<1>1. CASE request
  <2>1. last_run' = [outcome |-> "idle", reminded |-> {}, reported |-> {}]
    BY <1>1 DEF request, idle
  <2> QED
    BY <2>1
<1>2. ASSUME UNCHANGED <<vars, stage_entered_at>>
      PROVE  /\ run_sla_sweep' = run_sla_sweep
             /\ sla_sweep_fails' = sla_sweep_fails
             /\ run_orphaned_case_sweep' = run_orphaned_case_sweep
  BY <1>2 DEF vars, run_sla_sweep, sla_sweep_fails, run_orphaned_case_sweep, stalled, is_open,
              current_owner_ids, active_hr_ids, is_hr, authenticated
<1>3. CASE run_all_sweeps
  <2>1. UNCHANGED <<vars, stage_entered_at>>
    BY <1>3 DEF run_all_sweeps
  <2>2. CASE sla_sweep_fails
    BY <1>3, <2>2 DEF run_all_sweeps
  <2>3. CASE ~sla_sweep_fails
    <3>1. last_run' = [outcome |-> "succeeded", reminded |-> run_sla_sweep, reported |-> run_orphaned_case_sweep]
      BY <1>3, <2>3 DEF run_all_sweeps
    <3> QED
      BY <1>2, <2>1, <2>3, <3>1
  <2> QED
    BY <2>2, <2>3
<1>4. CASE UNCHANGED <<vars, stage_entered_at, last_run>>
  BY <1>2, <1>4
<1> QED
  BY <1>1, <1>3, <1>4 DEF SweepNext, archive_final_pdf_detached, archive_final_pdf,
                          evaluation_summary_pdf, sweep_vars

\* Whatever the sweeps have reported is still so.
LEMMA ReportStaysCurrent == SweepSpec => []ReportIsCurrent
<1>1. SweepInit => ReportIsCurrent
  BY DEF SweepInit, idle, ReportIsCurrent
<1> QED
  BY <1>1, ReportStep, PTL DEF SweepSpec

\* Who can take an open case forward is among those the reminder goes to, unless the reminder
\* fails for want of a deputy.
LEMMA ActorsAreOwners ==
    ASSUME TypeOK, NEW r \in Records, NEW u \in actors(rec[r]), None \notin current_owner_ids(rec[r])
    PROVE  u \in current_owner_ids(rec[r])
<1>1. rec[r] \in Record /\ u \in Users /\ u # None
  BY NullAssumption DEF TypeOK, actors
<1>2. /\ rec[r].status \in OPEN_STATUSES
      /\ rec[r].status = "draft" => u = rec[r][scorer_seat(rec[r])]
      /\ rec[r].status = "submitted" => is_hr(u)
      /\ rec[r].status = "hr_approved" => u = after_hr_id(rec[r])
      /\ rec[r].status = "deputy_approved" => u = rec[r].ceo
  BY <1>1, ForwardActor
<1>3. CASE rec[r].status = "draft"
  BY <1>1, <1>2, <1>3 DEF current_owner_ids
<1>4. CASE rec[r].status = "submitted"
  BY <1>1, <1>2, <1>4 DEF current_owner_ids, active_hr_ids
<1>5. CASE rec[r].status = "hr_approved"
  <2>1. current_owner_ids(rec[r]) = {rec[r].deputy}
    BY <1>5 DEF current_owner_ids
  <2> QED
    BY <1>2, <1>5, <2>1 DEF after_hr_id
<1>6. CASE rec[r].status = "deputy_approved"
  BY <1>2, <1>6 DEF current_owner_ids
<1> QED
  BY <1>2, <1>3, <1>4, <1>5, <1>6 DEF OPEN_STATUSES

\* A run of the reminders that does not fail reaches everyone who can take a stalled case
\* forward, on every path.
THEOREM NextActorsAreReminded == SweepSpec => []NextActorIsReminded
<1>1. TypeOK /\ ReportIsCurrent => NextActorIsReminded
  <2> SUFFICES ASSUME TypeOK, ReportIsCurrent, last_run.outcome = "succeeded",
                      NEW r \in stalled, NEW u \in next_actors(r)
               PROVE  <<r, u>> \in last_run.reminded
    BY DEF NextActorIsReminded
  <2>1. r \in Records /\ u \in Users /\ u \in actors(rec[r])
    BY DEF stalled, next_actors, actors
  <2>2. None \notin current_owner_ids(rec[r])
    BY DEF ReportIsCurrent, sla_sweep_fails
  <2>3. u \in current_owner_ids(rec[r])
    BY <2>1, <2>2, ActorsAreOwners
  <2>4. <<r, u>> \in run_sla_sweep
    BY <2>1, <2>3 DEF run_sla_sweep
  <2> QED
    BY <2>4 DEF ReportIsCurrent
<1> QED
  BY <1>1, TypeCorrect, SweepsOnlyLook, ReportStaysCurrent, PTL
-----------------------------------------------------------------------------
(* Reports of stuck cases.  They are true only where a chain that lets HR  *)
(* approve has a deputy: current_owner_ids looks for one, and takes a case *)
(* that awaits its CEO for a case without an owner.                        *)

\* The chain has a deputy, or needs none because the CEO scores.
Owned(chain) == chain.deputy # None \/ is_direct_ceo_path(chain)

\* Every configured chain and every record has such a chain, and HR approves no manager's case
\* into the status where a deputy is looked for.
CasesOwned ==
    /\ \A p \in Personnel : staff[p].access # None => Owned(staff[p].access)
    /\ \A r \in Records : Owned(rec[r])
    /\ \A r \in Records : rec[r].status = "hr_approved" => ~is_manager_path(rec[r])

\* If HR writes owned chains only, all chains are owned for good: titles, reassignments and
\* transitions take no deputy away.
LEMMA CasesOwnedStep ==
    ASSUME TypeOK, CasesOwned, [Next]_vars, \A chain \in Chains : Owned(chain)
    PROVE  CasesOwned'
<1>1. ASSUME NEW p \in Personnel, staff'[p].access # None PROVE Owned(staff'[p].access)
  <2>1. CASE ChainKept(p)
    BY <1>1, <2>1 DEF ChainKept, CasesOwned
  <2>2. CASE ChainWritten(p)
    BY <2>2 DEF ChainWritten
  <2>3. CASE TitleWritten(p)
    <3>1. staff[p].access # None /\ staff[p].access \in Chain
      BY <1>1, <2>3 DEF TitleWritten, TypeOK, Employee
    <3>2. Owned(staff[p].access)
      BY <3>1 DEF CasesOwned
    <3> QED
      BY <2>3, <3>1, <3>2 DEF TitleWritten, Owned, is_direct_ceo_path, Chain
  <2> QED
    BY <2>1, <2>2, <2>3, StaffStep
<1>2. ASSUME NEW x \in Records PROVE Owned(rec'[x])
  <2>1. CASE SeatsKept(x)
    BY <2>1 DEF SeatsKept, Seats, CasesOwned, Owned, is_direct_ceo_path
  <2>2. CASE SeatGiven(x)
    <3>1. rec[x] \in Record
      BY DEF TypeOK
    <3>2. /\ rec'[x].deputy = None <=> rec[x].deputy = None
          /\ rec'[x].unit_supervisor = None <=> rec[x].unit_supervisor = None
      BY <2>2, <3>1, NullAssumption DEF SeatGiven, Seats, Record
    <3> QED
      BY <3>2 DEF CasesOwned, Owned, is_direct_ceo_path
  <2>3. CASE SeatsCopied(x)
    <3>1. PICK p \in Personnel : ready_to_open(p) /\ rec'[x] = new_record(p)
      BY <2>3 DEF SeatsCopied
    <3>2. staff[p].access # None /\ staff[p].access \in Chain
      BY <3>1 DEF ready_to_open, TypeOK, Employee
    <3>3. Owned(record_chain(p))
      BY <3>2 DEF record_chain, CasesOwned, Owned, is_direct_ceo_path, Chain
    <3> QED
      BY <3>1, <3>3, NewRecord DEF Owned, is_direct_ceo_path, Seats
  <2> QED
    BY <2>1, <2>2, <2>3, SeatsStep
<1>3. ASSUME NEW x \in Records, rec'[x].status = "hr_approved" PROVE ~is_manager_path(rec'[x])
  <2>1. CASE Same(x) \/ Kept(x)
    BY <1>3, <2>1 DEF Same, Kept, CasesOwned, is_manager_path, Seats
  <2>2. CASE Stepped(x)
    <3>1. PICK u \in Users, action \in Actions, case \in Record :
            /\ guard(action, rec[x])
            /\ Copied(case, rec[x])
            /\ rec'[x] = moved(u, case, action)
      BY <2>2 DEF Stepped
    <3>2. /\ rec'[x].status = TRANSITIONS[action].to_status
          /\ rec'[x].unit_supervisor = rec[x].unit_supervisor
      BY <3>1, SteppedFields DEF Seats
    <3>3. action \in {"hr_approve", "ceo_return"}
      BY <1>3, <3>2, ActionNames DEF TRANSITIONS, Row
    <3> QED
      BY <3>1, <3>2, <3>3 DEF guard, is_manager_path
  <2> QED
    BY <1>3, <2>1, <2>2, CaseStep, OpenedFields DEF TablesUntouched, OneCase, Same
<1> QED
  BY <1>1, <1>2, <1>3 DEF CasesOwned

\* All chains are owned for good if HR writes owned chains only.
LEMMA CasesStayOwned ==
    ASSUME \A chain \in Chains : Owned(chain)
    PROVE  Spec => []CasesOwned
<1>1. Init => CasesOwned
  BY InitEmpty DEF CasesOwned, Owned, is_direct_ceo_path, blank_record
<1>2. TypeOK /\ CasesOwned /\ [Next]_vars => CasesOwned'
  BY CasesOwnedStep
<1> QED
  BY <1>1, <1>2, TypeCorrect, PTL DEF Spec

\* An open case over an owned chain has no NULL among its owners.
LEMMA OwnersKnown ==
    ASSUME TypeOK, CasesOwned, NEW r \in Records, is_open(rec[r])
    PROVE  None \notin current_owner_ids(rec[r])
<1>1. rec[r].status = "hr_approved" => rec[r].deputy # None
  BY DEF CasesOwned, Owned, is_manager_path, is_direct_ceo_path
<1>2. rec[r].ceo # None
  BY NullAssumption DEF TypeOK, is_open, OPEN_STATUSES
<1>3. None \notin active_hr_ids
  BY NullAssumption DEF active_hr_ids
<1> QED
  BY <1>1, <1>2, <1>3 DEF is_open, OPEN_STATUSES, current_owner_ids

\* Where every chain that HR writes has a deputy or goes straight to the CEO, a case reported as
\* stuck is stuck: nobody with a working account can take it forward.
THEOREM OwnedReportsAreTrue ==
    ASSUME \A chain \in Chains : Owned(chain)
    PROVE  SweepSpec => []ReportsAreTrue
<1>1. TypeOK /\ CasesOwned /\ ReportIsCurrent => ReportsAreTrue
  <2> SUFFICES ASSUME TypeOK, CasesOwned, ReportIsCurrent, NEW r \in last_run.reported, NEW u \in next_actors(r)
               PROVE  FALSE
    BY DEF ReportsAreTrue
  <2>1. /\ r \in Records
        /\ is_open(rec[r])
        /\ \A v \in current_owner_ids(rec[r]) : v # None => ~account[v].active
    BY DEF ReportIsCurrent, run_orphaned_case_sweep
  <2>2. u \in actors(rec[r]) /\ u # None /\ account[u].active
    BY NullAssumption DEF next_actors, actors, authenticated
  <2>3. None \notin current_owner_ids(rec[r])
    BY <2>1, OwnersKnown
  <2>4. u \in current_owner_ids(rec[r])
    BY <2>1, <2>2, <2>3, ActorsAreOwners
  <2> QED
    BY <2>1, <2>2, <2>4
<1>2. Spec => []CasesOwned
  BY CasesStayOwned
<1> QED
  BY <1>1, <1>2, TypeCorrect, SweepsOnlyLook, ReportStaysCurrent, PTL
-----------------------------------------------------------------------------
(* The archive of final documents.                                         *)

\* There are documents of finalized cases only.
DocumentsAreFinal == documents \subseteq {r \in Records : rec[r].status = "finalized"}

\* A finalized case has its document, or the backfill sees that it has none.
DocumentsAreDue ==
    \A r \in Records : rec[r].status = "finalized" => r \in documents \cup documents_pending

\* What no step of Spec does to a closed case (TerminalFrozen).
ClosedStay ==
    \A r \in Records : rec[r].status \in {"finalized", "cancelled"} =>
        rec'[r] = rec[r] /\ signed'[r] = signed[r]

\* A finalized case has a snapshot to make the document from.
LEMMA FinalSnapshot ==
    ASSUME TypeOK, ResultMatchesScores, SnapshotIsFinal, NEW r \in Records, rec[r].status = "finalized"
    PROVE  rec[r].snapshot # None
<1>1. PICK case \in Record : case = rec[r] /\ case.status = "finalized" /\ case.ceo \in Users
  BY DEF TypeOK
<1>2. case.result = compute_result(case.entries) /\ case.entries.sheet \in CompleteSheets
  BY <1>1 DEF ResultMatchesScores, Statuses
<1>3. case.entries \in Entries
  BY <1>1 DEF Record
<1>4. case.result \in Results
  BY <1>2, <1>3 DEF compute_result, Results, Entries
<1>5. case[scorer_seat(case)] \in Users
  BY <1>1, NullAssumption DEF Record, scorer_seat, is_direct_ceo_path, is_manager_path
<1>6. single_decider(case) \in BOOLEAN
  BY DEF single_decider
<1>7. final_snapshot(case) \in Snapshot
  BY <1>3, <1>4, <1>5, <1>6 DEF final_snapshot, Snapshot
<1>8. rec[r].snapshot = final_snapshot(case)
  BY <1>1 DEF SnapshotIsFinal
<1> QED
  BY <1>7, <1>8, NullAssumption

\* The jobs and the downloads archive documents of finalized cases, and remove none.
LEMMA DocumentsStep ==
    ASSUME DocumentsAreFinal, [SweepNext]_sweep_vars, ClosedStay \/ UNCHANGED vars
    PROVE  DocumentsAreFinal' /\ documents \subseteq documents'
<1>1. \A r \in Records : rec[r].status = "finalized" => rec'[r].status = "finalized"
  BY DEF ClosedStay, vars
<1>2. documents \subseteq documents' /\ documents' \subseteq documents \cup {r \in Records : rec[r].status = "finalized"}
  <2>1. CASE request \/ UNCHANGED sweep_vars
    BY <2>1 DEF request, sweep_vars
  <2>2. CASE run_all_sweeps
    BY <2>2 DEF run_all_sweeps, backfill_batches, documents_pending
  <2>3. CASE archive_final_pdf_detached
    BY <2>3 DEF archive_final_pdf_detached, archive_final_pdf, documents_pending
  <2>4. ASSUME NEW u \in Users, NEW r \in Records, evaluation_summary_pdf(u, r)
        PROVE  documents' = documents \cup {r} /\ rec[r].status = "finalized"
    BY <2>4 DEF evaluation_summary_pdf, archive_final_pdf
  <2> QED
    BY <2>1, <2>2, <2>3, <2>4 DEF SweepNext
<1> QED
  BY <1>1, <1>2 DEF DocumentsAreFinal

\* Only finalized cases have an archived document, and a finalized case that has none is in the
\* sight of the backfill, whatever became of its background task (run_document_backfill_sweep).
THEOREM ArchiveIsSound == SweepSpec => [](DocumentsAreFinal /\ DocumentsAreDue)
<1>1. SweepInit => DocumentsAreFinal
  BY DEF SweepInit, DocumentsAreFinal
<1>2. DocumentsAreFinal /\ [SweepNext]_sweep_vars /\ [ClosedStay]_vars => DocumentsAreFinal'
  BY DocumentsStep
<1>3. SweepSpec => [][ClosedStay]_vars
  BY SweepsOnlyLook, TerminalCasesFrozen, PTL DEF TerminalFrozen, ClosedStay
<1>4. SweepSpec => []DocumentsAreFinal
  BY <1>1, <1>2, <1>3, PTL DEF SweepSpec
<1>5. TypeOK /\ ResultMatchesScores /\ SnapshotIsFinal => DocumentsAreDue
  BY FinalSnapshot DEF DocumentsAreDue, documents_pending
<1> QED
  BY <1>4, <1>5, SweepsOnlyLook, TypeCorrect, ResultsMatchScores, SnapshotsAreFinal, PTL

\* Documents stay, and a run that finds a document missing archives one.
BackfillGoesOn ==
    [][/\ documents \subseteq documents'
       /\ run_all_sweeps /\ documents_pending # {} =>
             \E r \in documents_pending : r \in documents']_sweep_vars

\* Where every chain that HR writes has a deputy or goes straight to the CEO, no reminder fails
\* and takes the backfill with it: every run of run_all_sweeps brings the archive forward.
THEOREM OwnedBackfillGoesOn ==
    ASSUME \A chain \in Chains : Owned(chain)
    PROVE  SweepSpec => BackfillGoesOn
<1>1. ASSUME TypeOK, CasesOwned, run_all_sweeps, documents_pending # {}
      PROVE  \E r \in documents_pending : r \in documents'
  <2>1. ~sla_sweep_fails
    BY <1>1, OwnersKnown DEF sla_sweep_fails, stalled
  <2>2. PICK batch \in backfill_batches : documents' = documents \cup batch
    BY <1>1, <2>1 DEF run_all_sweeps
  <2>3. batch # {} /\ batch \subseteq documents_pending
    <3>1. Cardinality({}) = 0
      BY FS_EmptySet
    <3> QED
      BY <1>1, <2>2, <3>1, SweepAssumption DEF backfill_batches
  <2> QED
    BY <2>2, <2>3
<1>2. ASSUME TypeOK, CasesOwned, DocumentsAreFinal, [SweepNext]_sweep_vars, [ClosedStay]_vars
      PROVE  [/\ documents \subseteq documents'
              /\ run_all_sweeps /\ documents_pending # {} =>
                    \E r \in documents_pending : r \in documents']_sweep_vars
  BY <1>1, <1>2, DocumentsStep
<1>3. SweepSpec => [][ClosedStay]_vars
  BY SweepsOnlyLook, TerminalCasesFrozen, PTL DEF TerminalFrozen, ClosedStay
<1>4. Spec => []CasesOwned
  BY CasesStayOwned
<1> QED
  BY <1>2, <1>3, <1>4, SweepsOnlyLook, TypeCorrect, ArchiveIsSound, PTL DEF SweepSpec, BackfillGoesOn
=============================================================================
