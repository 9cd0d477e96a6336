------------------------------ MODULE Notices ------------------------------
(***************************************************************************)
(* Who is told of a step of the workflow (services/notifications.py).      *)
(* Each handler writes the notices in the transaction of its step, so who  *)
(* is told is a function of the case before and after it.                  *)
(***************************************************************************)
EXTENDS EvaluationWorkflow

active_hr_ids == {u \in Users : is_hr(u)}

\* Mutant: the one after HR is the deputy, whether the chain has one or not.
after_hr_id_deputy_only(case) == case.deputy

after_hr_id(case) == IF case.deputy # None THEN case.deputy ELSE case.ceo

\* Recipients of the notice of an action; a NULL one makes the insert, and so the step, fail.
workflow_recipients(action, case) ==
    CASE action \in {"submit", "manager_submit", "direct_ceo_submit", "deputy_return", "ceo_return_manager"} ->
            active_hr_ids
      [] action \in {"hr_approve", "ceo_return"} -> {after_hr_id(case)}
      [] action \in {"hr_approve_manager", "hr_finalize_direct_ceo", "deputy_approve"} -> {case.ceo}
      [] action \in {"hr_return", "ceo_finalize"} -> {case[scorer_seat(case)]}
      [] action = "cancel" -> evaluators(case)

\* The actions that lead from one row to the other.
actions_between(before, after) ==
    {action \in Actions :
        /\ before.status \in TRANSITIONS[action].from_statuses
        /\ after.status = TRANSITIONS[action].to_status
        /\ guard(action, before)}

\* A seat or the HR stage has changed hands in an administrative step: the new owner is told.
new_owners(before, after) ==
    IF before.status = after.status
    THEN {after[stage] : stage \in {stage \in Stages : before[stage] # after[stage]}} ELSE {}

told(before, after) ==
    IF before.status = "absent" /\ after.status = "draft"
    THEN {after[scorer_seat(after)]}   \* he has opened it himself, or is in the notice of a bulk opening
    ELSE new_owners(before, after)
         \cup UNION {workflow_recipients(action, after) : action \in actions_between(before, after)}
-----------------------------------------------------------------------------
\* Who can take the case a stage further.
forward_actions == {"submit", "manager_submit", "direct_ceo_submit", "hr_approve", "hr_approve_manager",
                    "hr_finalize_direct_ceo", "deputy_approve", "ceo_finalize"}

next_actors(r) ==
    {u \in Users : authenticated(u) /\ \E action \in forward_actions : ensure_transition_allowed(u, rec[r], action)}

\* Whoever a step puts in a position to move a case forward is told of it, on every path, forward
\* and back: a case does not come to lie on the desk of somebody who does not know.
NextActorIsTold ==
    [][\A r \in Records : rec'[r] # rec[r] =>
          /\ next_actors(r)' \subseteq next_actors(r) \cup told(rec[r], rec'[r])
          /\ None \notin told(rec[r], rec'[r])]_vars
=============================================================================
