----------------------------- MODULE ChainRules -----------------------------
(***************************************************************************)
(* The rules of the evaluation chain that need no state: who ranks above   *)
(* whom, which path a case takes, which seats may not be held twice, and   *)
(* the declarative table of workflow transitions                           *)
(* (backend/app/services/workflow.py, services/self_evaluation.py).        *)
(*                                                                         *)
(* A "chain" is anything with the fields unit_supervisor, deputy and ceo:  *)
(* a row of evaluation_access, or an evaluation record that copied it.     *)
(***************************************************************************)
EXTENDS Naturals

CONSTANT None   \* SQL NULL

Seats == {"unit_supervisor", "deputy", "ceo"}
Roles == Seats \cup {"hr", "employee", "support"}

\* Mutant: a finalized case still counts as open.
OPEN_STATUSES_finalized_too == {"draft", "submitted", "hr_approved", "deputy_approved", "finalized"}

OPEN_STATUSES == {"draft", "submitted", "hr_approved", "deputy_approved"}
Statuses == OPEN_STATUSES \cup {"finalized", "cancelled"}
-----------------------------------------------------------------------------
(* Rank: a superior may do the work of a lower stage.  HR is a duty, not a *)
(* rung of the ladder: only HR acts at the HR stage.                       *)

chain_rank == [unit_supervisor |-> 1, deputy |-> 2, ceo |-> 3]

may_act_at(user_role, stage_role) ==
    IF stage_role = "hr"
    THEN user_role = "hr"
    ELSE /\ user_role \in Seats
         /\ chain_rank[user_role] >= chain_rank[stage_role]

is_manager_path(chain) == chain.unit_supervisor = None
is_direct_ceo_path(chain) == chain.unit_supervisor = None /\ chain.deputy = None
skips_deputy(chain) == chain.deputy = None

\* The seat whose holder fills in the form of this chain.
scorer_seat(chain) ==
    IF is_direct_ceo_path(chain) THEN "ceo"
    ELSE IF is_manager_path(chain) THEN "deputy" ELSE "unit_supervisor"

evaluators(chain) == {chain[seat] : seat \in Seats} \ {None}

\* Seats that have a better way to be said: supervisor = deputy, deputy = ceo.
\* Supervisor = ceo is allowed; the record then flags a single decider.
redundant(chain) ==
    \/ chain.unit_supervisor # None /\ chain.unit_supervisor = chain.deputy
    \/ chain.deputy # None /\ chain.deputy = chain.ceo

single_decider(chain) ==
    chain.unit_supervisor # None /\ chain.unit_supervisor = chain.ceo
-----------------------------------------------------------------------------
(* The transition table.  The assignee of every row but "cancel" is the    *)
(* seat named like its role; "claimable" rows accept any user of the role  *)
(* while that seat is NULL, and seat him by the act.                       *)

Row(from, to, role, assignee, claimable) ==
    [from_statuses |-> from, to_status |-> to, allowed_role |-> role,
     assignee_field |-> assignee, claimable_if_unassigned |-> claimable]

TRANSITIONS ==
  [ submit                 |-> Row({"draft"}, "submitted", "unit_supervisor", "unit_supervisor", FALSE),
    manager_submit         |-> Row({"draft"}, "submitted", "deputy", "deputy", FALSE),
    direct_ceo_submit      |-> Row({"draft"}, "submitted", "ceo", "ceo", FALSE),
    hr_approve             |-> Row({"submitted"}, "hr_approved", "hr", "hr", TRUE),
    hr_finalize_direct_ceo |-> Row({"submitted"}, "finalized", "hr", "hr", TRUE),
    hr_approve_manager     |-> Row({"submitted"}, "deputy_approved", "hr", "hr", TRUE),
    deputy_approve         |-> Row({"hr_approved"}, "deputy_approved", "deputy", "deputy", FALSE),
    ceo_finalize           |-> Row({"deputy_approved", "hr_approved"}, "finalized", "ceo", "ceo", FALSE),
    hr_return              |-> Row({"submitted"}, "draft", "hr", "hr", TRUE),
    deputy_return          |-> Row({"hr_approved"}, "submitted", "deputy", "deputy", FALSE),
    ceo_return             |-> Row({"deputy_approved"}, "hr_approved", "ceo", "ceo", FALSE),
    ceo_return_manager     |-> Row({"deputy_approved"}, "submitted", "ceo", "ceo", FALSE),
    cancel                 |-> Row(OPEN_STATUSES, "cancelled", "hr", None, FALSE) ]

Actions == DOMAIN TRANSITIONS

\* Mutant: the CEO may finalize straight from HR although the chain has a deputy.
guard_ceo_overtakes_deputy(action, case) ==
    CASE action \in {"submit", "hr_approve", "ceo_return"} -> ~is_manager_path(case)
      [] action \in {"manager_submit", "hr_approve_manager", "ceo_return_manager"} -> is_manager_path(case)
      [] action \in {"direct_ceo_submit", "hr_finalize_direct_ceo"} -> is_direct_ceo_path(case)
      [] OTHER -> TRUE

\* The extra condition of a row: a transition that the absence of a stage allows.
guard(action, case) ==
    CASE action \in {"submit", "hr_approve", "ceo_return"} -> ~is_manager_path(case)
      [] action \in {"manager_submit", "hr_approve_manager", "ceo_return_manager"} -> is_manager_path(case)
      [] action \in {"direct_ceo_submit", "hr_finalize_direct_ceo"} -> is_direct_ceo_path(case)
      [] action = "ceo_finalize" -> case.status = "hr_approved" => skips_deputy(case)
      [] OTHER -> TRUE
=============================================================================
