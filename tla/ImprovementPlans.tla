--------------------------- MODULE ImprovementPlans ---------------------------
(***************************************************************************)
(* Improvement plans: HR writes one for a finalized case with a weak       *)
(* result, gives it an owner and a review date, and closes it in the end;  *)
(* a job reminds HR and the owner when the review is near.  No handler     *)
(* locks the row: each reads the plan, checks, and writes the columns it   *)
(* has changed when it commits.  Percentages are ordinals here; the goals   *)
(* of a plan and the list of eligible cases are not modelled.              *)
(***************************************************************************)
EXTENDS Naturals

CONSTANTS
    PlanCases, PlanUsers,
    Percentages,        \* final_weighted_pct
    Caps,               \* improvement_plan_max_pct of schemes
    ReviewDays,         \* dates a review may be set for
    AlertDays,          \* improvement_review_alert_days
    LastPlanDay,        \* the calendar runs to this day
    RolesOf,            \* per user, the roles his account may have
    Nobody, Unchanged

ASSUME PlanAssumption ==
    /\ Percentages \cup Caps \cup {AlertDays, LastPlanDay} \cup ReviewDays \subseteq Nat
    /\ DOMAIN RolesOf = PlanUsers
    /\ Nobody \notin PlanUsers \cup Percentages \cup Caps

VARIABLES
    result,         \* per finalized case
    cap_of,         \* per case, the cap of the scheme it is stamped with; Nobody without a stamp
    active_cap,     \* of the scheme in force by now
    plan,           \* improvement_plans, one row per case
    role_of,        \* users: role, or "inactive"
    edit,           \* the columns a PATCH that has not committed yet will write
    told,           \* per plan, the last user told that it is his
    reminded,       \* reminders sent: user, case, and the review date in the key
    plan_day,
    swept           \* the sweep has just run

plan_vars == <<result, cap_of, active_cap, plan, role_of, edit, told, reminded, plan_day, swept>>

no_plan == [status |-> "none", owner |-> Nobody, review |-> 0]
no_edit == [case |-> Nobody, owner |-> Unchanged, review |-> Unchanged]

PlanInit ==
    /\ result \in [PlanCases -> Percentages]
    /\ cap_of \in [PlanCases -> Caps \cup {Nobody}] /\ active_cap \in Caps
    /\ plan = [c \in PlanCases |-> no_plan]
    /\ role_of \in {f \in [PlanUsers -> UNION {RolesOf[u] : u \in PlanUsers}] : \A u \in PlanUsers : f[u] \in RolesOf[u]}
    /\ edit = no_edit
    /\ told = [c \in PlanCases |-> Nobody] /\ reminded = {}
    /\ plan_day = 0 /\ swept = FALSE
-----------------------------------------------------------------------------
acts_for_hr(u) == role_of[u] = "hr"

\* The result is measured by the scheme of the case, or by the one in force if it bears no stamp.
accepts(c) ==
    /\ plan[c].status = "none"
    /\ result[c] < IF cap_of[c] # Nobody THEN cap_of[c] ELSE active_cap

owner_is_valid(o) == o \in {Nobody} \cup {u \in PlanUsers : role_of[u] # "inactive"}

create_plan(u, c, o, d) ==
    /\ acts_for_hr(u) /\ accepts(c) /\ owner_is_valid(o)
    /\ plan' = [plan EXCEPT ![c] = [status |-> "open", owner |-> o, review |-> d]]
    /\ told' = [told EXCEPT ![c] = o]
    /\ swept' = FALSE
    /\ UNCHANGED <<result, cap_of, active_cap, role_of, edit, reminded, plan_day>>

\* A PATCH on a plan, open or not, reads it; the columns that differ will be written.
update_plan(u, c, o, d) ==
    /\ acts_for_hr(u) /\ edit = no_edit /\ plan[c].status # "none" /\ owner_is_valid(o)
    /\ edit' = [case |-> c, owner |-> IF o = plan[c].owner THEN Unchanged ELSE o,
                           review |-> IF d = plan[c].review THEN Unchanged ELSE d]
    /\ swept' = FALSE
    /\ UNCHANGED <<result, cap_of, active_cap, plan, role_of, told, reminded, plan_day>>

\* Mutant: only a plan that has no owner tells its new one.
written_first_owner(c, o, d) ==
    /\ plan' = [plan EXCEPT ![c].owner = IF o = Unchanged THEN @ ELSE o, ![c].review = IF d = Unchanged THEN @ ELSE d]
    /\ told' = IF o \in {Unchanged, Nobody} \/ plan[c].owner # Nobody THEN told ELSE [told EXCEPT ![c] = o]
    /\ swept' = FALSE
    /\ UNCHANGED <<result, cap_of, active_cap, role_of, reminded, plan_day>>

\* A new owner is told.
written(c, o, d) ==
    /\ plan' = [plan EXCEPT ![c].owner = IF o = Unchanged THEN @ ELSE o, ![c].review = IF d = Unchanged THEN @ ELSE d]
    /\ told' = IF o \in {Unchanged, Nobody} THEN told ELSE [told EXCEPT ![c] = o]
    /\ swept' = FALSE
    /\ UNCHANGED <<result, cap_of, active_cap, role_of, reminded, plan_day>>

commit_update == edit # no_edit /\ written(edit.case, edit.owner, edit.review) /\ edit' = no_edit

\* Another PATCH that is over before the one under way.
update_plan_meanwhile(u, c, o, d) ==
    /\ acts_for_hr(u) /\ edit # no_edit /\ plan[c].status # "none" /\ owner_is_valid(o)
    /\ written(c, IF o = plan[c].owner THEN Unchanged ELSE o, IF d = plan[c].review THEN Unchanged ELSE d)
    /\ UNCHANGED edit

\* Completed or cancelled.
close_plan(u, c) ==
    /\ acts_for_hr(u) /\ plan[c].status = "open"
    /\ plan' = [plan EXCEPT ![c].status = "closed"]
    /\ swept' = FALSE
    /\ UNCHANGED <<result, cap_of, active_cap, role_of, edit, told, reminded, plan_day>>
-----------------------------------------------------------------------------
due(c) == plan[c].status = "open" /\ plan[c].review <= plan_day + AlertDays

recipients(c) == {u \in PlanUsers : acts_for_hr(u)} \cup ({plan[c].owner} \ {Nobody})

\* Mutant: a plan that a user was reminded of once is not sent to him again.
review_reminders_once ==
    {t \in PlanUsers \X PlanCases \X ReviewDays :
        /\ t[1] \in recipients(t[2]) /\ due(t[2]) /\ t[3] = plan[t[2]].review
        /\ \A d \in ReviewDays : <<t[1], t[2], d>> \notin reminded}

\* notify_once keeps what was sent under the same key back; the date is part of the key.
review_reminders ==
    {t \in PlanUsers \X PlanCases \X ReviewDays :
        t[1] \in recipients(t[2]) /\ due(t[2]) /\ t[3] = plan[t[2]].review}

run_improvement_review_sweep ==
    /\ reminded' = reminded \cup review_reminders
    /\ swept' = TRUE
    /\ UNCHANGED <<result, cap_of, active_cap, plan, role_of, edit, told, plan_day>>

\* The rest of the system: an account is edited, time goes by.
elsewhere ==
    /\ \/ \E u \in PlanUsers, s \in UNION {RolesOf[k] : k \in PlanUsers} :
             s \in RolesOf[u] \ {role_of[u]} /\ role_of' = [role_of EXCEPT ![u] = s] /\ UNCHANGED plan_day
       \/ plan_day < LastPlanDay /\ plan_day' = plan_day + 1 /\ UNCHANGED role_of
    /\ swept' = FALSE
    /\ UNCHANGED <<result, cap_of, active_cap, plan, edit, told, reminded>>

PlanNext ==
    \/ \E u \in PlanUsers, c \in PlanCases :
          \/ \E o \in PlanUsers \cup {Nobody}, d \in ReviewDays :
                create_plan(u, c, o, d) \/ update_plan(u, c, o, d) \/ update_plan_meanwhile(u, c, o, d)
          \/ close_plan(u, c)
    \/ commit_update \/ run_improvement_review_sweep \/ elsewhere

PlanSpec == PlanInit /\ [][PlanNext]_plan_vars
-----------------------------------------------------------------------------
\* Whoever owns a plan was told after it had become his: no two crossing edits of HR leave it
\* with somebody who never heard of it.
OwnerIsTold == \A c \in PlanCases : plan[c].owner \in {Nobody, told[c]}

\* After a run of the sweep everyone who is to know of a near review has been reminded of the
\* date it is now set for, however often date, owner and HR have changed.
DuePlanIsRemembered ==
    swept => \A c \in PlanCases : due(c) => \A u \in recipients(c) : <<u, c, plan[c].review>> \in reminded

=============================================================================
