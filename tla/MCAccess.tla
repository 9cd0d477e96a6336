------------------------------ MODULE MCAccess ------------------------------
(***************************************************************************)
(* Access to the system: Sessions, LoginGuard, Administration, Settings.   *)
(* The four share no variable, so every interleaving of them looks to each *)
(* of them like a run of its own; "part" says which one is running.        *)
(***************************************************************************)
EXTENDS Sessions, LoginGuard, Administration, Settings, TLC

CONSTANTS laptop, t1, t2, u1

VARIABLE part

TabsOfOne == (t1 :> laptop) @@ (t2 :> laptop)
Defaults == [key \in Keys |-> 1]

SessionSymmetry == Permutations(SessionIds) \cup Permutations(Tabs)

\* In "sessions": nothing more once two requests have written the account over each other, or its
\* version has risen twice.
unfinished == ~overlapped /\ user.version < 2

\* In "rights": the role of one of the two people stays.
one_role_changes == person[u1].role \in {Nobody, "support"}

AccessInit ==
    /\ part \in {"sessions", "guard", "rights", "settings"}
    /\ SessionsInit /\ GuardInit /\ AdminInit /\ SettingsInit
    /\ IF part = "rights" THEN one_role_changes ELSE rights = {}

AccessNext ==
    \/ part = "sessions" /\ unfinished /\ SessionsNext /\ UNCHANGED <<guard_vars, admin_vars, settings_vars, part>>
    \/ part = "guard" /\ GuardNext /\ UNCHANGED <<session_vars, admin_vars, settings_vars, part>>
    \/ part = "rights" /\ AdminNext /\ one_role_changes' /\ UNCHANGED <<session_vars, guard_vars, settings_vars, part>>
    \/ part = "settings" /\ SettingsNext /\ UNCHANGED <<session_vars, guard_vars, admin_vars, part>>

AccessSpec == AccessInit /\ [][AccessNext]_<<session_vars, guard_vars, admin_vars, settings_vars, part>>
=============================================================================
