--------------------------- MODULE Administration ---------------------------
(***************************************************************************)
(* Administrative rights, apart from the roles of the evaluation chain:    *)
(* who holds which capability, who may give them, the defaults of an HR    *)
(* account, deleting accounts, and the check at start-up that somebody     *)
(* can give rights at all.                                                 *)
(*                                                                         *)
(* Giving rights reads the holders and commits later, so two requests may  *)
(* cross; the other handlers are one step.                                 *)
(***************************************************************************)
EXTENDS Naturals, FiniteSets

CONSTANTS
    People,               \* ids of user rows
    Capabilities,         \* includes "manage_capabilities" and "manage_users"
    DefaultHR,            \* DEFAULT_HR_CAPABILITIES
    Staffers,             \* roles an administrator may give
    Nobody

ASSUME AdministrationAssumption ==
    /\ {"manage_capabilities", "manage_users"} \subseteq Capabilities
    /\ DefaultHR \subseteq Capabilities \ {"manage_capabilities"}
    /\ {"support", "hr", "employee"} \subseteq Staffers
    /\ Nobody \notin People

VARIABLES
    person,      \* users: role (Nobody: no such row) and is_active
    rights,      \* user_capabilities: who holds what, granted by whom (Nobody: by default)
    logged,      \* the users who are the actor of some audit row
    granting     \* per user, the set_capabilities request under way

admin_vars == <<person, rights, logged, granting>>

no_row == [role |-> Nobody, active |-> FALSE]
no_request == [whom |-> Nobody]

exists(u) == person[u].role # Nobody
capabilities_of(u) == {right.capability : right \in {g \in rights : g.holder = u}}
active_holders == {u \in People : person[u].active /\ "manage_capabilities" \in capabilities_of(u)}

require_capability(u, capability) == person[u].active /\ capability \in capabilities_of(u)

rights_of(u, capabilities, by) ==
    {[holder |-> u, capability |-> capability, by |-> by] : capability \in capabilities}

\* An account that becomes HR loses what it had and gets the defaults.
apply_default_hr_capabilities(u) ==
    {right \in rights : right.holder # u} \cup rights_of(u, DefaultHR, Nobody)

\* An empty database, or the installation of one administrator by hand.
AdminInit ==
    /\ \/ /\ person = [u \in People |-> no_row]
          /\ rights = {}
       \/ \E first \in People, role \in Staffers :     \* scripts/create_admin.py
             /\ person = [u \in People |-> IF u = first THEN [role |-> role, active |-> TRUE] ELSE no_row]
             /\ rights = rights_of(first, Capabilities, Nobody)
    /\ logged = {}
    /\ granting = [u \in People |-> no_request]
-----------------------------------------------------------------------------
(* Giving and taking rights.                                               *)

\* Worked out from the rights that were read, to be carried out at the commit; the holders
\* that the request relies on are kept for the history.
grant_request(a, u, desired) ==
    LET current == capabilities_of(u)
    IN  [whom |-> u, held |-> capabilities_of(a), give |-> desired \ current, take |-> current \ desired,
         relies_on |-> IF "manage_capabilities" \in current \ desired THEN active_holders \ {u} ELSE {}]

\* Mutant: managing accounts is enough to give rights.
begin_set_capabilities_by_manage_users(a, u, desired) ==
    /\ granting[a] = no_request
    /\ require_capability(a, "manage_users")
    /\ exists(u) /\ person[u].role # "employee"
    /\ "manage_capabilities" \in capabilities_of(u) \ desired => active_holders \ {u} # {}
    /\ granting' = [granting EXCEPT ![a] = grant_request(a, u, desired)]
    /\ UNCHANGED <<person, rights, logged>>

\* Mutant: an inactive holder counts as another one.
begin_set_capabilities_inactive(a, u, desired) ==
    /\ granting[a] = no_request
    /\ require_capability(a, "manage_capabilities")
    /\ exists(u) /\ person[u].role # "employee"
    /\ "manage_capabilities" \in capabilities_of(u) \ desired =>
          \E other \in People \ {u} : "manage_capabilities" \in capabilities_of(other)
    /\ granting' = [granting EXCEPT ![a] = grant_request(a, u, desired)]
    /\ UNCHANGED <<person, rights, logged>>

\* The last active holder of manage_capabilities keeps it.
begin_set_capabilities(a, u, desired) ==
    /\ granting[a] = no_request
    /\ require_capability(a, "manage_capabilities")
    /\ exists(u) /\ person[u].role # "employee"
    /\ "manage_capabilities" \in capabilities_of(u) \ desired => active_holders \ {u} # {}
    /\ granting' = [granting EXCEPT ![a] = grant_request(a, u, desired)]
    /\ UNCHANGED <<person, rights, logged>>

with_request(request, a) ==
    {right \in rights : ~(right.holder = request.whom /\ right.capability \in request.take)}
    \cup rights_of(request.whom, request.give, a)

\* A row inserted twice breaks uq_user_capability, and one that names a deleted user its
\* foreign key.
insertable(request, a) ==
    exists(request.whom) /\ exists(a) /\ request.give \cap capabilities_of(request.whom) = {}

commit_set_capabilities(a) ==
    /\ granting[a] # no_request
    /\ IF insertable(granting[a], a)
       THEN /\ rights' = with_request(granting[a], a)
            /\ logged' = logged \cup {a}
       ELSE UNCHANGED <<rights, logged>>
    /\ granting' = [granting EXCEPT ![a] = no_request]
    /\ UNCHANGED person
-----------------------------------------------------------------------------
(* Accounts, as far as they matter for rights.                             *)

add_user(a, u, role) ==
    /\ require_capability(a, "manage_users")
    /\ ~exists(u)
    /\ person' = [person EXCEPT ![u] = [role |-> role, active |-> TRUE]]
    /\ rights' = IF role = "hr" THEN apply_default_hr_capabilities(u) ELSE rights
    /\ logged' = logged \cup {a}
    /\ UNCHANGED <<granting>>

edit_user(a, u, role, active) ==
    /\ require_capability(a, "manage_users")
    /\ exists(u)
    /\ u = a => active /\ role = person[u].role
    /\ person' = [person EXCEPT ![u] = [role |-> role, active |-> active]]
    /\ rights' = IF person[u].role # "hr" /\ role = "hr" THEN apply_default_hr_capabilities(u) ELSE rights
    /\ logged' = logged \cup {a}
    /\ UNCHANGED <<granting>>

\* Only an account that is nobody's actor in the audit log; its rights go with it, and so do
\* those it has given.
delete_user(a, u) ==
    /\ require_capability(a, "manage_users")
    /\ exists(u) /\ u # a
    /\ u \notin logged
    /\ person' = [person EXCEPT ![u] = no_row]
    /\ rights' = {right \in rights : u \notin {right.holder, right.by}}
    /\ logged' = logged \cup {a}
    /\ UNCHANGED <<granting>>

\* A login, or anything else that a user does and the audit log keeps.
act(u) ==
    /\ person[u].active
    /\ logged' = logged \cup {u}
    /\ UNCHANGED <<person, rights, granting>>
-----------------------------------------------------------------------------
(* Start-up.                                                               *)

\* Run whenever the service starts; with a holder it does nothing.
ensure_bootstrap_admin ==
    /\ active_holders = {}
    /\ \E u \in People :
          /\ ~exists(u)
          /\ person' = [person EXCEPT ![u] = [role |-> "support", active |-> TRUE]]
          /\ rights' = rights \cup rights_of(u, Capabilities, Nobody)
    /\ UNCHANGED <<logged, granting>>

AdminNext ==
    \/ \E a, u \in People :
          \/ \E desired \in SUBSET Capabilities : begin_set_capabilities(a, u, desired)
          \/ \E role \in Staffers : add_user(a, u, role)
          \/ \E role \in Staffers, active \in BOOLEAN : edit_user(a, u, role, active)
          \/ delete_user(a, u)
    \/ \E a \in People : commit_set_capabilities(a) \/ act(a)
    \/ ensure_bootstrap_admin

AdminSpec == AdminInit /\ [][AdminNext]_admin_vars
-----------------------------------------------------------------------------
\* Giving and taking rights never leaves the system without anyone who can give them ("the
\* last holder of manage_capabilities cannot take it from himself"), unless a holder the
\* request relied on ceased to be one before it was committed.
GrantingKeepsAGrantor ==
    [][\A a \in People : granting[a] # no_request /\ granting'[a] = no_request /\ active_holders # {} =>
          active_holders' # {} \/ granting[a].relies_on \ active_holders # {}]_admin_vars

\* Creating accounts and changing roles never brings the power to grant: who comes to hold
\* manage_capabilities was given it by one who held it when he asked, or is the administrator
\* made at start-up when there was no holder.
PowerComesFromPower ==
    [][\A u \in People : "manage_capabilities" \in capabilities_of(u)' \ capabilities_of(u) =>
          \/ active_holders = {}
          \/ \E a \in People : /\ granting[a] # no_request /\ granting'[a] = no_request
                               /\ granting[a].whom = u /\ "manage_capabilities" \in granting[a].held]_admin_vars
=============================================================================
