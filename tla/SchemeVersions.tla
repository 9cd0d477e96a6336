--------------------------- MODULE SchemeVersions ---------------------------
(***************************************************************************)
(* Scoring schemes: drafted by one clerk, put into force by another, which *)
(* retires the one in force; only drafts are deleted.  A case is stamped   *)
(* with the scheme in force when it is opened and computed by it.  A clerk *)
(* reads the row without a lock and writes later, so that two clerks may   *)
(* act on what is no longer so; what remains are a partial unique index on *)
(* the scheme in force and the foreign key of the stamp.                   *)
(***************************************************************************)
CONSTANTS
    SchemeRows, Clerks, StampedCases,
    FirstScheme,    \* version 1, put in force by the migration
    NoScheme        \* also the author of the first scheme, and the stamp of a case without one

ASSUME SchemeAssumption ==
    FirstScheme \in SchemeRows /\ NoScheme \notin SchemeRows \cup Clerks /\ "unopened" \notin SchemeRows

VARIABLES
    scheme_status,  \* "none", "draft", "active", "retired" or "deleted"
    drafted_by,
    request,        \* per clerk, the request that has made its checks but not written yet
    stamp           \* scoring_scheme_id per case; "unopened"

scheme_vars == <<scheme_status, drafted_by, request, stamp>>

no_request == [does |-> "nothing", to |-> NoScheme, over |-> NoScheme]

SchemeInit ==
    /\ scheme_status = [s \in SchemeRows |-> IF s = FirstScheme THEN "active" ELSE "none"]
    /\ drafted_by = [s \in SchemeRows |-> NoScheme]
    /\ request = [k \in Clerks |-> no_request]
    /\ stamp = [e \in StampedCases |-> "unopened"]
-----------------------------------------------------------------------------
active_scheme ==
    IF \E s \in SchemeRows : scheme_status[s] = "active"
    THEN CHOOSE s \in SchemeRows : scheme_status[s] = "active" ELSE NoScheme

\* The rules a case is computed by: those of its stamp, else those in force (else the constants
\* of the program).
rules_for_record(e) == IF stamp[e] \in SchemeRows THEN stamp[e] ELSE active_scheme

create_scheme(k, s) ==
    /\ scheme_status[s] = "none"
    /\ scheme_status' = [scheme_status EXCEPT ![s] = "draft"]
    /\ drafted_by' = [drafted_by EXCEPT ![s] = k]
    /\ UNCHANGED <<request, stamp>>

\* The checks: a draft, and not one's own; the scheme to retire is read.
activate_scheme(k, s) ==
    /\ request[k] = no_request /\ scheme_status[s] = "draft" /\ drafted_by[s] # k
    /\ request' = [request EXCEPT ![k] = [does |-> "activate", to |-> s, over |-> active_scheme]]
    /\ UNCHANGED <<scheme_status, drafted_by, stamp>>

delete_draft(k, s) ==
    /\ request[k] = no_request /\ scheme_status[s] = "draft"
    /\ request' = [request EXCEPT ![k] = [does |-> "delete", to |-> s, over |-> NoScheme]]
    /\ UNCHANGED <<scheme_status, drafted_by, stamp>>

refused(k) == request' = [request EXCEPT ![k] = no_request] /\ UNCHANGED <<scheme_status, drafted_by, stamp>>

\* Mutant: no index keeps a second scheme from being in force.
index_allows_any(k) == TRUE

\* uq_single_active_scheme: nothing but the one retired and the one activated is in force.
index_allows(k) == active_scheme \in {NoScheme, request[k].to, request[k].over}

gone(s) == s # NoScheme /\ scheme_status[s] = "deleted"

\* The updates by primary key: an update that meets no row any more is an error.
activate(k) ==
    /\ request[k].does = "activate"
    /\ IF gone(request[k].to) \/ gone(request[k].over) \/ ~index_allows(k) THEN refused(k)
       ELSE /\ scheme_status' = [s \in SchemeRows |->
                  CASE s = request[k].to -> "active" [] s = request[k].over -> "retired" [] OTHER -> scheme_status[s]]
            /\ request' = [request EXCEPT ![k] = no_request]
            /\ UNCHANGED <<drafted_by, stamp>>

\* Mutant: the stamps of the cases do not protect the row.
is_referenced_never(s) == FALSE

is_referenced(s) == \E e \in StampedCases : stamp[e] = s

\* The deletion by primary key, whatever the row has become; one that meets no row is no error.
delete(k) ==
    /\ request[k].does = "delete"
    /\ IF is_referenced(request[k].to) THEN refused(k)
       ELSE /\ scheme_status' = [scheme_status EXCEPT ![request[k].to] = "deleted"]
            /\ request' = [request EXCEPT ![k] = no_request]
            /\ UNCHANGED <<drafted_by, stamp>>

open_case(e) ==
    /\ stamp[e] = "unopened"
    /\ stamp' = [stamp EXCEPT ![e] = active_scheme]
    /\ UNCHANGED <<scheme_status, drafted_by, request>>

SchemeNext ==
    \/ \E k \in Clerks, s \in SchemeRows : create_scheme(k, s) \/ activate_scheme(k, s) \/ delete_draft(k, s)
    \/ \E k \in Clerks : activate(k) \/ delete(k)
    \/ \E e \in StampedCases : open_case(e)

SchemeSpec == SchemeInit /\ [][SchemeNext]_scheme_vars
-----------------------------------------------------------------------------
\* However the requests of the clerks cross, one scheme at most is in force.
OneSchemeInForce ==
    \A s, t \in SchemeRows : scheme_status[s] = "active" /\ scheme_status[t] = "active" => s = t

\* "A case made last year is computed by last year's rules, even if HR has changed the weights
\* today" (rules_for_record): while it bears a stamp, though drafts are deleted by who does not
\* know that they have come into force.
StampedRulesStay ==
    [][\A e \in StampedCases : stamp[e] \in SchemeRows =>
          rules_for_record(e)' = rules_for_record(e) /\ scheme_status'[stamp[e]] # "deleted"]_scheme_vars
=============================================================================
