----------------------------- MODULE RecordRaces -----------------------------
(***************************************************************************)
(* Concurrent requests on one evaluation record.  EvaluationWorkflow takes *)
(* every request as one step; this module opens the request up into its    *)
(* database steps under READ COMMITTED and asks when that was justified.   *)
(*                                                                         *)
(* Two locks matter, and handlers take them in different orders:           *)
(*   - the row lock of the record: taken first, with the read, by the      *)
(*     handlers that use SELECT ... FOR UPDATE; taken last, with the       *)
(*     UPDATE, by the departure, which reads without a lock;               *)
(*   - the lock of the audit chain, an advisory lock of the transaction,   *)
(*     taken by log_event.                                                 *)
(* PostgreSQL breaks a cycle by aborting one of the transactions in it.    *)
(* The chain of the record is taken to have no deputy.                     *)
(***************************************************************************)
EXTENDS ChainRules, Sequences

CONSTANTS
    Requests,
    Kind       \* what each request does

Transitions == {"submit", "hr_approve", "ceo_finalize", "hr_return", "cancel"}
Kinds == Transitions \cup {"upsert_scores", "depart"}

ASSUME RequestAssumption == Kind \in [Requests -> Kinds] /\ None \notin Requests

VARIABLES
    row,          \* the committed record: status, the scores (who saved them), the result
    audit_log,    \* the committed audit rows: what they link to, old and new status
    pc,           \* per request, how far it got
    seen,         \* per request, the record it read
    tail,         \* per request, the length of the audit log whose last hash it read
    row_lock, chain_lock   \* the request that holds the lock, or None

race_vars == <<row, audit_log, pc, seen, tail, row_lock, chain_lock>>

fresh == [status |-> "draft", scores |-> None, result |-> None]

Ended == {"done", "rejected", "aborted"}

RaceInit ==
    /\ row = fresh
    /\ audit_log = <<>>
    /\ pc = [r \in Requests |-> "arrived"]
    /\ seen = [r \in Requests |-> fresh]
    /\ tail = [r \in Requests |-> 0]
    /\ row_lock = None /\ chain_lock = None
-----------------------------------------------------------------------------
action_of(r) == IF Kind[r] = "depart" THEN "cancel" ELSE Kind[r]

\* The check each handler makes on the record it has read.
allowed(r, record) ==
    IF Kind[r] = "upsert_scores" THEN record.status = "draft"
    ELSE /\ record.status \in TRANSITIONS[action_of(r)].from_statuses
         /\ action_of(r) = "submit" => record.scores # None
         /\ action_of(r) = "ceo_finalize" => record.result # None

\* The record as the handler leaves it.
effect(r, record) ==
    CASE Kind[r] = "upsert_scores" -> [record EXCEPT !.scores = r]
      [] Kind[r] = "submit" -> [record EXCEPT !.status = "submitted", !.result = record.scores]
      [] OTHER -> [record EXCEPT !.status = TRANSITIONS[action_of(r)].to_status]

\* An UPDATE writes the columns that the handler has changed.
updated(r) ==
    LET after == effect(r, seen[r])
    IN  [column \in DOMAIN row |-> IF after[column] # seen[r][column] THEN after[column] ELSE row[column]]

\* Mutant: the session of a rejected request is not closed, and its locks stay.
finish_leaking(r, outcome) ==
    /\ pc' = [pc EXCEPT ![r] = outcome]
    /\ row_lock' = IF row_lock = r /\ outcome # "rejected" THEN None ELSE row_lock
    /\ chain_lock' = IF chain_lock = r /\ outcome # "rejected" THEN None ELSE chain_lock

\* The end of the transaction gives back its locks.
finish(r, outcome) ==
    /\ pc' = [pc EXCEPT ![r] = outcome]
    /\ row_lock' = IF row_lock = r THEN None ELSE row_lock
    /\ chain_lock' = IF chain_lock = r THEN None ELSE chain_lock

take_row(r) == row_lock \in {None, r} /\ row_lock' = r

\* Mutant: the hash of the last row is read without the lock.
take_chain_unlocked(r) ==
    /\ tail' = [tail EXCEPT ![r] = Len(audit_log)]
    /\ UNCHANGED chain_lock

\* The lock of the audit chain, and with it the hash of the last row.
take_chain(r) ==
    /\ chain_lock \in {None, r} /\ chain_lock' = r
    /\ tail' = [tail EXCEPT ![r] = Len(audit_log)]

get_record_for_update(r) ==
    /\ pc[r] = "arrived" /\ Kind[r] # "depart"
    /\ take_row(r)
    /\ seen' = [seen EXCEPT ![r] = row]
    /\ pc' = [pc EXCEPT ![r] = "read"]
    /\ UNCHANGED <<row, audit_log, tail, chain_lock>>

\* Mutant: the departure looks for an open case before it logs anything.
find_open_case_first(r) ==
    /\ pc[r] = "arrived" /\ Kind[r] = "depart"
    /\ seen' = [seen EXCEPT ![r] = row]
    /\ pc' = [pc EXCEPT ![r] = "read"]
    /\ UNCHANGED <<row, audit_log, tail, row_lock, chain_lock>>

\* A departure logs the change of the personnel row before it looks for an open case.
log_departure(r) ==
    /\ pc[r] = "arrived" /\ Kind[r] = "depart"
    /\ take_chain(r)
    /\ pc' = [pc EXCEPT ![r] = "departing"]
    /\ UNCHANGED <<row, audit_log, seen, row_lock>>

find_open_case(r) ==
    /\ pc[r] = "departing"
    /\ seen' = [seen EXCEPT ![r] = row]
    /\ pc' = [pc EXCEPT ![r] = "read"]
    /\ UNCHANGED <<row, audit_log, tail, row_lock, chain_lock>>

\* A request that is not allowed ends here; a departure without an open case just commits.
reject(r) ==
    /\ pc[r] = "read" /\ ~allowed(r, seen[r])
    /\ IF Kind[r] = "depart"
       THEN /\ audit_log' = Append(audit_log, [prev |-> tail[r], from |-> row.status, to |-> row.status])
            /\ finish(r, "done")
       ELSE finish(r, "rejected") /\ UNCHANGED audit_log
    /\ UNCHANGED <<row, seen, tail>>

log_event(r) ==
    /\ pc[r] = "read" /\ allowed(r, seen[r])
    /\ take_chain(r)
    /\ pc' = [pc EXCEPT ![r] = "logged"]
    /\ UNCHANGED <<row, audit_log, seen, row_lock>>

\* Flush and commit: both the UPDATE and the foreign key of the audit row need the row.
\* The audit rows of one transaction follow each other and count as one.
commit(r) ==
    /\ pc[r] = "logged"
    /\ row_lock \in {None, r}
    /\ row' = updated(r)
    /\ audit_log' = Append(audit_log,
          [prev |-> tail[r], from |-> seen[r].status, to |-> effect(r, seen[r]).status])
    /\ finish(r, "done")
    /\ UNCHANGED <<seen, tail>>

\* Who a request waits for.
blocker(r) ==
    CASE pc[r] = "read" /\ chain_lock # r -> chain_lock
      [] pc[r] = "logged" /\ row_lock # r -> row_lock
      [] OTHER -> None

deadlocked(r) == blocker(r) # None /\ blocker(blocker(r)) = r

\* The deadlock detector of PostgreSQL picks a victim; the request fails with an error.
abort(r) ==
    /\ deadlocked(r)
    /\ finish(r, "aborted")
    /\ UNCHANGED <<row, audit_log, seen, tail>>

race_step(r) ==
    \/ get_record_for_update(r)
    \/ log_departure(r) \/ find_open_case(r)
    \/ reject(r) \/ log_event(r) \/ commit(r) \/ abort(r)

RaceNext == \E r \in Requests : race_step(r)

RaceSpec == RaceInit /\ [][RaceNext]_race_vars
-----------------------------------------------------------------------------
\* Every commit does what the request would have done alone on the record as it then was: its
\* check still holds, and what it writes is computed from the record it writes to.  This is what
\* lets EvaluationWorkflow take requests as single steps; for a departure, which reads without
\* the row lock, it rests on the lock of the audit chain.
CommitsAreSerial ==
    [][\E r \in Requests : allowed(r, row) /\ row' = effect(r, row)]_row

\* Every row of the log links to the one before it.
verify_chain == \A i \in 1 .. Len(audit_log) : audit_log[i].prev = i - 1

\* The rows of the log that the statistics of the stages read.
status_changes == {i \in 1 .. Len(audit_log) : audit_log[i].from # audit_log[i].to}

\* The stage in which a case is by the first n rows: where it begins, or what the last change led to.
walking(n) ==
    LET changes == status_changes \cap 1 .. n
    IN  IF changes = {} THEN fresh.status
        ELSE audit_log[CHOOSE i \in changes : \A j \in changes : j <= i].to

\* The audit log is one chain, and the stays that the statistics of the stages read from it are the
\* history of the record: each begins where the one before it led, the first where a case begins,
\* and the last led to the stage the record is in (verify_chain, _stage_visits).
AuditReadsAsHistory ==
    /\ verify_chain
    /\ \A n \in status_changes : audit_log[n].from = walking(n - 1)
    /\ row.status = walking(Len(audit_log))

\* Every request gets an answer, although handlers take the two locks in opposite orders: no
\* step goes back, and until all have ended there is one that can go on.
RequestsEnd == (\E r \in Requests : pc[r] \notin Ended) => \E r \in Requests : ENABLED race_step(r)
=============================================================================
