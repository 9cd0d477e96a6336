----------------------------- MODULE LoginGuard -----------------------------
(***************************************************************************)
(* Counting failed logins for one user name and locking it.  A login looks *)
(* at the lock, spends its time on the password hash, reads the attempts   *)
(* row again and writes what it makes of it; other logins for the same     *)
(* name, the clock and the hourly purge run in between.                    *)
(***************************************************************************)
EXTENDS Naturals, Sequences

CONSTANTS
    Logins,          \* requests that may be under way at once
    MaxAttempts, Window, Lockout,   \* settings.login_*
    MaxTime,         \* bound: the clock stops here
    NoRow

ASSUME GuardAssumption ==
    /\ MaxAttempts \in Nat \ {0} /\ Window \in Nat /\ Lockout \in Nat /\ MaxTime \in Nat
    /\ NoRow \notin [failed_count : Nat, last_failed : Nat, until : Nat]

Times == 0 .. MaxTime

VARIABLES
    now,
    attempts,     \* the login_attempts row; until = 0 stands for no lock
    login,        \* per request: how far it is, and the row it has read
    failures,     \* history: the times of the failures written since the last lock or
                  \* success, in the order of the commits
    locked_by,    \* history: the failures that earned the last lock
    crossed       \* history: a failure was written over a row that its request had not seen

guard_vars == <<now, attempts, login, failures, locked_by, crossed>>

away == [at |-> "away"]

GuardInit ==
    /\ now = 1
    /\ attempts = NoRow
    /\ login = [l \in Logins |-> away]
    /\ failures = <<>> /\ locked_by = <<>> /\ crossed = FALSE
-----------------------------------------------------------------------------
locked(row) == row # NoRow /\ row.until > now

\* The quiet time after which earlier failures count for nothing: now - Window > last failure.
forgotten(row) == row.last_failed + Window < now

arrive(l) ==
    /\ login[l] = away
    /\ ~locked(attempts)
    /\ login' = [login EXCEPT ![l] = [at |-> "verifying"]]
    /\ UNCHANGED <<now, attempts, failures, locked_by, crossed>>

wrong_password(l) ==
    /\ login[l].at = "verifying"
    /\ login' = [login EXCEPT ![l] = [at |-> "failing", read |-> attempts, when |-> now]]
    /\ UNCHANGED <<now, attempts, failures, locked_by, crossed>>

\* Mutant: failures are counted however far apart they are.
counted_for_ever(row, when) ==
    IF row = NoRow
    THEN [failed_count |-> 1, last_failed |-> when, until |-> 0]
    ELSE [row EXCEPT !.failed_count = @ + 1, !.last_failed = when]

\* The row after one more failure, before the lock is considered.
counted(row, when) ==
    IF row = NoRow \/ row.last_failed + Window < when
    THEN [failed_count |-> 1, last_failed |-> when, until |-> 0]
    ELSE [row EXCEPT !.failed_count = @ + 1, !.last_failed = when]

\* Mutant: a failure below the threshold starts a row without a lock.
after_failure_unlocks(row, when) ==
    LET next == counted(row, when)
    IN  IF next.failed_count >= MaxAttempts
        THEN [next EXCEPT !.failed_count = 0, !.until = when + Lockout]
        ELSE [next EXCEPT !.until = 0]

\* At the threshold: locked, with a full quota for the time after the lock.
after_failure(row, when) ==
    LET next == counted(row, when)
    IN  IF next.failed_count >= MaxAttempts
        THEN [next EXCEPT !.failed_count = 0, !.until = when + Lockout] ELSE next

locks(row, when) == counted(row, when).failed_count >= MaxAttempts

\* A column is written when its value differs from the one that was read.
write(read, next) ==
    IF read = NoRow THEN next
    ELSE [column \in DOMAIN next |->
            IF next[column] = read[column] THEN attempts[column] ELSE next[column]]

\* The commit: two first failures collide on the key, a row deleted meanwhile cannot be
\* updated, and in both cases nothing is counted.
record_failure(l) ==
    /\ login[l].at = "failing"
    /\ LET read == login[l].read
           when == login[l].when
       IN  IF (read = NoRow) # (attempts = NoRow)
           THEN UNCHANGED <<attempts, failures, locked_by, crossed>>
           ELSE /\ attempts' = write(read, after_failure(read, when))
                /\ failures' = IF locks(read, when) THEN <<>> ELSE Append(failures, when)
                /\ locked_by' = IF locks(read, when) THEN Append(failures, when) ELSE locked_by
                /\ crossed' = (crossed \/ read # attempts)
    /\ login' = [login EXCEPT ![l] = away]
    /\ UNCHANGED now

\* The right password: the history of failures is deleted, and a lock set meanwhile with it.
clear_failures(l) ==
    /\ login[l].at = "verifying"
    /\ attempts' = NoRow
    /\ failures' = <<>>
    /\ login' = [login EXCEPT ![l] = away]
    /\ UNCHANGED <<now, locked_by, crossed>>

\* Mutant: the purge also takes a row whose window ends just now.
purge_stale_early ==
    /\ attempts # NoRow /\ attempts.last_failed + Window <= now
    /\ attempts.until < now
    /\ attempts' = NoRow
    /\ UNCHANGED <<now, login, failures, locked_by, crossed>>

purge_stale ==
    /\ attempts # NoRow /\ forgotten(attempts)
    /\ attempts.until < now
    /\ attempts' = NoRow
    /\ UNCHANGED <<now, login, failures, locked_by, crossed>>

\* A tick is minutes: no request stays that long between its read and its commit.
tick ==
    /\ now < MaxTime
    /\ \A l \in Logins : login[l].at # "failing"
    /\ now' = now + 1
    /\ UNCHANGED <<attempts, login, failures, locked_by, crossed>>

GuardNext ==
    \/ \E l \in Logins : arrive(l) \/ wrong_password(l) \/ record_failure(l) \/ clear_failures(l)
    \/ purge_stale \/ tick

GuardSpec == GuardInit /\ [][GuardNext]_guard_vars
-----------------------------------------------------------------------------
\* The failures at the end of a sequence that are no further apart than the window.
run_length(times) ==
    CHOOSE n \in 0 .. Len(times) :
        /\ \A i \in Len(times) + 2 - n .. Len(times) : times[i] <= times[i - 1] + Window
        /\ n < Len(times) => n > 0 /\ times[Len(times) + 1 - n] > times[Len(times) - n] + Window

\* A lock is earned by MaxAttempts failures in a row since the last lock or success, no two
\* of them further apart than the window.
LockIsEarned == ~crossed /\ locked_by # <<>> => run_length(locked_by) = MaxAttempts

\* Nothing lifts a lock before its time but a login with the right password that had passed
\* the check before the lock was set, or a failure written over a row it had not seen: not the
\* purge, and no failure counted in order.
LockIsKept ==
    [][locked(attempts) /\ now' = now /\ ~crossed' =>
          \/ locked(attempts)'
          \/ \E l \in Logins : login[l].at = "verifying" /\ login'[l] = away]_guard_vars

\* The purge removes only rows that mean nothing any more: the next failure would be counted
\* just as if the row were not there, now and later.
PurgeForgetsNothing ==
    [][purge_stale => \A when \in now .. MaxTime :
          after_failure(attempts, when) = after_failure(NoRow, when)]_guard_vars
=============================================================================
