------------------------- MODULE RecordRacesProofs -------------------------
(***************************************************************************)
(* What holds of RecordRaces for any number of requests of every kind: the *)
(* two locks, taken in opposite orders by the handlers and the departure,  *)
(* make every commit an atomic step, and the audit log one chain that      *)
(* tells the history of the record.                                        *)
(***************************************************************************)
EXTENDS RecordRaces, TLAPS

RaceRow == [status : Statuses, scores : Requests \cup {None}, result : Requests \cup {None}]
Steps == {"arrived", "departing", "read", "logged"} \cup Ended
Entry == [prev : Nat, from : Statuses, to : Statuses]

\* Every table keeps its type.
RaceTypeOK ==
    /\ row \in RaceRow
    /\ audit_log \in Seq(Entry)
    /\ pc \in [Requests -> Steps]
    /\ seen \in [Requests -> RaceRow]
    /\ tail \in [Requests -> Nat]

\* What a request relies on between its read and its commit: what it has read is what the record
\* still says, under the row lock or, for a departure, under the lock of the audit chain.
Relies(r) ==
    /\ pc[r] \in {"read", "logged"} => seen[r] = row
    /\ pc[r] \in {"read", "logged"} /\ Kind[r] # "depart" => row_lock = r
    /\ pc[r] \in {"departing", "read", "logged"} /\ Kind[r] = "depart" => chain_lock = r
    /\ pc[r] = "departing" => Kind[r] = "depart"
    /\ pc[r] = "logged" => chain_lock = r /\ allowed(r, seen[r])
    /\ chain_lock = r => tail[r] = Len(audit_log)

LocksHeld == \A r \in Requests : Relies(r)
-----------------------------------------------------------------------------
\* What a handler makes of a record is a record.
LEMMA EffectTyped ==
    ASSUME NEW r \in Requests, NEW record \in RaceRow
    PROVE  effect(r, record) \in RaceRow
<1>1. Kind[r] \in {"upsert_scores", "depart", "submit", "hr_approve", "ceo_finalize", "hr_return", "cancel"}
  BY RequestAssumption DEF Kinds, Transitions
<1>2. CASE Kind[r] = "upsert_scores"
  BY <1>2 DEF effect, RaceRow
<1>3. CASE Kind[r] = "submit"
  BY <1>3 DEF effect, RaceRow, Statuses, OPEN_STATUSES
<1>4. CASE Kind[r] \notin {"upsert_scores", "submit"}
  <2>1. TRANSITIONS[action_of(r)].to_status \in Statuses
    BY <1>1, <1>4 DEF action_of, TRANSITIONS, Row, Statuses, OPEN_STATUSES
  <2>2. effect(r, record) = [record EXCEPT !.status = TRANSITIONS[action_of(r)].to_status]
    BY <1>4 DEF effect
  <2> QED
    BY <2>1, <2>2 DEF RaceRow
<1> QED
  BY <1>2, <1>3, <1>4

\* An UPDATE of what was read from the record as it is writes the whole effect.
LEMMA UpdateIsEffect ==
    ASSUME RaceTypeOK, NEW r \in Requests, seen[r] = row
    PROVE  updated(r) = effect(r, row)
<1> DEFINE after == effect(r, row)
<1>1. after \in RaceRow /\ row \in RaceRow
  BY EffectTyped DEF RaceTypeOK
<1>2. updated(r) = [column \in DOMAIN row |-> IF after[column] # row[column] THEN after[column] ELSE row[column]]
  BY DEF updated
<1> HIDE DEF after
<1>3. updated(r) = [column \in DOMAIN row |-> after[column]]
  BY <1>2
<1>4. DOMAIN row = DOMAIN after
  BY <1>1 DEF RaceRow
<1>5. after = [column \in DOMAIN after |-> after[column]]
  BY <1>1 DEF RaceRow
<1> QED
  BY <1>3, <1>4, <1>5 DEF after

\* A step of a request keeps the types.
LEMMA RaceTypeStep ==
    ASSUME RaceTypeOK, LocksHeld, NEW r \in Requests, race_step(r)
    PROVE  RaceTypeOK'
<1>1. CASE get_record_for_update(r)
  BY <1>1 DEF get_record_for_update, RaceTypeOK, Steps
<1>2. CASE log_departure(r)
  BY <1>2 DEF log_departure, take_chain, RaceTypeOK, Steps
<1>3. CASE find_open_case(r)
  BY <1>3 DEF find_open_case, RaceTypeOK, Steps
<1>4. CASE reject(r)
  <2>1. [prev |-> tail[r], from |-> row.status, to |-> row.status] \in Entry
    BY DEF RaceTypeOK, Entry, RaceRow
  <2>2. \/ audit_log' = audit_log
        \/ audit_log' = Append(audit_log, [prev |-> tail[r], from |-> row.status, to |-> row.status])
    BY <1>4 DEF reject
  <2>3. \A entry \in Entry : Append(audit_log, entry) \in Seq(Entry)
    BY DEF RaceTypeOK
  <2>4. audit_log' \in Seq(Entry)
    BY <2>1, <2>2, <2>3 DEF RaceTypeOK
  <2>5. pc' \in [Requests -> Steps]
    BY <1>4 DEF reject, finish, RaceTypeOK, Steps, Ended
  <2> QED
    BY <1>4, <2>4, <2>5 DEF reject, RaceTypeOK
<1>5. CASE log_event(r)
  BY <1>5 DEF log_event, take_chain, RaceTypeOK, Steps
<1>6. CASE commit(r)
  <2>1. seen[r] = row
    BY <1>6 DEF commit, LocksHeld, Relies
  <2>2. effect(r, row) \in RaceRow
    BY EffectTyped DEF RaceTypeOK
  <2>3. row' = effect(r, row)
    BY <1>6, <2>1, UpdateIsEffect DEF commit
  <2>4. [prev |-> tail[r], from |-> seen[r].status, to |-> effect(r, seen[r]).status] \in Entry
    BY <2>1, <2>2 DEF RaceTypeOK, Entry, RaceRow
  <2> QED
    BY <1>6, <2>2, <2>3, <2>4 DEF commit, finish, RaceTypeOK, Steps, Ended
<1>7. CASE abort(r)
  BY <1>7 DEF abort, finish, RaceTypeOK, Steps, Ended
<1> QED
  BY <1>1, <1>2, <1>3, <1>4, <1>5, <1>6, <1>7 DEF race_step

\* A step of a request leaves to it and to the others what they rely on.
LEMMA LocksStep ==
    ASSUME RaceTypeOK, LocksHeld, NEW r \in Requests, race_step(r), NEW q \in Requests
    PROVE  Relies(q)'
<1> USE DEF LocksHeld, Relies, RaceTypeOK, allowed
<1>0. r # None /\ q # None
  BY RequestAssumption
<1>1. CASE get_record_for_update(r)
  BY <1>0, <1>1 DEF get_record_for_update, take_row
<1>2. CASE log_departure(r)
  BY <1>0, <1>2 DEF log_departure, take_chain
<1>3. CASE find_open_case(r)
  BY <1>0, <1>3 DEF find_open_case
<1>4. CASE reject(r)
  BY <1>0, <1>4 DEF reject, finish, Ended
<1>5. CASE log_event(r)
  BY <1>0, <1>5 DEF log_event, take_chain
<1>6. CASE commit(r)
  BY <1>0, <1>6 DEF commit, finish
<1>7. CASE abort(r)
  BY <1>0, <1>7 DEF abort, finish
<1> QED
  BY <1>1, <1>2, <1>3, <1>4, <1>5, <1>6, <1>7 DEF race_step

\* The types are kept, and what a request has read stays true until it commits.
LEMMA RequestsRely == RaceSpec => [](RaceTypeOK /\ LocksHeld)
<1>1. RaceInit => RaceTypeOK /\ LocksHeld
  BY RequestAssumption
     DEF RaceInit, RaceTypeOK, LocksHeld, Relies, fresh, RaceRow, Statuses, OPEN_STATUSES, Steps
<1>2. ASSUME RaceTypeOK, LocksHeld, [RaceNext]_race_vars
      PROVE  RaceTypeOK' /\ LocksHeld'
  <2>1. CASE UNCHANGED race_vars
    BY <1>2, <2>1 DEF race_vars, RaceTypeOK, LocksHeld, Relies, allowed
  <2>2. ASSUME NEW r \in Requests, race_step(r)
        PROVE  RaceTypeOK' /\ LocksHeld'
    <3>1. RaceTypeOK'
      BY <1>2, <2>2, RaceTypeStep
    <3>2. \A q \in Requests : Relies(q)'
      BY <1>2, <2>2, LocksStep
    <3> QED
      BY <3>1, <3>2 DEF LocksHeld
  <2> QED
    BY <1>2, <2>1, <2>2 DEF RaceNext
<1> QED
  BY <1>1, <1>2, PTL DEF RaceSpec
-----------------------------------------------------------------------------
\* Every commit does what the request would have done alone on the record as it then was: no
\* handler and no departure decides on a record that has changed since.
THEOREM SerialCommits == RaceSpec => CommitsAreSerial
<1>1. ASSUME RaceTypeOK, LocksHeld, [RaceNext]_race_vars, row' # row
      PROVE  \E r \in Requests : allowed(r, row) /\ row' = effect(r, row)
  <2>1. PICK r \in Requests : commit(r)
    BY <1>1 DEF RaceNext, race_step, race_vars, get_record_for_update, log_departure, find_open_case,
                reject, log_event, abort
  <2>2. seen[r] = row /\ allowed(r, row)
    BY <1>1, <2>1 DEF commit, LocksHeld, Relies
  <2> QED
    BY <1>1, <2>1, <2>2, UpdateIsEffect DEF commit
<1>2. RaceTypeOK /\ LocksHeld /\ [RaceNext]_race_vars =>
        [\E r \in Requests : allowed(r, row) /\ row' = effect(r, row)]_row
  BY <1>1
<1> QED
  BY <1>2, RequestsRely, PTL DEF RaceSpec, CommitsAreSerial
-----------------------------------------------------------------------------
\* The last of a set of rows, and that there is one, which is not obvious of an arbitrary set.
LastOf(S) == CHOOSE i \in S : \A j \in S : j <= i
HasLast(S) == S = {} \/ \E i \in S : \A j \in S : j <= i

\* What the log says of the record; and of the changes among its first rows one is the last.
LogTells ==
    /\ AuditReadsAsHistory
    /\ \A n \in 0 .. Len(audit_log) : HasLast(status_changes \cap 1 .. n)

\* The last change of a set that has one is in it.
LEMMA LastIn ==
    ASSUME NEW S, S # {}, HasLast(S) PROVE LastOf(S) \in S
BY DEF HasLast, LastOf

\* A row that comes after all of a set is its last.
LEMMA LastAdded ==
    ASSUME NEW n \in Nat, NEW S \in SUBSET (1 .. n)
    PROVE  LastOf(S \cup {n + 1}) = n + 1 /\ HasLast(S \cup {n + 1})
<1> DEFINE T == S \cup {n + 1}
<1>1. n + 1 \in T /\ \A j \in T : j <= n + 1
  OBVIOUS
<1>2. \A i \in T : (\A j \in T : j <= i) => i = n + 1
  BY <1>1
<1> QED
  BY <1>1, <1>2 DEF HasLast, LastOf

\* The walk along the log, in terms of the last change.
LEMMA Walking ==
    ASSUME NEW n PROVE walking(n) = IF status_changes \cap 1 .. n = {} THEN fresh.status
                                    ELSE audit_log[LastOf(status_changes \cap 1 .. n)].to
BY DEF walking, LastOf

\* A row that follows the log and the record: it links to the last row, leaves the stage the
\* record is in, and enters the one it is in then.
LEMMA LogGrows ==
    ASSUME RaceTypeOK, LogTells, NEW entry \in Entry, audit_log' = Append(audit_log, entry),
           entry.prev = Len(audit_log), entry.from = row.status, entry.to = row'.status
    PROVE  LogTells'
<1>1. PICK m \in Nat : m = Len(audit_log)
  BY DEF RaceTypeOK
<1> DEFINE Changed(n) == status_changes \cap 1 .. n
<1>2. /\ Len(audit_log') = m + 1
      /\ audit_log'[m + 1] = entry
      /\ \A i \in 1 .. m : audit_log'[i] = audit_log[i]
  BY <1>1 DEF RaceTypeOK
<1>3. status_changes \subseteq 1 .. m
  BY <1>1 DEF status_changes
<1>4. status_changes' = status_changes \cup (IF entry.from # entry.to THEN {m + 1} ELSE {})
  BY <1>1, <1>2 DEF status_changes
<1>5. \A n \in 0 .. m : Changed(n)' = Changed(n)
  BY <1>3, <1>4
<1>6. \A n : walking(n)' = IF Changed(n)' = {} THEN fresh.status ELSE audit_log'[LastOf(Changed(n)')].to
  BY DEF walking, LastOf
<1>7. ASSUME NEW n \in 0 .. m
      PROVE  walking(n)' = walking(n) /\ HasLast(Changed(n))
  <2>1. HasLast(Changed(n))
    BY <1>1 DEF LogTells
  <2>2. walking(n)' = IF Changed(n) = {} THEN fresh.status ELSE audit_log'[LastOf(Changed(n))].to
    BY <1>5, <1>6
  <2>3. Changed(n) # {} => LastOf(Changed(n)) \in 1 .. m
    BY <1>3, <2>1, LastIn
  <2> QED
    BY <1>2, <2>1, <2>2, <2>3, Walking
<1>8. walking(m) = row.status
  BY <1>1 DEF LogTells, AuditReadsAsHistory
<1>9. walking(m + 1)' = row'.status /\ HasLast(Changed(m + 1)')
  <2>1. CASE entry.from = entry.to
    <3>1. Changed(m + 1)' = Changed(m)
      BY <1>3, <1>4, <2>1
    <3>2. walking(m + 1)' = walking(m)'
      <4>1. Changed(m + 1)' = Changed(m)'
        BY <1>5, <3>1
      <4> HIDE DEF Changed
      <4> QED
        BY <1>6, <4>1
    <3>3. m \in 0 .. m
      OBVIOUS
    <3>4. walking(m)' = walking(m)
      BY <1>7, <3>3
    <3>5. HasLast(Changed(m + 1)')
      BY <1>7, <3>1, <3>3
    <3> QED
      BY <1>8, <2>1, <3>2, <3>4, <3>5
  <2>2. CASE entry.from # entry.to
    <3>1. Changed(m + 1)' = status_changes \cup {m + 1}
      <4>1. status_changes' = status_changes \cup {m + 1}
        BY <1>4, <2>2
      <4>2. status_changes \cup {m + 1} \subseteq 1 .. m + 1
        BY <1>3
      <4> QED
        BY <4>1, <4>2
    <3>2. LastOf(Changed(m + 1)') = m + 1 /\ HasLast(Changed(m + 1)')
      BY <1>3, <3>1, LastAdded
    <3>3. walking(m + 1)' = audit_log'[m + 1].to
      BY <1>6, <3>1, <3>2
    <3> QED
      BY <1>2, <3>2, <3>3
  <2> QED
    BY <2>1, <2>2
<1>10. verify_chain'
  BY <1>1, <1>2 DEF verify_chain, LogTells, AuditReadsAsHistory
<1>11. ASSUME NEW n \in status_changes'
       PROVE  audit_log'[n].from = walking(n - 1)'
  <2>1. CASE n \in status_changes
    <3>1. n \in 1 .. m
      BY <1>3, <2>1
    <3>2. n - 1 \in 0 .. m
      BY <3>1
    <3>3. audit_log'[n] = audit_log[n]
      BY <1>2, <3>1
    <3>4. audit_log[n].from = walking(n - 1)
      BY <2>1 DEF LogTells, AuditReadsAsHistory
    <3>5. walking(n - 1)' = walking(n - 1)
      BY <1>7, <3>2
    <3> QED
      BY <3>3, <3>4, <3>5
  <2>2. CASE n = m + 1
    <3>1. n - 1 = m
      BY <2>2
    <3>2. m \in 0 .. m
      OBVIOUS
    <3>3. walking(m)' = row.status
      BY <1>7, <1>8, <3>2
    <3>4. walking(n - 1)' = row.status
      BY <3>1, <3>3
    <3> QED
      BY <1>2, <2>2, <3>4
  <2> QED
    BY <1>4, <2>1, <2>2
<1>12. \A n \in 0 .. m + 1 : HasLast(Changed(n)')
  <2>1. \A n \in 0 .. m : HasLast(Changed(n)')
    BY <1>5, <1>7
  <2> QED
    BY <1>9, <2>1
<1>13. row'.status = walking(Len(audit_log))'
  <2>1. (m + 1 = Len(audit_log))'
    BY <1>2
  <2> QED
    BY <1>9, <2>1
<1>14. AuditReadsAsHistory'
  BY <1>10, <1>11, <1>13 DEF AuditReadsAsHistory
<1>15. (\A n \in 0 .. Len(audit_log) : HasLast(status_changes \cap 1 .. n))'
  BY <1>2, <1>12
<1> QED
  BY <1>14, <1>15 DEF LogTells

\* The log is a chain and tells the history of the record.
LEMMA LogsTell == RaceSpec => []LogTells
<1>1. RaceInit => LogTells
  BY DEF RaceInit, LogTells, AuditReadsAsHistory, verify_chain, status_changes, walking, HasLast
<1>2. ASSUME RaceTypeOK, LocksHeld, RaceTypeOK', LogTells, [RaceNext]_race_vars
      PROVE  LogTells'
  <2>1. CASE UNCHANGED <<audit_log, row>>
    <3>1. status_changes' = status_changes /\ verify_chain'
      BY <1>2, <2>1 DEF LogTells, AuditReadsAsHistory, verify_chain, status_changes
    <3>2. \A n : walking(n)' = walking(n)
      BY <2>1, <3>1 DEF walking
    <3>3. AuditReadsAsHistory'
      BY <1>2, <2>1, <3>1, <3>2 DEF LogTells, AuditReadsAsHistory
    <3> QED
      BY <1>2, <2>1, <3>1, <3>3 DEF LogTells
  <2>2. ASSUME NEW r \in Requests, reject(r), Kind[r] = "depart"
        PROVE  LogTells'
    <3> DEFINE entry == [prev |-> tail[r], from |-> row.status, to |-> row.status]
    <3>1. entry \in Entry
      BY <1>2 DEF RaceTypeOK, Entry, RaceRow
    <3>2. tail[r] = Len(audit_log)
      BY <1>2, <2>2 DEF reject, LocksHeld, Relies
    <3>3. row' = row /\ audit_log' = Append(audit_log, entry)
      BY <2>2 DEF reject
    <3> QED
      BY <1>2, <3>1, <3>2, <3>3, LogGrows
  <2>3. ASSUME NEW r \in Requests, commit(r)
        PROVE  LogTells'
    <3> DEFINE entry == [prev |-> tail[r], from |-> seen[r].status, to |-> effect(r, seen[r]).status]
    <3>1. seen[r] = row /\ tail[r] = Len(audit_log)
      BY <1>2, <2>3 DEF commit, LocksHeld, Relies
    <3>2. effect(r, row) \in RaceRow
      BY <1>2, EffectTyped DEF RaceTypeOK
    <3>3. entry \in Entry
      BY <1>2, <3>1, <3>2 DEF RaceTypeOK, Entry, RaceRow
    <3>4. row' = effect(r, row) /\ audit_log' = Append(audit_log, entry)
      BY <1>2, <2>3, <3>1, UpdateIsEffect DEF commit
    <3> QED
      BY <1>2, <3>1, <3>3, <3>4, LogGrows
  <2> QED
    BY <1>2, <2>1, <2>2, <2>3
       DEF RaceNext, race_step, race_vars, get_record_for_update, log_departure, find_open_case,
           reject, log_event, abort
<1> QED
  BY <1>1, <1>2, RequestsRely, PTL DEF RaceSpec

\* The audit log is one chain, and the stays read from it are the history of the record.
THEOREM AuditIsHistory == RaceSpec => []AuditReadsAsHistory
<1>1. LogTells => AuditReadsAsHistory
  BY DEF LogTells
<1> QED
  BY <1>1, LogsTell, PTL
-----------------------------------------------------------------------------
(* Every request ends.  ENABLED is not for these provers: the guards of    *)
(* the steps are written out.                                              *)

\* The guards of the steps of a request.
CanGo(r) ==
    \/ pc[r] = "arrived" /\ Kind[r] # "depart" /\ row_lock \in {None, r}
    \/ pc[r] = "arrived" /\ Kind[r] = "depart" /\ chain_lock \in {None, r}
    \/ pc[r] = "departing"
    \/ pc[r] = "read" /\ (~allowed(r, seen[r]) \/ chain_lock \in {None, r})
    \/ pc[r] = "logged" /\ row_lock \in {None, r}
    \/ deadlocked(r)

\* A lock is held by a request under way, and not by one that has just arrived.
HoldersWork ==
    /\ row_lock \in Requests \cup {None} /\ chain_lock \in Requests \cup {None}
    /\ row_lock # None => pc[row_lock] \in {"read", "logged"}
    /\ chain_lock # None => pc[chain_lock] \in {"departing", "read", "logged"}

\* How far a request has come.
Way == [arrived |-> 0, departing |-> 1, read |-> 2, logged |-> 3, done |-> 4, rejected |-> 4, aborted |-> 4]

\* The steps take and give back locks so that their holders are at work.
LEMMA HoldersStep ==
    ASSUME RaceTypeOK, LocksHeld, HoldersWork, NEW r \in Requests, race_step(r)
    PROVE  HoldersWork'
<1> USE DEF HoldersWork, RaceTypeOK, LocksHeld, Relies
<1>0. r # None
  BY RequestAssumption
<1>1. CASE get_record_for_update(r)
  BY <1>0, <1>1 DEF get_record_for_update, take_row
<1>2. CASE log_departure(r)
  BY <1>0, <1>2 DEF log_departure, take_chain
<1>3. CASE find_open_case(r)
  BY <1>0, <1>3 DEF find_open_case
<1>4. CASE reject(r)
  BY <1>0, <1>4 DEF reject, finish
<1>5. CASE log_event(r)
  BY <1>0, <1>5 DEF log_event, take_chain
<1>6. CASE commit(r)
  BY <1>0, <1>6 DEF commit, finish
<1>7. CASE abort(r)
  BY <1>0, <1>7 DEF abort, finish
<1> QED
  BY <1>1, <1>2, <1>3, <1>4, <1>5, <1>6, <1>7 DEF race_step

\* While a request is under way, some request can go on: who holds the lock of the chain, or waits
\* for the row of one that waits for the chain and is picked by the detector.
LEMMA NobodyIsStuck ==
    ASSUME RaceTypeOK, LocksHeld, HoldersWork, NEW x \in Requests, pc[x] \notin Ended
    PROVE  \E r \in Requests : CanGo(r)
<1> USE DEF LocksHeld, Relies
<1>1. CASE chain_lock # None
  <2>1. PICK c \in Requests : c = chain_lock /\ pc[c] \in {"departing", "read", "logged"}
    BY <1>1 DEF HoldersWork
  <2>2. CASE pc[c] # "logged" \/ row_lock \in {None, c}
    BY <2>1, <2>2 DEF CanGo
  <2>3. CASE pc[c] = "logged" /\ row_lock \notin {None, c}
    <3>1. PICK w \in Requests : w = row_lock /\ pc[w] \in {"read", "logged"}
      BY <2>3 DEF HoldersWork
    <3>2. pc[w] = "read" /\ w # c
      BY <2>1, <2>3, <3>1
    <3>3. blocker(w) = c /\ blocker(c) = w
      BY <2>1, <2>3, <3>1, <3>2 DEF blocker
    <3>4. deadlocked(w)
      BY <1>1, <2>1, <3>3 DEF deadlocked
    <3> QED
      BY <3>4 DEF CanGo
  <2> QED
    BY <2>2, <2>3
<1>2. CASE chain_lock = None /\ row_lock # None
  <2>1. PICK w \in Requests : w = row_lock /\ pc[w] \in {"read", "logged"}
    BY <1>2 DEF HoldersWork
  <2>2. pc[w] = "read"
    BY <1>2, <2>1, RequestAssumption
  <2> QED
    BY <1>2, <2>2 DEF CanGo
<1>3. CASE chain_lock = None /\ row_lock = None
  <2>1. pc[x] = "arrived"
    BY <1>3, RequestAssumption DEF RaceTypeOK, Steps
  <2> QED
    BY <1>3, <2>1 DEF CanGo
<1> QED
  BY <1>1, <1>2, <1>3

\* Whatever requests meet, and although two of them may take the locks in opposite orders: as long
\* as one is under way, one can go on.
THEOREM SomebodyCanGo ==
    RaceSpec => []((\E r \in Requests : pc[r] \notin Ended) => \E r \in Requests : CanGo(r))
<1>1. RaceInit => HoldersWork
  BY DEF RaceInit, HoldersWork
<1>2. RaceTypeOK /\ LocksHeld /\ HoldersWork /\ [RaceNext]_race_vars => HoldersWork'
  <2>1. CASE UNCHANGED race_vars
    BY <2>1 DEF race_vars, HoldersWork
  <2> QED
    BY <2>1, HoldersStep DEF RaceNext
<1>3. RaceTypeOK /\ LocksHeld /\ HoldersWork
        => ((\E r \in Requests : pc[r] \notin Ended) => \E r \in Requests : CanGo(r))
  BY NobodyIsStuck
<1> QED
  BY <1>1, <1>2, <1>3, RequestsRely, PTL DEF RaceSpec

\* No request goes back, and every step takes one forward: four steps at most each.
THEOREM RequestsGoForward ==
    RaceSpec => [][/\ \A q \in Requests : Way[pc'[q]] >= Way[pc[q]]
                   /\ \E q \in Requests : Way[pc'[q]] > Way[pc[q]]]_race_vars
<1>1. RaceTypeOK /\ RaceNext => /\ \A q \in Requests : Way[pc'[q]] >= Way[pc[q]]
                                /\ \E q \in Requests : Way[pc'[q]] > Way[pc[q]]
  <2> SUFFICES ASSUME RaceTypeOK, NEW r \in Requests, race_step(r)
               PROVE  /\ \A q \in Requests : Way[pc'[q]] >= Way[pc[q]]
                      /\ \E q \in Requests : Way[pc'[q]] > Way[pc[q]]
    BY DEF RaceNext
  <2>1. PICK next \in Steps : pc' = [pc EXCEPT ![r] = next] /\ Way[next] > Way[pc[r]]
    <3>1. CASE abort(r)
      <4>1. pc[r] \in {"read", "logged"}
        BY <3>1, RequestAssumption DEF abort, deadlocked, blocker
      <4> QED
        BY <3>1, <4>1 DEF abort, finish, Way, Steps, Ended
    <3>2. CASE ~abort(r)
      BY <3>2 DEF race_step, get_record_for_update, log_departure, find_open_case, reject, log_event, commit,
                  finish, Way, Steps, Ended
    <3> QED
      BY <3>1, <3>2
  <2>2. \A q \in Requests : Way[pc[q]] \in Nat
    BY DEF RaceTypeOK, Steps, Ended, Way
  <2>3. \A q \in Requests : pc'[q] = IF q = r THEN next ELSE pc[q]
    BY <2>1 DEF RaceTypeOK
  <2>4. Way[next] \in Nat
    BY DEF Steps, Ended, Way
  <2> QED
    BY <2>1, <2>2, <2>3, <2>4
<1> QED
  BY <1>1, RequestsRely, PTL DEF RaceSpec
=============================================================================
