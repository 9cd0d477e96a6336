---------------------- MODULE EvaluationWorkflowProofs ----------------------
(***************************************************************************)
(* What holds of EvaluationWorkflow for every set of users, personnel,     *)
(* records, periods and score sheets.                                      *)
(*                                                                         *)
(* The argument goes through the shape of a step: whatever the request, it *)
(* opens a batch of drafts, edits or reseats one open case, or takes one   *)
(* case through a row of the transition table (StepShape, CaseStep).  Each *)
(* invariant is then proved shape by shape instead of handler by handler.  *)
(***************************************************************************)
EXTENDS EvaluationWorkflow, FiniteSetTheorems, TLAPS

\* The transition table has these thirteen rows.
LEMMA ActionNames ==
    Actions = {"submit", "manager_submit", "direct_ceo_submit", "hr_approve",
               "hr_finalize_direct_ceo", "hr_approve_manager", "deputy_approve", "ceo_finalize",
               "hr_return", "deputy_return", "ceo_return", "ceo_return_manager", "cancel"}
BY DEF Actions, TRANSITIONS

\* Every row of the transition table leaves an open status and reaches a status of the workflow.
LEMMA Table ==
    \A action \in Actions :
        /\ TRANSITIONS[action].from_statuses \subseteq OPEN_STATUSES
        /\ TRANSITIONS[action].to_status \in Statuses
BY ActionNames DEF TRANSITIONS, Row, OPEN_STATUSES, Statuses

\* Moving a record writes its status and, at a claimable row, its HR owner; every other column
\* stays as the handler left it.
LEMMA MovedFields ==
    ASSUME NEW u \in Users, NEW action \in Actions, NEW case \in Record
    PROVE  /\ moved(u, case, action) \in Record
           /\ moved(u, case, action).status = TRANSITIONS[action].to_status
           /\ moved(u, case, action).subject = case.subject
           /\ \A seat \in Seats : moved(u, case, action)[seat] = case[seat]
           /\ moved(u, case, action).period = case.period
           /\ moved(u, case, action).entries = case.entries
           /\ moved(u, case, action).result = case.result
           /\ moved(u, case, action).snapshot = case.snapshot
           /\ moved(u, case, action).hr \in {u, case.hr}
<1> DEFINE to == TRANSITIONS[action].to_status
           owner == IF TRANSITIONS[action].claimable_if_unassigned /\ case.hr = None THEN u ELSE case.hr
<1>1. to \in Statuses
  BY Table
<1>2. owner \in {u, case.hr}
  OBVIOUS
<1>3. owner \in Users \cup {None}
  BY <1>2 DEF Record
<1>4. moved(u, case, action) = [case EXCEPT !.status = to, !.hr = owner]
  BY DEF moved
<1> HIDE DEF to, owner
<1>5. [case EXCEPT !.status = to, !.hr = owner] \in Record
  <2>1. \A c \in Record, status \in Statuses : [c EXCEPT !.status = status] \in Record
    BY Zenon DEF Record
  <2>2. \A c \in Record, hr \in Users \cup {None} : [c EXCEPT !.hr = hr] \in Record
    BY Zenon DEF Record
  <2>3. [case EXCEPT !.status = to] \in Record
    BY <1>1, <2>1, Zenon
  <2> QED
    BY <1>3, <2>2, <2>3, Zenon
<1>6. /\ moved(u, case, action).status = to
      /\ moved(u, case, action).hr = owner
      /\ moved(u, case, action).subject = case.subject
      /\ moved(u, case, action).unit_supervisor = case.unit_supervisor
      /\ moved(u, case, action).deputy = case.deputy
      /\ moved(u, case, action).ceo = case.ceo
      /\ moved(u, case, action).period = case.period
      /\ moved(u, case, action).entries = case.entries
      /\ moved(u, case, action).result = case.result
      /\ moved(u, case, action).snapshot = case.snapshot
  BY <1>4 DEF Record
<1>7. to = TRANSITIONS[action].to_status
  BY DEF to
<1>8. \A seat \in Seats : moved(u, case, action)[seat] = case[seat]
  BY <1>6 DEF Seats
<1> QED
  BY <1>2, <1>4, <1>5, <1>6, <1>7, <1>8
-----------------------------------------------------------------------------
\* The signatures of a case keep their type under every row of the table.
LEMMA Countersigned ==
    ASSUME NEW u \in Users, NEW action \in Actions, NEW case \in Record,
           NEW signatures \in [Stages -> Signature \cup {None}]
    PROVE  countersigned(signatures, u, case, action) \in [Stages -> Signature \cup {None}]
<1> DEFINE mine == [by |-> u, on |-> case.result]
<1>1. mine \in Signature
  BY DEF Signature, Record
<1> HIDE DEF mine
<1>2. countersigned(signatures, u, case, action) =
        [stage \in Stages |-> IF stage = signs(case, action) THEN mine
                             ELSE IF stage = voids(case, action) THEN None ELSE signatures[stage]]
  BY DEF countersigned, mine
<1> QED
  BY <1>1, <1>2

\* What apply_transition does to the two tables, whatever the action.
LEMMA ApplyTransition ==
    ASSUME TypeOK,
           NEW u \in Users, NEW r \in Records, NEW action \in Actions, NEW case \in Record,
           case.subject = rec[r].subject, case.ceo = rec[r].ceo,
           apply_transition(u, r, action, case)
    PROVE  /\ rec[r].status \in OPEN_STATUSES
           /\ rec' \in [Records -> Record]
           /\ rec'[r] = moved(u, case, action)
           /\ \A x \in Records : x # r => rec'[x] = rec[x]
           /\ \A x \in Records : rec'[x].status # "absent" => rec'[x].subject \in Personnel /\ rec'[x].ceo \in Users
           /\ signed' \in [Records -> [Stages -> Signature \cup {None}]]
           /\ signed'[r] = countersigned(signed[r], u, case, action)
           /\ \A x \in Records : x # r => signed'[x] = signed[x]
<1>1. rec[r].status \in OPEN_STATUSES
  BY Table DEF apply_transition, ensure_transition_allowed
<1>2. rec' = [rec EXCEPT ![r] = moved(u, case, action)]
  BY DEF apply_transition
<1>3. signed' = [signed EXCEPT ![r] = countersigned(signed[r], u, case, action)]
  BY DEF apply_transition
<1>4. /\ moved(u, case, action) \in Record
      /\ moved(u, case, action).subject = case.subject
      /\ moved(u, case, action).ceo = case.ceo
  BY MovedFields DEF Seats
<1>5. countersigned(signed[r], u, case, action) \in [Stages -> Signature \cup {None}]
  BY Countersigned DEF TypeOK
<1>6. rec \in [Records -> Record] /\ signed \in [Records -> [Stages -> Signature \cup {None}]]
  BY DEF TypeOK
<1>7. /\ rec' \in [Records -> Record]
      /\ rec'[r] = moved(u, case, action)
      /\ \A x \in Records : x # r => rec'[x] = rec[x]
  BY <1>2, <1>4, <1>6
<1>8. /\ signed' \in [Records -> [Stages -> Signature \cup {None}]]
      /\ signed'[r] = countersigned(signed[r], u, case, action)
      /\ \A x \in Records : x # r => signed'[x] = signed[x]
  BY <1>3, <1>5, <1>6
<1>9. \A x \in Records : rec'[x].status # "absent" => rec'[x].subject \in Personnel /\ rec'[x].ceo \in Users
  <2>1. rec[r].subject \in Personnel /\ rec[r].ceo \in Users
    BY <1>1 DEF TypeOK, OPEN_STATUSES
  <2> QED
    BY <2>1, <1>4, <1>7 DEF TypeOK
<1> QED
  BY <1>1, <1>7, <1>8, <1>9
-----------------------------------------------------------------------------
(* Rows that are inserted, edited and reseated are well formed.            *)

\* An empty form is a well-formed form.
LEMMA NoEntries == no_entries \in Entries
BY InputAssumption DEF no_entries, Entries

\* A row that has not been inserted is a well-formed record.
LEMMA BlankRecord == blank_record \in Record
BY NoEntries DEF blank_record, Record

\* The chain a new record copies from evaluation_access is a chain, with a CEO.
LEMMA RecordChain ==
    ASSUME TypeOK, NEW p \in Personnel, ready_to_open(p)
    PROVE  record_chain(p) \in Chain
<1>1. staff[p].access \in Chain
  BY DEF TypeOK, Employee, ready_to_open
<1> QED
  BY <1>1 DEF record_chain, Chain

\* The active period is an open period, or NULL when none is open.
LEMMA ActivePeriod ==
    /\ active_period \in Periods \cup {None}
    /\ active_period # None => active_period \in open_periods
<1>1. CASE open_periods = {}
  BY <1>1 DEF active_period
<1>2. CASE open_periods # {}
  <2>1. active_period \in open_periods
    BY <1>2 DEF active_period
  <2> QED
    BY <2>1 DEF open_periods
<1> QED
  BY <1>1, <1>2

\* A case opened for someone who is ready is a draft over his chain, in the active period.
LEMMA NewRecord ==
    ASSUME TypeOK, NEW p \in Personnel, ready_to_open(p)
    PROVE  /\ new_record(p) \in Record
           /\ new_record(p).status = "draft"
           /\ new_record(p).subject = p
           /\ \A seat \in Seats : new_record(p)[seat] = record_chain(p)[seat]
           /\ new_record(p).ceo \in Users
           /\ new_record(p).period = active_period
           /\ new_record(p).snapshot = None
<1> DEFINE chain == record_chain(p)
<1>1. /\ chain.unit_supervisor \in Users \cup {None}
      /\ chain.deputy \in Users \cup {None}
      /\ chain.ceo \in Users
  BY RecordChain DEF Chain
<1>2. active_period \in Periods \cup {None}
  BY ActivePeriod
<1>3. no_entries \in Entries
  BY NoEntries
<1>4. new_record(p) =
        [subject |-> p, unit_supervisor |-> chain.unit_supervisor, deputy |-> chain.deputy,
         ceo |-> chain.ceo, hr |-> None, status |-> "draft", period |-> active_period,
         extended_until |-> None, entries |-> no_entries, result |-> None, snapshot |-> None]
  BY DEF new_record
<1> HIDE DEF chain
<1>6. new_record(p) \in Record
  BY <1>1, <1>2, <1>3, <1>4 DEF Record, Statuses, OPEN_STATUSES
<1>7. \A seat \in Seats : new_record(p)[seat] = chain[seat]
  BY <1>4 DEF Seats
<1>8. chain = record_chain(p)
  BY DEF chain
<1> QED
  BY <1>1, <1>4, <1>6, <1>7, <1>8

\* Each column that a handler writes on its own keeps the record well formed.
LEMMA RecordFields ==
    ASSUME NEW case \in Record
    PROVE  /\ \A entries \in Entries : [case EXCEPT !.entries = entries] \in Record
           /\ \A day \in Days : [case EXCEPT !.extended_until = day] \in Record
           /\ \A u \in Users : [case EXCEPT !.hr = u] \in Record
           /\ \A u \in Users, seat \in Seats : [case EXCEPT ![seat] = u] \in Record
           /\ \A result \in Results : [case EXCEPT !.result = result] \in Record
           /\ \A snapshot \in Snapshot : [case EXCEPT !.snapshot = snapshot] \in Record
<1>1. \A entries \in Entries : [case EXCEPT !.entries = entries] \in Record
  BY DEF Record
<1>2. \A day \in Days : [case EXCEPT !.extended_until = day] \in Record
  BY DEF Record
<1>3. \A u \in Users : [case EXCEPT !.hr = u] \in Record
  BY DEF Record
<1>4. \A u \in Users, seat \in Seats : [case EXCEPT ![seat] = u] \in Record
  <2> SUFFICES ASSUME NEW u \in Users, NEW seat \in Seats PROVE [case EXCEPT ![seat] = u] \in Record
    OBVIOUS
  <2>1. CASE seat = "unit_supervisor"
    <3>1. [case EXCEPT !.unit_supervisor = u] \in Record
      BY DEF Record
    <3> QED
      BY <2>1, <3>1
  <2>2. CASE seat = "deputy"
    <3>1. [case EXCEPT !.deputy = u] \in Record
      BY DEF Record
    <3> QED
      BY <2>2, <3>1
  <2>3. CASE seat = "ceo"
    <3>1. [case EXCEPT !.ceo = u] \in Record
      BY DEF Record
    <3> QED
      BY <2>3, <3>1
  <2> QED
    BY <2>1, <2>2, <2>3 DEF Seats
<1>5. \A result \in Results : [case EXCEPT !.result = result] \in Record
  BY DEF Record
<1>6. \A snapshot \in Snapshot : [case EXCEPT !.snapshot = snapshot] \in Record
  BY DEF Record
<1> QED
  BY <1>1, <1>2, <1>3, <1>4, <1>5, <1>6
-----------------------------------------------------------------------------
(* The ways a request can touch the two tables of cases.                   *)

\* A batch of drafts appears for people without an open case.
Opened == \E batch \in SUBSET Records : \E who \in [batch -> Personnel] :
    /\ \A r \in batch : rec[r].status = "absent" /\ ready_to_open(who[r])
    /\ \A r, x \in batch : who[r] = who[x] => r = x
    /\ rec' = [r \in Records |-> IF r \in batch THEN new_record(who[r]) ELSE rec[r]]
    /\ signed' = signed

\* A draft's form or its extension is written.
Edited(r) ==
    /\ rec[r].status = "draft"
    /\ \/ \E entries \in Entries : rec' = [rec EXCEPT ![r].entries = entries]
       \/ \E until \in Days : rec' = [rec EXCEPT ![r].extended_until = until]
    /\ signed' = signed

\* A seat of an open case gets another holder.
Reseated(r) ==
    /\ is_open(rec[r])
    /\ \/ \E u \in Users : rec' = [rec EXCEPT ![r].hr = u]
       \/ \E u \in Users, seat \in Seats :
            /\ rec[r][seat] # None
            /\ authenticated(u)
            /\ account[u].personnel # rec[r].subject
            /\ ~redundant([rec[r] EXCEPT ![seat] = u])
            /\ rec' = [rec EXCEPT ![r][seat] = u]
    /\ signed' = signed

\* A complete form is submitted, and its result is computed.
Submitted(u, r) ==
    /\ rec[r].entries.sheet \in CompleteSheets
    /\ apply_transition(u, r, submit_action(rec[r]),
                        [rec[r] EXCEPT !.result = compute_result(rec[r].entries)])

\* The rows that leave result and document alone.
ReviewActions == {"hr_approve", "hr_approve_manager", "deputy_approve", "hr_return", "deputy_return",
                  "ceo_return", "ceo_return_manager", "cancel"}

\* A case is approved, sent back or cancelled.
Reviewed(u, r) == \E action \in ReviewActions :
    /\ action = "hr_approve_manager" => ~is_direct_ceo_path(rec[r])
    /\ apply_transition(u, r, action, rec[r])

\* A case is closed and its final document made.
Finalized(u, r) == \E action \in {"hr_finalize_direct_ceo", "ceo_finalize"} :
    apply_transition(u, r, action, [rec[r] EXCEPT !.snapshot = final_snapshot(rec[r])])

\* Neither table of cases is written.
TablesUntouched == rec' = rec /\ signed' = signed

\* The seven ways a request can touch the two tables of cases.
TableStep ==
    \/ TablesUntouched
    \/ Opened
    \/ \E r \in Records : Edited(r) \/ Reseated(r)
    \/ \E u \in Users, r \in Records : Submitted(u, r) \/ Reviewed(u, r) \/ Finalized(u, r)

\* Opening one case or a cohort is opening a batch of drafts.
LEMMA OpeningShape ==
    ASSUME TypeOK, OpenCases PROVE Opened
<1>1. ASSUME NEW u \in Users, NEW p \in Personnel, NEW r \in Records, create_evaluation(u, p, r)
      PROVE  Opened
  <2> DEFINE who == [x \in {r} |-> p]
  <2>1. who \in [{r} -> Personnel] /\ {r} \in SUBSET Records
    OBVIOUS
  <2>2. \A x \in {r} : rec[x].status = "absent" /\ ready_to_open(who[x])
    BY <1>1 DEF create_evaluation
  <2>3. \A x, y \in {r} : who[x] = who[y] => x = y
    OBVIOUS
  <2>4. rec' = [x \in Records |-> IF x \in {r} THEN new_record(who[x]) ELSE rec[x]]
    BY <1>1 DEF create_evaluation, TypeOK
  <2>5. signed' = signed
    BY <1>1 DEF create_evaluation
  <2> QED
    BY <2>1, <2>2, <2>3, <2>4, <2>5 DEF Opened
<1>2. ASSUME NEW u \in Users, NEW cohort \in SUBSET Personnel, bulk_create(u, cohort)
      PROVE  Opened
  <2> DEFINE ready == {p \in cohort : ready_to_open(p)}
             free == {r \in Records : rec[r].status = "absent"}
  <2>1. PICK row \in [ready -> free] :
          /\ \A p, q \in ready : row[p] = row[q] => p = q
          /\ rec' = [r \in Records |->
                       IF \E p \in ready : row[p] = r
                       THEN new_record(CHOOSE p \in ready : row[p] = r)
                       ELSE rec[r]]
    BY <1>2 DEF bulk_create
  <2> DEFINE batch == {r \in Records : \E p \in ready : row[p] = r}
             who == [r \in batch |-> CHOOSE p \in ready : row[p] = r]
  <2>2. \A r \in batch : who[r] \in ready /\ row[who[r]] = r
    OBVIOUS
  <2>3. batch \in SUBSET Records /\ who \in [batch -> Personnel]
    BY <2>2
  <2>4. \A r \in batch : rec[r].status = "absent" /\ ready_to_open(who[r])
    BY <2>2
  <2>5. \A r, x \in batch : who[r] = who[x] => r = x
    BY <2>2
  <2>6. rec' = [r \in Records |-> IF r \in batch THEN new_record(who[r]) ELSE rec[r]]
    BY <2>1
  <2>7. signed' = signed
    BY <1>2 DEF bulk_create
  <2> HIDE DEF batch, who
  <2> QED
    BY <2>3, <2>4, <2>5, <2>6, <2>7 DEF Opened
<1> QED
  BY <1>1, <1>2 DEF OpenCases

\* The scoring handlers edit a draft or submit it.
LEMMA ScoringShape ==
    ASSUME TypeOK, ScoreCases
    PROVE  \E u \in Users, r \in Records : Edited(r) \/ Submitted(u, r)
<1>1. ASSUME NEW u \in Users, NEW r \in Records, NEW entries \in Entries, enter(u, r, entries)
      PROVE  Edited(r)
  BY <1>1 DEF enter, is_the_scorer, Edited
<1>2. \A r \in Records : rec[r].entries \in Entries
  BY DEF TypeOK, Record
<1>3. ASSUME NEW u \in Users, NEW r \in Records, upsert_scores(u, r) PROVE Edited(r)
  <2>1. \A sheet \in Sheets : [rec[r].entries EXCEPT !.sheet = sheet] \in Entries
    BY <1>2 DEF Entries
  <2> QED
    BY <1>1, <1>3, <2>1 DEF upsert_scores
<1>4. ASSUME NEW u \in Users, NEW r \in Records, set_evaluator_comment(u, r) PROVE Edited(r)
  <2>1. \A comment \in Comments : [rec[r].entries EXCEPT !.comment = comment] \in Entries
    BY <1>2 DEF Entries
  <2> QED
    BY <1>1, <1>4, <2>1 DEF set_evaluator_comment
<1>5. ASSUME NEW u \in Users, NEW r \in Records, set_special_score(u, r) PROVE Edited(r)
  <2>1. \A bonus \in Bonuses : [rec[r].entries EXCEPT !.bonus = bonus] \in Entries
    BY <1>2 DEF Entries
  <2> QED
    BY <1>1, <1>5, <2>1 DEF set_special_score
<1>6. ASSUME NEW u \in Users, NEW r \in Records, submit_evaluation(u, r) PROVE Submitted(u, r)
  BY <1>6 DEF submit_evaluation, Submitted
<1> QED
  BY <1>3, <1>4, <1>5, <1>6 DEF ScoreCases

\* The review handlers are rows of the transition table, closing rows apart.
LEMMA ReviewShape ==
    ASSUME ReviewCases
    PROVE  \E u \in Users, r \in Records : Reviewed(u, r) \/ Finalized(u, r)
<1>1. ASSUME NEW u \in Users, NEW r \in Records, hr_approve(u, r)
      PROVE  Reviewed(u, r) \/ Finalized(u, r)
  <2>1. CASE is_direct_ceo_path(rec[r])
    BY <1>1, <2>1 DEF hr_approve, Finalized
  <2>2. CASE ~is_direct_ceo_path(rec[r]) /\ is_manager_path(rec[r])
    BY <1>1, <2>2 DEF hr_approve, Reviewed, ReviewActions
  <2>3. CASE ~is_direct_ceo_path(rec[r]) /\ ~is_manager_path(rec[r])
    BY <1>1, <2>3 DEF hr_approve, Reviewed, ReviewActions
  <2> QED
    BY <2>1, <2>2, <2>3
<1>2. ASSUME NEW u \in Users, NEW r \in Records, deputy_approve(u, r) PROVE Reviewed(u, r)
  BY <1>2 DEF deputy_approve, Reviewed, ReviewActions
<1>3. ASSUME NEW u \in Users, NEW r \in Records, ceo_finalize(u, r) PROVE Finalized(u, r)
  BY <1>3 DEF ceo_finalize, Finalized
<1>4. ASSUME NEW u \in Users, NEW r \in Records, return_evaluation(u, r) PROVE Reviewed(u, r)
  <2> DEFINE action == return_action(account[u].role, rec[r])
  <2>1. action \in {"hr_return", "deputy_return", "ceo_return", "ceo_return_manager"}
    BY <1>4 DEF return_evaluation, return_action
  <2>2. apply_transition(u, r, action, rec[r])
    BY <1>4 DEF return_evaluation
  <2> HIDE DEF action
  <2> QED
    BY <2>1, <2>2 DEF Reviewed, ReviewActions
<1>5. ASSUME NEW u \in Users, NEW r \in Records, cancel_evaluation(u, r) PROVE Reviewed(u, r)
  BY <1>5 DEF cancel_evaluation, Reviewed, ReviewActions
<1> QED
  BY <1>1, <1>2, <1>3, <1>4, <1>5 DEF ReviewCases

\* Extending edits a draft; claiming, handing over and reassigning give a seat to another holder.
LEMMA ManagementShape ==
    ASSUME TypeOK, ManageCases
    PROVE  \E r \in Records : Edited(r) \/ Reseated(r)
<1>1. ASSUME NEW u \in Users, NEW r \in Records, extend_submission_window(u, r) PROVE Edited(r)
  BY <1>1 DEF extend_submission_window, Edited
<1>2. ASSUME NEW u \in Users, NEW r \in Records, hr_claim(u, r) PROVE Reseated(r)
  BY <1>2 DEF hr_claim, Reseated
<1>3. ASSUME NEW u \in Users, NEW r \in Records, NEW v \in Users, hr_handover(u, r, v) PROVE Reseated(r)
  BY <1>3 DEF hr_handover, Reseated
<1>4. ASSUME NEW u \in Users, NEW r \in Records, NEW seat \in Seats, NEW v \in Users,
             reassign_stage_owner(u, r, seat, v)
      PROVE  Reseated(r)
  BY <1>4 DEF reassign_stage_owner, Reseated
<1> QED
  BY <1>1, <1>2, <1>3, <1>4 DEF ManageCases

\* Editing chains and personnel leaves the cases alone, except that a departure cancels one.
LEMMA StaffShape ==
    ASSUME ManageStaff
    PROVE  TablesUntouched \/ \E u \in Users, r \in Records : Reviewed(u, r)
<1>1. ASSUME NEW u \in Users, NEW p \in Personnel, NEW chain \in Chains, upsert_access(u, p, chain)
      PROVE  TablesUntouched
  BY <1>1 DEF upsert_access, TablesUntouched
<1>2. ASSUME NEW u \in Users, NEW p \in Personnel, close_out_departure(u, p)
      PROVE  TablesUntouched \/ \E r \in Records : Reviewed(u, r)
  BY <1>2 DEF close_out_departure, TablesUntouched, Reviewed, ReviewActions
<1>3. ASSUME NEW u \in Users, NEW p \in Personnel, NEW employed \in BOOLEAN, NEW is_manager \in BOOLEAN,
             update_personnel(u, p, employed, is_manager)
      PROVE  TablesUntouched \/ \E r \in Records : Reviewed(u, r)
  BY <1>2, <1>3 DEF update_personnel, TablesUntouched
<1> QED
  BY <1>1, <1>3 DEF ManageStaff

\* Every step of the system does one of a handful of things to the cases.
LEMMA StepShape ==
    ASSUME TypeOK, [Next]_vars PROVE TableStep
<1>1. CASE OpenCases
  BY <1>1, OpeningShape DEF TableStep
<1>2. CASE ScoreCases
  BY <1>2, ScoringShape DEF TableStep
<1>3. CASE ReviewCases
  BY <1>3, ReviewShape DEF TableStep
<1>4. CASE ManageCases
  BY <1>4, ManagementShape DEF TableStep
<1>5. CASE ManageStaff
  BY <1>5, StaffShape DEF TableStep
<1>6. CASE ManageAccounts
  BY <1>6 DEF ManageAccounts, create_user, update_user, TableStep, TablesUntouched
<1>7. CASE ManagePeriods
  BY <1>7 DEF ManagePeriods, create_period, update_period, close_period, delete_period,
              TableStep, TablesUntouched
<1>8. CASE next_day
  BY <1>8 DEF next_day, TableStep, TablesUntouched
<1>9. CASE UNCHANGED vars
  BY <1>9 DEF vars, TableStep, TablesUntouched
<1> QED
  BY <1>1, <1>2, <1>3, <1>4, <1>5, <1>6, <1>7, <1>8, <1>9 DEF Next
-----------------------------------------------------------------------------
(* Type correctness.                                                       *)

\* The part of TypeOK that speaks of the two tables of cases.
RecTyped ==
    /\ rec \in [Records -> Record]
    /\ \A r \in Records : rec[r].status # "absent" => rec[r].subject \in Personnel /\ rec[r].ceo \in Users
    /\ signed \in [Records -> [Stages -> Signature \cup {None}]]

\* A complete form has a well-formed result.
LEMMA SubmittedRecord ==
    ASSUME TypeOK, NEW r \in Records, rec[r].entries.sheet \in CompleteSheets
    PROVE  /\ compute_result(rec[r].entries) \in Results
           /\ [rec[r] EXCEPT !.result = compute_result(rec[r].entries)] \in Record
<1>1. compute_result(rec[r].entries) \in Results
  BY DEF TypeOK, Record, Entries, compute_result, Results
<1>2. rec[r] \in Record
  BY DEF TypeOK
<1> QED
  BY <1>1, <1>2, RecordFields

\* A case with a result and a scorer has a well-formed final document.
LEMMA FinalRecord ==
    ASSUME TypeOK, NEW r \in Records, rec[r].status \in OPEN_STATUSES, has_result(rec[r]),
           rec[r][scorer_seat(rec[r])] \in Users
    PROVE  /\ final_snapshot(rec[r]) \in Snapshot
           /\ [rec[r] EXCEPT !.snapshot = final_snapshot(rec[r])] \in Record
<1>1. rec[r] \in Record
  BY DEF TypeOK
<1>2. rec[r].entries \in Entries /\ rec[r].result \in Results
  BY <1>1 DEF Record, has_result
<1>3. single_decider(rec[r]) \in BOOLEAN
  BY DEF single_decider
<1>4. final_snapshot(rec[r]) \in Snapshot
  BY <1>2, <1>3 DEF final_snapshot, Snapshot
<1> QED
  BY <1>1, <1>4, RecordFields

\* The seat that scores is never empty on an open case.
LEMMA ScorerSeated ==
    ASSUME TypeOK, NEW r \in Records, rec[r].status \in OPEN_STATUSES
    PROVE  scorer_seat(rec[r]) \in Seats /\ rec[r][scorer_seat(rec[r])] \in Users
<1>1. /\ rec[r].unit_supervisor \in Users \cup {None}
      /\ rec[r].deputy \in Users \cup {None}
      /\ rec[r].ceo \in Users
  BY DEF TypeOK, Record, OPEN_STATUSES
<1> QED
  BY <1>1 DEF scorer_seat, is_direct_ceo_path, is_manager_path, Seats

\* The review rows are rows of the transition table.
LEMMA ReviewActionsAreActions == ReviewActions \subseteq Actions
BY ActionNames DEF ReviewActions

\* Whatever the path of a case, submitting it takes one of the three submit rows.
LEMMA SubmitActions ==
    ASSUME NEW case PROVE submit_action(case) \in {"submit", "manager_submit", "direct_ceo_submit"} \cap Actions
BY ActionNames DEF submit_action

\* The tables of cases keep their type, shape by shape.
LEMMA TablesTyped ==
    ASSUME TypeOK, TableStep PROVE RecTyped'
<1> USE DEF RecTyped
<1>1. CASE TablesUntouched
  BY <1>1 DEF TypeOK, TablesUntouched
<1>2. CASE Opened
  <2>0. PICK batch \in SUBSET Records : \E who \in [batch -> Personnel] :
          /\ \A r \in batch : ready_to_open(who[r])
          /\ rec' = [r \in Records |-> IF r \in batch THEN new_record(who[r]) ELSE rec[r]]
          /\ signed' = signed
    BY <1>2 DEF Opened
  <2>1. PICK who \in [batch -> Personnel] :
          /\ \A r \in batch : ready_to_open(who[r])
          /\ rec' = [r \in Records |-> IF r \in batch THEN new_record(who[r]) ELSE rec[r]]
          /\ signed' = signed
    BY <2>0
  <2>2. \A r \in batch : new_record(who[r]) \in Record /\ new_record(who[r]).subject \in Personnel
                         /\ new_record(who[r]).ceo \in Users
    BY <2>1, NewRecord
  <2> QED
    BY <2>1, <2>2 DEF TypeOK
<1>3. ASSUME NEW r \in Records, Edited(r) PROVE RecTyped'
  <2>1. PICK case \in Record :
          /\ rec' = [rec EXCEPT ![r] = case]
          /\ case.subject = rec[r].subject /\ case.ceo = rec[r].ceo /\ case.status = rec[r].status
    <3>1. CASE \E entries \in Entries : rec' = [rec EXCEPT ![r].entries = entries]
      <4>1. PICK entries \in Entries : rec' = [rec EXCEPT ![r] = [rec[r] EXCEPT !.entries = entries]]
        BY <3>1
      <4>2. [rec[r] EXCEPT !.entries = entries] \in Record
        BY RecordFields DEF TypeOK
      <4> QED
        BY <4>1, <4>2 DEF TypeOK, Record
    <3>2. CASE \E until \in Days : rec' = [rec EXCEPT ![r].extended_until = until]
      <4>1. PICK until \in Days : rec' = [rec EXCEPT ![r] = [rec[r] EXCEPT !.extended_until = until]]
        BY <3>2
      <4>2. [rec[r] EXCEPT !.extended_until = until] \in Record
        BY RecordFields DEF TypeOK
      <4> QED
        BY <4>1, <4>2 DEF TypeOK, Record
    <3> QED
      BY <1>3, <3>1, <3>2 DEF Edited
  <2>2. signed' = signed
    BY <1>3 DEF Edited
  <2> QED
    BY <2>1, <2>2 DEF TypeOK
<1>4. ASSUME NEW r \in Records, Reseated(r) PROVE RecTyped'
  <2>1. PICK case \in Record :
          /\ rec' = [rec EXCEPT ![r] = case]
          /\ case.subject = rec[r].subject /\ case.ceo \in Users
    <3>0. rec[r].ceo \in Users /\ rec[r] \in Record
      BY <1>4 DEF Reseated, is_open, OPEN_STATUSES, TypeOK
    <3>1. ASSUME NEW u \in Users, rec' = [rec EXCEPT ![r].hr = u]
          PROVE  \E case \in Record : /\ rec' = [rec EXCEPT ![r] = case]
                                      /\ case.subject = rec[r].subject /\ case.ceo \in Users
      <4>1. rec' = [rec EXCEPT ![r] = [rec[r] EXCEPT !.hr = u]]
        BY <3>1
      <4>2. [rec[r] EXCEPT !.hr = u] \in Record
        BY <3>0, RecordFields
      <4>3. [rec[r] EXCEPT !.hr = u].subject = rec[r].subject /\ [rec[r] EXCEPT !.hr = u].ceo \in Users
        BY <3>0 DEF Record
      <4> QED
        BY <4>1, <4>2, <4>3
    <3>2. ASSUME NEW u \in Users, NEW seat \in Seats, rec' = [rec EXCEPT ![r][seat] = u]
          PROVE  \E case \in Record : /\ rec' = [rec EXCEPT ![r] = case]
                                      /\ case.subject = rec[r].subject /\ case.ceo \in Users
      <4>1. rec' = [rec EXCEPT ![r] = [rec[r] EXCEPT ![seat] = u]]
        BY <3>2
      <4>2. [rec[r] EXCEPT ![seat] = u] \in Record
        BY <3>0, RecordFields
      <4>3. [rec[r] EXCEPT ![seat] = u].subject = rec[r].subject
        BY <3>0 DEF Record, Seats
      <4>4. [rec[r] EXCEPT ![seat] = u].ceo \in {u, rec[r].ceo}
        BY <3>0 DEF Record, Seats
      <4> QED
        BY <4>1, <4>2, <4>3, <4>4, <3>0
    <3> QED
      BY <1>4, <3>1, <3>2 DEF Reseated
  <2>2. signed' = signed
    BY <1>4 DEF Reseated
  <2>3. rec[r].subject \in Personnel
    BY <1>4 DEF Reseated, is_open, OPEN_STATUSES, TypeOK
  <2> QED
    BY <2>1, <2>2, <2>3 DEF TypeOK
<1>5. ASSUME NEW u \in Users, NEW r \in Records, Submitted(u, r) PROVE RecTyped'
  <2> DEFINE case == [rec[r] EXCEPT !.result = compute_result(rec[r].entries)]
  <2>1. case \in Record
    BY <1>5, SubmittedRecord DEF Submitted
  <2>2. case.subject = rec[r].subject /\ case.ceo = rec[r].ceo
    BY DEF TypeOK, Record
  <2>3. apply_transition(u, r, submit_action(rec[r]), case)
    BY <1>5 DEF Submitted
  <2> HIDE DEF case
  <2> QED
    BY <2>1, <2>2, <2>3, SubmitActions, ApplyTransition
<1>6. ASSUME NEW u \in Users, NEW r \in Records, Reviewed(u, r) PROVE RecTyped'
  <2>1. PICK action \in Actions : apply_transition(u, r, action, rec[r])
    BY <1>6, ReviewActionsAreActions DEF Reviewed
  <2>2. rec[r] \in Record
    BY DEF TypeOK
  <2> QED
    BY <2>1, <2>2, ApplyTransition
<1>7. ASSUME NEW u \in Users, NEW r \in Records, Finalized(u, r) PROVE RecTyped'
  <2> DEFINE case == [rec[r] EXCEPT !.snapshot = final_snapshot(rec[r])]
  <2>1. PICK action \in {"hr_finalize_direct_ceo", "ceo_finalize"} : apply_transition(u, r, action, case)
    BY <1>7 DEF Finalized
  <2>2. action \in Actions /\ TRANSITIONS[action].to_status = "finalized"
    BY <2>1, ActionNames DEF TRANSITIONS, Row
  <2>3. rec[r].status \in OPEN_STATUSES /\ has_result(rec[r])
    BY <2>1, <2>2, Table DEF apply_transition, ensure_transition_allowed
  <2>4. case \in Record
    BY <2>3, ScorerSeated, FinalRecord
  <2>5. case.subject = rec[r].subject /\ case.ceo = rec[r].ceo
    BY DEF TypeOK, Record
  <2> HIDE DEF case
  <2> QED
    BY <2>1, <2>2, <2>4, <2>5, ApplyTransition
<1> QED
  BY <1>1, <1>2, <1>3, <1>4, <1>5, <1>6, <1>7 DEF TableStep
-----------------------------------------------------------------------------
\* Edits of the personnel leave the calendar and the periods alone, and accounts but for a departure.
LEMMA StaffActionsFrame ==
    ASSUME ManageStaff
    PROVE  /\ today' = today /\ periods' = periods
           /\ \/ account' = account
              \/ \E u \in Users, p \in Personnel : close_out_departure(u, p)
<1>1. ASSUME NEW u \in Users, NEW p \in Personnel, NEW chain \in Chains, upsert_access(u, p, chain)
      PROVE  today' = today /\ periods' = periods /\ account' = account
  BY <1>1, Zenon DEF upsert_access
<1>2. ASSUME NEW u \in Users, NEW p \in Personnel, NEW employed \in BOOLEAN, NEW is_manager \in BOOLEAN,
             update_personnel(u, p, employed, is_manager)
      PROVE  today' = today /\ periods' = periods /\ (account' = account \/ close_out_departure(u, p))
  BY <1>2, Zenon DEF update_personnel
<1> QED
  BY <1>1, <1>2, Zenon DEF ManageStaff

\* The actions on cases leave the accounts, the personnel, the calendar and the periods alone.
LEMMA CaseActionsFrame ==
    ASSUME OpenCases \/ ScoreCases \/ ReviewCases \/ ManageCases
    PROVE  account' = account /\ staff' = staff /\ today' = today /\ periods' = periods
<1> DEFINE Framed == account' = account /\ staff' = staff /\ today' = today /\ periods' = periods
<1>1. CASE OpenCases
  BY <1>1 DEF OpenCases, create_evaluation, bulk_create
<1>2. CASE ScoreCases
  <2>1. ASSUME NEW u \in Users, NEW r \in Records, upsert_scores(u, r) \/ set_evaluator_comment(u, r)
        PROVE  Framed
    BY <2>1 DEF upsert_scores, set_evaluator_comment, enter
  <2>2. ASSUME NEW u \in Users, NEW r \in Records, set_special_score(u, r) \/ submit_evaluation(u, r)
        PROVE  Framed
    BY <2>2 DEF set_special_score, submit_evaluation, enter
  <2> QED
    BY <1>2, <2>1, <2>2 DEF ScoreCases
<1>3. CASE ReviewCases
  <2>1. ASSUME NEW u \in Users, NEW r \in Records, hr_approve(u, r) \/ deputy_approve(u, r) \/ ceo_finalize(u, r)
        PROVE  Framed
    BY <2>1 DEF hr_approve, deputy_approve, ceo_finalize
  <2>2. ASSUME NEW u \in Users, NEW r \in Records, return_evaluation(u, r) \/ cancel_evaluation(u, r)
        PROVE  Framed
    BY <2>2 DEF return_evaluation, cancel_evaluation
  <2> QED
    BY <1>3, <2>1, <2>2 DEF ReviewCases
<1>4. CASE ManageCases
  <2>1. ASSUME NEW u \in Users, NEW r \in Records, extend_submission_window(u, r) \/ hr_claim(u, r)
        PROVE  Framed
    BY <2>1 DEF extend_submission_window, hr_claim
  <2>2. ASSUME NEW u \in Users, NEW r \in Records, NEW new_owner \in Users, hr_handover(u, r, new_owner)
        PROVE  Framed
    BY <2>2 DEF hr_handover
  <2>3. ASSUME NEW u \in Users, NEW r \in Records, NEW seat \in Seats, NEW new_user \in Users,
               reassign_stage_owner(u, r, seat, new_user)
        PROVE  Framed
    BY <2>3 DEF reassign_stage_owner
  <2> QED
    BY <1>4, <2>1, <2>2, <2>3 DEF ManageCases
<1> QED
  BY <1>1, <1>2, <1>3, <1>4

\* The actions on periods leave the accounts, the personnel and the records alone.
LEMMA PeriodActionsFrame ==
    ASSUME ManagePeriods
    PROVE  account' = account /\ staff' = staff /\ rec' = rec
BY DEF ManagePeriods, create_period, update_period, close_period, delete_period

\* The users table keeps its type: creating, editing and switching off write whole accounts.
LEMMA AccountTyped ==
    ASSUME TypeOK, [Next]_vars PROVE account' \in [Users -> Account]
<1>1. ASSUME NEW admin \in Users, NEW u \in Users, NEW new \in AccountEdits[u],
             create_user(admin, u, new) \/ update_user(admin, u, new)
      PROVE  account' \in [Users -> Account]
  <2>1. new \in Account
    BY InputAssumption
  <2>2. account' = [account EXCEPT ![u] = new]
    BY <1>1 DEF create_user, update_user
  <2> QED
    BY <2>1, <2>2 DEF TypeOK
<1>2. ASSUME NEW u \in Users, NEW p \in Personnel, close_out_departure(u, p)
      PROVE  account' \in [Users -> Account]
  <2>1. ASSUME NEW v \in Users, account' = [account EXCEPT ![v].active = FALSE]
        PROVE  account' \in [Users -> Account]
    <3>1. account \in [Users -> Account] /\ [account[v] EXCEPT !.active = FALSE] \in Account
      BY DEF TypeOK, Account
    <3> QED
      BY <2>1, <3>1
  <2>2. CASE account' = account
    BY <2>2 DEF TypeOK
  <2> QED
    BY <1>2, <2>1, <2>2 DEF close_out_departure, linked_accounts
<1>3. ASSUME account' = account PROVE account' \in [Users -> Account]
  BY <1>3 DEF TypeOK
<1>4. CASE OpenCases \/ ScoreCases \/ ReviewCases \/ ManageCases
  BY <1>3, <1>4, CaseActionsFrame
<1>5. CASE ManageStaff
  BY <1>2, <1>3, <1>5, StaffActionsFrame
<1>6. CASE ManageAccounts
  BY <1>1, <1>6 DEF ManageAccounts
<1>7. CASE ManagePeriods
  BY <1>3, <1>7, PeriodActionsFrame
<1>8. CASE next_day \/ UNCHANGED vars
  BY <1>3, <1>8 DEF next_day, vars
<1> QED
  BY <1>4, <1>5, <1>6, <1>7, <1>8 DEF Next

\* The personnel table and its access rows keep their type.
LEMMA StaffTyped ==
    ASSUME TypeOK, [Next]_vars PROVE staff' \in [Personnel -> Employee]
<1>1. ASSUME NEW u \in Users, NEW p \in Personnel, NEW chain \in Chains, upsert_access(u, p, chain)
      PROVE  staff' \in [Personnel -> Employee]
  <2>1. chain \in Chain
    BY InputAssumption
  <2>2. staff' = [staff EXCEPT ![p].access = chain]
    BY <1>1 DEF upsert_access
  <2>3. staff[p] \in Employee
    BY DEF TypeOK
  <2>4. [staff[p] EXCEPT !.access = chain] \in Employee
    BY <2>1, <2>3 DEF Employee
  <2> QED
    BY <2>2, <2>4 DEF TypeOK
<1>2. ASSUME NEW u \in Users, NEW p \in Personnel, NEW employed \in BOOLEAN, NEW is_manager \in BOOLEAN,
             update_personnel(u, p, employed, is_manager)
      PROVE  staff' \in [Personnel -> Employee]
  <2> DEFINE access == IF is_manager /\ staff[p].access # None
                       THEN [staff[p].access EXCEPT !.unit_supervisor = None] ELSE staff[p].access
  <2>1. staff[p] \in Employee
    BY DEF TypeOK
  <2>2. access \in Chain \cup {None}
    <3>1. \A chain \in Chain : [chain EXCEPT !.unit_supervisor = None] \in Chain
      BY DEF Chain
    <3> QED
      BY <2>1, <3>1 DEF Employee
  <2>3. staff' = [staff EXCEPT ![p] = [staff[p] EXCEPT !.employed = employed, !.is_manager = is_manager,
                                                       !.access = access]]
    BY <1>2, <2>1 DEF update_personnel, TypeOK, Employee
  <2> HIDE DEF access
  <2>4. [staff[p] EXCEPT !.employed = employed, !.is_manager = is_manager, !.access = access] \in Employee
    BY <2>1, <2>2 DEF Employee
  <2> QED
    BY <2>3, <2>4 DEF TypeOK
<1>3. ASSUME staff' = staff PROVE staff' \in [Personnel -> Employee]
  BY <1>3 DEF TypeOK
<1>4. CASE OpenCases \/ ScoreCases \/ ReviewCases \/ ManageCases
  BY <1>3, <1>4, CaseActionsFrame
<1>5. CASE ManageStaff
  BY <1>1, <1>2, <1>5 DEF ManageStaff
<1>6. CASE ManageAccounts
  BY <1>3, <1>6 DEF ManageAccounts, create_user, update_user
<1>7. CASE ManagePeriods
  BY <1>3, <1>7, PeriodActionsFrame
<1>8. CASE next_day \/ UNCHANGED vars
  BY <1>3, <1>8 DEF next_day, vars
<1> QED
  BY <1>4, <1>5, <1>6, <1>7, <1>8 DEF Next

\* The calendar and the periods keep their type.
LEMMA CalendarTyped ==
    ASSUME TypeOK, [Next]_vars PROVE today' \in Days /\ periods' \in [Periods -> Period]
<1> DEFINE Typed == today \in Days /\ periods \in [Periods -> Period]
<1>1. ASSUME NEW u \in Users, NEW q \in Periods, NEW ends_on \in Days,
             create_period(u, q, ends_on) \/ update_period(u, q, ends_on)
      PROVE  Typed'
  BY <1>1 DEF create_period, update_period, TypeOK, Period
<1>2. ASSUME NEW u \in Users, NEW q \in Periods, NEW force \in BOOLEAN,
             close_period(u, q, force) \/ delete_period(u, q)
      PROVE  Typed'
  <2>1. CASE close_period(u, q, force)
    BY <2>1 DEF close_period, TypeOK, Period
  <2>2. CASE delete_period(u, q)
    <3>1. 0 \in Days
      BY InputAssumption DEF Days
    <3>2. [status |-> "unused", ends_on |-> 0] \in Period
      BY <3>1 DEF Period
    <3> QED
      BY <2>2, <3>2 DEF delete_period, TypeOK
  <2> QED
    BY <1>2, <2>1, <2>2
<1>3. ASSUME today' = today, periods' = periods PROVE Typed'
  BY <1>3 DEF TypeOK
<1>4. CASE OpenCases \/ ScoreCases \/ ReviewCases \/ ManageCases
  BY <1>3, <1>4, CaseActionsFrame
<1>5. CASE ManageStaff
  BY <1>3, <1>5, StaffActionsFrame
<1>6. CASE ManageAccounts
  BY <1>3, <1>6 DEF ManageAccounts, create_user, update_user
<1>7. CASE ManagePeriods
  BY <1>1, <1>2, <1>7 DEF ManagePeriods
<1>8. CASE next_day
  BY <1>8, InputAssumption DEF next_day, TypeOK, Days
<1>9. CASE UNCHANGED vars
  BY <1>3, <1>9 DEF vars
<1> QED
  BY <1>4, <1>5, <1>6, <1>7, <1>8, <1>9 DEF Next

\* TypeOK is inductive by itself.
LEMMA TypeStep ==
    ASSUME TypeOK, [Next]_vars PROVE TypeOK'
<1>1. RecTyped'
  BY StepShape, TablesTyped
<1> QED
  BY <1>1, AccountTyped, StaffTyped, CalendarTyped DEF TypeOK, RecTyped

\* The six tables keep their shape whatever requests arrive: in particular an existing record
\* always has a person it is about and a CEO.
THEOREM TypeCorrect == Spec => []TypeOK
<1>1. Init => TypeOK
  <2> SUFFICES ASSUME Init PROVE TypeOK
    OBVIOUS
  <2>1. account \in [Users -> Account] /\ staff \in [Personnel -> Employee]
    BY InputAssumption DEF Init, Employee
  <2>2. today \in Days /\ periods \in [Periods -> Period]
    BY InputAssumption DEF Init, Days, Period
  <2>3. rec \in [Records -> Record] /\ \A r \in Records : rec[r].status = "absent"
    BY BlankRecord DEF Init, blank_record
  <2>4. signed \in [Records -> [Stages -> Signature \cup {None}]]
    BY DEF Init, unsigned
  <2> QED
    BY <2>1, <2>2, <2>3, <2>4 DEF TypeOK
<1>2. TypeOK /\ [Next]_vars => TypeOK'
  BY TypeStep
<1> QED
  BY <1>1, <1>2, PTL DEF Spec
-----------------------------------------------------------------------------
(* What a step does to one case: nothing, an edit that keeps its standing, *)
(* or one row of the transition table.                                     *)

\* The rows that submit a form.
SubmitNames == {"submit", "manager_submit", "direct_ceo_submit"}
\* The rows that close a case.
FinalNames == {"hr_finalize_direct_ceo", "ceo_finalize"}

\* Record x and its signatures do not change.
Same(x) == rec'[x] = rec[x] /\ signed'[x] = signed[x]

\* Open record x keeps all that the properties look at, or is edited in draft.
Kept(x) ==
    /\ is_open(rec[x])
    /\ rec'[x].status = rec[x].status
    /\ rec'[x].subject = rec[x].subject
    /\ rec'[x].period = rec[x].period
    /\ rec'[x].result = rec[x].result
    /\ rec'[x].snapshot = rec[x].snapshot
    /\ rec[x].status # "draft" => rec'[x].entries = rec[x].entries
    /\ \A seat \in Seats : rec'[x][seat] = None <=> rec[x][seat] = None
    /\ signed'[x] = signed[x]

\* The handler may have set result or document, and nothing else.
Copied(case, original) ==
    /\ case \in Record
    /\ case.status = original.status
    /\ case.subject = original.subject
    /\ case.period = original.period
    /\ case.entries = original.entries
    /\ \A seat \in Seats : case[seat] = original[seat]

\* Record x takes a row of the transition table.
Stepped(x) == \E u \in Users, action \in Actions, case \in Record :
    /\ rec[x].status \in TRANSITIONS[action].from_statuses
    /\ guard(action, rec[x])
    /\ action = "hr_approve_manager" => ~is_direct_ceo_path(rec[x])
    /\ Copied(case, rec[x])
    /\ IF action \in SubmitNames
       THEN case.result = compute_result(rec[x].entries) /\ rec[x].entries.sheet \in CompleteSheets
       ELSE case.result = rec[x].result
    /\ case.snapshot = IF action \in FinalNames THEN final_snapshot(rec[x]) ELSE rec[x].snapshot
    /\ rec'[x] = moved(u, case, action)
    /\ signed'[x] = countersigned(signed[x], u, case, action)

\* At most record r changes.
OneCase(r) == (Kept(r) \/ Stepped(r)) /\ \A x \in Records : x # r => Same(x)

\* Editing a draft touches one case, and neither its stage nor its result.
LEMMA EditedKeeps ==
    ASSUME TypeOK, NEW r \in Records, Edited(r) PROVE OneCase(r)
<1>1. rec[r] \in Record /\ r \in DOMAIN rec
  BY DEF TypeOK
<1>2. ASSUME NEW entries \in Entries, rec' = [rec EXCEPT ![r].entries = entries]
      PROVE  Kept(r) /\ \A x \in Records : x # r => Same(x)
  <2>1. rec'[r] = [rec[r] EXCEPT !.entries = entries] /\ \A x \in Records : x # r => rec'[x] = rec[x]
    BY <1>2 DEF TypeOK
  <2> QED
    BY <1>1, <2>1 DEF Edited, Kept, Same, is_open, OPEN_STATUSES, Record, Seats
<1>3. ASSUME NEW until \in Days, rec' = [rec EXCEPT ![r].extended_until = until]
      PROVE  Kept(r) /\ \A x \in Records : x # r => Same(x)
  <2>1. rec'[r] = [rec[r] EXCEPT !.extended_until = until] /\ \A x \in Records : x # r => rec'[x] = rec[x]
    BY <1>3 DEF TypeOK
  <2> QED
    BY <1>1, <2>1 DEF Edited, Kept, Same, is_open, OPEN_STATUSES, Record, Seats
<1> QED
  BY <1>2, <1>3 DEF Edited, OneCase

\* Reseating touches one case, and empties or fills no seat.
LEMMA ReseatedKeeps ==
    ASSUME TypeOK, NEW r \in Records, Reseated(r) PROVE OneCase(r)
<1>1. rec[r] \in Record /\ r \in DOMAIN rec
  BY DEF TypeOK
<1>2. ASSUME NEW u \in Users, rec' = [rec EXCEPT ![r].hr = u]
      PROVE  Kept(r) /\ \A x \in Records : x # r => Same(x)
  <2>1. rec'[r] = [rec[r] EXCEPT !.hr = u] /\ \A x \in Records : x # r => rec'[x] = rec[x]
    BY <1>2 DEF TypeOK
  <2> QED
    BY <1>1, <2>1 DEF Reseated, Kept, Same, Record, Seats
<1>3. ASSUME NEW u \in Users, NEW seat \in Seats, rec[r][seat] # None, rec' = [rec EXCEPT ![r][seat] = u]
      PROVE  Kept(r) /\ \A x \in Records : x # r => Same(x)
  <2>1. rec'[r] = [rec[r] EXCEPT ![seat] = u] /\ \A x \in Records : x # r => rec'[x] = rec[x]
    BY <1>3 DEF TypeOK
  <2>2. \A other \in Seats : rec'[r][other] = IF other = seat THEN u ELSE rec[r][other]
    BY <1>1, <2>1 DEF Record, Seats
  <2>3. \A other \in Seats : rec'[r][other] = None <=> rec[r][other] = None
    BY <1>3, <2>2, NullAssumption
  <2>4. /\ rec'[r].status = rec[r].status /\ rec'[r].subject = rec[r].subject
        /\ rec'[r].result = rec[r].result /\ rec'[r].snapshot = rec[r].snapshot
        /\ rec'[r].entries = rec[r].entries /\ rec'[r].period = rec[r].period
    BY <1>1, <2>1 DEF Record, Seats
  <2> QED
    BY <2>1, <2>3, <2>4 DEF Reseated, Kept, Same
<1> QED
  BY <1>2, <1>3 DEF Reseated, OneCase

\* Submitting takes one case through a submit row.
LEMMA SubmittedSteps ==
    ASSUME TypeOK, NEW u \in Users, NEW r \in Records, Submitted(u, r)
    PROVE  Stepped(r) /\ \A x \in Records : x # r => Same(x)
<1> DEFINE case == [rec[r] EXCEPT !.result = compute_result(rec[r].entries)]
           action == submit_action(rec[r])
<1>1. rec[r].entries.sheet \in CompleteSheets /\ apply_transition(u, r, action, case)
  BY DEF Submitted
<1>2. case \in Record
  BY <1>1, SubmittedRecord
<1>3. rec[r] \in Record
  BY DEF TypeOK
<1>4. Copied(case, rec[r]) /\ case.ceo = rec[r].ceo
  BY <1>2, <1>3 DEF Copied, Record, Seats
<1>5. case.result = compute_result(rec[r].entries) /\ case.snapshot = rec[r].snapshot
  BY <1>3 DEF Record
<1>6. action \in Actions /\ action \in SubmitNames
  BY <1>3, SubmitActions DEF SubmitNames
<1>7. action \notin FinalNames /\ action # "hr_approve_manager"
  BY <1>6 DEF SubmitNames, FinalNames
<1> HIDE DEF case, action
<1>8. rec[r].status \in TRANSITIONS[action].from_statuses /\ guard(action, rec[r])
  BY <1>1 DEF apply_transition, ensure_transition_allowed
<1>9. /\ rec'[r] = moved(u, case, action) /\ signed'[r] = countersigned(signed[r], u, case, action)
      /\ \A x \in Records : x # r => rec'[x] = rec[x] /\ signed'[x] = signed[x]
  BY <1>1, <1>2, <1>4, <1>6, ApplyTransition DEF Copied
<1> QED
  BY <1>1, <1>2, <1>4, <1>5, <1>6, <1>7, <1>8, <1>9 DEF Stepped, Same

\* Approving, returning and cancelling take one case through a row that leaves its result alone.
LEMMA ReviewedSteps ==
    ASSUME TypeOK, NEW u \in Users, NEW r \in Records, Reviewed(u, r)
    PROVE  Stepped(r) /\ \A x \in Records : x # r => Same(x)
<1>1. PICK action \in ReviewActions : /\ action = "hr_approve_manager" => ~is_direct_ceo_path(rec[r])
                                      /\ apply_transition(u, r, action, rec[r])
  BY DEF Reviewed
<1>2. rec[r] \in Record /\ Copied(rec[r], rec[r])
  BY DEF TypeOK, Copied
<1>3. action \in Actions /\ action \notin FinalNames /\ action \notin SubmitNames
  BY ReviewActionsAreActions DEF ReviewActions, FinalNames, SubmitNames
<1>4. rec[r].status \in TRANSITIONS[action].from_statuses /\ guard(action, rec[r])
  BY <1>1 DEF apply_transition, ensure_transition_allowed
<1>5. /\ rec'[r] = moved(u, rec[r], action) /\ signed'[r] = countersigned(signed[r], u, rec[r], action)
      /\ \A x \in Records : x # r => rec'[x] = rec[x] /\ signed'[x] = signed[x]
  BY <1>1, <1>2, <1>3, ApplyTransition
<1> QED
  BY <1>1, <1>2, <1>3, <1>4, <1>5 DEF Stepped, Same

\* Closing takes one case through a closing row, over a result.
LEMMA FinalizedSteps ==
    ASSUME TypeOK, NEW u \in Users, NEW r \in Records, Finalized(u, r)
    PROVE  Stepped(r) /\ \A x \in Records : x # r => Same(x)
<1> DEFINE case == [rec[r] EXCEPT !.snapshot = final_snapshot(rec[r])]
<1>1. PICK action \in FinalNames : apply_transition(u, r, action, case)
  BY DEF Finalized, FinalNames
<1>2. action \in Actions /\ TRANSITIONS[action].to_status = "finalized"
  BY ActionNames DEF FinalNames, TRANSITIONS, Row
<1>3. action # "hr_approve_manager" /\ action \notin SubmitNames
  BY DEF FinalNames, SubmitNames
<1>4. rec[r].status \in TRANSITIONS[action].from_statuses /\ guard(action, rec[r]) /\ has_result(rec[r])
  BY <1>1, <1>2 DEF apply_transition, ensure_transition_allowed
<1>5. rec[r].status \in OPEN_STATUSES
  BY <1>2, <1>4, Table
<1>6. case \in Record
  BY <1>4, <1>5, ScorerSeated, FinalRecord
<1>7. rec[r] \in Record
  BY DEF TypeOK
<1>8. Copied(case, rec[r]) /\ case.ceo = rec[r].ceo
  BY <1>6, <1>7 DEF Copied, Record, Seats
<1>9. case.result = rec[r].result /\ case.snapshot = final_snapshot(rec[r])
  BY <1>7 DEF Record
<1> HIDE DEF case
<1>10. /\ rec'[r] = moved(u, case, action) /\ signed'[r] = countersigned(signed[r], u, case, action)
       /\ \A x \in Records : x # r => rec'[x] = rec[x] /\ signed'[x] = signed[x]
  BY <1>1, <1>2, <1>6, <1>8, ApplyTransition DEF Copied
<1> QED
  BY <1>1, <1>2, <1>3, <1>4, <1>6, <1>8, <1>9, <1>10 DEF Stepped, Same

\* A request opens a batch of cases or touches at most one.
LEMMA CaseStep ==
    ASSUME TypeOK, [Next]_vars
    PROVE  TablesUntouched \/ Opened \/ \E r \in Records : OneCase(r)
BY StepShape, EditedKeeps, ReseatedKeeps, SubmittedSteps, ReviewedSteps, FinalizedSteps DEF TableStep, OneCase

\* After a batch is opened, a record is what it was, or a fresh draft of someone without an open case.
LEMMA OpenedFields ==
    ASSUME TypeOK, Opened, NEW x \in Records
    PROVE  \/ Same(x)
           \/ /\ rec[x].status = "absent" /\ rec'[x].status = "draft" /\ rec'[x].snapshot = None
              /\ rec'[x].subject \in Personnel /\ ~has_open_record(rec'[x].subject)
              /\ rec'[x].period = active_period
              /\ signed'[x] = signed[x]
<1>1. PICK batch \in SUBSET Records : \E who \in [batch -> Personnel] :
        /\ \A r \in batch : rec[r].status = "absent" /\ ready_to_open(who[r])
        /\ \A r, y \in batch : who[r] = who[y] => r = y
        /\ rec' = [r \in Records |-> IF r \in batch THEN new_record(who[r]) ELSE rec[r]]
        /\ signed' = signed
  BY DEF Opened
<1>2. PICK who \in [batch -> Personnel] :
        /\ \A r \in batch : rec[r].status = "absent" /\ ready_to_open(who[r])
        /\ rec' = [r \in Records |-> IF r \in batch THEN new_record(who[r]) ELSE rec[r]]
        /\ signed' = signed
  BY <1>1
<1>3. CASE x \in batch
  <2>1. who[x] \in Personnel /\ ready_to_open(who[x]) /\ rec'[x] = new_record(who[x])
    BY <1>2, <1>3
  <2> QED
    BY <1>2, <1>3, <2>1, NewRecord DEF ready_to_open
<1>4. CASE x \notin batch
  BY <1>2, <1>4 DEF Same
<1> QED
  BY <1>3, <1>4

\* What a row of the table leaves of a record.
LEMMA SteppedFields ==
    ASSUME TypeOK, NEW x \in Records, NEW u \in Users, NEW action \in Actions, NEW case \in Record,
           Copied(case, rec[x]), rec'[x] = moved(u, case, action)
    PROVE  /\ rec'[x].status = TRANSITIONS[action].to_status
           /\ rec'[x].subject = rec[x].subject
           /\ rec'[x].period = rec[x].period
           /\ rec'[x].entries = rec[x].entries
           /\ \A seat \in Seats : rec'[x][seat] = rec[x][seat]
           /\ rec'[x].result = case.result
           /\ rec'[x].snapshot = case.snapshot
BY MovedFields DEF Copied
-----------------------------------------------------------------------------
(* A closed case is closed.                                                *)

\* No request changes a finalized or cancelled record, or the signatures it stands on.
THEOREM TerminalCasesFrozen == Spec => TerminalFrozen
<1>1. TypeOK /\ [Next]_vars =>
        [\A r \in Records : rec[r].status \in {"finalized", "cancelled"} =>
            rec'[r] = rec[r] /\ signed'[r] = signed[r]]_vars
  <2> SUFFICES ASSUME TypeOK, [Next]_vars, NEW x \in Records, rec[x].status \in {"finalized", "cancelled"}
               PROVE  Same(x)
    BY DEF Same
  <2>1. ~is_open(rec[x])
    BY DEF is_open, OPEN_STATUSES
  <2>2. CASE TablesUntouched
    BY <2>2 DEF TablesUntouched, Same
  <2>3. CASE Opened
    BY <2>3, OpenedFields
  <2>4. ASSUME NEW r \in Records, OneCase(r) PROVE Same(x)
    <3>1. CASE x # r
      BY <2>4, <3>1 DEF OneCase
    <3>2. CASE x = r
      BY <2>1, <2>4, <3>2, Table DEF OneCase, Kept, Stepped, is_open
    <3> QED
      BY <3>1, <3>2
  <2> QED
    BY <2>2, <2>3, <2>4, CaseStep
<1> QED
  BY <1>1, TypeCorrect, PTL DEF Spec, TerminalFrozen
-----------------------------------------------------------------------------
(* One open case per person.                                               *)

\* A person gets a second open case neither from a batch nor from a step of his first one.
LEMMA OneOpenRecordStep ==
    ASSUME TypeOK, OneOpenRecord, [Next]_vars PROVE OneOpenRecord'
<1> DEFINE Alike(x) == rec'[x].subject = rec[x].subject /\ (is_open(rec[x])' => is_open(rec[x]))
<1>1. CASE TablesUntouched
  BY <1>1 DEF TablesUntouched, OneOpenRecord, is_open
<1>2. CASE Opened
  <2> SUFFICES ASSUME NEW r \in Records, NEW s \in Records, is_open(rec[r])', is_open(rec[s])',
                      rec'[r].subject = rec'[s].subject
               PROVE  r = s
    BY DEF OneOpenRecord
  <2>0. PICK batch \in SUBSET Records : \E who \in [batch -> Personnel] :
          /\ \A x \in batch : rec[x].status = "absent" /\ ready_to_open(who[x])
          /\ \A x, y \in batch : who[x] = who[y] => x = y
          /\ rec' = [x \in Records |-> IF x \in batch THEN new_record(who[x]) ELSE rec[x]]
    BY <1>2 DEF Opened
  <2>1. PICK who \in [batch -> Personnel] :
          /\ \A x \in batch : ready_to_open(who[x])
          /\ \A x, y \in batch : who[x] = who[y] => x = y
          /\ rec' = [x \in Records |-> IF x \in batch THEN new_record(who[x]) ELSE rec[x]]
    BY <2>0
  <2>2. \A x \in batch : rec'[x].subject = who[x] /\ ~has_open_record(who[x])
    BY <2>1, NewRecord DEF ready_to_open
  <2>3. \A x \in Records \ batch : rec'[x] = rec[x]
    BY <2>1
  <2>4. CASE r \in batch /\ s \in batch
    BY <2>1, <2>2, <2>4
  <2>5. CASE r \in batch /\ s \notin batch
    BY <2>2, <2>3, <2>5 DEF has_open_record, is_open
  <2>6. CASE r \notin batch /\ s \in batch
    BY <2>2, <2>3, <2>6 DEF has_open_record, is_open
  <2>7. CASE r \notin batch /\ s \notin batch
    BY <2>3, <2>7 DEF OneOpenRecord, is_open
  <2> QED
    BY <2>4, <2>5, <2>6, <2>7
<1>3. ASSUME NEW r \in Records, OneCase(r) PROVE OneOpenRecord'
  <2>1. ASSUME NEW x \in Records, Same(x) PROVE Alike(x)
    BY <2>1 DEF Same, is_open
  <2>2. ASSUME NEW x \in Records, Kept(x) PROVE Alike(x)
    BY <2>2 DEF Kept, is_open
  <2>3. ASSUME NEW x \in Records, Stepped(x) PROVE Alike(x)
    BY <2>3, SteppedFields, Table DEF Stepped, is_open
  <2>4. \A x \in Records : Alike(x)
    BY <1>3, <2>1, <2>2, <2>3 DEF OneCase
  <2> QED
    BY <2>4 DEF OneOpenRecord
<1> QED
  BY <1>1, <1>2, <1>3, CaseStep

\* Nobody is evaluated in two open cases at once, however cases are opened and ended.
THEOREM AtMostOneOpenRecord == Spec => []OneOpenRecord
<1>1. Init => OneOpenRecord
  BY DEF Init, OneOpenRecord, blank_record, is_open, OPEN_STATUSES
<1>2. TypeOK /\ OneOpenRecord /\ [Next]_vars => OneOpenRecord'
  BY OneOpenRecordStep
<1> QED
  BY <1>1, <1>2, TypeCorrect, PTL DEF Spec
-----------------------------------------------------------------------------
(* Results and signatures.                                                 *)

\* The rows of the table that a case past scoring can take, and where they lead.
LEMMA Rows ==
    /\ \A action \in SubmitNames : TRANSITIONS[action].from_statuses = {"draft"}
                                   /\ TRANSITIONS[action].to_status = "submitted"
    /\ \A action \in Actions \ (SubmitNames \cup {"cancel"}) : "draft" \notin TRANSITIONS[action].from_statuses
    /\ TRANSITIONS["cancel"].to_status = "cancelled"
    /\ \A action \in Actions : TRANSITIONS[action].to_status = "finalized" <=> action \in FinalNames
BY ActionNames DEF TRANSITIONS, Row, SubmitNames, FinalNames, OPEN_STATUSES

\* ResultMatchesScores of one record.
ResultHolds(case) ==
    case.status \in Statuses \ {"draft", "cancelled"} =>
        case.result = compute_result(case.entries) /\ case.entries.sheet \in CompleteSheets

\* The result is computed on leaving draft, and past draft no step writes scores.
LEMMA ResultStep ==
    ASSUME TypeOK, ResultMatchesScores, [Next]_vars PROVE ResultMatchesScores'
<1> SUFFICES ASSUME NEW x \in Records PROVE ResultHolds(rec[x])'
  BY DEF ResultMatchesScores, ResultHolds
<1>1. ResultHolds(rec[x])
  BY DEF ResultMatchesScores, ResultHolds
<1>2. CASE Same(x)
  BY <1>1, <1>2 DEF Same, ResultHolds
<1>3. CASE Kept(x)
  BY <1>1, <1>3 DEF Kept, ResultHolds
<1>4. CASE Stepped(x)
  <2>1. PICK u \in Users, action \in Actions, case \in Record :
          /\ rec[x].status \in TRANSITIONS[action].from_statuses
          /\ Copied(case, rec[x])
          /\ IF action \in SubmitNames
             THEN case.result = compute_result(rec[x].entries) /\ rec[x].entries.sheet \in CompleteSheets
             ELSE case.result = rec[x].result
          /\ rec'[x] = moved(u, case, action)
    BY <1>4 DEF Stepped
  <2>2. /\ rec'[x].status = TRANSITIONS[action].to_status
        /\ rec'[x].entries = rec[x].entries
        /\ rec'[x].result = case.result
    BY <2>1, SteppedFields
  <2>3. CASE action \in SubmitNames
    BY <2>1, <2>2, <2>3 DEF ResultHolds
  <2>4. CASE action = "cancel"
    BY <2>2, <2>4, Rows DEF ResultHolds
  <2>5. CASE action \notin SubmitNames \cup {"cancel"}
    <3>1. rec[x].status \in Statuses \ {"draft", "cancelled"}
      BY <2>1, <2>5, Rows, Table DEF Statuses, OPEN_STATUSES
    <3> QED
      BY <1>1, <2>1, <2>2, <2>5, <3>1 DEF ResultHolds
  <2> QED
    BY <2>3, <2>4, <2>5
<1>5. CASE rec'[x].status = "draft"
  BY <1>5 DEF ResultHolds
<1> QED
  BY <1>2, <1>3, <1>4, <1>5, CaseStep, OpenedFields DEF TablesUntouched, OneCase, Same

\* From submission to the archive, the stored result is the one the stored scores give.
THEOREM ResultsMatchScores == Spec => []ResultMatchesScores
<1>1. Init => ResultMatchesScores
  BY DEF Init, ResultMatchesScores, blank_record, Statuses, OPEN_STATUSES
<1>2. TypeOK /\ ResultMatchesScores /\ [Next]_vars => ResultMatchesScores'
  BY ResultStep
<1> QED
  BY <1>1, <1>2, TypeCorrect, PTL DEF Spec
-----------------------------------------------------------------------------
\* SnapshotIsFinal of one record.
SnapshotHolds(case) ==
    case.snapshot = IF case.status = "finalized" THEN final_snapshot(case) ELSE None

\* The path of a case depends only on which seats are empty.
LEMMA SameSeatsSamePath ==
    ASSUME NEW case, NEW other, \A seat \in Seats : case[seat] = None <=> other[seat] = None
    PROVE  /\ scorer_seat(case) = scorer_seat(other)
           /\ is_manager_path(case) <=> is_manager_path(other)
           /\ is_direct_ceo_path(case) <=> is_direct_ceo_path(other)
           /\ skips_deputy(case) <=> skips_deputy(other)
BY DEF Seats, scorer_seat, is_manager_path, is_direct_ceo_path, skips_deputy

\* The document is made by the step that closes the case, and no step opens it again.
LEMMA SnapshotStep ==
    ASSUME TypeOK, SnapshotIsFinal, [Next]_vars PROVE SnapshotIsFinal'
<1> SUFFICES ASSUME NEW x \in Records PROVE SnapshotHolds(rec[x])'
  BY DEF SnapshotIsFinal, SnapshotHolds
<1>1. SnapshotHolds(rec[x])
  BY DEF SnapshotIsFinal, SnapshotHolds
<1>2. CASE Same(x)
  BY <1>1, <1>2 DEF Same, SnapshotHolds
<1>3. CASE Kept(x)
  BY <1>1, <1>3 DEF Kept, SnapshotHolds, is_open, OPEN_STATUSES
<1>4. CASE Stepped(x)
  <2>1. PICK u \in Users, action \in Actions, case \in Record :
          /\ rec[x].status \in TRANSITIONS[action].from_statuses
          /\ Copied(case, rec[x])
          /\ IF action \in SubmitNames THEN TRUE ELSE case.result = rec[x].result
          /\ case.snapshot = IF action \in FinalNames THEN final_snapshot(rec[x]) ELSE rec[x].snapshot
          /\ rec'[x] = moved(u, case, action)
    BY <1>4 DEF Stepped
  <2>2. /\ rec'[x].status = TRANSITIONS[action].to_status
        /\ rec'[x].entries = rec[x].entries
        /\ rec'[x].result = case.result
        /\ rec'[x].snapshot = case.snapshot
        /\ \A seat \in Seats : rec'[x][seat] = rec[x][seat]
    BY <2>1, SteppedFields
  <2>3. rec[x].snapshot = None
    BY <1>1, <2>1, Table DEF SnapshotHolds, OPEN_STATUSES
  <2>4. CASE action \in FinalNames
    <3>1. action \notin SubmitNames /\ rec'[x].status = "finalized"
      BY <2>2, <2>4, Rows DEF FinalNames, SubmitNames
    <3>2. scorer_seat(rec'[x]) = scorer_seat(rec[x]) /\ scorer_seat(rec[x]) \in Seats
      BY <2>2, SameSeatsSamePath DEF scorer_seat, Seats
    <3>3. single_decider(rec'[x]) = single_decider(rec[x])
      BY <2>2 DEF single_decider, Seats
    <3>4. final_snapshot(rec'[x]) = final_snapshot(rec[x])
      BY <2>1, <2>2, <3>1, <3>2, <3>3 DEF final_snapshot
    <3> QED
      BY <2>1, <2>2, <2>4, <3>1, <3>4 DEF SnapshotHolds
  <2>5. CASE action \notin FinalNames
    BY <2>1, <2>2, <2>3, <2>5, Rows DEF SnapshotHolds
  <2> QED
    BY <2>4, <2>5
<1>5. CASE rec'[x].status = "draft" /\ rec'[x].snapshot = None
  BY <1>5 DEF SnapshotHolds
<1> QED
  BY <1>2, <1>3, <1>4, <1>5, CaseStep, OpenedFields DEF TablesUntouched, OneCase, Same

\* The final document of a case agrees with the record for ever, and no other case has one.
THEOREM SnapshotsAreFinal == Spec => []SnapshotIsFinal
<1>1. Init => SnapshotIsFinal
  BY DEF Init, SnapshotIsFinal, blank_record
<1>2. TypeOK /\ SnapshotIsFinal /\ [Next]_vars => SnapshotIsFinal'
  BY SnapshotStep
<1> QED
  BY <1>1, <1>2, TypeCorrect, PTL DEF Spec
-----------------------------------------------------------------------------
(* Every stage before the one where a case stands has signed.  The         *)
(* argument: while a case is open its path cannot change, because a seat   *)
(* may change hands but is neither emptied nor filled, and scores freeze   *)
(* on submission; so the stages a status rests on change only by the rows  *)
(* of the table, and each row signs or voids just what it must.            *)

\* The stage has signed the result of the case.
StandingOn(signatures, case, stage) ==
    signatures[stage] # None /\ signatures[stage].on = case.result

\* EveryStageSigned of one record.
Signed(signatures, case) ==
    \A stage \in required_stages(case) : StandingOn(signatures, case, stage)

\* No stage is NULL, so a row that signs nothing signs no stage.
LEMMA StagesAreNotNull == None \notin Stages
BY NullAssumption DEF Stages, Seats, Roles

\* A signature survives a step that neither voids it nor changes the result.
LEMMA StandingSignature ==
    ASSUME NEW u \in Users, NEW action, NEW case \in Record,
           NEW signatures, NEW stage \in Stages
    PROVE  /\ stage = signs(case, action) =>
                countersigned(signatures, u, case, action)[stage] = [by |-> u, on |-> case.result]
           /\ stage # signs(case, action) /\ stage # voids(case, action) =>
                countersigned(signatures, u, case, action)[stage] = signatures[stage]
BY DEF countersigned

\* A signature just given is not NULL.
LEMMA FreshSignature ==
    ASSUME NEW u \in Users, NEW case \in Record
    PROVE  [by |-> u, on |-> case.result] # None
<1>1. [by |-> u, on |-> case.result] \in Signature
  BY DEF Signature, Record
<1> QED
  BY <1>1, NullAssumption

\* What a row of the table demands of the status it leads to is signed by the act, or was
\* demanded already and is not voided.
LEMMA RowDemands ==
    ASSUME NEW action \in Actions, NEW case \in Record, NEW before \in Record, NEW after \in Record,
           before.status \in TRANSITIONS[action].from_statuses,
           guard(action, before),
           action = "hr_approve_manager" => ~is_direct_ceo_path(before),
           after.status = TRANSITIONS[action].to_status,
           \A seat \in Seats : case[seat] = before[seat] /\ after[seat] = before[seat],
           NEW stage \in required_stages(after)
    PROVE  /\ stage \in Stages
           /\ \/ stage = signs(case, action)
              \/ /\ stage \in required_stages(before)
                 /\ stage # signs(case, action) /\ stage # voids(case, action)
                 /\ action \notin SubmitNames
<1>1. /\ scorer_seat(after) = scorer_seat(before) /\ scorer_seat(case) = scorer_seat(before)
      /\ after.unit_supervisor = before.unit_supervisor /\ after.deputy = before.deputy
      /\ after.ceo = before.ceo
  BY SameSeatsSamePath DEF Seats
<1>2. scorer_seat(before) \in Seats /\ scorer_seat(before) # "hr"
  BY DEF scorer_seat, Seats
<1> USE <1>1, <1>2, StagesAreNotNull DEF required_stages, signs, voids, Stages, SubmitNames, TRANSITIONS, Row
<1>3. CASE action \in SubmitNames
  BY <1>3
<1>4. CASE action = "hr_approve"
  BY <1>4 DEF guard
<1>5. CASE action = "hr_finalize_direct_ceo"
  BY <1>5 DEF guard, is_direct_ceo_path, scorer_seat, Seats
<1>6. CASE action = "hr_approve_manager"
  BY <1>6 DEF guard, is_direct_ceo_path, is_manager_path, scorer_seat, Seats
<1>7. CASE action = "deputy_approve"
  <2>1. before.status = "hr_approved" /\ after.status = "deputy_approved"
    BY <1>7
  <2>2. signs(case, action) = "deputy" /\ voids(case, action) = None /\ action \notin SubmitNames
    BY <1>7
  <2> HIDE DEF TRANSITIONS, Row, signs, voids, Stages, SubmitNames
  <2>3. required_stages(before) = {scorer_seat(before), "hr"}
    BY <2>1
  <2>4. required_stages(after) = {scorer_seat(before), "hr", "deputy"}
    BY <2>1
  <2> HIDE DEF required_stages
  <2>5. stage \in {scorer_seat(before), "hr", "deputy"}
    BY <2>4
  <2> QED
    BY <2>2, <2>3, <2>5 DEF Stages, Seats
<1>8. CASE action = "ceo_finalize"
  BY <1>8 DEF guard, skips_deputy, is_manager_path, is_direct_ceo_path, scorer_seat, Seats
<1>9. CASE action = "hr_return" \/ action = "cancel"
  BY <1>9
<1>10. CASE action = "deputy_return"
  BY <1>10
<1>11. CASE action = "ceo_return"
  BY <1>11 DEF guard, is_manager_path, is_direct_ceo_path, scorer_seat
<1>12. CASE action = "ceo_return_manager"
  BY <1>12
<1> QED
  BY <1>3, <1>4, <1>5, <1>6, <1>7, <1>8, <1>9, <1>10, <1>11, <1>12, ActionNames

\* EveryStageSigned is inductive over the types.
LEMMA SignedStep ==
    ASSUME TypeOK, EveryStageSigned, [Next]_vars PROVE EveryStageSigned'
<1> SUFFICES ASSUME NEW x \in Records PROVE Signed(signed[x], rec[x])'
  BY DEF EveryStageSigned, Signed, StandingOn
<1>1. Signed(signed[x], rec[x])
  BY DEF EveryStageSigned, Signed, StandingOn
<1>2. CASE Same(x)
  BY <1>1, <1>2 DEF Same, Signed, StandingOn
<1>3. CASE Kept(x)
  <2>1. scorer_seat(rec'[x]) = scorer_seat(rec[x])
    BY <1>3, SameSeatsSamePath DEF Kept
  <2>2. required_stages(rec'[x]) = required_stages(rec[x])
    BY <1>3, <2>1 DEF Kept, is_open, OPEN_STATUSES, required_stages
  <2> QED
    BY <1>1, <1>3, <2>2 DEF Kept, Signed, StandingOn
<1>4. CASE Stepped(x)
  <2>1. PICK u \in Users, action \in Actions, case \in Record :
          /\ rec[x].status \in TRANSITIONS[action].from_statuses
          /\ guard(action, rec[x])
          /\ action = "hr_approve_manager" => ~is_direct_ceo_path(rec[x])
          /\ Copied(case, rec[x])
          /\ action \notin SubmitNames => case.result = rec[x].result
          /\ rec'[x] = moved(u, case, action)
          /\ signed'[x] = countersigned(signed[x], u, case, action)
    BY <1>4 DEF Stepped
  <2>2. /\ rec'[x].status = TRANSITIONS[action].to_status
        /\ rec'[x].result = case.result
        /\ \A seat \in Seats : case[seat] = rec[x][seat] /\ rec'[x][seat] = rec[x][seat]
    BY <2>1, SteppedFields DEF Copied
  <2>3. rec[x] \in Record /\ rec'[x] \in Record
    BY TypeStep DEF TypeOK
  <2>4. ASSUME NEW stage \in required_stages(rec'[x]) PROVE StandingOn(signed'[x], rec'[x], stage)
    <3>1. /\ stage \in Stages
          /\ \/ stage = signs(case, action)
             \/ /\ stage \in required_stages(rec[x])
                /\ stage # signs(case, action) /\ stage # voids(case, action)
                /\ action \notin SubmitNames
      BY <2>1, <2>2, <2>3, <2>4, RowDemands
    <3>2. CASE stage = signs(case, action)
      <4>1. signed'[x][stage] = [by |-> u, on |-> case.result]
        BY <2>1, <3>1, <3>2, StandingSignature
      <4>2. [by |-> u, on |-> case.result] # None
        BY FreshSignature
      <4> QED
        BY <2>2, <4>1, <4>2 DEF StandingOn
    <3>3. CASE stage # signs(case, action)
      <4>1. signed'[x][stage] = signed[x][stage]
        <5>1. stage \in Stages /\ stage # signs(case, action) /\ stage # voids(case, action)
          BY <3>1, <3>3
        <5>2. countersigned(signed[x], u, case, action)[stage] = signed[x][stage]
          BY <5>1 DEF countersigned
        <5> QED
          BY <2>1, <5>2
      <4> QED
        BY <1>1, <2>1, <2>2, <3>1, <3>3, <4>1 DEF Signed, StandingOn
    <3> QED
      BY <3>2, <3>3
  <2> QED
    BY <2>4 DEF Signed
<1>5. CASE rec'[x].status = "draft"
  BY <1>5 DEF Signed, required_stages
<1> QED
  BY <1>2, <1>3, <1>4, <1>5, CaseStep, OpenedFields DEF TablesUntouched, OneCase, Same

\* No stage of the chain is skipped, and no approval stands on a result the record no longer has.
THEOREM StagesSigned == Spec => []EveryStageSigned
<1>1. Init => EveryStageSigned
  BY DEF Init, EveryStageSigned, required_stages, blank_record
<1>2. TypeOK /\ EveryStageSigned /\ [Next]_vars => EveryStageSigned'
  BY SignedStep
<1> QED
  BY <1>1, <1>2, TypeCorrect, PTL DEF Spec
-----------------------------------------------------------------------------
(* Refinement: every step of the workflow is a step of CaseLifecycle or    *)
(* leaves the abstract cases alone.                                        *)

\* The abstract cases of the refinement mapping.
cases == [r \in Records |-> lifecycle_case(rec[r])]

\* A live abstract case is an open record.
LEMMA LiveIsOpen ==
    ASSUME TypeOK, NEW r \in Records
    PROVE  lifecycle_stage[rec[r].status] \in {"scoring", "review"} <=> is_open(rec[r])
<1>1. rec[r].status \in {"absent", "draft", "submitted", "hr_approved", "deputy_approved", "finalized", "cancelled"}
  BY DEF TypeOK, Record, Statuses, OPEN_STATUSES
<1> QED
  BY <1>1 DEF lifecycle_stage, is_open, OPEN_STATUSES

\* The abstract stages between which the rows of the table lead.
LEMMA RowStages ==
    ASSUME NEW action \in Actions, NEW status \in TRANSITIONS[action].from_statuses
    PROVE  LET from == lifecycle_stage[status]
               to == lifecycle_stage[TRANSITIONS[action].to_status]
           IN  /\ action \in SubmitNames => from = "scoring" /\ to = "review"
               /\ action = "cancel" => from \in {"scoring", "review"} /\ to = "void"
               /\ action = "hr_return" => from = "review" /\ to = "scoring"
               /\ action \in FinalNames => from = "review" /\ to = "closed"
               /\ action \notin SubmitNames \cup FinalNames \cup {"cancel", "hr_return"} =>
                    from = "review" /\ to = "review"
BY ActionNames DEF TRANSITIONS, Row, SubmitNames, FinalNames, OPEN_STATUSES, lifecycle_stage

\* Opening a batch of records opens the same batch of abstract cases.
LEMMA OpenRefines ==
    ASSUME TypeOK, Opened PROVE Lifecycle!Open \/ cases' = cases
<1>1. PICK batch \in SUBSET Records : \E who \in [batch -> Personnel] :
        /\ \A r \in batch : rec[r].status = "absent" /\ ready_to_open(who[r])
        /\ \A r, x \in batch : who[r] = who[x] => r = x
        /\ rec' = [r \in Records |-> IF r \in batch THEN new_record(who[r]) ELSE rec[r]]
  BY DEF Opened
<1>2. PICK who \in [batch -> Personnel] :
        /\ \A r \in batch : rec[r].status = "absent" /\ ready_to_open(who[r])
        /\ \A r, x \in batch : who[r] = who[x] => r = x
        /\ rec' = [r \in Records |-> IF r \in batch THEN new_record(who[r]) ELSE rec[r]]
  BY <1>1
<1>3. CASE batch = {}
  <2>1. \A r \in Records : rec'[r] = rec[r]
    BY <1>2, <1>3
  <2> QED
    BY <2>1 DEF cases
<1>4. CASE batch # {}
  <2>1. \A r \in batch : cases[r].stage = "unopened"
    BY <1>2 DEF cases, lifecycle_case, lifecycle_stage
  <2>2. \A p \in Personnel : Lifecycle!HasLiveCase(p) => has_open_record(p)
    <3> SUFFICES ASSUME NEW p \in Personnel, NEW r \in Records,
                        lifecycle_case(rec[r]).stage \in {"scoring", "review"}, lifecycle_case(rec[r]).person = p
                 PROVE  has_open_record(p)
      BY DEF Lifecycle!HasLiveCase, Lifecycle!Live
    <3> QED
      BY LiveIsOpen DEF lifecycle_case, has_open_record
  <2>3. \A r \in batch : ~Lifecycle!HasLiveCase(who[r])
    BY <1>2, <2>2 DEF ready_to_open
  <2>4. \A r \in batch : lifecycle_case(new_record(who[r])) = Lifecycle!Fresh(who[r])
    BY <1>2, NewRecord DEF lifecycle_case, lifecycle_stage, Lifecycle!Fresh
  <2>5. cases' = [r \in Records |-> IF r \in batch THEN Lifecycle!Fresh(who[r]) ELSE cases[r]]
    BY <1>2, <2>4 DEF cases
  <2> QED
    BY <1>2, <1>4, <2>1, <2>3, <2>5 DEF Lifecycle!Open, cases
<1> QED
  BY <1>3, <1>4

\* A step that keeps the record leaves the abstract case alone.
LEMMA KeptRefines ==
    ASSUME NEW x, Kept(x) \/ Same(x) PROVE lifecycle_case(rec'[x]) = lifecycle_case(rec[x])
BY DEF Kept, Same, lifecycle_case

\* A row of the table, seen from the abstract case.
LEMMA SteppedRefines ==
    ASSUME TypeOK, NEW r \in Records, Stepped(r)
    PROVE  LET from == lifecycle_case(rec[r])
               to == lifecycle_case(rec'[r])
           IN  /\ to.person = from.person
               /\ \/ from.stage = "scoring" /\ to.stage = "review" /\ to.outcome \in Results
                  \/ from.stage = "review" /\ to.stage = "scoring" /\ to.outcome = None
                  \/ from.stage = "review" /\ to.stage = "closed" /\ to.outcome = from.outcome
                  \/ from.stage \in {"scoring", "review"} /\ to.stage = "void" /\ to.outcome = None
                  \/ to = from
<1>1. PICK u \in Users, action \in Actions, case \in Record :
        /\ rec[r].status \in TRANSITIONS[action].from_statuses
        /\ Copied(case, rec[r])
        /\ IF action \in SubmitNames
           THEN case.result = compute_result(rec[r].entries) /\ rec[r].entries.sheet \in CompleteSheets
           ELSE case.result = rec[r].result
        /\ rec'[r] = moved(u, case, action)
  BY DEF Stepped
<1>2. /\ rec'[r].status = TRANSITIONS[action].to_status
      /\ rec'[r].subject = rec[r].subject
      /\ rec'[r].result = case.result
  BY <1>1, SteppedFields
<1> DEFINE from == lifecycle_stage[rec[r].status]
           to == lifecycle_stage[rec'[r].status]
<1>3. /\ action \in SubmitNames => from = "scoring" /\ to = "review"
      /\ action = "cancel" => from \in {"scoring", "review"} /\ to = "void"
      /\ action = "hr_return" => from = "review" /\ to = "scoring"
      /\ action \in FinalNames => from = "review" /\ to = "closed"
      /\ action \notin SubmitNames \cup FinalNames \cup {"cancel", "hr_return"} =>
           from = "review" /\ to = "review"
  BY <1>1, <1>2, RowStages
<1>4. action \in SubmitNames => compute_result(rec[r].entries) \in Results
  BY <1>1, SubmittedRecord
<1>5. /\ lifecycle_case(rec[r]) = [stage |-> from, person |-> rec[r].subject,
                                  outcome |-> IF from \in {"review", "closed"} THEN rec[r].result ELSE None]
      /\ lifecycle_case(rec'[r]) = [stage |-> to, person |-> rec[r].subject,
                                   outcome |-> IF to \in {"review", "closed"} THEN case.result ELSE None]
  BY <1>2 DEF lifecycle_case
<1> HIDE DEF from, to
<1>6. \A name \in {"cancel", "hr_return"} \cup FinalNames : name \notin SubmitNames
  BY DEF SubmitNames, FinalNames
<1>8. CASE action \in SubmitNames
  BY <1>1, <1>3, <1>4, <1>5, <1>8
<1>9. CASE action = "cancel"
  BY <1>3, <1>5, <1>9
<1>10. CASE action = "hr_return"
  BY <1>3, <1>5, <1>10
<1>11. CASE action \in FinalNames
  BY <1>1, <1>3, <1>5, <1>6, <1>11
<1>12. CASE action \notin SubmitNames \cup FinalNames \cup {"cancel", "hr_return"}
  BY <1>1, <1>3, <1>5, <1>12
<1> QED
  BY <1>8, <1>9, <1>10, <1>11, <1>12

\* A step of one record is a step of its abstract case, or a stutter.
LEMMA CaseRefines ==
    ASSUME TypeOK, NEW r \in Records, OneCase(r)
    PROVE  Lifecycle!Next \/ cases' = cases
<1> DEFINE from == lifecycle_case(rec[r])
           to == lifecycle_case(rec'[r])
<1>1. cases' = [cases EXCEPT ![r] = to]
  BY KeptRefines DEF OneCase, cases
<1>2. cases[r] = from
  BY DEF cases
<1>3. \A case \in Record : lifecycle_case(case) =
        [stage |-> lifecycle_case(case).stage, person |-> lifecycle_case(case).person,
         outcome |-> lifecycle_case(case).outcome]
  BY DEF lifecycle_case
<1>4. CASE Kept(r)
  BY <1>1, <1>2, <1>4, KeptRefines DEF cases
<1>5. CASE Stepped(r)
  <2>1. /\ to.person = from.person
        /\ \/ from.stage = "scoring" /\ to.stage = "review" /\ to.outcome \in Results
           \/ from.stage = "review" /\ to.stage = "scoring" /\ to.outcome = None
           \/ from.stage = "review" /\ to.stage = "closed" /\ to.outcome = from.outcome
           \/ from.stage \in {"scoring", "review"} /\ to.stage = "void" /\ to.outcome = None
           \/ to = from
    BY <1>5, SteppedRefines
  <2>2. to = [from EXCEPT !.stage = to.stage, !.outcome = to.outcome]
    BY <2>1 DEF lifecycle_case
  <2>3. cases' = [cases EXCEPT ![r].stage = to.stage, ![r].outcome = to.outcome]
    BY <1>1, <1>2, <2>2 DEF cases
  <2>4. CASE to = from
    BY <1>1, <1>2, <2>4 DEF cases
  <2>5. CASE from.stage = "scoring" /\ to.stage = "review" /\ to.outcome \in Results
    <3>1. Lifecycle!Decide(r)
      BY <1>2, <2>3, <2>5 DEF Lifecycle!Decide, cases
    <3> QED
      BY <3>1, Zenon DEF Lifecycle!Next
  <2>6. CASE from.stage = "review" /\ to.stage = "scoring" /\ to.outcome = None
    <3>1. Lifecycle!SendBack(r)
      BY <1>2, <2>3, <2>6 DEF Lifecycle!SendBack, cases
    <3> QED
      BY <3>1, Zenon DEF Lifecycle!Next
  <2>7. CASE from.stage = "review" /\ to.stage = "closed" /\ to.outcome = from.outcome
    <3>1. to = [from EXCEPT !.stage = "closed"]
      BY <2>2, <2>7 DEF lifecycle_case
    <3>2. cases' = [cases EXCEPT ![r].stage = "closed"]
      BY <1>1, <1>2, <3>1 DEF cases
    <3>3. Lifecycle!Close(r)
      BY <1>2, <2>7, <3>2 DEF Lifecycle!Close, cases
    <3> QED
      BY <3>3, Zenon DEF Lifecycle!Next
  <2>8. CASE from.stage \in {"scoring", "review"} /\ to.stage = "void" /\ to.outcome = None
    <3>1. Lifecycle!Cancel(r)
      BY <1>2, <2>3, <2>8 DEF Lifecycle!Cancel, Lifecycle!Live, cases
    <3> QED
      BY <3>1, Zenon DEF Lifecycle!Next
  <2> QED
    BY <2>1, <2>4, <2>5, <2>6, <2>7, <2>8
<1> QED
  BY <1>4, <1>5 DEF OneCase

\* The workflow implements the abstract life of a case: one live case per person, an outcome
\* that cannot change under review, and nothing after the end.
THEOREM WorkflowImplementsLifecycle == Spec => ImplementsLifecycle
<1>1. Init => Lifecycle!Init
  <2> SUFFICES ASSUME Init PROVE Lifecycle!Init
    OBVIOUS
  <2>1. \A r \in Records : lifecycle_case(rec[r]) = [stage |-> "unopened", person |-> None, outcome |-> None]
    BY DEF Init, blank_record, lifecycle_case, lifecycle_stage
  <2> QED
    BY <2>1 DEF Lifecycle!Init
<1>2. TypeOK /\ [Next]_vars => [Lifecycle!Next]_cases
  <2> SUFFICES ASSUME TypeOK, [Next]_vars PROVE Lifecycle!Next \/ cases' = cases
    OBVIOUS
  <2>1. CASE TablesUntouched
    BY <2>1 DEF TablesUntouched, cases
  <2>2. CASE Opened
    BY <2>2, OpenRefines DEF Lifecycle!Next
  <2> QED
    BY <2>1, <2>2, CaseStep, CaseRefines
<1> QED
  BY <1>1, <1>2, TypeCorrect, PTL DEF Spec, ImplementsLifecycle, Lifecycle!Spec, cases
-----------------------------------------------------------------------------
(* What a step does to chains, links and titles.                           *)

\* Record x keeps its subject and the holders of its seats, and is not reopened.
SeatsKept(x) ==
    /\ rec'[x].subject = rec[x].subject
    /\ \A seat \in Seats : rec'[x][seat] = rec[x][seat]
    /\ is_open(rec[x])' => is_open(rec[x])

\* A seat of open record x goes to a user who may sit there.
SeatGiven(x) == \E u \in Users, seat \in Seats :
    /\ is_open(rec[x])
    /\ rec[x][seat] # None
    /\ authenticated(u)
    /\ account[u].personnel # rec[x].subject
    /\ ~redundant([rec[x] EXCEPT ![seat] = u])
    /\ rec'[x] = [rec[x] EXCEPT ![seat] = u]

\* Record x is opened over somebody's chain.
SeatsCopied(x) == \E p \in Personnel :
    rec[x].status = "absent" /\ ready_to_open(p) /\ rec'[x] = new_record(p)

\* However a step touches a record, its seats are kept, given or copied.
LEMMA SeatsStep ==
    ASSUME TypeOK, [Next]_vars, NEW x \in Records
    PROVE  SeatsKept(x) \/ SeatGiven(x) \/ SeatsCopied(x)
<1>1. rec[x] \in Record /\ x \in DOMAIN rec
  BY DEF TypeOK
<1>2. CASE TablesUntouched
  BY <1>2 DEF TablesUntouched, SeatsKept, is_open
<1>3. CASE Opened
  <2>1. PICK batch \in SUBSET Records : \E who \in [batch -> Personnel] :
          /\ \A r \in batch : rec[r].status = "absent" /\ ready_to_open(who[r])
          /\ rec' = [r \in Records |-> IF r \in batch THEN new_record(who[r]) ELSE rec[r]]
    BY <1>3 DEF Opened
  <2>2. PICK who \in [batch -> Personnel] :
          /\ \A r \in batch : rec[r].status = "absent" /\ ready_to_open(who[r])
          /\ rec' = [r \in Records |-> IF r \in batch THEN new_record(who[r]) ELSE rec[r]]
    BY <2>1
  <2>3. CASE x \in batch
    BY <2>2, <2>3 DEF SeatsCopied
  <2>4. CASE x \notin batch
    BY <2>2, <2>4 DEF SeatsKept, is_open
  <2> QED
    BY <2>3, <2>4
<1>4. ASSUME NEW r \in Records, Edited(r) PROVE SeatsKept(x)
  <2>1. CASE x # r
    BY <1>4, <2>1, <1>1, EditedKeeps DEF OneCase, Same, SeatsKept, is_open
  <2>2. CASE x = r
    BY <1>1, <1>4, <2>2 DEF Edited, SeatsKept, Record, Seats, is_open
  <2> QED
    BY <2>1, <2>2
<1>5. ASSUME NEW r \in Records, Reseated(r) PROVE SeatsKept(x) \/ SeatGiven(x)
  <2>1. CASE x # r
    BY <1>5, <2>1, ReseatedKeeps DEF OneCase, Same, SeatsKept, is_open
  <2>2. CASE x = r
    <3>1. ASSUME NEW u \in Users, rec' = [rec EXCEPT ![r].hr = u] PROVE SeatsKept(x)
      BY <1>1, <2>2, <3>1 DEF SeatsKept, Record, Seats, is_open
    <3> QED
      BY <1>1, <1>5, <2>2, <3>1 DEF Reseated, SeatGiven
  <2> QED
    BY <2>1, <2>2
<1>6. ASSUME NEW r \in Records, Stepped(r), \A y \in Records : y # r => Same(y) PROVE SeatsKept(x)
  <2>1. CASE x # r
    BY <1>6, <2>1 DEF Same, SeatsKept, is_open
  <2>2. CASE x = r
    BY <1>6, <2>2, SteppedFields, Table DEF Stepped, SeatsKept, is_open
  <2> QED
    BY <2>1, <2>2
<1>7. ASSUME NEW u \in Users, NEW r \in Records, Submitted(u, r) \/ Reviewed(u, r) \/ Finalized(u, r)
      PROVE  SeatsKept(x)
  BY <1>6, <1>7, SubmittedSteps, ReviewedSteps, FinalizedSteps
<1> QED
  BY <1>2, <1>3, <1>4, <1>5, <1>7, StepShape DEF TableStep

\* Every account keeps its role and its link; only the switch may move.
LinksKept == \A v \in Users :
    account'[v].role = account[v].role /\ account'[v].personnel = account[v].personnel

\* An administrator writes the account of u: a new one, or one whose link stays, is cut, or
\* goes to a person whose chains u has no part in.
AccountWritten == \E u \in Users, new \in Account :
    /\ new.role # None
    /\ \/ account[u].role = None
       \/ new.personnel \in {None, account[u].personnel}
       \/ ~is_evaluator_of(u, new.personnel)
    /\ account' = [account EXCEPT ![u] = new]
    /\ staff' = staff /\ TablesUntouched

\* Links and roles move only when an administrator writes an account.
LEMMA AccountStep ==
    ASSUME TypeOK, [Next]_vars PROVE LinksKept \/ AccountWritten
<1>1. ASSUME NEW admin \in Users, NEW u \in Users, NEW new \in AccountEdits[u],
             create_user(admin, u, new) \/ update_user(admin, u, new)
      PROVE  AccountWritten
  <2>1. new \in Account
    BY InputAssumption
  <2> QED
    BY <1>1, <2>1 DEF create_user, update_user, ensure_user_link_is_not_self_evaluation,
                      AccountWritten, TablesUntouched
<1>2. ASSUME NEW u \in Users, NEW p \in Personnel, close_out_departure(u, p)
      PROVE  LinksKept
  <2>1. ASSUME NEW v \in Users, account' = [account EXCEPT ![v].active = FALSE]
        PROVE  LinksKept
    BY <2>1 DEF TypeOK, Account, LinksKept
  <2>2. CASE account' = account
    BY <2>2 DEF LinksKept
  <2> QED
    BY <1>2, <2>1, <2>2 DEF close_out_departure, linked_accounts
<1>3. ASSUME account' = account PROVE LinksKept
  BY <1>3 DEF LinksKept
<1>4. CASE OpenCases \/ ScoreCases \/ ReviewCases \/ ManageCases
  BY <1>3, <1>4, CaseActionsFrame
<1>5. CASE ManageStaff
  BY <1>2, <1>3, <1>5, StaffActionsFrame
<1>6. CASE ManageAccounts
  BY <1>1, <1>6 DEF ManageAccounts
<1>7. CASE ManagePeriods
  BY <1>3, <1>7, PeriodActionsFrame
<1>8. CASE next_day \/ UNCHANGED vars
  BY <1>3, <1>8 DEF next_day, vars
<1> QED
  BY <1>4, <1>5, <1>6, <1>7, <1>8 DEF Next

\* The chain and the title of p stay.
ChainKept(p) == staff'[p].access = staff[p].access /\ staff'[p].is_manager = staff[p].is_manager

\* HR writes the access row of p.
ChainWritten(p) == \E chain \in Chains :
    /\ staff[p].is_manager => chain.unit_supervisor = None
    /\ \A seat \in Seats : chain[seat] # None => authenticated(chain[seat])
    /\ evaluators_are_not_the_subject(chain, p)
    /\ ~redundant(chain)
    /\ staff'[p].access = chain /\ staff'[p].is_manager = staff[p].is_manager
    /\ account' = account /\ TablesUntouched

\* The personnel row of p is saved, with the title is_manager.
TitleWritten(p) == \E is_manager \in BOOLEAN :
    /\ is_manager # staff[p].is_manager => ~has_open_record(p)
    /\ staff'[p].is_manager = is_manager
    /\ staff'[p].access = IF is_manager /\ staff[p].access # None
                          THEN [staff[p].access EXCEPT !.unit_supervisor = None] ELSE staff[p].access
    /\ \A x \in Records : Same(x) \/ Stepped(x)
    /\ LinksKept

\* The chain and the title of p move only when his access row or his personnel row is saved.
LEMMA StaffStep ==
    ASSUME TypeOK, [Next]_vars, NEW p \in Personnel
    PROVE  ChainKept(p) \/ ChainWritten(p) \/ TitleWritten(p)
<1>0. staff \in [Personnel -> Employee] /\ staff[p] \in Employee
  BY DEF TypeOK
<1>1. ASSUME NEW u \in Users, NEW x \in Personnel, NEW chain \in Chains, upsert_access(u, x, chain)
      PROVE  ChainKept(p) \/ ChainWritten(p)
  <2>1. staff' = [staff EXCEPT ![x].access = chain]
    BY <1>1 DEF upsert_access
  <2>2. CASE x # p
    BY <1>0, <2>1, <2>2 DEF ChainKept
  <2>3. CASE x = p
    <3>1. staff'[p].access = chain /\ staff'[p].is_manager = staff[p].is_manager
      BY <1>0, <2>1, <2>3 DEF Employee
    <3> QED
      BY <1>1, <2>1, <2>3, <3>1 DEF upsert_access, ChainWritten, TablesUntouched
  <2> QED
    BY <2>2, <2>3
<1>2. ASSUME NEW u \in Users, NEW x \in Personnel, close_out_departure(u, x)
      PROVE  LinksKept /\ \A y \in Records : Same(y) \/ Stepped(y)
  <2>1. ASSUME NEW v \in Users, account' = [account EXCEPT ![v].active = FALSE]
        PROVE  LinksKept
    BY <2>1 DEF TypeOK, Account, LinksKept
  <2>2. LinksKept
    BY <1>2, <2>1 DEF close_out_departure, linked_accounts, LinksKept
  <2>3. TablesUntouched \/ \E r \in Records : Reviewed(u, r)
    BY <1>2 DEF close_out_departure, TablesUntouched, Reviewed, ReviewActions
  <2>4. \A y \in Records : Same(y) \/ Stepped(y)
    BY <2>3, ReviewedSteps DEF TablesUntouched, Same
  <2> QED
    BY <2>2, <2>4
<1>3. ASSUME NEW u \in Users, NEW x \in Personnel, NEW employed \in BOOLEAN, NEW is_manager \in BOOLEAN,
             update_personnel(u, x, employed, is_manager)
      PROVE  ChainKept(p) \/ TitleWritten(p)
  <2> DEFINE access == IF is_manager /\ staff[x].access # None
                       THEN [staff[x].access EXCEPT !.unit_supervisor = None] ELSE staff[x].access
  <2>0. staff[x] \in Employee
    BY <1>0
  <2>1. staff' = [staff EXCEPT ![x] = [staff[x] EXCEPT !.employed = employed, !.is_manager = is_manager,
                                                       !.access = access]]
    BY <1>3, <2>0 DEF update_personnel, TypeOK, Employee
  <2>2. CASE x # p
    BY <1>0, <2>1, <2>2 DEF ChainKept
  <2>3. CASE x = p
    <3>1. staff'[p].access = access /\ staff'[p].is_manager = is_manager
      <4> HIDE DEF access
      <4> QED
        BY <1>0, <2>1, <2>3 DEF Employee
    <3>2. LinksKept /\ \A y \in Records : Same(y) \/ Stepped(y)
      <4>1. close_out_departure(u, x) \/ UNCHANGED <<account, rec, signed>>
        BY <1>3 DEF update_personnel
      <4>2. CASE UNCHANGED <<account, rec, signed>>
        BY <4>2 DEF LinksKept, Same
      <4> QED
        BY <1>2, <4>1, <4>2
    <3>3. is_manager # staff[p].is_manager => ~has_open_record(p)
      BY <1>3, <2>3 DEF update_personnel
    <3> QED
      BY <2>3, <3>1, <3>2, <3>3 DEF TitleWritten
  <2> QED
    BY <2>2, <2>3
<1>4. ASSUME staff' = staff PROVE ChainKept(p)
  BY <1>4 DEF ChainKept
<1>5. CASE OpenCases \/ ScoreCases \/ ReviewCases \/ ManageCases
  BY <1>4, <1>5, CaseActionsFrame
<1>6. CASE ManageStaff
  BY <1>1, <1>3, <1>6 DEF ManageStaff
<1>7. CASE ManageAccounts
  BY <1>4, <1>7 DEF ManageAccounts, create_user, update_user
<1>8. CASE ManagePeriods
  BY <1>4, <1>8, PeriodActionsFrame
<1>9. CASE next_day \/ UNCHANGED vars
  BY <1>4, <1>9 DEF next_day, vars
<1> QED
  BY <1>5, <1>6, <1>7, <1>8, <1>9 DEF Next
-----------------------------------------------------------------------------
(* Nobody evaluates himself.                                               *)

\* Whoever holds a seat of "chain", the chain of person p, has an account that is not p's.
SitSoundly(accounts, chain, p) == \A seat \in Seats : chain[seat] # None =>
    p \in Personnel /\ accounts[chain[seat]].role # None /\ accounts[chain[seat]].personnel # p

\* The inductive form of NobodyEvaluatesHimself: seats are held by existing accounts only,
\* so a new account finds nobody's seat waiting for it.
SeatsSound ==
    /\ \A p \in Personnel : staff[p].access # None => SitSoundly(account, staff[p].access, p)
    /\ \A r \in Records : SitSoundly(account, rec[r], rec[r].subject)

\* A user in a seat of the chain is one of its evaluators.
LEMMA SeatedEvaluate ==
    ASSUME NEW chain, NEW seat \in Seats, chain[seat] # None
    PROVE  chain[seat] \in evaluators(chain)
BY DEF evaluators

\* Writing an account unseats nobody and makes nobody his own evaluator: an account that
\* already sits in p's chain is not linked to p.
LEMMA AccountKeepsSound ==
    ASSUME TypeOK, AccountWritten, NEW chain, NEW p \in Personnel \cup {None},
           \A seat \in Seats : chain[seat] \in Users \cup {None},
           \A u \in evaluators(chain) : is_evaluator_of(u, p),
           SitSoundly(account, chain, p)
    PROVE  SitSoundly(account', chain, p)
<1>1. PICK u \in Users, new \in Account :
        /\ new.role # None
        /\ \/ account[u].role = None
           \/ new.personnel \in {None, account[u].personnel}
           \/ ~is_evaluator_of(u, new.personnel)
        /\ account' = [account EXCEPT ![u] = new]
  BY DEF AccountWritten
<1> SUFFICES ASSUME NEW seat \in Seats, chain[seat] # None
             PROVE  /\ p \in Personnel
                    /\ account'[chain[seat]].role # None /\ account'[chain[seat]].personnel # p
  BY DEF SitSoundly
<1>2. /\ p \in Personnel
      /\ account[chain[seat]].role # None /\ account[chain[seat]].personnel # p
  BY DEF SitSoundly
<1>3. CASE chain[seat] # u
  BY <1>1, <1>2, <1>3 DEF TypeOK
<1>4. CASE chain[seat] = u
  <2>1. account'[u] = new
    BY <1>1 DEF TypeOK
  <2>2. is_evaluator_of(u, p)
    BY <1>4, SeatedEvaluate
  <2>3. p # None
    BY <1>2, NullAssumption
  <2> QED
    BY <1>1, <1>2, <1>4, <2>1, <2>2, <2>3
<1> QED
  BY <1>3, <1>4

\* While links and roles stay, seats stay sound.
LEMMA LinksKeepSound ==
    ASSUME LinksKept, NEW chain, NEW p,
           \A seat \in Seats : chain[seat] \in Users \cup {None},
           SitSoundly(account, chain, p)
    PROVE  SitSoundly(account', chain, p)
BY DEF LinksKept, SitSoundly

\* The seats of rows and records hold users.
LEMMA SeatsHoldUsers ==
    ASSUME TypeOK
    PROVE  /\ \A p \in Personnel, seat \in Seats : staff[p].access # None => staff[p].access[seat] \in Users \cup {None}
           /\ \A r \in Records, seat \in Seats : rec[r][seat] \in Users \cup {None}
           /\ \A r \in Records : rec[r].subject \in Personnel \cup {None}
<1>1. \A p \in Personnel : staff[p].access # None => staff[p].access \in Chain
  BY DEF TypeOK, Employee
<1>2. \A r \in Records : rec[r] \in Record
  BY DEF TypeOK
<1> QED
  BY <1>1, <1>2 DEF Chain, Record, Seats

\* A configured chain stays sound when links move, when it is rewritten, and when its owner
\* becomes a manager and loses the unit supervisor.
LEMMA AccessSoundStep ==
    ASSUME TypeOK, SeatsSound, [Next]_vars, NEW p \in Personnel, staff'[p].access # None
    PROVE  SitSoundly(account', staff'[p].access, p)
<1>1. CASE LinksKept /\ ChainKept(p)
  BY <1>1, LinksKeepSound, SeatsHoldUsers DEF ChainKept, SeatsSound
<1>2. CASE AccountWritten /\ staff' = staff
  <2>1. \A u \in evaluators(staff[p].access) : is_evaluator_of(u, p)
    BY <1>2 DEF is_evaluator_of
  <2> QED
    BY <1>2, <2>1, AccountKeepsSound, SeatsHoldUsers DEF SeatsSound
<1>3. CASE ChainWritten(p)
  <2>1. PICK chain \in Chains :
          /\ \A seat \in Seats : chain[seat] # None => authenticated(chain[seat])
          /\ evaluators_are_not_the_subject(chain, p)
          /\ staff'[p].access = chain /\ account' = account
    BY <1>3 DEF ChainWritten
  <2> QED
    BY <2>1, SeatedEvaluate DEF SitSoundly, authenticated, evaluators_are_not_the_subject
<1>4. CASE TitleWritten(p)
  <2>1. staff[p].access # None /\ staff[p].access \in Chain
    BY <1>4 DEF TitleWritten, TypeOK, Employee
  <2>2. \A seat \in Seats : staff'[p].access[seat] \in {staff[p].access[seat], None}
    BY <1>4, <2>1 DEF TitleWritten, Chain, Seats
  <2>3. SitSoundly(account', staff[p].access, p)
    BY <1>4, <2>1, LinksKeepSound, SeatsHoldUsers DEF TitleWritten, SeatsSound
  <2> QED
    BY <2>2, <2>3 DEF SitSoundly
<1> QED
  BY <1>1, <1>2, <1>3, <1>4, AccountStep, StaffStep DEF AccountWritten, ChainWritten, LinksKept

\* A record's seats stay sound when links move, when a seat is given to somebody else, and when
\* the record is opened over a sound chain.
LEMMA RecordSoundStep ==
    ASSUME TypeOK, SeatsSound, [Next]_vars, NEW x \in Records
    PROVE  SitSoundly(account', rec'[x], rec'[x].subject)
<1>1. CASE SeatsKept(x)
  <2>1. SitSoundly(account', rec[x], rec[x].subject)
    <3>1. CASE LinksKept
      BY <3>1, LinksKeepSound, SeatsHoldUsers DEF SeatsSound
    <3>2. CASE AccountWritten
      <4>1. \A u \in evaluators(rec[x]) : is_evaluator_of(u, rec[x].subject)
        BY DEF is_evaluator_of
      <4> QED
        BY <3>2, <4>1, AccountKeepsSound, SeatsHoldUsers DEF SeatsSound
    <3> QED
      BY <3>1, <3>2, AccountStep
  <2> QED
    BY <1>1, <2>1 DEF SeatsKept, SitSoundly
<1>2. CASE SeatGiven(x) /\ ~SeatsKept(x)
  <2>1. PICK u \in Users, seat \in Seats :
          /\ is_open(rec[x]) /\ rec[x][seat] # None
          /\ authenticated(u) /\ account[u].personnel # rec[x].subject
          /\ rec'[x] = [rec[x] EXCEPT ![seat] = u]
    BY <1>2 DEF SeatGiven
  <2>2. rec[x] \in Record /\ rec[x].subject \in Personnel
    BY <2>1 DEF TypeOK, is_open, OPEN_STATUSES
  <2>3. rec'[x].subject = rec[x].subject
        /\ \A other \in Seats : rec'[x][other] = IF other = seat THEN u ELSE rec[x][other]
    BY <2>1, <2>2 DEF Record, Seats
  <2>4. LinksKept
    BY <1>2, AccountStep DEF AccountWritten, TablesUntouched, SeatsKept, is_open
  <2>5. SitSoundly(account', rec[x], rec[x].subject)
    BY <2>4, LinksKeepSound, SeatsHoldUsers DEF SeatsSound
  <2>6. account'[u].role # None /\ account'[u].personnel # rec[x].subject
    BY <2>1, <2>4 DEF LinksKept, authenticated
  <2> QED
    BY <2>2, <2>3, <2>5, <2>6 DEF SitSoundly
<1>3. CASE SeatsCopied(x)
  <2>1. PICK p \in Personnel :
          rec[x].status = "absent" /\ ready_to_open(p) /\ rec'[x] = new_record(p)
    BY <1>3 DEF SeatsCopied
  <2>2. /\ rec'[x].subject = p /\ rec'[x].status = "draft"
        /\ \A seat \in Seats : rec'[x][seat] = record_chain(p)[seat]
    BY <2>1, NewRecord
  <2>3. staff[p].access \in Chain /\ staff[p].access # None
    BY <2>1 DEF ready_to_open, TypeOK, Employee
  <2>4. \A seat \in Seats : rec'[x][seat] \in {staff[p].access[seat], None}
    BY <2>2, <2>3 DEF record_chain, Chain, Seats
  <2>5. LinksKept
    BY <2>1, <2>2, AccountStep DEF AccountWritten, TablesUntouched
  <2>6. SitSoundly(account', staff[p].access, p)
    BY <2>3, <2>5, LinksKeepSound, SeatsHoldUsers DEF SeatsSound
  <2> QED
    BY <2>2, <2>4, <2>6 DEF SitSoundly
<1> QED
  BY <1>1, <1>2, <1>3, SeatsStep

\* At the start there is no chain and no record.
LEMMA InitEmpty ==
    ASSUME Init
    PROVE  /\ \A p \in Personnel : staff[p].access = None
           /\ \A r \in Records : rec[r] = blank_record
<1>1. staff \in [Personnel -> [employed : {TRUE}, is_manager : BOOLEAN, access : {None}]]
  BY DEF Init
<1> QED
  BY <1>1 DEF Init

\* Nobody is an evaluator of himself, in a configured chain or in a record, however chains,
\* seats, accounts and links are edited: the checks of upsert_access, reassign_stage_owner and
\* update_user together close every way.
THEOREM NobodyIsHisOwnEvaluator == Spec => []NobodyEvaluatesHimself
<1>1. Init => SeatsSound
  BY InitEmpty DEF SeatsSound, SitSoundly, blank_record, Seats
<1>2. TypeOK /\ SeatsSound /\ [Next]_vars => SeatsSound'
  BY AccessSoundStep, RecordSoundStep DEF SeatsSound
<1>3. SeatsSound => NobodyEvaluatesHimself
  <2>1. ASSUME NEW chain, NEW p, SitSoundly(account, chain, p) PROVE evaluators_are_not_the_subject(chain, p)
    BY <2>1 DEF SitSoundly, evaluators_are_not_the_subject, evaluators
  <2> QED
    BY <2>1 DEF SeatsSound, NobodyEvaluatesHimself
<1> QED
  BY <1>1, <1>2, <1>3, TypeCorrect, PTL DEF Spec
-----------------------------------------------------------------------------
(* No person has two seats that could be merged.                           *)

\* A chain without its unit supervisor has no more double seats than before.
LEMMA WithoutSupervisor ==
    ASSUME NEW chain \in Chain, ~redundant(chain)
    PROVE  ~redundant([chain EXCEPT !.unit_supervisor = None])
BY DEF redundant, Chain

\* Double seats are a matter of the three seats alone.
LEMMA SeatsDecideRedundancy ==
    ASSUME NEW one, NEW other, \A seat \in Seats : one[seat] = other[seat]
    PROVE  redundant(one) <=> redundant(other)
<1>1. /\ one.unit_supervisor = other.unit_supervisor
      /\ one.deputy = other.deputy /\ one.ceo = other.ceo
  BY DEF Seats
<1> QED
  BY <1>1 DEF redundant

\* NoRedundantChain is inductive over the types.
LEMMA NoRedundantChainStep ==
    ASSUME TypeOK, NoRedundantChain, [Next]_vars PROVE NoRedundantChain'
<1>1. ASSUME NEW p \in Personnel, staff'[p].access # None PROVE ~redundant(staff'[p].access)
  <2>1. CASE ChainKept(p)
    BY <1>1, <2>1 DEF ChainKept, NoRedundantChain
  <2>2. CASE ChainWritten(p)
    BY <2>2 DEF ChainWritten
  <2>3. CASE TitleWritten(p)
    <3>1. staff[p].access # None /\ staff[p].access \in Chain
      BY <1>1, <2>3 DEF TitleWritten, TypeOK, Employee
    <3>2. ~redundant(staff[p].access)
      BY <3>1 DEF NoRedundantChain
    <3> QED
      BY <2>3, <3>1, <3>2, WithoutSupervisor DEF TitleWritten
  <2> QED
    BY <2>1, <2>2, <2>3, StaffStep
<1>2. ASSUME NEW x \in Records PROVE ~redundant(rec'[x])
  <2>1. CASE SeatsKept(x)
    BY <2>1, SeatsDecideRedundancy DEF SeatsKept, NoRedundantChain
  <2>2. CASE SeatGiven(x)
    BY <2>2 DEF SeatGiven
  <2>3. CASE SeatsCopied(x)
    <3>1. PICK p \in Personnel : ready_to_open(p) /\ rec'[x] = new_record(p)
      BY <2>3 DEF SeatsCopied
    <3>2. staff[p].access # None /\ staff[p].access \in Chain
      BY <3>1 DEF ready_to_open, TypeOK, Employee
    <3>3. ~redundant(record_chain(p))
      BY <3>2, WithoutSupervisor DEF record_chain, NoRedundantChain
    <3> QED
      BY <3>1, <3>3, NewRecord, SeatsDecideRedundancy
  <2> QED
    BY <2>1, <2>2, <2>3, SeatsStep
<1> QED
  BY <1>1, <1>2 DEF NoRedundantChain

\* No chain, configured or copied, lists one person as supervisor and deputy or as deputy and
\* CEO, although seats are reassigned one at a time.
THEOREM NoDoubleSeats == Spec => []NoRedundantChain
<1>1. Init => NoRedundantChain
  BY InitEmpty DEF NoRedundantChain, redundant, blank_record
<1>2. TypeOK /\ NoRedundantChain /\ [Next]_vars => NoRedundantChain'
  BY NoRedundantChainStep
<1> QED
  BY <1>1, <1>2, TypeCorrect, PTL DEF Spec
-----------------------------------------------------------------------------
(* The path of a case and the title of its subject.                        *)

\* PathFollowsTitle for one open case of p.
PathFits(chain, manager) ==
    IF manager THEN is_manager_path(chain) ELSE is_manager_path(chain) => is_direct_ceo_path(chain)

\* PathFollowsTitle is inductive over the types: a title changes only while its bearer has no
\* open case, and filling a seat again leaves the path alone.
LEMMA PathFollowsTitleStep ==
    ASSUME TypeOK, PathFollowsTitle, [Next]_vars PROVE PathFollowsTitle'
<1>1. ASSUME NEW p \in Personnel, staff'[p].is_manager, staff'[p].access # None
      PROVE  is_manager_path(staff'[p].access)
  <2>1. CASE ChainKept(p)
    BY <1>1, <2>1 DEF ChainKept, PathFollowsTitle
  <2>2. CASE ChainWritten(p)
    BY <1>1, <2>2 DEF ChainWritten, is_manager_path
  <2>3. CASE TitleWritten(p)
    BY <1>1, <2>3 DEF TitleWritten, is_manager_path, TypeOK, Employee, Chain
  <2> QED
    BY <2>1, <2>2, <2>3, StaffStep
<1>2. ASSUME NEW x \in Records, is_open(rec[x])'
      PROVE  PathFits(rec'[x], staff'[rec'[x].subject].is_manager)
  <2>1. CASE SeatsKept(x) \/ SeatGiven(x)
    <3>1. is_open(rec[x]) /\ rec[x] \in Record /\ rec[x].subject \in Personnel
      BY <1>2, <2>1 DEF SeatsKept, SeatGiven, TypeOK, is_open, OPEN_STATUSES
    <3>2. rec'[x].subject = rec[x].subject
      BY <2>1, <3>1 DEF SeatsKept, SeatGiven, Record, Seats
    <3>3. \A seat \in Seats : rec'[x][seat] = None <=> rec[x][seat] = None
      <4>1. CASE SeatsKept(x)
        BY <4>1, Zenon DEF SeatsKept
      <4>2. CASE SeatGiven(x)
        <5>1. PICK u \in Users, stage \in Seats :
                  rec[x][stage] # None /\ rec'[x] = [rec[x] EXCEPT ![stage] = u]
          BY <4>2, Zenon DEF SeatGiven
        <5>2. u # None
          BY NullAssumption
        <5> QED
          BY <3>1, <5>1, <5>2 DEF Record, Seats
      <4> QED
        BY <2>1, <4>1, <4>2
    <3>4. staff'[rec[x].subject].is_manager = staff[rec[x].subject].is_manager
      BY <3>1, StaffStep DEF ChainKept, ChainWritten, TitleWritten, has_open_record
    <3>5. PathFits(rec[x], staff[rec[x].subject].is_manager)
      BY <3>1 DEF PathFollowsTitle, PathFits
    <3> QED
      BY <3>2, <3>3, <3>4, <3>5 DEF PathFits, is_manager_path, is_direct_ceo_path, Seats
  <2>2. CASE SeatsCopied(x)
    <3>1. PICK p \in Personnel :
            rec[x].status = "absent" /\ ready_to_open(p) /\ rec'[x] = new_record(p)
      BY <2>2 DEF SeatsCopied
    <3>2. /\ rec'[x].subject = p /\ rec'[x].status = "draft"
          /\ \A seat \in Seats : rec'[x][seat] = record_chain(p)[seat]
      BY <3>1, NewRecord
    <3>3. ~TitleWritten(p)
      BY <3>1, <3>2, Table DEF TitleWritten, Same, Stepped, OPEN_STATUSES
    <3>4. staff'[p].is_manager = staff[p].is_manager
      BY <3>3, StaffStep DEF ChainKept, ChainWritten
    <3>5. PathFits(record_chain(p), staff[p].is_manager)
      BY <3>1 DEF PathFits, record_chain, ready_to_open, is_manager_path, is_direct_ceo_path,
                  TypeOK, Employee, Chain
    <3> QED
      BY <3>2, <3>4, <3>5 DEF PathFits, is_manager_path, is_direct_ceo_path, Seats
  <2> QED
    BY <2>1, <2>2, SeatsStep
<1> QED
  BY <1>1, <1>2 DEF PathFollowsTitle, PathFits

\* A manager's open case never has a unit supervisor, and a case without one is a manager's or
\* goes straight to the CEO: the title cannot change under an open case.
THEOREM PathsFollowTitles == Spec => []PathFollowsTitle
<1>1. Init => PathFollowsTitle
  BY InitEmpty DEF PathFollowsTitle, blank_record, is_open, OPEN_STATUSES
<1>2. TypeOK /\ PathFollowsTitle /\ [Next]_vars => PathFollowsTitle'
  BY PathFollowsTitleStep
<1> QED
  BY <1>1, <1>2, TypeCorrect, PTL DEF Spec
-----------------------------------------------------------------------------
(* Periods and deadlines.                                                  *)

\* Period q is written, and no record: it is created, its end is moved, it is closed or deleted.
PeriodWritten(q) == \E new \in Period :
    /\ \/ open_periods = {} /\ periods[q].status = "unused"
       \/ periods[q].status # "unused" /\ new = [periods[q] EXCEPT !.ends_on = new.ends_on]
       \/ periods[q].status = "open" /\ new = [periods[q] EXCEPT !.status = "closed"]
       \/ new.status = "unused" /\ \A r \in Records : rec[r].period # q
    /\ periods' = [periods EXCEPT ![q] = new]
    /\ rec' = rec

\* A request writes at most one period, and then no record.
LEMMA PeriodStep ==
    ASSUME TypeOK, [Next]_vars PROVE periods' = periods \/ \E q \in Periods : PeriodWritten(q)
<1>0. \A q \in Periods : periods[q] \in Period
  BY DEF TypeOK
<1>1. ASSUME NEW u \in Users, NEW q \in Periods, NEW ends_on \in Days, create_period(u, q, ends_on)
      PROVE  PeriodWritten(q)
  <2>1. [status |-> "open", ends_on |-> ends_on] \in Period
    BY DEF Period
  <2> QED
    BY <1>1, <2>1 DEF create_period, PeriodWritten
<1>2. ASSUME NEW u \in Users, NEW q \in Periods, NEW ends_on \in Days, update_period(u, q, ends_on)
      PROVE  PeriodWritten(q)
  <2> DEFINE new == [periods[q] EXCEPT !.ends_on = ends_on]
  <2>1. new \in Period /\ new = [periods[q] EXCEPT !.ends_on = new.ends_on]
    BY <1>0 DEF Period
  <2>2. periods' = [periods EXCEPT ![q] = new] /\ periods[q].status # "unused" /\ rec' = rec
    BY <1>2 DEF update_period
  <2> HIDE DEF new
  <2> QED
    BY <2>1, <2>2 DEF PeriodWritten
<1>3. ASSUME NEW u \in Users, NEW q \in Periods, NEW force \in BOOLEAN, close_period(u, q, force)
      PROVE  PeriodWritten(q)
  <2> DEFINE new == [periods[q] EXCEPT !.status = "closed"]
  <2>1. new \in Period
    BY <1>0 DEF Period
  <2>2. periods' = [periods EXCEPT ![q] = new] /\ periods[q].status = "open" /\ rec' = rec
    BY <1>3 DEF close_period
  <2> QED
    BY <2>1, <2>2 DEF PeriodWritten
<1>4. ASSUME NEW u \in Users, NEW q \in Periods, delete_period(u, q)
      PROVE  PeriodWritten(q)
  <2>1. [status |-> "unused", ends_on |-> 0] \in Period
    BY InputAssumption DEF Period, Days
  <2> QED
    BY <1>4, <2>1 DEF delete_period, PeriodWritten
<1>5. CASE ManagePeriods
  BY <1>1, <1>2, <1>3, <1>4, <1>5 DEF ManagePeriods
<1>6. CASE OpenCases \/ ScoreCases \/ ReviewCases \/ ManageCases
  BY <1>6, CaseActionsFrame
<1>7. CASE ManageStaff
  BY <1>7, StaffActionsFrame
<1>8. CASE ManageAccounts
  BY <1>8 DEF ManageAccounts, create_user, update_user
<1>9. CASE next_day \/ UNCHANGED vars
  BY <1>9 DEF next_day, vars
<1> QED
  BY <1>5, <1>6, <1>7, <1>8, <1>9 DEF Next

\* A record belongs to the period it was opened in, for good.
LEMMA RecordPeriodStep ==
    ASSUME TypeOK, [Next]_vars, NEW x \in Records
    PROVE  \/ rec'[x].period = rec[x].period
           \/ rec[x].status = "absent" /\ rec'[x].status = "draft" /\ rec'[x].period = active_period
<1>1. ASSUME NEW r \in Records, OneCase(r) PROVE rec'[x].period = rec[x].period
  BY <1>1, SteppedFields DEF OneCase, Kept, Stepped, Same
<1> QED
  BY <1>1, CaseStep, OpenedFields DEF TablesUntouched, Same

\* The inductive form of PeriodsInOrder, which counts nothing.
OneOpenPeriod == \A q1, q2 \in Periods :
    periods[q1].status = "open" /\ periods[q2].status = "open" => q1 = q2
PeriodsRemain == \A r \in Records : rec[r].period # None => periods[rec[r].period].status # "unused"

\* A period is opened only while none is open, and deleted only while no record refers to it.
LEMMA PeriodsStep ==
    ASSUME TypeOK, OneOpenPeriod, PeriodsRemain, [Next]_vars
    PROVE  OneOpenPeriod' /\ PeriodsRemain'
<1>1. CASE periods' = periods
  <2>1. OneOpenPeriod'
    BY <1>1 DEF OneOpenPeriod
  <2>2. PeriodsRemain'
    BY <1>1, RecordPeriodStep, ActivePeriod DEF PeriodsRemain, open_periods
  <2> QED
    BY <2>1, <2>2
<1>2. ASSUME NEW q \in Periods, PeriodWritten(q) PROVE OneOpenPeriod' /\ PeriodsRemain'
  <2>1. PICK new \in Period :
          /\ \/ open_periods = {} /\ periods[q].status = "unused"
             \/ periods[q].status # "unused" /\ new = [periods[q] EXCEPT !.ends_on = new.ends_on]
             \/ periods[q].status = "open" /\ new = [periods[q] EXCEPT !.status = "closed"]
             \/ new.status = "unused" /\ \A r \in Records : rec[r].period # q
          /\ periods' = [periods EXCEPT ![q] = new]
          /\ rec' = rec
    BY <1>2 DEF PeriodWritten
  <2>2. periods[q] \in Period /\ \A y \in Periods : periods'[y] = IF y = q THEN new ELSE periods[y]
    BY <2>1 DEF TypeOK
  <2>3. \A r \in Records : rec[r].period \in Periods \cup {None}
    BY DEF TypeOK, Record
  <2>4. OneOpenPeriod'
    BY <2>1, <2>2 DEF OneOpenPeriod, open_periods, Period
  <2>5. ASSUME NEW r \in Records, rec[r].period # None PROVE periods'[rec[r].period].status # "unused"
    BY <2>1, <2>2, <2>3, <2>5 DEF PeriodsRemain, Period
  <2> QED
    BY <2>1, <2>4, <2>5 DEF PeriodsRemain
<1> QED
  BY <1>1, <1>2, PeriodStep

\* At most one period is open, and the period of a record is never deleted, so a case with a
\* deadline keeps one.
THEOREM PeriodsStayInOrder == Spec => []PeriodsInOrder
<1>1. Init => OneOpenPeriod /\ PeriodsRemain
  BY DEF Init, OneOpenPeriod, PeriodsRemain, blank_record
<1>2. TypeOK /\ OneOpenPeriod /\ PeriodsRemain /\ [Next]_vars => OneOpenPeriod' /\ PeriodsRemain'
  BY PeriodsStep
<1>3. OneOpenPeriod /\ PeriodsRemain => PeriodsInOrder
  <2> SUFFICES ASSUME OneOpenPeriod PROVE Cardinality(open_periods) <= 1
    BY DEF PeriodsInOrder, PeriodsRemain
  <2>1. CASE open_periods = {}
    BY <2>1, FS_EmptySet
  <2>2. ASSUME NEW q \in open_periods PROVE Cardinality(open_periods) <= 1
    <3>1. open_periods = {q}
      BY <2>2 DEF OneOpenPeriod, open_periods
    <3> QED
      BY <3>1, FS_Singleton
  <2> QED
    BY <2>1, <2>2
<1> QED
  BY <1>1, <1>2, <1>3, TypeCorrect, PTL DEF Spec

\* The deadline of an open case moves only by its own extension or by moving the end of its
\* period; opening, closing and deleting periods, and every step of other cases, leave it.
THEOREM DeadlinesMoveByDecision == Spec => DeadlineMovesOnlyByDecision
<1>1. ASSUME TypeOK, PeriodsInOrder, [Next]_vars, NEW r \in Records,
             is_open(rec[r]), closes_on(rec[r])' # closes_on(rec[r]),
             rec'[r].extended_until = rec[r].extended_until
      PROVE  \E q \in Periods : /\ rec[r].period = q
                                /\ periods'[q] = [periods[q] EXCEPT !.ends_on = periods'[q].ends_on]
  <2> DEFINE q == rec[r].period
  <2>1. rec'[r].period = q
    BY <1>1, RecordPeriodStep DEF is_open, OPEN_STATUSES
  <2>2. period_end(rec[r])' # period_end(rec[r])
    BY <1>1 DEF closes_on
  <2>3. q # None
    BY <2>1, <2>2 DEF period_end
  <2>4. q \in Periods
    BY <1>1, <2>3 DEF TypeOK, Record
  <2>5. periods'[q] # periods[q]
    BY <2>1, <2>2 DEF period_end
  <2>6. PICK y \in Periods : PeriodWritten(y)
    BY <1>1, <2>5, PeriodStep
  <2>7. PICK new \in Period :
          /\ \/ open_periods = {} /\ periods[y].status = "unused"
             \/ periods[y].status # "unused" /\ new = [periods[y] EXCEPT !.ends_on = new.ends_on]
             \/ periods[y].status = "open" /\ new = [periods[y] EXCEPT !.status = "closed"]
             \/ new.status = "unused" /\ \A x \in Records : rec[x].period # y
          /\ periods' = [periods EXCEPT ![y] = new]
    BY <2>6 DEF PeriodWritten
  <2>8. y = q /\ periods'[q] = new /\ periods[q] \in Period
    BY <1>1, <2>4, <2>5, <2>7 DEF TypeOK
  <2>9. periods[q].status # "unused"
    BY <1>1, <2>3 DEF PeriodsInOrder
  <2>10. ~(periods[q].status = "open" /\ new = [periods[q] EXCEPT !.status = "closed"])
    BY <2>1, <2>2, <2>3, <2>8 DEF period_end, Period
  <2>11. new = [periods[q] EXCEPT !.ends_on = new.ends_on]
    BY <2>7, <2>8, <2>9, <2>10
  <2> QED
    BY <2>4, <2>8, <2>11
<1>2. TypeOK /\ PeriodsInOrder /\ [Next]_vars =>
        [\A r \in Records : is_open(rec[r]) /\ closes_on(rec[r])' # closes_on(rec[r]) =>
            \/ rec'[r].extended_until # rec[r].extended_until
            \/ \E q \in Periods : /\ rec[r].period = q
                                  /\ periods'[q] = [periods[q] EXCEPT !.ends_on = periods'[q].ends_on]]_vars
  BY <1>1
<1> QED
  BY <1>2, TypeCorrect, PeriodsStayInOrder, PTL DEF Spec, DeadlineMovesOnlyByDecision
=============================================================================
