------------------------------- MODULE Sweeps -------------------------------
(***************************************************************************)
(* The periodic jobs that run beside the workflow and look at its cases    *)
(* (backend/app/services/scheduled.py): reminding the owner of a stalled   *)
(* case, reporting cases whose owner is gone, and archiving the documents  *)
(* that the background task of a finalization did not.                     *)
(*                                                                         *)
(* The jobs of one run share a transaction: an error in one loses the work *)
(* of all.  Deduplication, outbound delivery and the leader lock are not   *)
(* modelled here.                                                          *)
(***************************************************************************)
EXTENDS Notices

CONSTANTS
    SlaDays,        \* sla_reminder_days
    DocumentBatch   \* documents archived by one run

ASSUME SweepAssumption == SlaDays \in Nat /\ DocumentBatch \in Nat \ {0}

VARIABLES
    stage_entered_at,   \* per record, the day it reached its present stage
    documents,          \* records whose final document is archived
    last_run            \* history: what the run that has just ended did

sweep_vars == <<vars, stage_entered_at, documents, last_run>>

idle == [outcome |-> "idle", reminded |-> {}, reported |-> {}]

SweepInit ==
    /\ Init
    /\ stage_entered_at = [r \in Records |-> 0]
    /\ documents = {}
    /\ last_run = idle
-----------------------------------------------------------------------------
\* Mutant: the direct path to the CEO is forgotten.
current_owner_ids_two_paths(case) ==
    CASE case.status = "draft" ->
            {IF is_manager_path(case) THEN case.deputy ELSE case.unit_supervisor} \ {None}
      [] case.status = "submitted" -> active_hr_ids
      [] case.status = "hr_approved" -> {case.deputy}
      [] case.status = "deputy_approved" -> {case.ceo}
      [] OTHER -> {}

\* A chain without a deputy yields NULL here when HR has approved.
current_owner_ids(case) ==
    CASE case.status = "draft" -> {case[scorer_seat(case)]} \ {None}
      [] case.status = "submitted" -> active_hr_ids
      [] case.status = "hr_approved" -> {case.deputy}
      [] case.status = "deputy_approved" -> {case.ceo}
      [] OTHER -> {}

stalled == {r \in Records : is_open(rec[r]) /\ stage_entered_at[r] + SlaDays <= today}

\* A notification needs a user: the insert for a NULL owner fails.
sla_sweep_fails == \E r \in stalled : None \in current_owner_ids(rec[r])

\* Pairs of a case and the owner who is reminded of it.
run_sla_sweep == {reminder \in stalled \X Users : reminder[2] \in current_owner_ids(rec[reminder[1]])}

\* Mutant: a case is reported when any of its owners is still active.
run_orphaned_case_sweep_any_owner ==
    {r \in Records :
        /\ is_open(rec[r])
        /\ current_owner_ids(rec[r]) # {} /\ rec[r].status # "submitted"
        /\ \E u \in current_owner_ids(rec[r]) : u # None /\ account[u].active}

run_orphaned_case_sweep ==
    {r \in Records :
        /\ is_open(rec[r])
        /\ current_owner_ids(rec[r]) # {} /\ rec[r].status # "submitted"
        /\ \A u \in current_owner_ids(rec[r]) : u # None => ~account[u].active}

\* Mutant: the query does not leave out the cases that have a document.
documents_pending_with_done == {r \in Records : rec[r].status = "finalized" /\ rec[r].snapshot # None}

documents_pending ==
    {r \in Records : rec[r].status = "finalized" /\ rec[r].snapshot # None /\ r \notin documents}

\* The oldest first, up to the limit; the model does not keep the order of finalization.
backfill_batches ==
    {batch \in SUBSET documents_pending :
        \/ Cardinality(batch) = DocumentBatch
        \/ batch = documents_pending /\ Cardinality(batch) < DocumentBatch}

run_all_sweeps ==
    /\ IF sla_sweep_fails
       THEN /\ last_run' = [outcome |-> "failed", reminded |-> {}, reported |-> {}]
            /\ UNCHANGED documents
       ELSE /\ last_run' = [outcome |-> "succeeded", reminded |-> run_sla_sweep,
                            reported |-> run_orphaned_case_sweep]
            /\ \E batch \in backfill_batches : documents' = documents \cup batch
    /\ UNCHANGED <<vars, stage_entered_at>>

\* A request; apply_transition stamps the stage clock of the case it moves.
request ==
    /\ Next
    /\ stage_entered_at' = [r \in Records |->
          IF rec'[r].status # rec[r].status THEN today ELSE stage_entered_at[r]]
    /\ last_run' = idle
    /\ UNCHANGED documents

\* The document is rendered once; who comes second finds it there.
archive_final_pdf(r) ==
    /\ documents' = documents \cup {r}
    /\ UNCHANGED <<vars, stage_entered_at, last_run>>

\* The background task of a finalization, when it is not lost.
archive_final_pdf_detached == \E r \in documents_pending : archive_final_pdf(r)

\* A download makes the document that is missing.
evaluation_summary_pdf(u, r) ==
    /\ authenticated(u)
    /\ \/ is_hr(u) /\ ensure_not_deciding_about_oneself(u, rec[r])
       \/ account[u].role = "employee" /\ is_subject(u, rec[r])
    /\ rec[r].status = "finalized" /\ rec[r].snapshot # None
    /\ archive_final_pdf(r)

SweepNext ==
    \/ request \/ run_all_sweeps \/ archive_final_pdf_detached
    \/ \E u \in Users, r \in Records : evaluation_summary_pdf(u, r)

\* The scheduler loop runs for ever; requests and background tasks may stop.
SweepSpec == SweepInit /\ [][SweepNext]_sweep_vars /\ WF_sweep_vars(run_all_sweeps)
-----------------------------------------------------------------------------
\* A run that succeeds has reminded everyone who can move a stalled case forward
\* ("a reminder to the current owner of every case", run_sla_sweep).
NextActorIsReminded ==
    last_run.outcome = "succeeded" =>
        \A r \in stalled : \A u \in next_actors(r) : <<r, u>> \in last_run.reminded

\* A case reported as stuck is stuck: nobody with a working account can move it forward
\* (run_orphaned_case_sweep).
ReportsAreTrue == \A r \in last_run.reported : next_actors(r) = {}

\* Every finalized case gets its archived document in the end, even if the background task of
\* the finalization is lost (run_document_backfill_sweep).
DocumentsArchived == \A r \in Records : rec[r].status = "finalized" ~> r \in documents
=============================================================================
