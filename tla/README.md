# A TLA+ model of NafasHR

NafasHR evaluates the staff of a company at the end of their contracts. A case is opened over a
person's chain of superiors, scored by the first of them, checked by HR, and approved upwards to
the CEO; the result and a final document come out of it. The backend (`src/backend/app`) is a
FastAPI application on SQLAlchemy (sessions with `autoflush=False`) and PostgreSQL at READ
COMMITTED; a React frontend presents its API.

This directory holds TLA+ modules translated from that code, the TLC configurations that check
them on small instances, and TLAPS proofs of the main safety properties for every size of
instance. `PROJECT.json` maps each definition to the lines it models.

Contents: [inventory](#1-inventory), [modules](#2-modules-and-how-they-correspond-to-the-code),
[runs](#3-runs), [disagreements](#4-where-code-and-documentation-disagree),
[fairness](#5-fairness), [proofs](#6-proofs), [not modelled](#7-not-modelled),
[plan](#8-plan), [how to run](#9-how-to-run).

## 1. Inventory

Paths are relative to `src/backend/app`.

| Component | State | Operations | What makes it correct | Module |
|---|---|---|---|---|
| Transition engine (`services/workflow.py`), separation of duties (`self_evaluation.py`) | status, seats and HR owner of `evaluation_records` | a table of 13 transitions with guards, rank and seat checks | no stage is skipped; nobody signs a number that later changes; nobody evaluates himself | `ChainRules`, `EvaluationWorkflow` |
| Evaluation requests (`api/routers/evaluations.py`) | records, scores, snapshot, extension | open, score, submit, approve, return, finalize, cancel, extend, claim, hand over, reassign | one open case per person; result = scores; document = finalized record | `EvaluationWorkflow` |
| Access chain (`evaluation_access.py`), periods (`periods.py`, `evaluation_window.py`), bulk opening (`bulk_evaluation.py`) | chains, periods, deadlines | edit a chain; open, move, close, delete a period; open a cohort | a deadline moves only by a decision about it | `EvaluationWorkflow` |
| Personnel (`personnel.py`), accounts (`users.py`) | `personnel`, `users` | edit, link, switch off, depart | no case of a leaver stays open; a title does not change under an open case | `EvaluationWorkflow`, `Sessions`, `Administration`, `Directory` |
| Audit log (`services/audit.py`), locks | hash-chained `audit_log`; row and advisory locks | append, verify | the chain never forks and reads as the history of the records | `RecordRaces` |
| Workflow notices (`services/notifications.py`) | `notifications` | tell the next person of each step | whoever must act knows | `Notices` |
| Sweeps (`services/scheduled.py`, `core/scheduler.py`), documents (`documents.py`, `snapshot.py`) | reminders, archived documents | remind, report, archive | the right people are reminded; every finalized case gets its document | `Sweeps` |
| Delivery (`services/delivery.py`, `channels/`), leader lock (`scheduler_lock.py`) | the outbox; the session lock | enqueue, send, back off, give up; lead a run | one leader; bounded retries; nothing waits for ever | `Outbox` |
| Indicator framework, self-assessment (`services/indicator_framework.py`, `self_assessment.py`) | versions of the questions; one assessment per contract | publish, rebind, open, submit | nobody's answers are to other questions than were asked | `Questionnaire` |
| Scoring (`services/evaluation.py`), schemes (`scoring_scheme.py`, `scoring_schemes.py`) | drafts, the scheme in force, stamps | weigh, round, cap; draft, activate, delete | a result keeps to the weights; a case keeps its rules | `Scoring`, `SchemeVersions` |
| Sessions, login guard (`services/sessions.py`, `login_guard.py`, `api/routers/auth.py`) | refresh tokens, failure counters | log in, rotate, revoke, lock out | no token outlives its password, and no session made before it; two tabs do not log each other out; locks are earned and kept | `Sessions`, `LoginGuard` |
| Capabilities, bootstrap, settings (`authorization.py`, `bootstrap_admin.py`, `administration.py`, `integrations.py`) | rights; settings in table and memory | grant, revoke, start up; save, refresh | somebody can always give rights; what is saved is in force | `Administration`, `Settings` |
| Improvement plans (`improvement_plans.py`) | one plan per finalized case | create, edit, close, remind | owners know of their plans and are reminded in time | `ImprovementPlans` |
| Import, organisation units (`personnel_import.py`, `org_units.py`) | directory, catalogue | parse, import, rename, delete | imported chains obey the rules of the form; nobody falls out of the catalogue | `Directory` |
| Dashboards, reports, analytics, Excel, configuration, rate limit, most of the frontend, migrations | - | read-only queries, presentation, deployment | no protocol of their own | - |

**How they interact.** A request is one database transaction. Every endpoint resolves its token to
an active account; most evaluation handlers then read the record with `SELECT ... FOR UPDATE`,
check it, write it, write notices and outbox rows, append to the audit log (which takes an
advisory lock until the commit) and commit. Opening a case copies the chain out of
`evaluation_access`, the version of the questions and the scoring scheme; from then on copy and
original change independently. Departures reach into cases, accounts and sessions from the
personnel router. Finalization leaves work to a background task, and a scheduler loop in every
replica, under the leader lock, does what was missed and sends what is in the outbox.

**What is hard.** Requests that meet on one row; handlers that read without a lock (plans, schemes,
publications, rights, imports); two locks taken in different orders; copies that go stale; long
legal sequences of reassignments, returns and edits; messages that leave before the commit that
records them; answers lost on the way to a browser; background work lost with its process; one
transaction for all the sweeps; rounding. `PROJECT.json` lists each hazard at its line.

## 2. Modules, and how they correspond to the code

One action stands for one handler, named like it; a handler that reads, checks and commits without
a lock is opened up into the steps between which others may come, where that is the question.
Rejected requests change nothing and are not steps. "Mutant" operators are plausible bugs:
substituted for the definition that follows them, they make the property they are listed with fail.

| Module | What it is |
|---|---|
| `ChainRules` | Pure rules: rank, paths, separation of duties, the transition table with its guards. No state. |
| `CaseLifecycle` | Abstract specification: what the workflow promises about a case, whoever sits in its chain. |
| `EvaluationWorkflow` | The workflow as serial requests. Extends `ChainRules`, implements `CaseLifecycle`. |
| `Notices` | Who is told of a step of the workflow. Extends `EvaluationWorkflow`, adds no state. |
| `Sweeps` | The scheduler's jobs beside the workflow. Extends `Notices`. |
| `RecordRaces` | The requests on one record taken apart into database steps: row lock, audit lock, deadlock detector. |
| `Outbox` | Delivery rows, channels, replicas and the leader lock. |
| `DeliveryPromise` | Abstract specification: what the outbox promises of a message, whoever sends it. `OutboxProofs` shows that `Outbox` implements it. |
| `Questionnaire` | Indicators, frameworks, cases' scores, self-assessments. |
| `Scoring`, `SchemeVersions` | The arithmetic of a result; the life of a scoring scheme. |
| `ImprovementPlans`, `Directory` | Plans and their reminders; imports, chains, the catalogue of units. |
| `Sessions`, `LoginGuard`, `Administration`, `Settings` | Access to the system. |
| `MCEvaluationWorkflow`, `MCCase`, `MCCaseload`, `MCSweeps`, `MCAccess`, `MCParts` | Instances for TLC; the first holds what the next two share. |
| `EvaluationWorkflowProofs`, `SweepsProofs`, `RecordRacesProofs`, `OutboxProofs`, `ScoringProofs` | Theorems about the modules of those names (`SweepsProofs` also about `Notices`). |
| `RulebookProofs` | Theorems about `SchemeVersions`, `Questionnaire` and `ImprovementPlans`. |
| `PeopleProofs` | Theorems about `Administration` and `Directory`. |
| `LoginProofs` | Theorems about `Sessions` and `LoginGuard`. |

### EvaluationWorkflow

| Variable | Code |
|---|---|
| `account` | `users`: role, `is_active`, `personnel_id`. Role `None`: no such row yet. |
| `staff` | `personnel` (employed or not, manager or not) with its `evaluation_access` row. |
| `today`, `periods` | `date.today()`; `evaluation_periods`, "unused" is an id without a row. |
| `rec` | `evaluation_records` with scores, special score, comment and snapshot. "absent" is an id without a row. |
| `signed` | History, readable from the `status_changed` rows of the audit log: per record and stage, who approved which result. A return voids the signature of the stage it goes back across. |

Points where the model follows the code closely: `ensure_transition_allowed` compares rank by role,
then the seat, and an unowned HR stage seats whoever acts on it (`moved`). Which return is taken
depends on the caller's role, not on his seat (`return_action`). `reassign_stage_owner` wants
exactly the role of the seat; `upsert_access` accepts any superior. A stale `result` survives a
return to draft; only submission overwrites it. A departure cancels through the same engine call
and switches off *one* linked account, whichever the unordered query returns. A score sheet is a
value that is empty, partial or complete, a result the sheet and special score it is computed from:
"the result is stale" is expressible, arithmetic is in `Scoring`.

### Notices and Sweeps

`told` is a function of a record before and after a step because every handler writes its notices
in the transaction of the step. `workflow_recipients` is `notify_for_workflow_action`;
`next_actors` asks the transition table who can move the case on. `Sweeps` adds
`stage_entered_at`, `documents` and `last_run`. A run is one step because `run_all_sweeps` has one
transaction: all of its work commits or none of it. `archive_final_pdf_detached` may never happen,
as a lost background task would not.

### RecordRaces

`row` and `audit_log` are what is committed; `seen` the record a request has read, `tail` the log
whose last hash it has read, `row_lock` and `chain_lock` the holders. A handler reads with the row
lock (a departure without it, after taking the audit lock), checks, takes the audit lock, flushes and commits;
`autoflush=False` puts the `UPDATE`, and so a departure's row lock, at the end. PostgreSQL's lock
queue and deadlock detector are external. `CommitsAreSerial` justifies the serial view of
`EvaluationWorkflow`. Two openings for one person are kept apart by
`uq_open_evaluation_per_personnel`; the race between them ends in a refused insert, which the
guard `~has_open_record` stands for.

### Outbox

`queue` holds the delivery rows, oldest first; a run copies it (`run[r].rows`), works through its
batch and commits. A row's `wait` is the rest of its back-off. `reached` remembers what really
arrived, which the table cannot always know: a run lost before its commit, or an answer lost on the
way, makes it "untold". `lock_is_free`/`released` are the advisory lock on its own connection: it
outlives the commit of a run and dies with its process. With `autoflush=False` the rows of the last
reminder of a run are not yet in the table when delivery looks, and wait for the next run.

### Questionnaire, Scoring, SchemeVersions

A publication (`publish`, `commit_publication`) reads which cases are untouched and moves them by
primary key when it commits. `frameworks` are immutable lists of members; a case's questions are
the members that still have a row (`indicators_for_record`). An assessment is keyed by the start of
a contract and pins its framework at submission. `Scoring` keeps percentages in tenths, bonus
points in hundredths and the weights of the two sections in thousandths, with the rounding and the
caps of `compute_result`; half-way values, which binary floats round either way, are kept out of the
instances. `SchemeInput` lets weights through whose sum is 1 at six decimals, and their columns round
each to three, so that a stored pair adds up to 0.999, 1 or 1.001 (`valid_scheme`). In `SchemeVersions` a clerk's
checks and his write are two steps; the partial unique index and the foreign key of the stamps are
what holds when clerks cross.

### ImprovementPlans, Directory

A PATCH of a plan reads, and its commit writes the columns that differ (`edit`); another may pass it
(`update_plan_meanwhile`). `reminded` contains the key under which `notify_once` holds a reminder
back. In `Directory` an import parses a file against the tables (`parse_workbook`) and writes later
(`commit_import`), all rows or none; a name in a chain column is resolved as `_resolve_chain` does,
from the accounts as they were when the file was parsed (`seen`): between the two, others may edit or
delete accounts, since a password is hashed for each row. Organisation units are names in personnel
rows and, separately, entries of a catalogue. A rename reads its entry (`get_org_unit`), flushes the
new name and finds the people of the name it read (`move_personnel`), and commits both once the audit
log has let it in (`update_org_unit`); a deletion reads, counts (`count_personnel`) and deletes
(`delete_org_unit`). Between these steps other renames, deletions, imports and new people come. A name
is a whole unit, its site included: two edits of which one changes only the site and the other only
the name are not told apart from two renames.

### Sessions, LoginGuard, Administration, Settings

A request goes through the database steps of the code. A login checks the account and commits a new
row; a refresh checks token and account, reads its session row (`rotate_session`) and commits; then
the account is read again in a transaction of its own and the tokens are made of what it says
(`issue_response`), and the answer may be lost. A change or reset of the password and a departure read
the account, execute the `UPDATE` that revokes all sessions (`revoke_sessions`: the rows committed by
then), and commit it with the account after the audit log let them in. A theft found by a refresh has
the same two steps. ORM objects write `token_version` as the value read plus one. `slipped` remembers
the sessions committed between such an `UPDATE` and its commit, `committed_in` the password in force
when each was. `grace_passes` ends the grace
of a rotated token. In `LoginGuard` the row is read after the password hash and written at the
commit, so failures may cross (`crossed`). In `Administration` `set_capabilities` reads the holders
and commits later. In `Settings` a first save of a key is invisible to the refresh in its own
transaction (`seen_before_flush`).

## 3. Runs

Several runs hold more than one instance. Components that share no variable, or instances of one
module that are out of TLC's reach together, are put side by side with a variable `part` that says
which one runs: every interleaving of them looks to each like a run of its own, so nothing is lost.
Counts are distinct states; times are for two workers.

| Run | States, time | Question and bounds |
|---|---|---|
| `workflow_case` | 288,486, 80 s | "chains": one case over all six shapes of chain, two people of HR of whom one is the person evaluated, two different complete sheets and two special scores so that a re-scored result differs from the one signed before. "churn": one case while accounts are created, linked to its subject, switched off and on and change role, its chain, title and seats are edited and the subject leaves and returns. |
| `workflow_team` | 305,782, 90 s | "team": two people and two records opened one by one and in bulk, closed and opened again. "window": two periods over three days, one closed and another opened while a case of the first lives, with extensions. Includes the refinement `ImplementsLifecycle`. |
| `sweeps` | 248,958, 60 s | "archive": two records, one document per run, so that the batch is smaller than the backlog. "owners": chains with a deputy or straight to the CEO, a deputy switched off and on. Chains in which an approved case waits for a missing deputy are left out: there the sweep fails (section 4). "outbox": two replicas, a channel that comes and goes, two rows, batch of one, two attempts, two troubles (crash, failed run, unexpected error). |
| `access` | 2,459,376, 90 s | "sessions": two tabs on one cookie jar, one clerk of HR, three session rows, one change or reset of the password, a departure. It stops at two requests that write the account over each other, after which the property about tokens promises nothing, and once the version of the account has risen twice. "guard": two logins at once, three failures for a lock, six ticks. "rights": two people, two capabilities, three roles, between which one of the two moves (`one_role_changes`). "settings": two processes, two keys. |
| `parts` | 454,487, 140 s | Questionnaire: two indicators, one case, two contracts, three versions. Scoring: three questions, three schemes, one of them with the weights 0.334 and 0.667. Schemes: three, two clerks, two cases. Plans: one case, two users, two dates. Directory, "imports": three codes, four files, two imports, one account at a time changed or deleted (`one_account_edited`); "units": one person, two entries, three names, two requests that rename or delete (`one_person`). Races: one request of each of seven kinds. |

Deadlock is checked in `workflow_case`, `workflow_team` and `sweeps`. It is not in the other runs
because their systems may really stop: versions, rows and requests are bounded.

Why these bounds. Cases interact only through their subject and their period, so one record is
enough for what happens within a case and two for what happens between cases. A chain has three
seats and the HR stage; one account per seat plus a second one of HR lets every claim, hand-over and
reassignment be done by somebody else than the last actor. Two complete sheets tell a stale result
from the present one. Races are between two requests, a third is in `RecordRaces` anyone's; two
tabs, clerks, administrators, logins and replicas meet in every order of their steps. Three session
rows let a token be rotated twice, or once in each of two tabs. The proofs of section 6 remove the
bounds for the properties they cover.

What the properties would catch:

- `EveryStageSigned`: a status reached without the approval of every stage before it *on the result
  the record carries now*, after any number of returns and re-scorings.
- `ResultMatchesScores`, `SnapshotIsFinal`: a score written after the result was computed; a
  finalization without a document, or a document that names somebody else.
- `TerminalFrozen`: any of the many handlers that write to a record forgetting to check it is open.
- `OneOpenRecord`: single and bulk opening together giving somebody two live cases.
- `NobodyEvaluatesHimself`, `NoRedundantChain`, `PathFollowsTitle`: links, chains, titles, seats and
  the copies of them drifting apart.
- `NextActorIsTold`: a step forward or back after which the one who must act was not told, or after
  which a notice without a recipient would fail the step.
- `PeriodsInOrder`, `DeadlineMovesOnlyByDecision`: a deadline moved as a side effect.
- `NextActorIsReminded`, `ReportsAreTrue`: the sweeps' idea of the owner drifting from the table.
- `DocumentsArchived`, `QueueDrains`, `NoDeadEnd`, `RequestsEnd`: something that never happens.
- `NoNeedlessRepeat`, `RemindersAreSpaced`: two leaders, or a reminder key that does not hold.
- `NoTokenOutlivesPassword`: a token that survives a change of password. The code promises less than
  the name says at first sight: a login or refresh under way during the change gets a session and
  tokens of the new version, even if its row is committed before the change is, as long as the
  `UPDATE` did not find it. The property says precisely what remains true; the sentence of the code
  about it, `EarlierSessionsEnd`, is false (section 4).
- `JarStaysGood`: two tabs refreshing at once being taken for a thief.
- `LockIsEarned`, `LockIsKept`, `PurgeForgetsNothing`: counters, window, lock and purge disagreeing.
- `GrantingKeepsAGrantor`, `PowerComesFromPower`: nobody, or the wrong one, able to give rights. Two
  crossing revocations may take the last right: the property excludes exactly the requests whose
  ground fell away before they committed.
- `AnswersAreWhole`: a self-assessment with answers to another version than it names.
- `NothingAboveTheWeights`, `BetterIsNotWorse`: caps, weights and three roundings. That the weights add
  up to 1 where they are stored is not so (section 4), so the first speaks of what they do add up to.
- `OneSchemeInForce`, `StampedRulesStay`: clerks who cross over one draft.
- `OwnerIsTold`, `DuePlanIsRemembered`: crossing edits of a plan; a reminder held back by an old key.
- `ImportedChainsAreEnterable`, `OneBadRowCostsOneRow`: the import's own rules against the form's,
  and its checks of a row against the rows above it.
- `ListedStayListed`: a renaming or a deletion that leaves people behind. A request that was overtaken,
  by a rename of its entry or by somebody who came into the unit, may do so (section 4); it is an
  error of any other.
- `CommitsAreSerial`, `AuditReadsAsHistory`: a check made on a record that has changed since; a log
  that forks, or from which the statistics of the stages read a history that never was.

## 4. Where code and documentation disagree

Seven runs are expected to fail: each checks one sentence of the repository and TLC shows how the
code breaks it.

| Run | Sentence | What happens |
|---|---|---|
| `doc_documents_archived` | the sweep is the guarantee that a document is made in the end (`services/scheduled.py:236`) | For a chain without a deputy, the owner of an `hr_approved` case is NULL. Once such a case stalls, inserting its reminder fails and takes the whole run with it, every time. |
| `doc_queue_not_closed` | a row that tries for ever closes the queue for the others (`delivery.py:185`) | Rows of a channel that is no longer set up are skipped without an attempt, are never given up, and fill the head of the window. |
| `doc_moved_cases_keep_answers` | a case with a self-assessment is not moved to other questions (`indicator_framework.py:108`) | A publication finds a case untouched; the employee submits his answers; the publication commits and moves the case. |
| `doc_saved_in_force` | new values take effect right now (`administration.py:338`) | With `autoflush=False` the refresh does not see a row added before it in the transaction. `tests/conftest.py` uses the default. |
| `doc_earlier_sessions_end` | all sessions from before a new password end (`users.py:225`, `auth.py:265`) | A session committed between the `UPDATE` of the sessions and the commit of the password is not found by the one and, reading the account after the other, gets tokens that work. |
| `doc_rename_takes_people` | entry and people are renamed together (`org_units.py:107-109`) | Two renames of one entry cross: the second looks for people under a name that nobody has any more. |
| `doc_full_marks` | the weights add up to exactly 1, or else a result is no percentage (`schemas/scoring_scheme.py:48`) | 0.3335 and 0.6665 pass the check and are stored as 0.334 and 0.667: full marks are 100.1. |

Seen while reading and modelling, without a run of their own:

*Workflow.* Returning is the one HR action without `ensure_not_deciding_about_oneself`
(`evaluations.py:881` against `self_evaluation.py:107`), and claims the case. A departure closes one
of several linked accounts (`personnel.py:578` against 544). A departure and a finalization may
deadlock, so that one is aborted instead of "rejected with a clean error" (`evaluations.py:105`).
"Every approver can send the case back" (`workflow.py:170`): a superior in a lower seat is refused
the return of his role, and does not find the case in his list either (`evaluations.py:487-510`).
"Nobody votes twice" (`self_evaluation.py:1-3`): `reassign_stage_owner` compares present seats, not
who has acted, and `single_decider` can miss a CEO who scored and finalized. A scorer who becomes HR may approve
what he scored. "Reopening never closes anything" (`evaluation_window.py:84`): an extension gives a case without a
deadline one, and an earlier extension replaces a later one. The orphan sweep reports a case without
a deputy while its CEO is active, and never a claimed case whose HR owner is switched off.
A CheckConstraint supervisor ≠ CEO (`models/evaluation.py:222`) forbids what the services allow.

*Notices.* An HR worker is told of his own case though he may not open it. `OUTBOUND_TYPES` omits
notices that meet its own criterion "whose turn it is" (the CEO's on the manager path, the returns
to HR). Cases opened in bulk are committed before the notices, which a crash may lose.

*Delivery and runs.* An unexpected channel error leaves a row failed whatever its number of
attempts. A crash between the commit of the jobs and the final status leaves a `scheduler_runs` row
"running" for ever. Four rows that wait for their retry hide a fifth that is due (window of four
batches). The delivery rows of a run's last reminder wait for the next run (`scheduled.py:280`).
Twenty documents that cannot be rendered keep the others waiting.

*Access.* Two overlapping changes of a password write the same `token_version`. A lost answer makes
the next refresh, after the grace, end all sessions; so does refreshing in a session that was closed
from the list (`sessions.py:90-97` against `auth.py:300-305`). Switching an account off ends no
session. Two first failures at once end in an error 500, and concurrent failures are undercounted.
Switching off, deleting or departing takes the last `manage_capabilities` holder without a check.
Two replicas starting on an empty database collide over the administrator. An account that becomes
an employee keeps its rights. Settings saved in one process reach the others at their restart, and
those of a failed commit stay in force where they were saved. The module switches
`outbound_notifications`, `improvement_plans`, `role_analytics` and `periods` are enforced by no
backend code (`administration.py:263-267`, `core/modules.py`).

*Questions and scores.* A case scored or even finalized while a publication is under way is moved to
the new version; one that is opened meanwhile stays at the old one, untouched as it is. A touched case loses a question whose indicator is deleted unscored; when all are
deleted it can be submitted empty. Correcting the start of a contract reopens the self-assessment.
Deleting an indicator that is answered only in a self-assessment ends in an error 500. A form with
one empty section can only reach the weight of the other. A bonus of a few hundredths can disappear in the rounding of the document.
Deleting a draft while it is activated deletes the scheme in force (`scoring_schemes.py:269-276`).

*Plans and directory.* Any active account may own a plan, an employee's too, while the roles that may
open one are fewer (`_PLAN_ROLES`): the sweep asks somebody for what he may not open, against
`improvement_plans.py:79-86`. `update_plan` has no check that the plan is open (against
`improvement_plans.py:56-58`). The list of eligible cases measures by the scheme's or the constant
cap, creation by the rules of the record. An invalid row with a code shadows a valid one below it. The sole CEO's own row gets himself as CEO; CEOs without a full name are
not counted. Two NULL-site units may have the same name. A person added with the old name during a
renaming stays behind; one added to a unit that is being deleted is in none. Nothing stops an account
from being switched off or demoted between the parsing of a file and the commit that seats it.

*Statistics.* Events are ordered by `created_at`, the start of a transaction, while the chain is in
the order of ids, so stays may be negative (`stage_stats.py:174-176`). HR's completion may exceed
100 % because it counts the departed; the deputy's "manager_scoring" card counts a status such a
case never has; drafts on the manager path and deputy-less approved cases are on nobody's card.

## 5. Fairness

- `EvaluationWorkflow`, `RecordRaces` and the modules of `access` have none: nobody has to act.
  `RequestsEnd` is stated as a state property: as long as a request is under way, some request has
  a step. Steps only go forward, so all of them end once each request that can run does run.
- `Sweeps` has weak fairness of `run_all_sweeps` only. The loop of `core/scheduler.py` runs for ever
  and survives the errors of a run. Requests and background tasks get none, so `DocumentsArchived`
  does not rest on them. A run that fails is a step too: fairness does not make runs succeed.
- `Outbox` has weak fairness of the steps of a run and strong fairness of time, which passes only
  between runs: the loop sleeps there. Lost runs, crashes and unexpected errors are bounded by
  `MaxTroubles`, since a service that fails for ever delivers nothing; services that are down are
  not bounded, they lead to abandonment. `QueueDrains` also assumes that channels stay set up in the
  end.
- `Questionnaire` assumes that a publication under way commits or fails, and that an evaluator who
  again and again can fill in the form and hand it in does so (strong fairness, because HR may
  publish in between). Without such a person no case leaves draft.

## 6. Proofs

Every safety property that a passing run checks is also a theorem, for all values of the constants:
any number of users, people, records, periods, requests, replicas, tabs, clerks, files. Exceptions
are listed at the end of this section. The assumptions are the named `ASSUME`s of the modules. They
say that inputs have their types, that NULL and the like are none of the values, that a schedule or a
batch is at least one, and what the request schemas let through; TLC evaluates each of them on a run.
Four theorems have a hypothesis of their own, two of them the same one, below.

| Module | Theorem | Property |
|---|---|---|
| `EvaluationWorkflowProofs` | `TypeCorrect` | `TypeOK` |
| | `TerminalCasesFrozen` | `TerminalFrozen` |
| | `AtMostOneOpenRecord` | `OneOpenRecord` |
| | `ResultsMatchScores` | `ResultMatchesScores` |
| | `SnapshotsAreFinal` | `SnapshotIsFinal` |
| | `StagesSigned` | `EveryStageSigned` |
| | `WorkflowImplementsLifecycle` | `ImplementsLifecycle` |
| | `NobodyIsHisOwnEvaluator` | `NobodyEvaluatesHimself` |
| | `NoDoubleSeats` | `NoRedundantChain` |
| | `PathsFollowTitles` | `PathFollowsTitle` |
| | `PeriodsStayInOrder` | `PeriodsInOrder` |
| | `DeadlinesMoveByDecision` | `DeadlineMovesOnlyByDecision` |
| `SweepsProofs` | `NextActorsAreTold` | `NextActorIsTold` |
| | `SweepsOnlyLook` | `SweepSpec => Spec` |
| | `NextActorsAreReminded` | `NextActorIsReminded` |
| | `OwnedReportsAreTrue` | `ReportsAreTrue`, if every chain has a deputy or goes straight to the CEO |
| | `ArchiveIsSound` | archived documents are of finalized cases, and the backfill sees every one that is missing |
| | `OwnedBackfillGoesOn` | a run that finds documents missing archives one, under the same condition |
| `RecordRacesProofs` | `SerialCommits` | `CommitsAreSerial` |
| | `AuditIsHistory` | `AuditReadsAsHistory` |
| | `SomebodyCanGo` | as long as a request is under way, the guards of some request's step hold |
| | `RequestsGoForward` | every step takes one request forward, and none goes back |
| `OutboxProofs` | `NothingSentTwice` | `NoNeedlessRepeat` |
| | `RemindersKeepApart` | `RemindersAreSpaced` |
| | `OutboxKeepsPromise` | `OutboxSpec` implements `DeliveryPromise` |
| `ScoringProofs` | `ResultsKeepToTheWeights` | `NothingAboveTheWeights` |
| | `ResultsArePercentages` | `ResultIsAPercentage`, if the stored weights add up to at most 1 |
| | `BetterFormsWin` | `BetterIsNotWorse` |
| `RulebookProofs` | `OneInForce` | `OneSchemeInForce` |
| | `StampedRulesRemain` | `StampedRulesStay` |
| | `AnswersStayWhole` | `AnswersAreWhole` |
| | `QuestionsStand` | no score or answer is to a question without a row; the framework in force is the active set |
| | `OwnersHear` | `OwnerIsTold` |
| | `ReviewsRemembered` | `DuePlanIsRemembered` |
| `PeopleProofs` | `RequestsVouched` | `AdminTypeOK` and `Vouched`, the invariant behind the next two |
| | `GrantorRemains` | `GrantingKeepsAGrantor` |
| | `PowerFromPower` | `PowerComesFromPower` |
| | `ImportsObeyTheForm` | `ImportedChainsAreEnterable` |
| | `BadRowsStayAlone` | `OneBadRowCostsOneRow` |
| | `MembersStayListed` | `ListedStayListed` |
| `LoginProofs` | `TokensEndWithPassword` | `NoTokenOutlivesPassword` |
| | `JarsStayGood` | `JarStaysGood` |
| | `LocksAreEarned` | `LockIsEarned` |
| | `LocksAreKept` | `LockIsKept`, if `Lockout <= Window + 1` |
| | `PurgeLosesNothing` | `PurgeForgetsNothing` |

**The hypotheses.** They are sharp, and say something about the code.

- `ReportsAreTrue` is false of a chain that goes over superiors but has no deputy: `run_orphaned_case_sweep`
  looks for the deputy of an approved case, while the CEO could act (section 4). With a deputy, or
  on the direct path, the report is true. The same chain makes the reminder of a run fail, and the
  backfill of documents with it (`doc_documents_archived`), so `OwnedBackfillGoesOn` needs the same
  hypothesis.
- `LockIsKept` fails when a lock lasts longer than the window: a login that was let in before the
  lock and fails after the window is counted as a first failure and writes the lock away. TLC shows
  it with `Window = 2, Lockout = 4`. The code's defaults are 15 minutes for both, but
  `login_lockout_minutes` may be set up to a day (`core/integrations.py`); no login takes fifteen
  minutes, so this is remote.
- `ResultIsAPercentage` fails for stored weights that add up to 1.001 (`doc_full_marks`). For all others
  it holds; with 0.999 nobody reaches 100 without a bonus.

### The arguments

**Workflow.** Going through two dozen handlers once per property would repeat the same facts.
Instead the lemma `StepShape` says once what a step can do to the records: open a batch of drafts
(`Opened`), edit or reseat an open case (`Edited`, `Reseated`), submit, review or finalize one
(`Submitted`, `Reviewed`, `Finalized`), or nothing (`TablesUntouched`). `CaseStep` condenses the
shapes that touch one case to `OneCase`: that case is either `Kept` (status, result and seats'
presence stay) or `Stepped` through one row of the transition table, and no other case changes.
Accounts, chains and titles have shapes of their own (`AccountWritten`, `ChainWritten`,
`TitleWritten`, `PeriodWritten`, `SeatGiven`, `SeatsCopied`).

- `TypeOK` is inductive as it stands. It carries one fact that is more than typing, that an existing
  record has a subject and a CEO; without it the scorer named in a document could be NULL.
- `ResultMatchesScores`, `SnapshotIsFinal` and `OneOpenRecord` are inductive relative to `TypeOK`.
- `EveryStageSigned` is inductive relative to `TypeOK`, by `RowDemands`: a row of the table demands,
  at its target status, exactly the stages it had at its source, plus the one it signs or minus the
  one it voids. A reassignment may replace who sits in a seat but not empty or fill it, so the set of
  required stages does not move under an open case.
- `NobodyEvaluatesHimself` needs `SeatsSound`: seats are held by existing accounts only, so that an
  account created and linked later finds nobody's seat waiting for it.
- `PathFollowsTitle` rests on the guard that a title does not change under an open case, and on
  copies being made from chains that fit the title of the moment (`PathFits`). `PeriodsInOrder` is
  stated for the proof without cardinalities (`OneOpenPeriod`).
- The refinement is proved step by step: `OpenRefines` maps single and bulk opening to `Open`, and
  `CaseRefines` maps each row of the table to `Decide`, `SendBack`, `Close` or `Cancel` or, between
  review stages, to a stutter. `OneOpenRecord` supplies the guard of `Open`.

**Notices and sweeps.** `ForwardActor`: in each status exactly one seat, or HR, can take a case
forward, and it is the one that the notice and the reminder of that status go to. `SweepsOnlyLook`
carries the theorems about the workflow over to `SweepSpec`. The archive uses three of them: a closed
case stays as it is (`TerminalCasesFrozen`), so a document stays one of a final case, and a
finalized case has a complete snapshot (`FinalSnapshot`), so the query of the backfill cannot miss
it. With owned chains (`CasesStayOwned`, `OwnersKnown`) no reminder lacks its recipient, so no run
loses its work that way.

**Races.** `Relies` says what a request under way may rely on: from its row lock, or from the lock of
the audit chain, that the record it has read is the committed one. `LogTells` ties the log to the
record. The proof names no bound on requests, and covers the departure, which takes its locks in the
other order. `SomebodyCanGo` and `RequestsGoForward` are what `RequestsEnd` is about, without ENABLED:
`CanGo` writes out the guards of the steps, and TLC finds it equal to ENABLED on the requests of
`parts`. Holders of locks are at work (`HoldersWork`); if the holder of the chain waits for the
row, the holder of the row can be rejected, or it waits for the chain and the detector may pick it
(`NobodyIsStuck`).

**Outbox.** `OneRun`: a run that is under way holds the lock, and what it has read is a prefix of the
queue to which nobody has written since. `Told`: a message known to have arrived is down as sent, in
the table or in the run. With the types they make `OutboxSafe`. For the refinement a row is mapped to
a letter: its channel, its tries, and whether it is open, sent or given up. `Counted` adds that a run
has tried a row at most once (`OnceTried`), and that a row which can still be tried has a try left;
the bound `MaxAttempts + MaxTroubles` is met, since an unexpected error leaves a row "failed" however
often it was tried. `QueueForward` is the step of the queue that follows.

**Scoring.** The library's sums are `CHOOSE`n recursive functions. `AddsExists`, `AddsUnique` and
`AnyFirst` show by induction over the subsets of a finite set (`ElementByElement`) that there is one
such function and that any element may be taken first; `SumMonotone` and `SumOfPart` follow, and
`Rounding` says what rounding a quotient keeps. `PctRule`, `BaseRule`, `FinalRule` and `BandRule` go
up from a section to the consequence of a result, with the sum of the weights as the bound. The arithmetic is exact and a half is rounded up;
what binary floats do with a half is not covered, as it is kept out of the runs.

**Schemes, questions, plans.** A stamped scheme is in force or retired (`StampsStand`), since the
foreign key refuses its deletion. A submitted assessment names a version that is there
(`SubmittedStand`), and versions are only added. `QuestionsSafe` says of a publication under way that
it deletes nothing scored or answered, and of the foreign key that nothing is added to what is being
deleted (`standing`). `OwnerIsTold` and `DuePlanIsRemembered` are inductive
with the types of `PlansSafe`.

**Rights and directory.** `Vouched` is what a request about rights remembers of the state it was
checked in. `Checked` is what a parsed file keeps of its checks until its commit, with respect to the
accounts it was resolved against; imported chains satisfy the form because of it, whatever has become
of the accounts since. `EditsOK` says what a request for a unit has read and found at each of its steps:
a rename that is not overtaken takes its people from a listed name to a listed name, and a deletion
that is not overtaken leaves a name that nobody carries.

**Sessions and login guard.** A session that can still be refreshed was committed under the
password in force or slipped through, and each new password that is about to be committed will end it,
unless it slips through that one too (`SessionsFresh`): this second half is what carries the first over
the steps between an `UPDATE` and its commit. A token of the version in force was issued under the
password in force, wherever it is (`TokensFresh`); that is where accounts written over each other are
excluded, since two versions would then be the same number. `Known` says where a session may be: in one
jar, in a refresh by a tab of that device, in a request that has been granted it, or in the one answer
that brings it there. `Means` says what the row of attempts means of
the history of failures (`Run`).

**Only model-checked.** `DocumentsArchived`, `QueueDrains` and `NoDeadEnd` are liveness under
fairness, and `RequestsEnd` speaks of ENABLED: both are out of the installed provers' reach, and for
the last the two theorems about guards and progress stand in. Of `DocumentsArchived` the safety half
is proved (`ArchiveIsSound`, `OwnedBackfillGoesOn`): what is missing is seen, and each run takes some
of it away. Of `QueueDrains` it is proved that a message can be tried only so often
(`OutboxKeepsPromise`). That runs keep coming is the part that needs fairness. The
properties of the seven runs that are expected to fail are, of course, not theorems (one of them is
under a hypothesis). Induction
theorems with an operator parameter cannot be instantiated; where induction was needed it is done
over sets (`StepByStep`, `ElementByElement`, `LeastOne`).

## 7. Not modelled

- *Acknowledgement and objection* (`api/routers/me.py`, the answer in `evaluations.py`): the modules
  they belong to are locked off in `core/modules.py`, so no request reaches the code.
- *Comments on a case*, the goals of a plan, the list of eligible cases, the reminder of contracts
  that end, the read marks of notifications, module switches: rows that nothing else depends on.
- *Dashboards, reports, analytics, Excel*: read-only queries. The stays that `stage_stats` counts
  are in `RecordRaces`.
- *Rendering* of documents always succeeds; *hashes* are the identity of the row they are of.
- *Configuration, start-up checks, rate limit, frontend, migrations, deployment*: no protocol of
  their own; values from the environment are constants. Of the frontend, the refresh of tokens
  from several tabs is in `Sessions`.
- *Races across tables without a lock*: linking an account while it is seated (`users.py:211`),
  opening a case while the title changes (`personnel.py:620`). The code has no protocol there that a
  property could be about; both are gaps, and named as such.
- *A request that is aborted half-way* between its database steps in `Sessions` and `Directory` (by an
  error of the database, or as the victim of a deadlock of two renames that meet on the same people)
  leaves nothing behind, and is left out; the request that never goes on is in.
- *The lock connection dropped by the network during a run*, which would let a second leader in.

## 8. Plan

Done: the workflow with its theorems, the races on one record, sweeps, notices, outbox with leader
lock, questions, scoring, schemes, plans, directory, access.

Proved: every safety property of the passing runs that does not speak of ENABLED (section 6).

Also proved: that the outbox implements an abstract specification, and of `DocumentsArchived` and
`QueueDrains` what does not need fairness.

Left: the life of a scoring scheme has no abstract specification, because there is little to promise:
a retired scheme can come back into force (an activation still waiting to write is let through when a
stale deletion has removed the scheme in force that would have stopped it), and what must hold in
spite of that (`OneSchemeInForce`, `StampedRulesStay`) is stated and proved directly. The three hazards without a property (`PROJECT.json`) are gaps of the code where no protocol is stated that one
could be about.

## 9. How to run

    tlc -workers 2 -config workflow_case.cfg MCCase
    tlc -workers 2 -config access.cfg MCAccess
    tlc -workers 2 -config parts.cfg MCParts
    tlapm EvaluationWorkflowProofs.tla

The other configurations are run alike; `PROJECT.json` names the module of each. So are the other
seven modules of proofs; each takes from ten seconds to a few minutes.
