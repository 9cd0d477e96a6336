------------------------------- MODULE Outbox -------------------------------
(***************************************************************************)
(* Outbound delivery.  A notification and its delivery rows are written in *)
(* the transaction of the event; the periodic run sends them later.  Every *)
(* replica of the service starts runs, and an advisory lock on a           *)
(* connection of its own lets one at a time through.  A run is a           *)
(* transaction: what it sends has left the house before the rows that say  *)
(* so are committed.                                                       *)
(***************************************************************************)
EXTENDS Naturals, Sequences, FiniteSets

CONSTANTS
    Replicas, Channels,
    BatchSize, MaxAttempts, RetryBase,   \* settings.delivery_*
    DedupWindow,                         \* within_days of a reminder
    MaxRows,        \* bound: delivery rows ever made
    MaxTroubles,    \* bound: crashes, failed runs and unexpected errors
    Nobody

ASSUME OutboxAssumption ==
    /\ BatchSize \in Nat \ {0} /\ MaxAttempts \in Nat \ {0} /\ RetryBase \in Nat \ {0}
    /\ DedupWindow \in Nat \ {0} /\ MaxRows \in Nat /\ MaxTroubles \in Nat
    /\ IsFiniteSet(Channels) /\ Nobody \notin Replicas

VARIABLES
    configured,   \* channels with complete settings
    queue,        \* notification_deliveries, oldest first
    quiet,        \* time until the next reminder with the same dedup_key
    leader,       \* holder of pg_try_advisory_lock
    run,          \* per replica, the run under way
    reached,      \* history: per row, whether the message reached its recipient: "no",
                  \* "yes", or "untold" when the table cannot know it
    repeated,     \* history: a message was sent once more although it had been received
                  \* and nothing kept the table from knowing it
    troubles

outbox_vars == <<configured, queue, quiet, leader, run, reached, repeated, troubles>>

resting == [at |-> "resting"]
Delivery(channel) ==
    [channel |-> channel, status |-> "pending", attempts |-> 0, wait |-> 0]

OutboxInit ==
    /\ configured \in SUBSET Channels
    /\ queue = <<>> /\ reached = <<>> /\ repeated = FALSE
    /\ quiet = 0 /\ troubles = 0
    /\ leader = Nobody
    /\ run = [r \in Replicas |-> resting]
-----------------------------------------------------------------------------
unsettled(row) == row.status \in {"pending", "failed"}

\* The rows of a notification: one per channel that is configured and that its user wants.
rows_for(wanted) ==
    CHOOSE rows \in [1 .. Cardinality(wanted) -> {Delivery(c) : c \in wanted}] :
        {rows[i].channel : i \in DOMAIN rows} = wanted

\* The queue with new rows at its end, their history beside them.
enqueue(rows) ==
    /\ queue' = queue \o rows
    /\ reached' = reached \o [i \in DOMAIN rows |-> "no"]

room_for(wanted) == Len(queue) + Cardinality(wanted) <= MaxRows

\* A request notifies in its own transaction.  (A result would be announced to its subject while
\* the module employee_evaluation_visibility is on; core/modules.py locks that module off.)
notify(wanted) ==
    /\ wanted \subseteq configured /\ wanted # {} /\ room_for(wanted)
    /\ enqueue(rows_for(wanted))
    /\ UNCHANGED <<configured, quiet, leader, run, repeated, troubles>>

\* Mutant: every run thinks it leads.
lock_is_free_always == TRUE

lock_is_free == leader = Nobody

\* Rows whose turn has come: among the oldest 4 * BatchSize unsettled ones, those not waiting,
\* and of these the first BatchSize.
oldest(rows, n) == {i \in rows : Cardinality({j \in rows : j < i}) < n}
candidates == oldest({i \in DOMAIN queue : unsettled(queue[i])}, 4 * BatchSize)
is_due(row) == row.wait = 0
batch == oldest({i \in candidates : is_due(queue[i])}, BatchSize)

\* Mutant: an earlier reminder is not looked for.
notify_once_again == BOOLEAN

\* The reminder of the sweeps is made unless one was made within the window.
notify_once == IF quiet = 0 THEN BOOLEAN ELSE {FALSE}

\* A run that does not get the lock records that it was skipped, and nothing else.  The others
\* do the jobs before delivery.  With autoflush off, the delivery rows of the last reminder are
\* not yet in the database when delivery looks for rows: they wait for the next run.
run_sweeps_once(r) ==
    /\ run[r] = resting /\ lock_is_free
    /\ leader' = r
    /\ \E makes \in notify_once, wanted \in SUBSET configured :
          /\ IF makes THEN room_for(wanted) ELSE wanted = {}
          /\ run' = [run EXCEPT ![r] = [at |-> "delivering", makes |-> makes, wanted |-> wanted,
                                        todo |-> IF configured = {} THEN {} ELSE batch,
                                        rows |-> queue]]
    /\ UNCHANGED <<configured, queue, quiet, reached, repeated, troubles>>

exhausted(attempts) == attempts >= MaxAttempts

tried(row, status) ==
    [row EXCEPT !.attempts = @ + 1, !.status = status,
                !.wait = IF status = "failed" THEN RetryBase * 2 ^ row.attempts ELSE 0]

\* What an attempt can come to, and the status it leaves.  A channel may time out although the
\* message went through; an unexpected error leaves the row failed however often it was tried.
Outcomes == {"sent", "answer_lost", "unreachable", "refused", "unexpected"}
status_after(outcome, attempts) ==
    CASE outcome = "sent" -> "sent"
      [] outcome = "refused" -> "abandoned"
      [] outcome = "unexpected" -> "failed"
      [] OTHER -> IF exhausted(attempts) THEN "abandoned" ELSE "failed"

\* The next row of the batch.
deliver(r) ==
    /\ run[r].at = "delivering" /\ run[r].todo # {}
    /\ LET i == CHOOSE n \in run[r].todo : \A k \in run[r].todo : n <= k
           row == run[r].rows[i]
           left == [run[r] EXCEPT !.todo = @ \ {i}]
       IN  \/ /\ row.channel \notin configured   \* not set up any more: left for later
              /\ run' = [run EXCEPT ![r] = left]
              /\ UNCHANGED <<reached, repeated, troubles>>
           \/ /\ row.channel \in configured
              /\ \E outcome \in Outcomes :
                    /\ troubles' = IF outcome = "unexpected" THEN troubles + 1 ELSE troubles
                    /\ troubles' <= MaxTroubles
                    /\ run' = [run EXCEPT ![r] = [left EXCEPT !.rows[i] =
                         tried(row, status_after(outcome, row.attempts + 1))]]
                    /\ reached' = [reached EXCEPT ![i] =
                         CASE outcome = "sent" -> "yes" [] outcome = "answer_lost" -> "untold" [] OTHER -> @]
                    /\ repeated' = (repeated \/ (reached[i] = "yes" /\ outcome \in {"sent", "answer_lost"}))
    /\ UNCHANGED <<configured, queue, quiet, leader>>

\* The rows this run has changed, over what the table holds by now.
written(r) == [i \in DOMAIN queue |->
                  IF i \in DOMAIN run[r].rows /\ run[r].rows[i] # queue[i] /\ unsettled(queue[i])
                  THEN run[r].rows[i] ELSE queue[i]]

\* The commit of all jobs; then the run is recorded as succeeded and the lock released.
commit_run(r) ==
    /\ run[r].at = "delivering" /\ run[r].todo = {}
    /\ LET new == IF run[r].makes /\ run[r].wanted # {} THEN rows_for(run[r].wanted) ELSE <<>>
       IN  /\ queue' = written(r) \o new
           /\ reached' = reached \o [i \in DOMAIN new |-> "no"]
    /\ quiet' = IF run[r].makes THEN DedupWindow ELSE quiet
    /\ run' = [run EXCEPT ![r] = resting]
    /\ leader' = IF leader = r THEN Nobody ELSE leader
    /\ UNCHANGED <<configured, repeated, troubles>>

\* Mutant: the lock is released only when all went well.
released_if_well(r) == leader

\* The lock is released in a "finally"; when the process dies the server releases it.
released(r) == IF leader = r THEN Nobody ELSE leader

\* An error in a job or in the commit, or the death of the process: the rows are as before,
\* but what was sent is sent.
run_lost(r) ==
    /\ run[r] # resting /\ troubles < MaxTroubles
    /\ run' = [run EXCEPT ![r] = resting]
    /\ leader' = released(r)
    /\ reached' = [i \in DOMAIN reached |->
          IF i \in DOMAIN run[r].rows /\ run[r].rows[i].status = "sent" /\ queue[i].status # "sent"
          THEN "untold" ELSE reached[i]]
    /\ troubles' = troubles + 1
    /\ UNCHANGED <<configured, queue, quiet, repeated>>

\* A channel is set up or taken away by its settings.
configure(c) ==
    /\ configured' = IF c \in configured THEN configured \ {c} ELSE configured \cup {c}
    /\ UNCHANGED <<queue, quiet, leader, run, reached, repeated, troubles>>

\* Time between runs; a run takes seconds.
tick ==
    /\ \A r \in Replicas : run[r] = resting
    /\ quiet' = IF quiet > 0 THEN quiet - 1 ELSE 0
    /\ queue' = [i \in DOMAIN queue |->
          [queue[i] EXCEPT !.wait = IF @ > 0 /\ unsettled(queue[i]) THEN @ - 1 ELSE 0]]
    /\ UNCHANGED <<configured, leader, run, reached, repeated, troubles>>

sweep(r) == run_sweeps_once(r) \/ deliver(r) \/ commit_run(r)

OutboxNext ==
    \/ \E wanted \in SUBSET Channels : notify(wanted)
    \/ \E r \in Replicas : sweep(r) \/ run_lost(r)
    \/ \E c \in Channels : configure(c)
    \/ tick

\* The loop of a replica never ends (an error is logged and the loop goes on) and sleeps
\* between runs, so that time passes while no run is under way.
OutboxFairness == SF_outbox_vars(tick) /\ WF_outbox_vars(\E r \in Replicas : sweep(r))

OutboxSpec == OutboxInit /\ [][OutboxNext]_outbox_vars /\ OutboxFairness
-----------------------------------------------------------------------------
\* A message reaches its recipient twice only if the first time could not be recorded: the
\* channel gave no answer, or the run was lost before its commit.
NoNeedlessRepeat == ~repeated

\* However many replicas run: two reminders of one kind are a window apart.
RemindersAreSpaced == [][\A r \in Replicas : commit_run(r) /\ run[r].makes => quiet = 0]_outbox_vars

settles(i) == [](i \in DOMAIN queue => <>(i \in DOMAIN queue /\ queue[i].status \in {"sent", "abandoned"}))

\* Once the channels stay set up, every row is in the end sent or given up, in spite of lost
\* runs, crashed leaders and services that are down.
QueueDrains == <>[](configured = Channels) => \A i \in 1 .. MaxRows : settles(i)

\* "A row that tries for ever closes the queue for the others" (delivery.py), which is why rows
\* are given up: the rows of a channel that stays set up are settled, whatever the others do.
QueueStaysOpen ==
    \A i \in 1 .. MaxRows :
        <>[](i \in DOMAIN queue => queue[i].channel \in configured) => settles(i)
=============================================================================
