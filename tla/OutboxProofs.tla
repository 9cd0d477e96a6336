---------------------------- MODULE OutboxProofs ----------------------------
(***************************************************************************)
(* What holds of Outbox for any number of replicas, channels and rows, and *)
(* any number of crashes: no message is sent again needlessly, and the     *)
(* reminders of one kind are a window apart.                               *)
(*                                                                         *)
(* Both rest on the lock (OneRun): what a run has read of the queue is     *)
(* still there when it commits, because only the leader writes to it and   *)
(* the others add rows at its end.                                         *)
(***************************************************************************)
EXTENDS Outbox, FiniteSetTheorems, TLAPS

Row == [channel : Channels, status : {"pending", "failed", "sent", "abandoned"},
        attempts : Nat, wait : Int]
Run == {resting} \cup [at : {"delivering"}, makes : BOOLEAN, wanted : SUBSET Channels,
                       todo : SUBSET Nat, rows : Seq(Row)]

\* Every table keeps its type, and every row its history.
OutboxTypeOK ==
    /\ configured \subseteq Channels
    /\ queue \in Seq(Row)
    /\ reached \in Seq({"no", "yes", "untold"}) /\ Len(reached) = Len(queue)
    /\ quiet \in Nat
    /\ run \in [Replicas -> Run]

\* A run reads the queue, and nobody writes to what it has read: a row is as the table has it,
\* or unsettled there and tried by the run; a row still to be tried is as the table has it.
OwnRun(r) ==
    /\ leader = r
    /\ run[r].makes => quiet = 0
    /\ Len(run[r].rows) <= Len(queue)
    /\ run[r].todo \subseteq 1 .. Len(run[r].rows)
    /\ \A i \in 1 .. Len(run[r].rows) : run[r].rows[i] = queue[i] \/ unsettled(queue[i])
    /\ \A i \in run[r].todo : run[r].rows[i] = queue[i] /\ unsettled(queue[i])

OneRun == \A r \in Replicas : run[r] # resting => OwnRun(r)

\* What is known to have reached its recipient is down as sent, in the table or in the run.
Told ==
    \A i \in 1 .. Len(queue) :
        reached[i] = "yes" =>
            \/ queue[i].status = "sent"
            \/ \E r \in Replicas : /\ run[r] # resting
                                   /\ i \in 1 .. Len(run[r].rows)
                                   /\ run[r].rows[i].status = "sent"

OutboxSafe == OutboxTypeOK /\ OneRun /\ Told /\ ~repeated
-----------------------------------------------------------------------------
\* A set of numbers that is not empty has a least one.
LEMMA LeastOne ==
    ASSUME NEW S \in SUBSET Nat, S # {}
    PROVE  \E n \in S : \A k \in S : n <= k
<1> DEFINE Below == OpToRel(<, Nat)
<1>1. IsWellFoundedOn(Below, Nat)
  BY NatLessThanWellFounded
<1>2. PICK n \in S : \A k \in S : <<k, n>> \notin Below
  <2> HIDE DEF Below
  <2> QED
    BY <1>1, WFMin
<1>3. \A k \in S : ~ (k < n)
  BY <1>2 DEF OpToRel
<1> HIDE DEF Below
<1> QED
  BY <1>3

\* What a sequence holds once another is put at its end.
LEMMA AtTheEnd ==
    ASSUME NEW S, NEW s \in Seq(S), NEW t \in Seq(S)
    PROVE  /\ s \o t \in Seq(S) /\ Len(s \o t) = Len(s) + Len(t)
           /\ \A i \in 1 .. Len(s) : (s \o t)[i] = s[i]
           /\ \A i \in Len(s) + 1 .. Len(s) + Len(t) : (s \o t)[i] = t[i - Len(s)]
OBVIOUS

\* A sequence with one element changed.
LEMMA OneChanged ==
    ASSUME NEW S, NEW s \in Seq(S), NEW i \in 1 .. Len(s), NEW e \in S
    PROVE  /\ [s EXCEPT ![i] = e] \in Seq(S) /\ Len([s EXCEPT ![i] = e]) = Len(s)
           /\ [s EXCEPT ![i] = e][i] = e
           /\ \A k \in 1 .. Len(s) : k # i => [s EXCEPT ![i] = e][k] = s[k]
<1>1. PICK n \in Nat : n = Len(s) /\ s \in [1 .. n -> S]
  OBVIOUS
<1>2. [s EXCEPT ![i] = e] \in [1 .. n -> S]
  BY <1>1
<1> QED
  BY <1>1, <1>2

\* The history of new rows.
untried(new) == [i \in DOMAIN new |-> "no"]

\* The history stays beside the queue when new rows are put at its end.
LEMMA HistoryOfNewRows ==
    ASSUME NEW told \in Seq({"no", "yes", "untold"}), NEW new \in Seq(Row)
    PROVE  /\ told \o untried(new) \in Seq({"no", "yes", "untold"})
           /\ Len(told \o untried(new)) = Len(told) + Len(new)
           /\ \A i \in 1 .. Len(told) : (told \o untried(new))[i] = told[i]
           /\ \A i \in Len(told) + 1 .. Len(told) + Len(new) : (told \o untried(new))[i] = "no"
<1> DEFINE nos == untried(new)
<1>1. nos \in Seq({"no", "yes", "untold"}) /\ Len(nos) = Len(new)
      /\ \A i \in 1 .. Len(new) : nos[i] = "no"
  <2>1. nos = [i \in 1 .. Len(new) |-> "no"]
    BY DEF untried
  <2> HIDE DEF nos
  <2> QED
    BY <2>1
<1> HIDE DEF nos
<1>2. /\ told \o nos \in Seq({"no", "yes", "untold"}) /\ Len(told \o nos) = Len(told) + Len(nos)
      /\ \A i \in 1 .. Len(told) : (told \o nos)[i] = told[i]
      /\ \A i \in Len(told) + 1 .. Len(told) + Len(nos) : (told \o nos)[i] = nos[i - Len(told)]
  <2>1. PICK more \in Seq({"no", "yes", "untold"}) : more = nos
    BY <1>1
  <2>2. /\ told \o more \in Seq({"no", "yes", "untold"}) /\ Len(told \o more) = Len(told) + Len(more)
        /\ \A i \in 1 .. Len(told) : (told \o more)[i] = told[i]
        /\ \A i \in Len(told) + 1 .. Len(told) + Len(more) : (told \o more)[i] = more[i - Len(told)]
    BY AtTheEnd, Zenon
  <2> QED
    BY ONLY <2>1, <2>2
<1>3. \A i \in Len(told) + 1 .. Len(told) + Len(new) : i - Len(told) \in 1 .. Len(new)
  BY Len(told) \in Nat, Len(new) \in Nat
<1>4. ASSUME NEW i \in Len(told) + 1 .. Len(told) + Len(new)
      PROVE  (told \o nos)[i] = "no"
  <2>1. (told \o nos)[i] = nos[i - Len(told)]
    BY <1>1, <1>2
  <2> QED
    BY <1>1, <1>3, <2>1
<1>5. told \o nos \in Seq({"no", "yes", "untold"}) /\ Len(told \o nos) = Len(told) + Len(new)
  BY <1>1, <1>2
<1> QED
  BY <1>2, <1>4, <1>5 DEF nos

\* The rows of a notification are rows, new and on a channel each.
LEMMA RowsAreRows ==
    ASSUME NEW wanted \in SUBSET Channels
    PROVE  /\ rows_for(wanted) \in Seq(Row)
           /\ \A i \in 1 .. Len(rows_for(wanted)) : \E c \in Channels : rows_for(wanted)[i] = Delivery(c)
<1> DEFINE n == Cardinality(wanted)
           Fits(rows) == {rows[i].channel : i \in DOMAIN rows} = wanted
<1>1. n \in Nat /\ ExistsBijection(1 .. n, wanted)
  BY OutboxAssumption, FS_Subset, FS_CardinalityType
<1>2. PICK f \in [1 .. n -> wanted] : \A c \in wanted : \E i \in 1 .. n : f[i] = c
  BY <1>1 DEF ExistsBijection, Bijection, Surjection, Injection
<1> DEFINE rows == [i \in 1 .. n |-> Delivery(f[i])]
<1>3. rows \in [1 .. n -> {Delivery(c) : c \in wanted}]
  BY <1>2
<1>4. Fits(rows)
  <2>1. \A i \in 1 .. n : rows[i].channel = f[i]
    BY DEF Delivery
  <2> QED
    BY <1>2, <2>1
<1>5. rows_for(wanted) \in [1 .. n -> {Delivery(c) : c \in wanted}]
  <2>1. \E some \in [1 .. n -> {Delivery(c) : c \in wanted}] : Fits(some)
    <3> HIDE DEF Fits, rows
    <3> QED
      BY <1>3, <1>4
  <2> QED
    BY <2>1 DEF rows_for
<1>6. {Delivery(c) : c \in wanted} \subseteq Row
  BY DEF Delivery, Row
<1>7. rows_for(wanted) \in [1 .. n -> Row]
  BY <1>5, <1>6
<1> HIDE DEF n, rows
<1>8. rows_for(wanted) \in Seq(Row) /\ Len(rows_for(wanted)) = n
  BY <1>1, <1>7
<1>9. ASSUME NEW i \in 1 .. n PROVE \E c \in Channels : rows_for(wanted)[i] = Delivery(c)
  BY <1>5
<1> QED
  BY <1>8, <1>9
-----------------------------------------------------------------------------
\* An empty queue and resting replicas are sound.
LEMMA OutboxStarts ==
    OutboxInit => OutboxSafe
<1> SUFFICES ASSUME OutboxInit
             PROVE  OutboxSafe
  OBVIOUS
<1>1. OutboxTypeOK
  BY DEF OutboxInit, OutboxTypeOK, Run
<1>2. OneRun
  BY DEF OutboxInit, OneRun
<1>3. Told
  BY DEF OutboxInit, Told
<1> QED
  BY <1>1, <1>2, <1>3 DEF OutboxInit, OutboxSafe

\* New rows at the end disturb no run and no history.
LEMMA EnqueueIsSafe ==
    ASSUME OutboxSafe, NEW wanted, notify(wanted)
    PROVE  OutboxSafe'
<1> USE DEF OutboxSafe
<1>1. /\ wanted \in SUBSET Channels
      /\ queue' = queue \o rows_for(wanted)
      /\ reached' = reached \o [i \in DOMAIN rows_for(wanted) |-> "no"]
      /\ UNCHANGED <<configured, quiet, leader, run>>
      /\ repeated' = repeated
  BY DEF notify, enqueue, OutboxTypeOK
<1>2. PICK new \in Seq(Row) : new = rows_for(wanted)
  BY <1>1, RowsAreRows
<1>3. PICK n \in Nat, m \in Nat : n = Len(queue) /\ m = Len(new)
  BY DEF OutboxTypeOK
<1>4. /\ queue' \in Seq(Row) /\ Len(queue') = n + m
      /\ \A i \in 1 .. n : queue'[i] = queue[i]
  BY <1>1, <1>2, <1>3 DEF OutboxTypeOK
<1>5. /\ reached' \in Seq({"no", "yes", "untold"}) /\ Len(reached') = n + m
      /\ \A i \in 1 .. n : reached'[i] = reached[i]
      /\ \A i \in n + 1 .. n + m : reached'[i] = "no"
  <2>1. PICK told \in Seq({"no", "yes", "untold"}) : told = reached /\ Len(told) = n
    BY <1>3 DEF OutboxTypeOK
  <2>2. PICK after : after = reached' /\ after = told \o untried(new)
    BY <1>1, <1>2, <2>1 DEF untried
  <2>3. /\ after \in Seq({"no", "yes", "untold"}) /\ Len(after) = Len(told) + Len(new)
        /\ \A i \in 1 .. Len(told) : after[i] = told[i]
        /\ \A i \in Len(told) + 1 .. Len(told) + Len(new) : after[i] = "no"
    BY <2>2, HistoryOfNewRows
  <2> QED
    BY <1>3, <2>1, <2>2, <2>3
<1>6. OutboxTypeOK'
  BY <1>1, <1>4, <1>5 DEF OutboxTypeOK
<1>7. OneRun'
  <2> SUFFICES ASSUME NEW r \in Replicas, run[r] # resting
               PROVE  OwnRun(r)'
    BY <1>1 DEF OneRun
  <2>1. OwnRun(r) /\ run'[r] = run[r]
    BY <1>1 DEF OneRun
  <2>2. run[r].rows \in Seq(Row) /\ run[r].todo \subseteq Nat
    BY DEF OutboxTypeOK, Run
  <2>3. PICK rows \in Seq(Row) : rows = run[r].rows
    BY <2>2
  <2>4. PICK k \in Nat : k = Len(rows)
    OBVIOUS
  <2>5. k <= n
    BY <1>3, <2>1, <2>3, <2>4 DEF OwnRun
  <2>6. \A i \in 1 .. k : queue'[i] = queue[i]
    BY <1>4, <2>5
  <2>7. \A i \in 1 .. k : rows[i] = queue'[i] \/ unsettled(queue'[i])
    BY <2>1, <2>3, <2>4, <2>6 DEF OwnRun
  <2>8. run[r].todo \subseteq 1 .. k /\ \A i \in run[r].todo : rows[i] = queue'[i] /\ unsettled(queue'[i])
    BY <2>1, <2>3, <2>4, <2>6 DEF OwnRun
  <2>9. k <= Len(queue')
    BY <1>4, <2>5
  <2> QED
    BY <1>1, <2>1, <2>3, <2>4, <2>7, <2>8, <2>9 DEF OwnRun, unsettled
<1>8. Told'
  <2> SUFFICES ASSUME NEW i \in 1 .. n + m, reached'[i] = "yes"
               PROVE  \/ queue'[i].status = "sent"
                      \/ \E r \in Replicas : /\ run[r] # resting
                                             /\ i \in 1 .. Len(run[r].rows)
                                             /\ run[r].rows[i].status = "sent"
    BY <1>1, <1>4 DEF Told
  <2>1. i \in 1 .. n
    BY <1>5
  <2> QED
    BY <1>3, <1>4, <1>5, <2>1 DEF Told
<1> QED
  BY <1>1, <1>6, <1>7, <1>8

\* The leader starts with the queue as it is.
LEMMA StartIsSafe ==
    ASSUME OutboxSafe, NEW r \in Replicas, run_sweeps_once(r)
    PROVE  OutboxSafe'
<1> USE DEF OutboxSafe
<1>1. /\ run[r] = resting /\ leader = Nobody /\ leader' = r
      /\ UNCHANGED <<configured, queue, quiet, reached>>
      /\ repeated' = repeated
  BY DEF run_sweeps_once, lock_is_free
<1>2. \A q \in Replicas : run[q] = resting
  BY <1>1, OutboxAssumption DEF OneRun, OwnRun
<1>3. PICK makes \in notify_once, wanted \in SUBSET configured :
        run' = [run EXCEPT ![r] = [at |-> "delivering", makes |-> makes, wanted |-> wanted,
                                   todo |-> IF configured = {} THEN {} ELSE batch,
                                   rows |-> queue]]
  BY DEF run_sweeps_once
<1>4. makes \in BOOLEAN /\ (makes => quiet = 0)
  BY DEF notify_once
<1>5. PICK n \in Nat : n = Len(queue) /\ DOMAIN queue = 1 .. n
  BY DEF OutboxTypeOK
<1>6. batch \subseteq 1 .. n /\ \A i \in batch : unsettled(queue[i])
  BY <1>5 DEF batch, candidates, oldest
<1> DEFINE todo == IF configured = {} THEN {} ELSE batch
<1>7. todo \subseteq 1 .. n /\ \A i \in todo : unsettled(queue[i])
  BY <1>6
<1>8. /\ run'[r] = [at |-> "delivering", makes |-> makes, wanted |-> wanted,
                    todo |-> todo, rows |-> queue]
      /\ \A q \in Replicas \ {r} : run'[q] = resting
  BY <1>2, <1>3 DEF OutboxTypeOK
<1> HIDE DEF todo
<1>9. OutboxTypeOK'
  <2>1. wanted \subseteq Channels /\ todo \subseteq Nat /\ queue \in Seq(Row)
    BY <1>7 DEF OutboxTypeOK
  <2>2. run'[r] \in Run
    BY <1>4, <1>8, <2>1 DEF Run
  <2>3. run' \in [Replicas -> Run]
    BY <1>3, <1>8, <2>2 DEF OutboxTypeOK, Run
  <2> QED
    BY <1>1, <2>3 DEF OutboxTypeOK
<1>10. OneRun'
  <2> SUFFICES ASSUME NEW q \in Replicas, run'[q] # resting
               PROVE  OwnRun(q)'
    BY DEF OneRun
  <2>1. q = r
    BY <1>8
  <2> QED
    BY <1>1, <1>4, <1>5, <1>7, <1>8, <2>1 DEF OwnRun, unsettled
<1>11. Told'
  BY <1>1, <1>2 DEF Told
<1> QED
  BY <1>1, <1>9, <1>10, <1>11

\* While one run is under way the others rest.
LEMMA OneAtATime ==
    ASSUME OneRun, NEW r \in Replicas, run[r] # resting
    PROVE  OwnRun(r) /\ \A q \in Replicas \ {r} : run[q] = resting
BY DEF OneRun, OwnRun

\* An attempt leaves a row that says what is known of it.
LEMMA TriedRow ==
    ASSUME NEW row \in Row, NEW outcome \in Outcomes, NEW after,
           after = tried(row, status_after(outcome, row.attempts + 1))
    PROVE  after \in Row /\ (outcome = "sent" => after.status = "sent")
<1>1. PICK status \in {"pending", "failed", "sent", "abandoned"} :
        /\ status = status_after(outcome, row.attempts + 1)
        /\ outcome = "sent" => status = "sent"
  BY DEF status_after, Outcomes
<1>2. PICK attempts \in Nat : attempts = row.attempts
  BY DEF Row
<1>3. PICK wait \in Int : wait = IF status = "failed" THEN RetryBase * 2 ^ attempts ELSE 0
  <2>1. RetryBase * 2 ^ attempts \in Int
    BY OutboxAssumption
  <2> QED
    BY <2>1
<1>4. after = [row EXCEPT !.attempts = attempts + 1, !.status = status, !.wait = wait]
  BY <1>1, <1>2, <1>3 DEF tried
<1>5. after \in Row
  <2>1. attempts + 1 \in Nat
    OBVIOUS
  <2> QED
    BY <1>4, <2>1 DEF Row
<1>6. after.status = status
  BY <1>4 DEF Row
<1> QED
  BY <1>1, <1>5, <1>6

\* The next row of the batch is as the table has it: not settled, and so not known to have
\* reached anybody.
LEMMA NextRow ==
    ASSUME OutboxSafe, NEW r \in Replicas, run[r].at = "delivering", run[r].todo # {},
           NEW i, i = CHOOSE n \in run[r].todo : \A k \in run[r].todo : n <= k
    PROVE  /\ i \in run[r].todo
           /\ i \in 1 .. Len(run[r].rows) /\ i \in 1 .. Len(queue)
           /\ run[r].rows[i] = queue[i] /\ unsettled(queue[i])
           /\ reached[i] # "yes"
<1> USE DEF OutboxSafe
<1>1. run[r] # resting
  BY DEF resting
<1>2. OwnRun(r) /\ \A q \in Replicas \ {r} : run[q] = resting
  BY <1>1, OneAtATime
<1>3. run[r].rows \in Seq(Row) /\ run[r].todo \in SUBSET Nat
  BY <1>1 DEF OutboxTypeOK, Run
<1>4. i \in run[r].todo
  <2>1. \E n \in run[r].todo : \A k \in run[r].todo : n <= k
    BY <1>3, LeastOne
  <2> QED
    BY <2>1
<1>5. /\ i \in 1 .. Len(run[r].rows) /\ run[r].rows[i] = queue[i] /\ unsettled(queue[i])
      /\ Len(run[r].rows) <= Len(queue)
  BY <1>2, <1>4 DEF OwnRun
<1>6. i \in 1 .. Len(queue)
  BY <1>3, <1>5, Len(run[r].rows) \in Nat, Len(queue) \in Nat DEF OutboxTypeOK
<1>7. reached[i] # "yes"
  BY <1>2, <1>5, <1>6 DEF Told, unsettled
<1> QED
  BY <1>4, <1>5, <1>6, <1>7

\* A row of a channel that is not set up is passed over.
LEMMA PassIsSafe ==
    ASSUME OutboxSafe, NEW r \in Replicas, run[r] # resting, NEW i,
           run' = [run EXCEPT ![r] = [run[r] EXCEPT !.todo = @ \ {i}]],
           UNCHANGED <<configured, queue, quiet, leader, reached>>, repeated' = repeated
    PROVE  OutboxSafe'
<1> USE DEF OutboxSafe
<1>1. OwnRun(r) /\ \A q \in Replicas \ {r} : run[q] = resting
  BY OneAtATime
<1>2. run[r] \in Run \ {resting}
  BY DEF OutboxTypeOK
<1>3. /\ run'[r] = [run[r] EXCEPT !.todo = @ \ {i}]
      /\ \A q \in Replicas \ {r} : run'[q] = run[q]
  BY DEF OutboxTypeOK
<1>4. /\ run'[r] \in Run /\ run'[r].todo = run[r].todo \ {i}
      /\ run'[r].rows = run[r].rows /\ run'[r].makes = run[r].makes
      /\ run'[r] # resting
  BY <1>2, <1>3 DEF Run, resting
<1>5. OutboxTypeOK'
  <2>1. run' \in [Replicas -> Run]
    BY <1>4 DEF OutboxTypeOK
  <2> QED
    BY <2>1 DEF OutboxTypeOK
<1>6. OneRun'
  <2> SUFFICES ASSUME NEW q \in Replicas, run'[q] # resting
               PROVE  OwnRun(q)'
    BY DEF OneRun
  <2>1. q = r
    BY <1>1, <1>3
  <2> QED
    BY <1>1, <1>4, <2>1 DEF OwnRun, unsettled
<1>7. Told'
  <2> SUFFICES ASSUME NEW k \in 1 .. Len(queue), reached[k] = "yes", queue[k].status # "sent"
               PROVE  \E q \in Replicas : /\ run'[q] # resting
                                          /\ k \in 1 .. Len(run'[q].rows)
                                          /\ run'[q].rows[k].status = "sent"
    BY DEF Told
  <2>1. k \in 1 .. Len(run[r].rows) /\ run[r].rows[k].status = "sent"
    BY <1>1 DEF Told
  <2> QED
    BY <1>4, <2>1
<1> QED
  BY <1>5, <1>6, <1>7

\* An attempt changes the run's copy of a row, and nothing of the table.
LEMMA AttemptIsSafe ==
    ASSUME OutboxSafe, NEW r \in Replicas, run[r] # resting,
           NEW i \in run[r].todo, reached[i] # "yes",
           NEW after \in Row, NEW word \in {"no", "yes", "untold"},
           word = "yes" => after.status = "sent",
           run' = [run EXCEPT ![r] = [run[r] EXCEPT !.todo = run[r].todo \ {i},
                                                    !.rows = [run[r].rows EXCEPT ![i] = after]]],
           reached' = [reached EXCEPT ![i] = word],
           UNCHANGED <<configured, queue, quiet, leader>>, ~repeated'
    PROVE  OutboxSafe'
<1> USE DEF OutboxSafe
<1>1. OwnRun(r) /\ \A q \in Replicas \ {r} : run[q] = resting
  BY OneAtATime
<1>2. PICK rows \in Seq(Row), todo \in SUBSET Nat : rows = run[r].rows /\ todo = run[r].todo
  BY DEF OutboxTypeOK, Run
<1>3. /\ i \in 1 .. Len(rows) /\ i \in todo /\ todo \subseteq 1 .. Len(rows)
      /\ Len(rows) <= Len(queue)
      /\ \A k \in 1 .. Len(rows) : rows[k] = queue[k] \/ unsettled(queue[k])
      /\ \A k \in todo : rows[k] = queue[k] /\ unsettled(queue[k])
  BY <1>1, <1>2 DEF OwnRun
<1>4. PICK copy \in Seq(Row) : /\ copy = [rows EXCEPT ![i] = after]
                               /\ Len(copy) = Len(rows)
                               /\ copy[i] = after
                               /\ \A k \in 1 .. Len(rows) : k # i => copy[k] = rows[k]
  <2>1. i \in 1 .. Len(rows)
    BY <1>3
  <2>2. /\ [rows EXCEPT ![i] = after] \in Seq(Row) /\ Len([rows EXCEPT ![i] = after]) = Len(rows)
        /\ [rows EXCEPT ![i] = after][i] = after
        /\ \A k \in 1 .. Len(rows) : k # i => [rows EXCEPT ![i] = after][k] = rows[k]
    BY <2>1, OneChanged
  <2> QED
    BY <2>2, Zenon
<1>5. run[r] \in Run \ {resting} /\ run \in [Replicas -> Run]
  BY DEF OutboxTypeOK
<1>6. /\ run'[r] = [run[r] EXCEPT !.todo = todo \ {i}, !.rows = copy]
      /\ \A q \in Replicas \ {r} : run'[q] = run[q]
  BY <1>2, <1>4, <1>5
<1>7. /\ run'[r] \in Run /\ run'[r].todo = todo \ {i} /\ run'[r].rows = copy
      /\ run'[r].makes = run[r].makes /\ run'[r] # resting
  <2>1. todo \ {i} \in SUBSET Nat
    OBVIOUS
  <2> QED
    BY <1>5, <1>6, <2>1 DEF Run, resting
<1>8. OutboxTypeOK'
  <2>1. run' \in [Replicas -> Run]
    BY <1>5, <1>6, <1>7
  <2>2. reached' \in Seq({"no", "yes", "untold"}) /\ Len(reached') = Len(reached)
    <3>1. reached \in Seq({"no", "yes", "untold"}) /\ i \in 1 .. Len(reached)
      BY <1>3 DEF OutboxTypeOK
    <3> QED
      BY <3>1, OneChanged
  <2> QED
    BY <2>1, <2>2 DEF OutboxTypeOK
<1>9. OneRun'
  <2> SUFFICES ASSUME NEW q \in Replicas, run'[q] # resting
               PROVE  OwnRun(q)'
    BY DEF OneRun
  <2>1. q = r
    BY <1>1, <1>6
  <2>2. \A k \in 1 .. Len(copy) : copy[k] = queue[k] \/ unsettled(queue[k])
    BY <1>3, <1>4
  <2>3. \A k \in todo \ {i} : copy[k] = queue[k] /\ unsettled(queue[k])
    BY <1>3, <1>4
  <2>4. todo \ {i} \subseteq 1 .. Len(copy) /\ Len(copy) <= Len(queue)
    BY <1>3, <1>4
  <2> QED
    BY <1>1, <1>7, <2>1, <2>2, <2>3, <2>4 DEF OwnRun, unsettled
<1>10. Told'
  <2> SUFFICES ASSUME NEW k \in 1 .. Len(queue), reached'[k] = "yes", queue[k].status # "sent"
               PROVE  k \in 1 .. Len(copy) /\ copy[k].status = "sent"
    BY <1>7 DEF Told
  <2>0. DOMAIN reached = 1 .. Len(queue)
    BY DEF OutboxTypeOK
  <2>1. CASE k = i
    BY <1>3, <1>4, <2>0, <2>1
  <2>2. CASE k # i
    <3>1. reached[k] = "yes"
      BY <2>0, <2>2
    <3>2. k \in 1 .. Len(rows) /\ rows[k].status = "sent"
      BY <1>1, <1>2, <3>1 DEF Told
    <3> QED
      BY <1>4, <2>2, <3>2
  <2> QED
    BY <2>1, <2>2
<1> QED
  BY <1>8, <1>9, <1>10

\* The next row of the batch, whatever becomes of it.
LEMMA DeliveryIsSafe ==
    ASSUME OutboxSafe, NEW r \in Replicas, deliver(r)
    PROVE  OutboxSafe'
<1>1. PICK i : i = CHOOSE n \in run[r].todo : \A k \in run[r].todo : n <= k
  OBVIOUS
<1>2. /\ run[r].at = "delivering" /\ run[r].todo # {}
      /\ UNCHANGED <<configured, queue, quiet, leader>>
  BY DEF deliver
<1>3. run[r] # resting
  BY <1>2 DEF resting
<1>4. /\ i \in run[r].todo /\ i \in 1 .. Len(run[r].rows) /\ i \in 1 .. Len(queue)
      /\ reached[i] # "yes"
  BY <1>1, <1>2, NextRow
<1>5. \/ /\ run' = [run EXCEPT ![r] = [run[r] EXCEPT !.todo = @ \ {i}]]
         /\ UNCHANGED <<reached, repeated>>
      \/ \E outcome \in Outcomes :
            /\ run' = [run EXCEPT ![r] =
                 [[run[r] EXCEPT !.todo = @ \ {i}] EXCEPT
                    !.rows[i] = tried(run[r].rows[i],
                                      status_after(outcome, run[r].rows[i].attempts + 1))]]
            /\ reached' = [reached EXCEPT ![i] =
                 CASE outcome = "sent" -> "yes" [] outcome = "answer_lost" -> "untold" [] OTHER -> @]
            /\ repeated' = (repeated \/ (reached[i] = "yes" /\ outcome \in {"sent", "answer_lost"}))
  BY <1>1, Zenon DEF deliver
<1>6. CASE /\ run' = [run EXCEPT ![r] = [run[r] EXCEPT !.todo = @ \ {i}]]
           /\ UNCHANGED <<reached, repeated>>
  <2>1. UNCHANGED <<configured, queue, quiet, leader, reached>> /\ repeated' = repeated
    BY <1>2, <1>6
  <2> QED
    BY <1>3, <1>6, <2>1, PassIsSafe
<1>7. ASSUME NEW outcome \in Outcomes,
             run' = [run EXCEPT ![r] =
               [[run[r] EXCEPT !.todo = @ \ {i}] EXCEPT
                  !.rows[i] = tried(run[r].rows[i],
                                    status_after(outcome, run[r].rows[i].attempts + 1))]],
             reached' = [reached EXCEPT ![i] =
               CASE outcome = "sent" -> "yes" [] outcome = "answer_lost" -> "untold" [] OTHER -> @],
             repeated' = (repeated \/ (reached[i] = "yes" /\ outcome \in {"sent", "answer_lost"}))
      PROVE  OutboxSafe'
  <2>1. ~repeated'
    BY <1>4, <1>7, Zenon DEF OutboxSafe
  <2>2. run \in [Replicas -> Run] /\ run[r] \in Run \ {resting} /\ run[r].rows \in Seq(Row)
    BY <1>3 DEF OutboxSafe, OutboxTypeOK, Run
  <2>3. run[r].rows[i] \in Row
    BY <1>4, <2>2
  <2>4. PICK after \in Row :
          /\ after = tried(run[r].rows[i], status_after(outcome, run[r].rows[i].attempts + 1))
          /\ outcome = "sent" => after.status = "sent"
    BY <1>7, <2>3, TriedRow
  <2>5. PICK word \in {"no", "yes", "untold"} :
          /\ reached' = [reached EXCEPT ![i] = word]
          /\ word = "yes" => outcome = "sent"
    <3> DEFINE w == CASE outcome = "sent" -> "yes" [] outcome = "answer_lost" -> "untold"
                      [] OTHER -> reached[i]
    <3>1. reached[i] \in {"no", "untold"}
      BY <1>4 DEF OutboxSafe, OutboxTypeOK
    <3>2. w \in {"no", "yes", "untold"} /\ (w = "yes" => outcome = "sent")
      BY <3>1
    <3>3. reached' = [reached EXCEPT ![i] = w]
      BY <1>7
    <3> HIDE DEF w
    <3> QED
      BY <3>2, <3>3
  <2>6. run' = [run EXCEPT ![r] = [run[r] EXCEPT !.todo = run[r].todo \ {i},
                                                 !.rows = [run[r].rows EXCEPT ![i] = after]]]
    BY <1>7, <2>2, <2>4 DEF Run, resting
  <2> QED
    BY <1>2, <1>3, <1>4, <2>1, <2>4, <2>5, <2>6, AttemptIsSafe
<1> QED
  BY <1>5, <1>6, <1>7

\* What a run has tried replaces what the table has, and nothing settled is touched.
LEMMA WrittenRows ==
    ASSUME OutboxSafe, NEW r \in Replicas, run[r] # resting
    PROVE  /\ written(r) \in Seq(Row) /\ Len(written(r)) = Len(queue)
           /\ \A i \in 1 .. Len(queue) :
                 reached[i] = "yes" => written(r)[i].status = "sent"
<1>1. OwnRun(r) /\ \A q \in Replicas \ {r} : run[q] = resting
  BY OneAtATime DEF OutboxSafe
<1>2. PICK rows \in Seq(Row) : rows = run[r].rows
  BY DEF OutboxSafe, OutboxTypeOK, Run
<1>3. PICK n \in Nat, m \in Nat : /\ n = Len(queue) /\ m = Len(rows) /\ m <= n
                                  /\ DOMAIN rows = 1 .. m
  BY <1>1, <1>2 DEF OutboxSafe, OutboxTypeOK, OwnRun
<1>4. queue \in [1 .. n -> Row] /\ rows \in [1 .. m -> Row] /\ DOMAIN queue = 1 .. n
  BY <1>3 DEF OutboxSafe, OutboxTypeOK
<1>5. written(r) = [i \in 1 .. n |-> IF i \in 1 .. m /\ rows[i] # queue[i] /\ unsettled(queue[i])
                                     THEN rows[i] ELSE queue[i]]
  BY <1>2, <1>3, <1>4, Zenon DEF written
<1>6. written(r) \in [1 .. n -> Row]
  BY <1>4, <1>5
<1>7. ASSUME NEW i \in 1 .. n, reached[i] = "yes"
      PROVE  written(r)[i].status = "sent"
  <2>1. queue[i].status = "sent" \/ (i \in 1 .. m /\ rows[i].status = "sent")
    BY <1>1, <1>2, <1>3, <1>7 DEF OutboxSafe, Told
  <2>2. i \in 1 .. m => rows[i] = queue[i] \/ unsettled(queue[i])
    BY <1>1, <1>2, <1>3 DEF OwnRun
  <2>3. written(r)[i] = IF i \in 1 .. m /\ rows[i] # queue[i] /\ unsettled(queue[i])
                        THEN rows[i] ELSE queue[i]
    BY <1>5
  <2>4. CASE queue[i].status = "sent"
    <3>1. ~ unsettled(queue[i])
      BY <2>4 DEF unsettled
    <3> QED
      BY <2>3, <2>4, <3>1
  <2>5. CASE queue[i].status # "sent"
    BY <2>1, <2>2, <2>3, <2>5
  <2> QED
    BY <2>4, <2>5
<1> QED
  BY <1>3, <1>6, <1>7

\* The commit: what the run knows is in the table, and the run rests.
LEMMA CommitIsSafe ==
    ASSUME OutboxSafe, NEW r \in Replicas, commit_run(r)
    PROVE  OutboxSafe'
<1>1. run[r] # resting
  BY DEF commit_run, resting
<1>2. OwnRun(r) /\ \A q \in Replicas \ {r} : run[q] = resting
  BY <1>1, OneAtATime DEF OutboxSafe
<1>3. PICK new \in Seq(Row) :
        /\ queue' = written(r) \o new
        /\ reached' = reached \o [i \in DOMAIN new |-> "no"]
  <2>1. run[r].wanted \in SUBSET Channels
    BY <1>1 DEF OutboxSafe, OutboxTypeOK, Run
  <2> DEFINE rows == IF run[r].makes /\ run[r].wanted # {} THEN rows_for(run[r].wanted) ELSE <<>>
  <2>2. rows \in Seq(Row)
    BY <2>1, RowsAreRows
  <2>3. queue' = written(r) \o rows /\ reached' = reached \o [i \in DOMAIN rows |-> "no"]
    BY DEF commit_run
  <2> HIDE DEF rows
  <2> QED
    BY <2>2, <2>3
<1>4. /\ run' = [run EXCEPT ![r] = resting] /\ configured' = configured
      /\ quiet' = IF run[r].makes THEN DedupWindow ELSE quiet
      /\ repeated' = repeated
  BY DEF commit_run
<1>5. \A q \in Replicas : run'[q] = resting
  BY <1>2, <1>4 DEF OutboxSafe, OutboxTypeOK
<1>6. PICK old \in Seq(Row), told \in Seq({"no", "yes", "untold"}), n \in Nat :
        /\ old = written(r) /\ told = reached /\ Len(old) = n /\ Len(told) = n
        /\ \A i \in 1 .. n : told[i] = "yes" => old[i].status = "sent"
  BY <1>1, WrittenRows DEF OutboxSafe, OutboxTypeOK
<1>7. PICK rows, after : rows = queue' /\ after = reached'
  OBVIOUS
<1>8. PICK m \in Nat : m = Len(new)
  OBVIOUS
<1>9. /\ rows \in Seq(Row) /\ Len(rows) = n + m
      /\ \A i \in 1 .. n : rows[i] = old[i]
  <2>1. rows = old \o new
    BY <1>3, <1>6, <1>7
  <2>2. /\ old \o new \in Seq(Row) /\ Len(old \o new) = Len(old) + Len(new)
        /\ \A i \in 1 .. Len(old) : (old \o new)[i] = old[i]
    BY <1>3, <1>6, AtTheEnd
  <2> QED
    BY <1>6, <1>8, <2>1, <2>2
<1>10. /\ after \in Seq({"no", "yes", "untold"}) /\ Len(after) = n + m
       /\ \A i \in 1 .. n : after[i] = told[i]
       /\ \A i \in n + 1 .. n + m : after[i] = "no"
  <2>1. after = told \o untried(new)
    BY <1>3, <1>6, <1>7 DEF untried
  <2>2. /\ after \in Seq({"no", "yes", "untold"}) /\ Len(after) = Len(told) + Len(new)
        /\ \A i \in 1 .. Len(told) : after[i] = told[i]
        /\ \A i \in Len(told) + 1 .. Len(told) + Len(new) : after[i] = "no"
    BY <2>1, HistoryOfNewRows
  <2> QED
    BY <1>6, <1>7, <1>8, <2>2
<1>11. OutboxTypeOK'
  <2>1. run' \in [Replicas -> Run]
    BY <1>4 DEF OutboxSafe, OutboxTypeOK, Run
  <2>2. quiet' \in Nat
    BY <1>4, OutboxAssumption DEF OutboxSafe, OutboxTypeOK
  <2>3. configured' \subseteq Channels
    BY <1>4 DEF OutboxSafe, OutboxTypeOK
  <2>4. queue' \in Seq(Row) /\ reached' \in Seq({"no", "yes", "untold"}) /\ Len(reached') = Len(queue')
    BY <1>7, <1>9, <1>10
  <2> QED
    BY <2>1, <2>2, <2>3, <2>4 DEF OutboxTypeOK
<1>12. OneRun'
  BY <1>5 DEF OneRun
<1>13. Told'
  <2> SUFFICES ASSUME NEW i \in 1 .. n + m, after[i] = "yes"
               PROVE  rows[i].status = "sent"
    BY <1>7, <1>9 DEF Told
  <2>1. i \in 1 .. n
    BY <1>6, <1>8, <1>10
  <2> QED
    BY <1>6, <1>9, <1>10, <2>1
<1> QED
  BY <1>4, <1>11, <1>12, <1>13 DEF OutboxSafe

\* What a lost run has sent is not known any more.
LEMMA LossIsSafe ==
    ASSUME OutboxSafe, NEW r \in Replicas, run_lost(r)
    PROVE  OutboxSafe'
<1>1. run[r] # resting
  BY DEF run_lost
<1>2. OwnRun(r) /\ \A q \in Replicas \ {r} : run[q] = resting
  BY <1>1, OneAtATime DEF OutboxSafe
<1>3. /\ run' = [run EXCEPT ![r] = resting]
      /\ UNCHANGED <<configured, queue, quiet>> /\ repeated' = repeated
      /\ reached' = [i \in DOMAIN reached |->
           IF i \in DOMAIN run[r].rows /\ run[r].rows[i].status = "sent" /\ queue[i].status # "sent"
           THEN "untold" ELSE reached[i]]
  BY DEF run_lost
<1>4. \A q \in Replicas : run'[q] = resting
  BY <1>2, <1>3 DEF OutboxSafe, OutboxTypeOK
<1>5. PICK rows \in Seq(Row), told \in Seq({"no", "yes", "untold"}), n \in Nat :
        /\ rows = run[r].rows /\ told = reached /\ n = Len(queue) /\ n = Len(told)
        /\ DOMAIN rows = 1 .. Len(rows) /\ told \in [1 .. n -> {"no", "yes", "untold"}]
  BY <1>1 DEF OutboxSafe, OutboxTypeOK, Run
<1>6. reached' = [i \in 1 .. n |->
        IF i \in 1 .. Len(rows) /\ rows[i].status = "sent" /\ queue[i].status # "sent"
        THEN "untold" ELSE told[i]]
  BY <1>3, <1>5, Zenon
<1>7. reached' \in Seq({"no", "yes", "untold"}) /\ Len(reached') = n
  <2>1. reached' \in [1 .. n -> {"no", "yes", "untold"}]
    BY <1>5, <1>6
  <2> QED
    BY <1>5, <2>1
<1>8. OutboxTypeOK'
  <2>1. run' \in [Replicas -> Run]
    BY <1>3 DEF OutboxSafe, OutboxTypeOK, Run
  <2> QED
    BY <1>3, <1>5, <1>7, <2>1 DEF OutboxSafe, OutboxTypeOK
<1>9. OneRun'
  BY <1>4 DEF OneRun
<1>10. Told'
  <2> SUFFICES ASSUME NEW i \in 1 .. n, reached'[i] = "yes"
               PROVE  queue[i].status = "sent"
    BY <1>3, <1>5 DEF Told
  <2>1. told[i] = "yes" /\ ~ (i \in 1 .. Len(rows) /\ rows[i].status = "sent" /\ queue[i].status # "sent")
    BY <1>6
  <2>2. queue[i].status = "sent" \/ (i \in 1 .. Len(rows) /\ rows[i].status = "sent")
    BY <1>2, <1>5, <2>1 DEF OutboxSafe, Told
  <2> QED
    BY <2>1, <2>2
<1> QED
  BY <1>3, <1>8, <1>9, <1>10 DEF OutboxSafe

\* Time changes no status, and passes while nothing is under way.
LEMMA TickIsSafe ==
    ASSUME OutboxSafe, tick
    PROVE  OutboxSafe'
<1>1. /\ \A r \in Replicas : run[r] = resting
      /\ quiet' = IF quiet > 0 THEN quiet - 1 ELSE 0
      /\ queue' = [i \in DOMAIN queue |->
           [queue[i] EXCEPT !.wait = IF @ > 0 /\ unsettled(queue[i]) THEN @ - 1 ELSE 0]]
      /\ UNCHANGED <<configured, leader, run, reached>> /\ repeated' = repeated
  BY DEF tick
<1>2. PICK n \in Nat : n = Len(queue) /\ DOMAIN queue = 1 .. n /\ queue \in [1 .. n -> Row]
  BY DEF OutboxSafe, OutboxTypeOK
<1>3. \A i \in 1 .. n : queue'[i] \in Row /\ queue'[i].status = queue[i].status
  <2> SUFFICES ASSUME NEW i \in 1 .. n
               PROVE  queue'[i] \in Row /\ queue'[i].status = queue[i].status
    OBVIOUS
  <2>1. PICK row \in Row : row = queue[i]
    BY <1>2
  <2>2. PICK wait \in Int : wait = IF row.wait > 0 /\ unsettled(row) THEN row.wait - 1 ELSE 0
    BY DEF Row
  <2>3. queue'[i] = [row EXCEPT !.wait = wait]
    BY <1>1, <1>2, <2>1, <2>2
  <2> QED
    BY <2>1, <2>3 DEF Row
<1>4. queue' \in Seq(Row) /\ Len(queue') = n
  <2>1. queue' \in [1 .. n -> Row]
    BY <1>1, <1>2, <1>3
  <2> QED
    BY <2>1
<1>5. OutboxTypeOK'
  <2>1. quiet' \in Nat
    BY <1>1 DEF OutboxSafe, OutboxTypeOK
  <2> QED
    BY <1>1, <1>2, <1>4, <2>1 DEF OutboxSafe, OutboxTypeOK
<1>6. OneRun'
  BY <1>1 DEF OneRun
<1>7. Told'
  BY <1>1, <1>2, <1>3, <1>4 DEF OutboxSafe, Told
<1> QED
  BY <1>1, <1>5, <1>6, <1>7 DEF OutboxSafe

\* What no run and no row depends on may change.
LEMMA SettingsAreSafe ==
    ASSUME OutboxSafe, configured' \subseteq Channels,
           UNCHANGED <<queue, quiet, leader, run, reached>>, repeated' = repeated
    PROVE  OutboxSafe'
BY DEF OutboxSafe, OutboxTypeOK, OneRun, OwnRun, Told, unsettled

\* The invariant: whatever happens, in whatever order, on however many replicas.
LEMMA OutboxStaysSafe ==
    OutboxSafe /\ [OutboxNext]_outbox_vars => OutboxSafe'
<1> SUFFICES ASSUME OutboxSafe, [OutboxNext]_outbox_vars
             PROVE  OutboxSafe'
  OBVIOUS
<1>1. ASSUME NEW wanted \in SUBSET Channels, notify(wanted)
      PROVE  OutboxSafe'
  BY <1>1, EnqueueIsSafe
<1>2. ASSUME NEW r \in Replicas, run_sweeps_once(r)
      PROVE  OutboxSafe'
  BY <1>2, StartIsSafe
<1>3. ASSUME NEW r \in Replicas, deliver(r)
      PROVE  OutboxSafe'
  BY <1>3, DeliveryIsSafe
<1>4. ASSUME NEW r \in Replicas, commit_run(r)
      PROVE  OutboxSafe'
  BY <1>4, CommitIsSafe
<1>5. ASSUME NEW r \in Replicas, run_lost(r)
      PROVE  OutboxSafe'
  BY <1>5, LossIsSafe
<1>6. ASSUME NEW c \in Channels, configure(c)
      PROVE  OutboxSafe'
  <2>1. configured' \subseteq Channels
    BY <1>6 DEF configure, OutboxSafe, OutboxTypeOK
  <2>2. UNCHANGED <<queue, quiet, leader, run, reached>> /\ repeated' = repeated
    BY <1>6 DEF configure
  <2> QED
    BY <2>1, <2>2, SettingsAreSafe
<1>7. CASE tick
  BY <1>7, TickIsSafe
<1>8. CASE UNCHANGED outbox_vars
  <2>1. /\ UNCHANGED <<configured, queue, quiet, leader, run, reached>>
        /\ repeated' = repeated
    BY <1>8 DEF outbox_vars
  <2>2. configured' \subseteq Channels
    BY <2>1 DEF OutboxSafe, OutboxTypeOK
  <2> QED
    BY <2>1, <2>2, SettingsAreSafe
<1> QED
  BY <1>1, <1>2, <1>3, <1>4, <1>5, <1>6, <1>7, <1>8 DEF OutboxNext, sweep

\* A message reaches its recipient twice only if the table could not know of the first time:
\* deliver_pending, whatever replicas crash and whatever the channels answer.
THEOREM NothingSentTwice ==
    OutboxSpec => []NoNeedlessRepeat
<1>1. OutboxSafe => NoNeedlessRepeat
  BY DEF OutboxSafe, NoNeedlessRepeat
<1> QED
  BY <1>1, OutboxStarts, OutboxStaysSafe, PTL DEF OutboxSpec

\* Two reminders of one kind are a window apart: notify_once under the advisory lock of
\* run_sweeps_once.
THEOREM RemindersKeepApart ==
    OutboxSpec => RemindersAreSpaced
<1>1. OutboxSafe => \A r \in Replicas : commit_run(r) /\ run[r].makes => quiet = 0
  <2> SUFFICES ASSUME OutboxSafe, NEW r \in Replicas, commit_run(r), run[r].makes
               PROVE  quiet = 0
    OBVIOUS
  <2>1. run[r] # resting
    BY DEF commit_run, resting
  <2> QED
    BY <2>1 DEF OutboxSafe, OneRun, OwnRun
<1>2. OutboxSafe => [\A r \in Replicas : commit_run(r) /\ run[r].makes => quiet = 0]_outbox_vars
  BY <1>1
<1> QED
  BY <1>2, OutboxStarts, OutboxStaysSafe, PTL DEF OutboxSpec, RemindersAreSpaced
-----------------------------------------------------------------------------
(* Refinement: a row of the queue is a letter of DeliveryPromise.          *)

fate(row) ==
    CASE row.status = "sent" -> "sent"
      [] row.status = "abandoned" -> "given_up"
      [] OTHER -> "open"

letter(row) == [channel |-> row.channel, tries |-> row.attempts, fate |-> fate(row)]

letters_of(rows) == [i \in 1 .. Len(rows) |-> letter(rows[i])]

\* The code means to try a row MaxAttempts times; each unexpected error can cost one more.
Promise == INSTANCE DeliveryPromise WITH
    Tries <- MaxAttempts + MaxTroubles, letters <- letters_of(queue)

\* How often a row may have been tried, and what can still be tried has a try left.
Within(row, spare) ==
    /\ row.attempts <= MaxAttempts + spare
    /\ unsettled(row) => row.attempts < MaxAttempts + spare

\* One attempt lies between a row and what it is after it.
OnceTried(row, after) ==
    /\ unsettled(row)
    /\ after.channel = row.channel /\ after.attempts = row.attempts + 1 /\ after.status # "pending"

\* A run has tried a row at most once.
RunsCounted ==
    \A r \in Replicas : run[r] # resting =>
        \A i \in 1 .. Len(run[r].rows) :
            /\ Within(run[r].rows[i], troubles)
            /\ run[r].rows[i] = queue[i] \/ OnceTried(queue[i], run[r].rows[i])

\* Every attempt is counted.
Counted ==
    /\ troubles \in 0 .. MaxTroubles
    /\ \A i \in 1 .. Len(queue) : Within(queue[i], troubles)
    /\ RunsCounted

\* Time passes for a row and changes nothing else of it.
Alike(row, after) ==
    after.channel = row.channel /\ after.attempts = row.attempts /\ after.status = row.status

\* What a step does to the queue: every row stays as it was or is tried once, new rows follow.
QueueForward ==
    /\ Len(queue) <= Len(queue')
    /\ \A i \in 1 .. Len(queue) :
          /\ Within(queue'[i], troubles)
          /\ Alike(queue[i], queue'[i]) \/ OnceTried(queue[i], queue'[i])
    /\ \A i \in Len(queue) + 1 .. Len(queue') : \E c \in Channels : queue'[i] = Delivery(c)

\* The letters of a queue, one by one.
LEMMA LettersOf ==
    ASSUME NEW rows \in Seq(Row)
    PROVE  /\ Len(letters_of(rows)) = Len(rows)
           /\ \A i \in 1 .. Len(rows) : letters_of(rows)[i] = letter(rows[i])
<1>1. PICK n \in Nat : n = Len(rows)
  OBVIOUS
<1>2. letters_of(rows) = [i \in 1 .. n |-> letter(rows[i])]
  BY <1>1 DEF letters_of
<1> QED
  BY <1>1, <1>2

\* New rows at the end of others that went forward.
LEMMA RowsFollow ==
    ASSUME OutboxSafe, NEW old \in Seq(Row), Len(old) = Len(queue),
           \A i \in 1 .. Len(queue) :
              /\ Within(old[i], troubles)
              /\ Alike(queue[i], old[i]) \/ OnceTried(queue[i], old[i]),
           NEW new \in Seq(Row), \A i \in 1 .. Len(new) : \E c \in Channels : new[i] = Delivery(c),
           queue' = old \o new
    PROVE  QueueForward
<1>1. PICK n \in Nat, m \in Nat : n = Len(queue) /\ m = Len(new) /\ n = Len(old)
  BY DEF OutboxSafe, OutboxTypeOK
<1>2. PICK rows : rows = queue' /\ rows = old \o new
  OBVIOUS
<1>3. /\ Len(rows) = n + m
      /\ \A i \in 1 .. n : rows[i] = old[i]
      /\ \A i \in n + 1 .. n + m : rows[i] = new[i - n]
  <2>1. /\ Len(old \o new) = Len(old) + Len(new)
        /\ \A i \in 1 .. Len(old) : (old \o new)[i] = old[i]
        /\ \A i \in Len(old) + 1 .. Len(old) + Len(new) : (old \o new)[i] = new[i - Len(old)]
    BY AtTheEnd, Zenon
  <2> QED
    BY ONLY <1>1, <1>2, <2>1
<1>4. ASSUME NEW i \in n + 1 .. n + m
      PROVE  \E c \in Channels : rows[i] = Delivery(c)
  <2>1. i - n \in 1 .. m
    OBVIOUS
  <2> QED
    BY <1>1, <1>3, <2>1
<1>5. n <= n + m
  OBVIOUS
<1> QED
  BY <1>1, <1>2, <1>3, <1>4, <1>5 DEF QueueForward

\* The queue stands still.
LEMMA QueueRests ==
    ASSUME OutboxSafe, Counted, queue' = queue
    PROVE  QueueForward
<1>1. Len(queue) \in Nat
  BY DEF OutboxSafe, OutboxTypeOK
<1>2. \A i \in Len(queue) + 1 .. Len(queue) : FALSE
  BY <1>1
<1> QED
  BY <1>1, <1>2 DEF QueueForward, Counted, Alike

\* The commit of a run.
LEMMA CommitGoesForward ==
    ASSUME OutboxSafe, Counted, NEW r \in Replicas, commit_run(r)
    PROVE  QueueForward
<1>1. run[r] # resting
  BY DEF commit_run, resting
<1>2. PICK rows \in Seq(Row), n \in Nat, m \in Nat :
        /\ rows = run[r].rows /\ n = Len(queue) /\ m = Len(rows)
        /\ DOMAIN queue = 1 .. n /\ DOMAIN rows = 1 .. m
  BY <1>1 DEF OutboxSafe, OutboxTypeOK, Run
<1>3. PICK old \in Seq(Row) : old = written(r) /\ Len(old) = Len(queue)
  BY <1>1, WrittenRows
<1>4. ASSUME NEW i \in 1 .. Len(queue)
      PROVE  /\ Within(old[i], troubles)
             /\ Alike(queue[i], old[i]) \/ OnceTried(queue[i], old[i])
  <2>1. i \in 1 .. n
    BY <1>2
  <2>2. old[i] = IF i \in 1 .. m /\ rows[i] # queue[i] /\ unsettled(queue[i])
                 THEN rows[i] ELSE queue[i]
    BY <1>2, <1>3, <2>1 DEF written
  <2>3. CASE old[i] = queue[i]
    BY <2>3 DEF Counted, Alike
  <2>4. CASE old[i] = rows[i] /\ i \in 1 .. m /\ rows[i] # queue[i]
    BY <1>1, <1>2, <2>4 DEF Counted, RunsCounted
  <2> QED
    BY <2>2, <2>3, <2>4
<1>5. PICK new \in Seq(Row) :
        /\ queue' = written(r) \o new
        /\ \A i \in 1 .. Len(new) : \E c \in Channels : new[i] = Delivery(c)
  <2>1. run[r].wanted \in SUBSET Channels
    BY <1>1 DEF OutboxSafe, OutboxTypeOK, Run
  <2>2. CASE run[r].makes /\ run[r].wanted # {}
    <3>1. queue' = written(r) \o rows_for(run[r].wanted)
      BY <2>2 DEF commit_run
    <3> QED
      BY <2>1, <3>1, RowsAreRows
  <2>3. CASE ~ (run[r].makes /\ run[r].wanted # {})
    <3>1. queue' = written(r) \o <<>>
      BY <2>3 DEF commit_run
    <3>2. <<>> \in Seq(Row) /\ \A i \in 1 .. Len(<<>>) : FALSE
      OBVIOUS
    <3> QED
      BY <3>1, <3>2
  <2> QED
    BY <2>2, <2>3
<1> QED
  BY <1>3, <1>4, <1>5, RowsFollow

\* Every step takes the queue forward.
LEMMA QueueGoesForward ==
    ASSUME OutboxSafe, Counted, [OutboxNext]_outbox_vars
    PROVE  QueueForward
<1>1. ASSUME NEW wanted \in SUBSET Channels, notify(wanted)
      PROVE  QueueForward
  <2>1. queue' = queue \o rows_for(wanted)
    BY <1>1 DEF notify, enqueue
  <2>2. queue \in Seq(Row)
    BY DEF OutboxSafe, OutboxTypeOK
  <2>3. \A i \in 1 .. Len(queue) : Within(queue[i], troubles) /\ Alike(queue[i], queue[i])
    BY DEF Counted, Alike
  <2> QED
    BY <2>1, <2>2, <2>3, RowsAreRows, RowsFollow
<1>2. ASSUME NEW r \in Replicas, run_sweeps_once(r) \/ deliver(r) \/ run_lost(r)
      PROVE  QueueForward
  <2>1. queue' = queue
    BY <1>2 DEF run_sweeps_once, deliver, run_lost
  <2> QED
    BY <2>1, QueueRests
<1>3. ASSUME NEW r \in Replicas, commit_run(r)
      PROVE  QueueForward
  BY <1>3, CommitGoesForward
<1>4. CASE tick
  <2>1. PICK n \in Nat : n = Len(queue) /\ DOMAIN queue = 1 .. n /\ queue \in [1 .. n -> Row]
    BY DEF OutboxSafe, OutboxTypeOK
  <2>2. queue' = [i \in 1 .. n |->
           [queue[i] EXCEPT !.wait = IF @ > 0 /\ unsettled(queue[i]) THEN @ - 1 ELSE 0]]
    BY <1>4, <2>1 DEF tick
  <2>3. Len(queue') = n
    BY <2>2
  <2>4. ASSUME NEW i \in 1 .. n
        PROVE  /\ Within(queue'[i], troubles)
               /\ Alike(queue[i], queue'[i])
    <3>1. Alike(queue[i], queue'[i])
      BY <2>1, <2>2 DEF Row, Alike
    <3> QED
      BY <2>1, <3>1 DEF Counted, Within, Alike, unsettled
  <2> QED
    BY <2>1, <2>3, <2>4 DEF QueueForward
<1>5. CASE (\E c \in Channels : configure(c)) \/ UNCHANGED outbox_vars
  <2>1. queue' = queue
    BY <1>5 DEF configure, outbox_vars
  <2> QED
    BY <2>1, QueueRests
<1> QED
  BY <1>1, <1>2, <1>3, <1>4, <1>5 DEF OutboxNext, sweep

\* More trouble leaves more room.
LEMMA WithinMore ==
    ASSUME NEW row \in Row, NEW spare \in Nat, NEW more \in Nat, spare <= more, Within(row, spare)
    PROVE  Within(row, more)
<1>1. row.attempts \in Nat
  BY DEF Row
<1> QED
  BY <1>1, OutboxAssumption DEF Within

\* The rows of the table remain counted.
LEMMA QueueStaysCounted ==
    ASSUME OutboxSafe, OutboxSafe', QueueForward, NEW spare \in Nat, NEW more \in Nat,
           spare <= more, spare = troubles
    PROVE  \A i \in 1 .. Len(queue') : Within(queue'[i], more)
<1>1. PICK rows \in Seq(Row), n \in Nat, m \in Nat : rows = queue' /\ n = Len(queue) /\ m = Len(rows)
  BY DEF OutboxSafe, OutboxTypeOK
<1>2. ASSUME NEW i \in 1 .. n, i \in 1 .. m PROVE Within(rows[i], more)
  <2>1. Within(rows[i], spare)
    BY <1>1, <1>2 DEF QueueForward
  <2>2. rows[i] \in Row
    BY <1>1, <1>2
  <2> QED
    BY <2>1, <2>2, WithinMore
<1>3. ASSUME NEW i \in n + 1 .. m PROVE Within(rows[i], more)
  <2>1. PICK c \in Channels : rows[i] = Delivery(c)
    BY <1>1 DEF QueueForward
  <2>2. rows[i].attempts = 0
    BY <2>1 DEF Delivery
  <2> QED
    BY <2>2, OutboxAssumption DEF Within
<1>4. \A i \in 1 .. m : i \in 1 .. n \/ i \in n + 1 .. m
  BY <1>1
<1> QED
  BY <1>1, <1>2, <1>3, <1>4

\* An attempt uses up a try; only an unexpected error gives it back.
LEMMA TryIsCounted ==
    ASSUME NEW row \in Row, NEW outcome \in Outcomes, NEW spare \in Nat, NEW more \in Nat,
           more = IF outcome = "unexpected" THEN spare + 1 ELSE spare,
           unsettled(row), Within(row, spare),
           NEW after, after = tried(row, status_after(outcome, row.attempts + 1))
    PROVE  Within(after, more) /\ OnceTried(row, after)
<1>1. PICK attempts \in Nat, limit \in Nat : attempts = row.attempts /\ limit = MaxAttempts
  BY OutboxAssumption DEF Row
<1>2. attempts < limit + spare
  BY <1>1 DEF Within
<1>3. PICK status : /\ status = status_after(outcome, attempts + 1)
                    /\ status \in {"failed", "sent", "abandoned"}
                    /\ status = "failed" => outcome = "unexpected" \/ attempts + 1 < limit
  BY <1>1 DEF status_after, Outcomes, exhausted
<1>4. /\ after.channel = row.channel /\ after.attempts = attempts + 1 /\ after.status = status
  BY <1>1, <1>3 DEF tried, Row
<1>5. attempts + 1 <= limit + more
  BY <1>2
<1>6. status = "failed" => attempts + 1 < limit + more
  BY <1>2, <1>3
<1>7. Within(after, more)
  BY <1>1, <1>3, <1>4, <1>5, <1>6 DEF Within, unsettled
<1> QED
  BY <1>1, <1>3, <1>4, <1>7 DEF OnceTried

\* A run that is under way has tried each row at most once.
LEMMA DeliveryIsCounted ==
    ASSUME OutboxSafe, Counted, NEW r \in Replicas, deliver(r)
    PROVE  troubles' \in troubles .. MaxTroubles /\ RunsCounted'
<1>1. PICK i : i = CHOOSE n \in run[r].todo : \A k \in run[r].todo : n <= k
  OBVIOUS
<1>2. run[r].at = "delivering" /\ run[r].todo # {} /\ run[r] # resting /\ queue' = queue
  <2>1. run[r].at = "delivering" /\ run[r].todo # {} /\ queue' = queue
    BY DEF deliver
  <2> QED
    BY <2>1 DEF resting
<1>3. /\ i \in 1 .. Len(run[r].rows) /\ i \in 1 .. Len(queue)
      /\ run[r].rows[i] = queue[i] /\ unsettled(queue[i])
  BY <1>1, <1>2, NextRow
<1>4. \A q \in Replicas \ {r} : run[q] = resting
  BY <1>2, OneAtATime DEF OutboxSafe
<1>5. PICK rows \in Seq(Row), limit \in Nat, spare \in Nat :
        /\ rows = run[r].rows /\ limit = MaxTroubles /\ spare = troubles /\ spare <= limit
        /\ \A k \in 1 .. Len(rows) : /\ Within(rows[k], spare)
                                     /\ rows[k] = queue[k] \/ OnceTried(queue[k], rows[k])
  <2>1. PICK some \in Seq(Row) : some = run[r].rows
    BY <1>2 DEF OutboxSafe, OutboxTypeOK, Run
  <2>2. \A k \in 1 .. Len(some) : /\ Within(some[k], troubles)
                                  /\ some[k] = queue[k] \/ OnceTried(queue[k], some[k])
    BY <1>2, <2>1 DEF Counted, RunsCounted
  <2>3. troubles \in 0 .. MaxTroubles /\ MaxTroubles \in Nat
    BY OutboxAssumption DEF Counted
  <2> QED
    BY <2>1, <2>2, <2>3
<1>6. run \in [Replicas -> Run] /\ run[r] \in Run \ {resting}
  BY <1>2 DEF OutboxSafe, OutboxTypeOK
<1>7. \/ /\ run' = [run EXCEPT ![r] = [run[r] EXCEPT !.todo = @ \ {i}]]
         /\ troubles' = troubles
      \/ \E outcome \in Outcomes :
            /\ troubles' = IF outcome = "unexpected" THEN troubles + 1 ELSE troubles
            /\ troubles' <= MaxTroubles
            /\ run' = [run EXCEPT ![r] =
                 [[run[r] EXCEPT !.todo = @ \ {i}] EXCEPT
                    !.rows[i] = tried(run[r].rows[i],
                                      status_after(outcome, run[r].rows[i].attempts + 1))]]
  BY <1>1, Zenon DEF deliver
<1>8. CASE /\ run' = [run EXCEPT ![r] = [run[r] EXCEPT !.todo = @ \ {i}]]
           /\ troubles' = troubles
  <2>1. run'[r].rows = rows /\ \A q \in Replicas \ {r} : run'[q] = resting
    BY <1>4, <1>5, <1>6, <1>8 DEF Run, resting
  <2>2. troubles' = spare /\ spare \in troubles .. limit
    BY <1>5, <1>8
  <2>3. \A k \in 1 .. Len(rows) : /\ Within(rows[k], troubles')
                                  /\ rows[k] = queue'[k] \/ OnceTried(queue'[k], rows[k])
    BY <1>2, <1>5, <2>2
  <2>4. RunsCounted'
    BY <2>1, <2>3 DEF RunsCounted
  <2> QED
    BY <1>5, <2>2, <2>4
<1>9. ASSUME NEW outcome \in Outcomes,
             troubles' = IF outcome = "unexpected" THEN troubles + 1 ELSE troubles,
             troubles' <= MaxTroubles,
             run' = [run EXCEPT ![r] =
               [[run[r] EXCEPT !.todo = @ \ {i}] EXCEPT
                  !.rows[i] = tried(run[r].rows[i],
                                    status_after(outcome, run[r].rows[i].attempts + 1))]]
      PROVE  troubles' \in troubles .. MaxTroubles /\ RunsCounted'
  <2>1. PICK more \in Nat : /\ more = troubles' /\ spare <= more /\ more <= limit
                            /\ more = IF outcome = "unexpected" THEN spare + 1 ELSE spare
    BY <1>5, <1>9
  <2>2. rows[i] \in Row /\ i \in 1 .. Len(rows) /\ unsettled(rows[i]) /\ Within(rows[i], spare)
    <3>1. i \in 1 .. Len(rows) /\ unsettled(rows[i])
      BY <1>3, <1>5
    <3>2. rows[i] \in Row
      BY <3>1
    <3>3. Within(rows[i], spare)
      BY <1>5, <3>1
    <3> QED
      BY <3>1, <3>2, <3>3
  <2>3. PICK after : after = tried(rows[i], status_after(outcome, rows[i].attempts + 1))
    OBVIOUS
  <2>4. Within(after, more) /\ OnceTried(rows[i], after)
    BY <2>1, <2>2, <2>3, TryIsCounted
  <2>5. after \in Row
    BY <2>2, <2>3, TriedRow
  <2>6. PICK copy \in Seq(Row) : /\ copy = [rows EXCEPT ![i] = after]
                                 /\ Len(copy) = Len(rows) /\ copy[i] = after
                                 /\ \A k \in 1 .. Len(rows) : k # i => copy[k] = rows[k]
    <3>1. i \in 1 .. Len(rows)
      BY <2>2
    <3>2. /\ [rows EXCEPT ![i] = after] \in Seq(Row) /\ Len([rows EXCEPT ![i] = after]) = Len(rows)
          /\ [rows EXCEPT ![i] = after][i] = after
          /\ \A k \in 1 .. Len(rows) : k # i => [rows EXCEPT ![i] = after][k] = rows[k]
      BY <2>5, <3>1, OneChanged
    <3> QED
      BY <3>2, Zenon
  <2>7. run'[r].rows = copy /\ \A q \in Replicas \ {r} : run'[q] = resting
    BY <1>4, <1>5, <1>6, <1>9, <2>3, <2>6 DEF Run, resting
  <2>8. ASSUME NEW k \in 1 .. Len(rows)
        PROVE  Within(copy[k], more) /\ (copy[k] = queue[k] \/ OnceTried(queue[k], copy[k]))
    <3>1. CASE k = i
      BY <1>3, <1>5, <2>4, <2>6, <3>1
    <3>2. CASE k # i
      <4>1. rows[k] \in Row /\ Within(rows[k], spare)
        <5>1. rows[k] \in Row
          BY <2>8
        <5>2. Within(rows[k], spare)
          BY <1>5, <2>8
        <5> QED
          BY <5>1, <5>2
      <4>2. Within(rows[k], more)
        BY <2>1, <4>1, WithinMore
      <4> QED
        BY <1>5, <2>6, <3>2, <4>2
    <3> QED
      BY <3>1, <3>2
  <2>9. RunsCounted'
    BY <1>2, <2>1, <2>6, <2>7, <2>8 DEF RunsCounted
  <2>10. troubles' \in troubles .. MaxTroubles
    BY <1>5, <2>1
  <2> QED
    BY <2>9, <2>10
<1> QED
  BY <1>7, <1>8, <1>9

\* Every attempt is counted, whoever makes it and whatever becomes of the run.
LEMMA StaysCounted ==
    ASSUME OutboxSafe, OutboxSafe', Counted, [OutboxNext]_outbox_vars
    PROVE  Counted'
<1>1. QueueForward
  BY QueueGoesForward
<1>2. troubles \in 0 .. MaxTroubles /\ MaxTroubles \in Nat
  BY OutboxAssumption DEF Counted
<1>3. ASSUME NEW wanted \in SUBSET Channels, notify(wanted)
      PROVE  troubles' \in troubles .. MaxTroubles /\ RunsCounted'
  <2>1. queue' = queue \o rows_for(wanted) /\ run' = run /\ troubles' = troubles
    BY <1>3 DEF notify, enqueue
  <2>2. ASSUME NEW q \in Replicas, run[q] # resting, NEW k \in 1 .. Len(run[q].rows)
        PROVE  queue'[k] = queue[k]
    <3>1. PICK rows \in Seq(Row), n \in Nat : rows = queue /\ n = Len(rows)
      BY DEF OutboxSafe, OutboxTypeOK
    <3>2. PICK new \in Seq(Row) : new = rows_for(wanted)
      BY RowsAreRows
    <3>3. \A j \in 1 .. Len(rows) : (rows \o new)[j] = rows[j]
      BY AtTheEnd, Zenon
    <3>4. PICK m \in Nat : m = Len(run[q].rows) /\ m <= n
      BY <2>2, <3>1 DEF OutboxSafe, OutboxTypeOK, Run, OneRun, OwnRun
    <3>5. k \in 1 .. n
      BY <2>2, <3>4
    <3> QED
      BY <2>1, <3>1, <3>2, <3>3, <3>5
  <2>3. RunsCounted'
    <3> SUFFICES ASSUME NEW q \in Replicas, run'[q] # resting, NEW k \in 1 .. Len(run'[q].rows)
                 PROVE  /\ Within(run'[q].rows[k], troubles')
                        /\ run'[q].rows[k] = queue'[k] \/ OnceTried(queue'[k], run'[q].rows[k])
      BY DEF RunsCounted
    <3>1. run[q] # resting /\ k \in 1 .. Len(run[q].rows)
      BY <2>1
    <3>2. /\ Within(run[q].rows[k], troubles)
          /\ run[q].rows[k] = queue[k] \/ OnceTried(queue[k], run[q].rows[k])
      BY <3>1 DEF Counted, RunsCounted
    <3>3. queue'[k] = queue[k]
      BY <2>2, <3>1
    <3> QED
      BY <2>1, <3>2, <3>3
  <2>4. troubles' \in troubles .. MaxTroubles
    BY <1>2, <2>1
  <2> QED
    BY <2>3, <2>4
<1>4. ASSUME NEW r \in Replicas, run_sweeps_once(r)
      PROVE  troubles' \in troubles .. MaxTroubles /\ RunsCounted'
  <2>1. queue' = queue /\ troubles' = troubles
    BY <1>4 DEF run_sweeps_once
  <2>2. \A q \in Replicas : run'[q] = run[q] \/ run'[q].rows = queue
    BY <1>4 DEF run_sweeps_once, OutboxSafe, OutboxTypeOK
  <2>3. RunsCounted'
    BY <2>1, <2>2 DEF Counted, RunsCounted, OnceTried, Within, unsettled
  <2>4. troubles' \in troubles .. MaxTroubles
    BY <1>2, <2>1
  <2> QED
    BY <2>3, <2>4
<1>5. ASSUME NEW r \in Replicas, deliver(r)
      PROVE  troubles' \in troubles .. MaxTroubles /\ RunsCounted'
  BY <1>5, DeliveryIsCounted
<1>6. ASSUME NEW r \in Replicas, commit_run(r) \/ run_lost(r)
      PROVE  troubles' \in troubles .. MaxTroubles /\ RunsCounted'
  <2>1. run[r] # resting
    BY <1>6 DEF commit_run, run_lost, resting
  <2>2. \A q \in Replicas \ {r} : run[q] = resting
    BY <2>1, OneAtATime DEF OutboxSafe
  <2>3. run' = [run EXCEPT ![r] = resting]
    BY <1>6 DEF commit_run, run_lost
  <2>4. \A q \in Replicas : run'[q] = resting
    BY <2>2, <2>3 DEF OutboxSafe, OutboxTypeOK
  <2>5. troubles' \in troubles .. MaxTroubles
    BY <1>2, <1>6 DEF commit_run, run_lost
  <2>6. RunsCounted'
    BY <2>4 DEF RunsCounted
  <2> QED
    BY <2>5, <2>6
<1>7. ASSUME tick
      PROVE  troubles' \in troubles .. MaxTroubles /\ RunsCounted'
  <2>1. (\A q \in Replicas : run[q] = resting) /\ run' = run /\ troubles' = troubles
    BY <1>7 DEF tick
  <2>2. RunsCounted'
    BY <2>1 DEF RunsCounted
  <2>3. troubles' \in troubles .. MaxTroubles
    BY <1>2, <2>1
  <2> QED
    BY <2>2, <2>3
<1>8. ASSUME (\E c \in Channels : configure(c)) \/ UNCHANGED outbox_vars
      PROVE  troubles' \in troubles .. MaxTroubles /\ RunsCounted'
  <2>1. queue' = queue /\ run' = run /\ troubles' = troubles
    BY <1>8 DEF configure, outbox_vars
  <2>2. RunsCounted'
    BY <2>1 DEF Counted, RunsCounted, OnceTried, Within, unsettled
  <2>3. troubles' \in troubles .. MaxTroubles
    BY <1>2, <2>1
  <2> QED
    BY <2>2, <2>3
<1>9. troubles' \in troubles .. MaxTroubles /\ RunsCounted'
  BY <1>3, <1>4, <1>5, <1>6, <1>7, <1>8 DEF OutboxNext, sweep
<1>10. PICK spare \in Nat, more \in Nat : spare = troubles /\ more = troubles' /\ spare <= more
  BY <1>2, <1>9
<1>11. \A i \in 1 .. Len(queue') : Within(queue'[i], more)
  BY <1>1, <1>10, QueueStaysCounted
<1> QED
  BY <1>2, <1>9, <1>10, <1>11 DEF Counted

\* A step of the queue is a step that DeliveryPromise allows.
LEMMA ForwardIsPromised ==
    ASSUME OutboxSafe, OutboxSafe', Counted, QueueForward
    PROVE  Promise!PromiseNext
<1>1. PICK rows \in Seq(Row), after \in Seq(Row) : rows = queue /\ after = queue'
  BY DEF OutboxSafe, OutboxTypeOK
<1>2. /\ Len(letters_of(rows)) = Len(rows) /\ Len(letters_of(after)) = Len(after)
      /\ \A i \in 1 .. Len(rows) : letters_of(rows)[i] = letter(rows[i])
      /\ \A i \in 1 .. Len(after) : letters_of(after)[i] = letter(after[i])
  BY LettersOf
<1>3. letters_of(queue) = letters_of(rows) /\ letters_of(queue)' = letters_of(after)
  BY <1>1 DEF letters_of
<1>4. PICK n \in Nat, m \in Nat : n = Len(rows) /\ m = Len(after) /\ n <= m
  BY <1>1 DEF QueueForward
<1>5. ASSUME NEW i \in 1 .. n
      PROVE  letter(after[i]) \in Promise!Next(letter(rows[i]))
  <2>1. /\ Alike(rows[i], after[i]) \/ OnceTried(rows[i], after[i])
        /\ Within(after[i], troubles)
    BY <1>1, <1>4 DEF QueueForward
  <2>2. CASE Alike(rows[i], after[i])
    <3>1. letter(after[i]) = letter(rows[i])
      BY <2>2 DEF Alike, letter, fate
    <3> QED
      BY <3>1 DEF Promise!Next
  <2>3. CASE OnceTried(rows[i], after[i])
    <3>1. PICK some \in {"open", "sent", "given_up"} : some = fate(after[i])
      BY DEF fate
    <3>2. letter(after[i]) = Promise!Tried(letter(rows[i]), some)
      BY <2>3, <3>1 DEF OnceTried, letter, Promise!Tried
    <3>3. letter(rows[i]).fate = "open"
      BY <2>3 DEF OnceTried, letter, fate, unsettled
    <3>4. letter(rows[i]).tries < MaxAttempts + MaxTroubles
      <4>0. rows[i] \in Row
        BY <1>4
      <4>1. rows[i].attempts \in Nat /\ after[i].attempts = rows[i].attempts + 1
        BY <2>3, <4>0 DEF OnceTried, Row
      <4>2. after[i].attempts <= MaxAttempts + troubles
        BY <2>1 DEF Within
      <4>3. troubles \in 0 .. MaxTroubles
        BY DEF Counted
      <4>4. rows[i].attempts < MaxAttempts + MaxTroubles
        BY <4>1, <4>2, <4>3, OutboxAssumption
      <4> QED
        BY <4>4 DEF letter
    <3> QED
      BY <3>2, <3>3, <3>4 DEF Promise!Next
  <2> QED
    BY <2>1, <2>2, <2>3
<1>6. ASSUME NEW i \in n + 1 .. m
      PROVE  \E c \in Channels : letter(after[i]) = Promise!Posted(c)
  <2>1. PICK c \in Channels : after[i] = Delivery(c)
    BY <1>1, <1>4 DEF QueueForward
  <2> QED
    BY <2>1 DEF Delivery, letter, fate, Promise!Posted
<1>7. \A i \in 1 .. n : i \in 1 .. m
  BY <1>4
<1>8. \A i \in n + 1 .. m : i \in 1 .. m
  BY <1>4
<1> QED
  BY <1>2, <1>3, <1>4, <1>5, <1>6, <1>7, <1>8 DEF Promise!PromiseNext

\* Whatever replicas run, crash or lose their lock, and whatever the channels answer: no message
\* is lost, redirected or tried after it was sent or given up, and none is tried more often than
\* deliver_pending allows (_exhausted), once more for each unexpected error.
THEOREM OutboxKeepsPromise ==
    OutboxSpec => Promise!PromiseSpec
<1>1. OutboxInit => Counted /\ Promise!PromiseInit
  BY OutboxAssumption DEF OutboxInit, Counted, RunsCounted, letters_of, Promise!PromiseInit
<1>2. OutboxSafe /\ OutboxSafe' /\ Counted /\ [OutboxNext]_outbox_vars => Counted'
  BY StaysCounted
<1>3. OutboxSafe /\ OutboxSafe' /\ Counted /\ [OutboxNext]_outbox_vars => Promise!PromiseNext
  BY QueueGoesForward, ForwardIsPromised
<1> QED
  BY <1>1, <1>2, <1>3, OutboxStarts, OutboxStaysSafe, PTL DEF OutboxSpec, Promise!PromiseSpec
=============================================================================
