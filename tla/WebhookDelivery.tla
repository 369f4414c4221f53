-------------------------- MODULE WebhookDelivery --------------------------
(***************************************************************************)
(* The restatement outbox and the workers that drain it.                   *)
(*                                                                         *)
(*   - app.upsert_envelope_row and the trigger envelope_rows_restated:     *)
(*     a metric that moves leaves one event in public.restatement_events;  *)
(*   - app.due_restatement_events, app.record_delivery and                 *)
(*     app.prune_restatement_events: the whole vocabulary of a worker;     *)
(*   - deliverBatch (packages/webhooks/src/delivery.ts): one cron          *)
(*     invocation, serial over the batch it claimed, started every minute  *)
(*     whether or not the last one has ended;                              *)
(*   - the customer's endpoint, the clock, and crashes.                    *)
(*                                                                         *)
(* A timestamp column is modelled by the time that is left until the       *)
(* comparison made with it turns true, so that the clock needs no bound    *)
(* and a behaviour may go on for ever.                                     *)
(***************************************************************************)
EXTENDS Integers, Sequences, FiniteSets

CONSTANTS
  Event,            \* ids of restatement_events
  Value,            \* values a metric may take
  Worker,           \* drains that may be under way together
  NoWorker,         \* SQL null in claimed_by
  Batch,            \* DEFAULT_BATCH
  EventTime,        \* the longest one event takes: DELIVERY_TIMEOUT_MS
  Lease,            \* app.delivery_lease_interval()
  Backoff,          \* app.delivery_backoff, by attempts
  RetainDelivered,  \* app.retention_delivered()
  RetainFailed,     \* app.retention_failed()
  Mishaps           \* bound on crashes and lost records (model checking only)

(* app.delivery_max_attempts() is one more than the delays there are. *)
MaxAttempts == Len(Backoff) + 1

ASSUME DeliveryAssumption ==
  /\ NoWorker \notin Worker
  /\ IsFiniteSet(Event) /\ Event # {}
  /\ Batch \in Nat /\ EventTime \in Nat \ {0} /\ Lease \in Nat
  /\ Backoff \in Seq(Nat)
  /\ RetainDelivered \in Nat /\ RetainFailed \in Nat /\ Mishaps \in Nat

NoRow  == "no row"
Absent == "absent"      \* the metric is null

VARIABLES
  metric,     \* the metric of one envelope row: NoRow, Absent or a value
  outbox,     \* the row of each event
  active,     \* the workspace has an active endpoint
  accepted,   \* the events the endpoint has answered 2xx at least once
  worker,     \* the local state of each drain
  late,       \* history: the events a drain has kept past its claim
  mishaps

vars == <<metric, outbox, active, accepted, worker, late, mishaps>>

(* status is "new" before the event exists and "gone" once it is pruned.   *)
(* from is revised_from.  wait is the time to next_attempt_at, lease what  *)
(* is left of claimed_at's, keep what is left of the retention.            *)
EventRow ==
  [status : {"new", "queued", "delivered", "failed", "gone"},
   from : Value \cup {Absent},
   attempts : 0 .. MaxAttempts,
   wait : Nat, lease : Nat, claimedBy : Worker \cup {NoWorker}, keep : Nat]

WorkerState ==
  [pc : {"idle", "posting", "answered", "failing"},
   todo : SUBSET Event,        \* what is left of the batch, hand included
   hand : Event,               \* the event in hand, unless idle
   left : 0 .. EventTime,      \* what is left of its time
   ok : BOOLEAN,               \* the endpoint's answer
   attempts : 0 .. MaxAttempts]   \* v_attempts

TypeOK ==
  /\ metric \in Value \cup {NoRow, Absent}
  /\ outbox \in [Event -> EventRow]
  /\ active \in BOOLEAN
  /\ accepted \subseteq Event
  /\ worker \in [Worker -> WorkerState]
  /\ late \subseteq Event
  /\ mishaps \in 0 .. Mishaps

Idle == [pc |-> "idle", todo |-> {}, hand |-> CHOOSE e \in Event : TRUE,
         left |-> 0, ok |-> FALSE, attempts |-> 0]

Unwritten == [status |-> "new", from |-> Absent, attempts |-> 0, wait |-> 0,
              lease |-> 0, claimedBy |-> NoWorker, keep |-> 0]

Init ==
  /\ metric = NoRow
  /\ outbox = [e \in Event |-> Unwritten]
  /\ active = TRUE
  /\ accepted = {}
  /\ worker = [w \in Worker |-> Idle]
  /\ late = {}
  /\ mishaps = 0

Held == UNION {worker[w].todo : w \in Worker}

(* No code: late collects, for the properties, each event whose claim ran  *)
(* out while a drain still had it to do, until no drain has it any more.   *)
Overstay == late' = {e \in Held' : e \in late \/ outbox'[e].lease = 0}

-----------------------------------------------------------------------------
(* The producer. *)

(* app.upsert_envelope_row.  The trigger fires on an update whose metric   *)
(* `is distinct from` what was there: null counts as a value.              *)
Upsert(v) ==
  /\ IF metric \in {NoRow, v}
     THEN UNCHANGED outbox
     ELSE \E e \in Event :
            /\ outbox[e].status = "new"
            /\ outbox' = [outbox EXCEPT ![e].status = "queued", ![e].from = metric]
  /\ metric' = v
  /\ UNCHANGED <<active, accepted, worker, late, mishaps>>

-----------------------------------------------------------------------------
(* app.due_restatement_events. *)

(* Mutants: the lease is ignored; it is never treated as abandoned; a dead *)
(* letter is due again.                                                    *)
DueWhateverTheLease ==
  {e \in Event : outbox[e].status = "queued" /\ active /\ outbox[e].wait = 0}

DueUnlessClaimed ==
  {e \in Event : /\ outbox[e].status = "queued" /\ active
                 /\ outbox[e].wait = 0 /\ outbox[e].claimedBy = NoWorker}

DueUnlessDelivered ==
  {e \in Event : /\ outbox[e].status \in {"queued", "failed"} /\ active
                 /\ outbox[e].wait = 0 /\ outbox[e].lease = 0}

Due ==
  {e \in Event : /\ outbox[e].status = "queued" /\ active
                 /\ outbox[e].wait = 0 /\ outbox[e].lease = 0}

(* The batch: the oldest Batch of the due events.  Which those are matters *)
(* to no property here, so any Batch of them will do.                      *)
Batches ==
  {b \in SUBSET Due :
     Cardinality(b) = IF Cardinality(Due) < Batch THEN Cardinality(Due) ELSE Batch}

(* Take the next event in hand, or end the invocation. *)
GoOn(w, todo) ==
  /\ IF todo = {} THEN worker' = [worker EXCEPT ![w] = Idle]
     ELSE \E e \in todo :
            worker' = [worker EXCEPT ![w] = [Idle EXCEPT !.pc = "posting", !.todo = todo,
                                                         !.hand = e, !.left = EventTime]]
  /\ Overstay

(* claimed_at < now - lease is first true one instant after the lease. *)
Claim(w) ==
  /\ worker[w].pc = "idle" /\ Due # {}
  /\ \E batch \in Batches :
       /\ batch # {}
       /\ outbox' = [e \in Event |->
                       IF e \in batch
                       THEN [outbox[e] EXCEPT !.lease = Lease + 1, !.claimedBy = w]
                       ELSE outbox[e]]
       /\ GoOn(w, batch)
  /\ UNCHANGED <<metric, active, accepted, mishaps>>

-----------------------------------------------------------------------------
(* deliverBatch. *)

(* restatementEventSchema takes a number in revised_from, or no key. *)
WellFormed(e) == outbox[e].from # Absent

Answer(w, ok) ==
  worker' = [worker EXCEPT ![w].pc = "answered", ![w].ok = ok]

(* The contract refuses the payload: nothing is sent. *)
Refuse(w) ==
  /\ worker[w].pc = "posting" /\ ~WellFormed(worker[w].hand)
  /\ Answer(w, FALSE)
  /\ UNCHANGED <<metric, outbox, active, accepted, late, mishaps>>

(* The POST: a 2xx, or another status, a timeout or a thrown send.  The    *)
(* endpoint may have taken an event whose answer is then lost.             *)
Post(w) ==
  /\ worker[w].pc = "posting" /\ WellFormed(worker[w].hand)
  /\ \/ accepted' = accepted \cup {worker[w].hand} /\ Answer(w, TRUE)
     \/ UNCHANGED accepted /\ Answer(w, FALSE)
  /\ UNCHANGED <<metric, outbox, active, late, mishaps>>

Rest(w) == worker[w].todo \ {worker[w].hand}

(* record throws: the outcome is lost, and the drain goes on. *)
RecordLost(w) ==
  /\ worker[w].pc = "answered" /\ mishaps < Mishaps
  /\ mishaps' = mishaps + 1
  /\ UNCHANGED <<metric, outbox, active, accepted>>
  /\ GoOn(w, Rest(w))

(* delivered_at is null and failed_at is null *)
Open(e) == outbox[e].status = "queued"

AfterSuccess(row) ==
  [row EXCEPT !.status = "delivered", !.attempts = @ + 1,
              !.lease = 0, !.claimedBy = NoWorker, !.keep = RetainDelivered + 1]

(* app.record_delivery(.., true): one guarded statement. *)
RecordSuccess(w) ==
  LET e == worker[w].hand IN
  /\ worker[w].pc = "answered" /\ worker[w].ok
  /\ outbox' = IF Open(e) THEN [outbox EXCEPT ![e] = AfterSuccess(@)] ELSE outbox
  /\ GoOn(w, Rest(w))
  /\ UNCHANGED <<metric, active, accepted, mishaps>>

(* app.record_delivery(.., false), its first statement: read attempts, and *)
(* return false when the event is settled or gone.                         *)
FailureRead(w) ==
  LET e == worker[w].hand IN
  /\ worker[w].pc = "answered" /\ ~worker[w].ok
  /\ UNCHANGED <<metric, outbox, active, accepted, mishaps>>
  /\ IF Open(e)
     THEN /\ worker' = [worker EXCEPT ![w].pc = "failing",
                                      ![w].attempts = outbox[e].attempts + 1]
          /\ UNCHANGED late
     ELSE GoOn(w, Rest(w))

(* Mutant: the last attempt is never made. *)
SpentOneEarly(attempts) == attempts + 1 >= MaxAttempts

Spent(attempts) == attempts >= MaxAttempts

(* Mutant: the attempts are never spent. *)
AfterFailureForever(row, attempts) ==
  [row EXCEPT !.attempts = attempts, !.wait = Backoff[1],
              !.lease = 0, !.claimedBy = NoWorker]

(* Mutant: a failure clears the outcome it finds. *)
AfterFailureOverDelivery(row, attempts) ==
  [row EXCEPT !.status = IF attempts >= MaxAttempts THEN "failed" ELSE "queued",
              !.attempts = attempts, !.keep = RetainFailed + 1, !.wait = Backoff[1],
              !.lease = 0, !.claimedBy = NoWorker]

(* The row its second statement writes, whatever became of it meanwhile:   *)
(* failed_at is the outcome of the case expression, null included.         *)
AfterFailure(row, attempts) ==
  [row EXCEPT
     !.status = IF row.status = "delivered" THEN "delivered"
                ELSE IF Spent(attempts) THEN "failed" ELSE "queued",
     !.keep = IF row.status # "delivered" /\ Spent(attempts)
              THEN RetainFailed + 1 ELSE @,
     !.attempts = attempts,
     !.wait = IF Spent(attempts) THEN @ ELSE Backoff[attempts],
     !.lease = 0, !.claimedBy = NoWorker]

(* Its second statement, by id alone.  Nothing to update when the event    *)
(* was pruned; restatement_events_not_both_outcomes refuses a dead letter  *)
(* over a delivery, and the drain takes that as a record that threw.       *)
FailureWrite(w) ==
  LET e == worker[w].hand
      attempts == worker[w].attempts
      refused == outbox[e].status = "delivered" /\ Spent(attempts)
  IN
  /\ worker[w].pc = "failing"
  /\ outbox' = IF refused \/ outbox[e].status = "gone" THEN outbox
               ELSE [outbox EXCEPT ![e] = AfterFailure(@, attempts)]
  /\ GoOn(w, Rest(w))
  /\ UNCHANGED <<metric, active, accepted, mishaps>>

(* The invocation dies; a statement already sent is executed first. *)
Crash(w) ==
  /\ worker[w].pc \in {"posting", "answered"} /\ mishaps < Mishaps
  /\ mishaps' = mishaps + 1
  /\ worker' = [worker EXCEPT ![w] = Idle]
  /\ UNCHANGED <<metric, outbox, active, accepted>>
  /\ Overstay

-----------------------------------------------------------------------------
(* The rest. *)

(* Mutant: the prune goes by age alone. *)
PrunableByAge(e) == outbox[e].status # "new" /\ outbox[e].keep = 0

Prunable(e) == outbox[e].status \in {"delivered", "failed"} /\ outbox[e].keep = 0

(* app.prune_restatement_events, one row of it at a time: rows are         *)
(* independent and their order is not specified.                           *)
Prune(e) ==
  /\ Prunable(e)
  /\ outbox' = [outbox EXCEPT ![e] = [Unwritten EXCEPT !.status = "gone"]]
  /\ UNCHANGED <<metric, active, accepted, worker, late, mishaps>>

(* The endpoint is disabled, or enabled again. *)
Switch ==
  /\ active' = ~active
  /\ UNCHANGED <<metric, outbox, accepted, worker, late, mishaps>>

Less(n) == IF n = 0 THEN 0 ELSE n - 1

(* Time passes.  A live drain is done with the event in hand within        *)
(* EventTime, and the two statements of one call take no time.             *)
Tick ==
  /\ \A w \in Worker : worker[w].pc # "idle" =>
       worker[w].left > 0 /\ worker[w].pc # "failing"
  /\ outbox' = [e \in Event |-> [outbox[e] EXCEPT !.wait = Less(@), !.lease = Less(@),
                                                  !.keep = Less(@)]]
  /\ worker' = [w \in Worker |-> [worker[w] EXCEPT !.left = Less(@)]]
  /\ Overstay
  /\ UNCHANGED <<metric, active, accepted, mishaps>>

WorkerStep(w) ==
  \/ Claim(w)
  \/ Refuse(w) \/ Post(w)
  \/ RecordSuccess(w) \/ FailureRead(w) \/ FailureWrite(w)

Next ==
  \/ \E v \in Value \cup {Absent} : Upsert(v)
  \/ \E w \in Worker : WorkerStep(w) \/ RecordLost(w) \/ Crash(w)
  \/ \E e \in Event : Prune(e)
  \/ Switch
  \/ Tick

Spec == Init /\ [][Next]_vars

(* The cron keeps starting drains, a live drain keeps going, and time      *)
(* passes.  The endpoint owes nobody an answer.                            *)
Fairness ==
  /\ \A w \in Worker : WF_vars(WorkerStep(w))
  /\ WF_vars(Tick)

FairSpec == Spec /\ Fairness

-----------------------------------------------------------------------------
(* Properties. *)

(* "Two workers must not both deliver the same event": two drains have one *)
(* event to do only when a batch has outlived its lease, never by a claim  *)
(* that takes what another drain has claimed and not yet outstayed.        *)
OneWorkerPerEvent ==
  \A v, w \in Worker : v # w => worker[v].todo \cap worker[w].todo \subseteq late

(* A dead letter "will never be attempted again" and a delivery is not     *)
(* repeated: an event whose outcome is written is posted only from a batch *)
(* that has outlived its lease.                                            *)
NeverPostSettled ==
  \A w \in Worker : worker[w].pc = "posting" =>
    Open(worker[w].hand) \/ worker[w].hand \in late

(* Recorded as delivered means the endpoint said so, and recorded as dead  *)
(* means every attempt was spent.                                          *)
OutcomeIsTrue ==
  \A e \in Event :
    /\ outbox[e].status = "delivered" => e \in accepted
    /\ outbox[e].status = "failed" => outbox[e].attempts = MaxAttempts

(* A delivery that is recorded survives whatever an overlapping drain      *)
(* records after it, until it is pruned; a dead letter is put back in the  *)
(* queue only by a drain that has outstayed its claim; and no event leaves *)
(* the outbox without an outcome: "an undelivered event is never pruned,   *)
(* at any age".                                                            *)
OutcomeKept ==
  \A e \in Event :
    /\ outbox[e].status = "delivered" => outbox'[e].status \in {"delivered", "gone"}
    /\ outbox[e].status = "failed" =>
         outbox'[e].status \in {"failed", "gone"} \/ e \in late
    /\ outbox'[e].status = "gone" =>
         outbox[e].status \in {"delivered", "failed", "gone"}

OutcomeIsFinal == [][OutcomeKept]_vars

(* A dead-lettered event was at least posted. *)
DeadLetterWasPosted ==
  \A e \in Event : outbox[e].status = "failed" => WellFormed(e)

(* Every event is settled in the end, once its endpoint stays active: none *)
(* is stranded by a crash, a lost outcome or a stale claim.                *)
Settled(e) == outbox[e].status \in {"delivered", "failed", "gone"}

EveryEventSettles ==
  <>[]active => \A e \in Event : outbox[e].status = "queued" ~> Settled(e)

(* The drains, their claims and the two statements of a failure implement  *)
(* the contract of the outbox, overlaps of drains included.                *)
Contract == INSTANCE OutboxContract
              WITH state <- [e \in Event |-> outbox[e].status], taken <- accepted

ImplementsContract == Contract!Spec
=============================================================================
