----------------------- MODULE WebhookDeliveryProofs -----------------------
(***************************************************************************)
(* What TLAPS proves of WebhookDelivery, for any number of events, values  *)
(* and drains, any backoff schedule and any number of crashes.             *)
(*                                                                         *)
(* The argument: an event that no drain has kept past its claim belongs to *)
(* one drain, which is in its claimed_by, and is still queued with lease   *)
(* to go.  So it is not due, nobody else claims or settles it, and every   *)
(* overlap of two drains is on an event one of them has been late with.    *)
(* No proportion between batch, time and lease is assumed.                 *)
(***************************************************************************)
EXTENDS WebhookDelivery, FiniteSetTheorems, TLAPS

USE DeliveryAssumption

-----------------------------------------------------------------------------
(* Types. *)

(* A drain that is under way has an event of its batch in hand, and counts *)
(* its attempts from one.                                                  *)
Handed(w) ==
  /\ worker[w].pc = "idle" => worker[w].todo = {}
  /\ worker[w].pc # "idle" => worker[w].hand \in worker[w].todo
  /\ worker[w].pc = "failing" => worker[w].attempts >= 1

(* An event with no outcome has an attempt left. *)
Unspent(e) == outbox[e].status \in {"new", "queued"} => outbox[e].attempts < MaxAttempts

Typed ==
  /\ TypeOK
  /\ \A w \in Worker : Handed(w)
  /\ \A e \in Event : Unspent(e)

LEMMA MaxAttemptsTyped == MaxAttempts \in Nat /\ MaxAttempts >= 1
BY DEF MaxAttempts

LEMMA IdleTyped == Idle \in WorkerState /\ Unwritten \in EventRow
<1>1. (CHOOSE e \in Event : TRUE) \in Event
  OBVIOUS
<1> QED
  BY <1>1, MaxAttemptsTyped DEF Idle, WorkerState, Unwritten, EventRow

LEMMA TypedInit == Init => Typed
<1> SUFFICES ASSUME Init PROVE Typed
  OBVIOUS
<1>1. Unwritten.status = "new" /\ Unwritten.attempts = 0
  BY DEF Unwritten
<1>2. Idle.pc = "idle" /\ Idle.todo = {}
  BY DEF Idle
<1> QED
  BY <1>1, <1>2, IdleTyped, MaxAttemptsTyped DEF Init, Typed, TypeOK, Handed, Unspent

(* What is late is in some drain's batch. *)
LEMMA OverstayTyped ==
  ASSUME worker' \in [Worker -> WorkerState], Overstay
  PROVE  late' \subseteq Event
BY DEF Overstay, Held, WorkerState

(* Going on to the rest of a batch leaves every drain well typed. *)
LEMMA GoOnTyped ==
  ASSUME Typed, NEW w \in Worker, NEW todo \in SUBSET Event, GoOn(w, todo)
  PROVE  /\ worker' \in [Worker -> WorkerState]
         /\ \A v \in Worker : Handed(v)'
         /\ \A v \in Worker : v # w => worker'[v] = worker[v]
         /\ worker'[w].todo = todo
         /\ worker'[w].pc \in {"idle", "posting"}
         /\ late' \subseteq Event
<1>t. worker \in [Worker -> WorkerState] /\ \A v \in Worker : Handed(v)
  BY DEF Typed, TypeOK
<1> SUFFICES (worker' \in [Worker -> WorkerState])
              /\ (\A v \in Worker : Handed(v)')
              /\ (\A v \in Worker : v # w => worker'[v] = worker[v])
              /\ worker'[w].todo = todo /\ worker'[w].pc \in {"idle", "posting"}
  BY OverstayTyped DEF GoOn
<1>1. CASE todo = {}
  <2>1. worker' = [worker EXCEPT ![w] = Idle]
    BY <1>1 DEF GoOn
  <2>2. Idle.pc = "idle" /\ Idle.todo = {}
    BY DEF Idle
  <2> QED
    BY <1>1, <1>t, <2>1, <2>2, IdleTyped DEF Handed
<1>2. CASE todo # {}
  <2>1. PICK e \in todo :
          worker' = [worker EXCEPT ![w] = [Idle EXCEPT !.pc = "posting", !.todo = todo,
                                                       !.hand = e, !.left = EventTime]]
    BY <1>2 DEF GoOn
  <2> DEFINE next == [Idle EXCEPT !.pc = "posting", !.todo = todo,
                                  !.hand = e, !.left = EventTime]
  <2>2. next \in WorkerState
    <3>1. e \in Event /\ EventTime \in 0 .. EventTime
      OBVIOUS
    <3> QED
      BY <3>1, IdleTyped DEF WorkerState, Idle
  <2>3. /\ next.pc = "posting" /\ next.todo = todo /\ next.hand = e
        /\ next.left = EventTime
    BY DEF Idle
  <2> HIDE DEF next
  <2>4. worker' = [worker EXCEPT ![w] = next]
    BY <2>1 DEF next
  <2>5. worker'[w] = next /\ \A v \in Worker : v # w => worker'[v] = worker[v]
    BY <1>t, <2>4
  <2> QED
    BY <1>t, <2>2, <2>3, <2>4, <2>5 DEF Handed
<1> QED
  BY <1>1, <1>2

(* One row of the outbox takes a well-typed value. *)
LEMMA RowTyped ==
  ASSUME Typed, NEW e \in Event, NEW row \in EventRow,
         row.status \in {"new", "queued"} => row.attempts < MaxAttempts,
         outbox' = [outbox EXCEPT ![e] = row]
  PROVE  outbox' \in [Event -> EventRow] /\ \A d \in Event : Unspent(d)'
BY DEF Typed, TypeOK, Unspent

(* What the two branches of record_delivery write are rows. *)
LEMMA AfterSuccessTyped ==
  ASSUME NEW row \in EventRow, row.attempts < MaxAttempts
  PROVE  AfterSuccess(row) \in EventRow /\ AfterSuccess(row).status = "delivered"
<1>1. row.attempts + 1 \in 0 .. MaxAttempts /\ RetainDelivered + 1 \in Nat
  BY MaxAttemptsTyped DEF EventRow
<1> QED
  BY <1>1 DEF AfterSuccess, EventRow

LEMMA AfterFailureTyped ==
  ASSUME NEW row \in EventRow, NEW attempts \in 1 .. MaxAttempts
  PROVE  /\ AfterFailure(row, attempts) \in EventRow
         /\ AfterFailure(row, attempts).status \in {"new", "queued"} =>
              AfterFailure(row, attempts).attempts < MaxAttempts
<1> DEFINE wait == IF Spent(attempts) THEN row.wait ELSE Backoff[attempts]
           status == IF row.status = "delivered" THEN "delivered"
                     ELSE IF Spent(attempts) THEN "failed" ELSE "queued"
           keep == IF row.status # "delivered" /\ Spent(attempts)
                   THEN RetainFailed + 1 ELSE row.keep
<1>1. wait \in Nat
  BY DEF Spent, MaxAttempts, EventRow
<1>2. /\ status \in {"queued", "delivered", "failed"}
      /\ status = "queued" => attempts < MaxAttempts
  BY MaxAttemptsTyped DEF Spent
<1>3. keep \in Nat
  BY DEF EventRow
<1>4. attempts \in 0 .. MaxAttempts
  BY MaxAttemptsTyped
<1>5. AfterFailure(row, attempts) =
        [row EXCEPT !.status = status, !.keep = keep, !.attempts = attempts,
                    !.wait = wait, !.lease = 0, !.claimedBy = NoWorker]
  BY DEF AfterFailure
<1> HIDE DEF wait, status, keep
<1>6. AfterFailure(row, attempts) \in EventRow
  <2>1. status \in {"new", "queued", "delivered", "failed", "gone"}
    BY <1>2
  <2> DEFINE half == [row EXCEPT !.status = status, !.keep = keep, !.attempts = attempts]
             whole == [half EXCEPT !.wait = wait, !.lease = 0, !.claimedBy = NoWorker]
  <2>2. half \in EventRow
    BY <1>3, <1>4, <2>1 DEF EventRow
  <2>3. AfterFailure(row, attempts) = whole
    BY <1>5 DEF EventRow
  <2> HIDE DEF half
  <2>4. whole \in EventRow
    BY <1>1, <2>2 DEF EventRow
  <2> QED
    BY <2>3, <2>4
<1>7. AfterFailure(row, attempts).status = status /\ AfterFailure(row, attempts).attempts = attempts
  BY <1>5 DEF EventRow
<1> QED
  BY <1>2, <1>6, <1>7

LEMMA TypedStep == Typed /\ [Next]_vars => Typed'
<1> SUFFICES ASSUME Typed, [Next]_vars PROVE Typed'
  OBVIOUS
<1>t. /\ metric \in Value \cup {NoRow, Absent} /\ outbox \in [Event -> EventRow]
      /\ active \in BOOLEAN /\ accepted \subseteq Event
      /\ worker \in [Worker -> WorkerState] /\ mishaps \in 0 .. Mishaps /\ late \subseteq Event
      /\ \A w \in Worker : Handed(w)
      /\ \A e \in Event : Unspent(e)
  BY DEF Typed, TypeOK
<1>a. ASSUME NEW w \in Worker, worker[w].pc # "idle"
      PROVE  /\ worker[w].hand \in Event /\ outbox[worker[w].hand] \in EventRow
             /\ Rest(w) \in SUBSET Event
  BY <1>a, <1>t DEF WorkerState, Rest
<1>1. ASSUME NEW v \in Value \cup {Absent}, Upsert(v) PROVE Typed'
  <2>1. metric' \in Value \cup {NoRow, Absent} /\ UNCHANGED <<active, accepted, worker, late, mishaps>>
    BY <1>1 DEF Upsert
  <2>2. CASE UNCHANGED outbox
    BY <1>t, <2>1, <2>2 DEF Typed, TypeOK, Handed, Unspent
  <2>3. CASE metric \notin {NoRow, v}
    <3>1. PICK e \in Event :
            /\ outbox[e].status = "new"
            /\ outbox' = [outbox EXCEPT ![e].status = "queued", ![e].from = metric]
      BY <1>1, <2>3 DEF Upsert
    <3> DEFINE row == [outbox[e] EXCEPT !.status = "queued", !.from = metric]
    <3>2. metric \in Value \cup {Absent}
      BY <1>t, <2>3
    <3>3. row \in EventRow /\ row.attempts < MaxAttempts
      BY <1>t, <3>1, <3>2 DEF EventRow, Unspent
    <3>4. outbox' = [outbox EXCEPT ![e] = row]
      BY <1>t, <3>1
    <3> HIDE DEF row
    <3> QED
      BY <1>t, <2>1, <3>3, <3>4, RowTyped DEF Typed, TypeOK, Handed
  <2> QED
    BY <1>1, <2>2, <2>3 DEF Upsert
<1>2. ASSUME NEW w \in Worker, Claim(w) PROVE Typed'
  <2>1. PICK batch \in Batches :
          /\ outbox' = [e \in Event |->
                          IF e \in batch
                          THEN [outbox[e] EXCEPT !.lease = Lease + 1, !.claimedBy = w]
                          ELSE outbox[e]]
          /\ GoOn(w, batch)
    BY <1>2 DEF Claim
  <2>2. batch \in SUBSET Event
    BY DEF Batches, Due
  <2>3. /\ worker' \in [Worker -> WorkerState] /\ \A v \in Worker : Handed(v)'
        /\ late' \subseteq Event
    BY <2>1, <2>2, GoOnTyped
  <2>4. ASSUME NEW e \in Event PROVE outbox'[e] \in EventRow /\ Unspent(e)'
    <3> DEFINE row == [outbox[e] EXCEPT !.lease = Lease + 1, !.claimedBy = w]
    <3>1. /\ row \in EventRow /\ row.status = outbox[e].status
          /\ row.attempts = outbox[e].attempts
      <4>1. outbox[e] \in EventRow /\ Lease + 1 \in Nat
        BY <1>t
      <4> QED
        BY <4>1 DEF EventRow
    <3>2. outbox'[e] \in {row, outbox[e]}
      BY <2>1
    <3> HIDE DEF row
    <3> QED
      BY <1>t, <3>1, <3>2 DEF Unspent
  <2> QED
    BY <1>2, <1>t, <2>1, <2>3, <2>4 DEF Claim, Typed, TypeOK
<1>3. ASSUME NEW w \in Worker, Refuse(w) \/ Post(w) PROVE Typed'
  <2>1. PICK ok \in BOOLEAN : Answer(w, ok)
    BY <1>3 DEF Refuse, Post
  <2>2. worker' = [worker EXCEPT ![w].pc = "answered", ![w].ok = ok] /\ worker[w].pc # "idle"
    BY <1>3, <2>1 DEF Answer, Refuse, Post
  <2> DEFINE next == [worker[w] EXCEPT !.pc = "answered", !.ok = ok]
  <2>n. next \in WorkerState /\ next.todo = worker[w].todo /\ next.hand = worker[w].hand
        /\ next.pc = "answered"
    BY <1>t DEF WorkerState
  <2>o. worker' = [worker EXCEPT ![w] = next]
    BY <1>t, <2>2
  <2> HIDE DEF next
  <2>3. worker' \in [Worker -> WorkerState] /\ \A v \in Worker : Handed(v)'
    BY <1>t, <2>2, <2>n, <2>o DEF Handed
  <2>4. accepted' \subseteq Event /\ UNCHANGED <<metric, outbox, active, late, mishaps>>
    BY <1>3, <1>t, <1>a, <2>2 DEF Refuse, Post
  <2> QED
    BY <1>t, <2>3, <2>4 DEF Typed, TypeOK, Unspent
<1>4. ASSUME NEW w \in Worker, RecordLost(w) PROVE Typed'
  <2>1. worker' \in [Worker -> WorkerState] /\ late' \subseteq Event /\ \A v \in Worker : Handed(v)'
    BY <1>4, <1>a, GoOnTyped DEF RecordLost
  <2> QED
    BY <1>4, <1>t, <2>1 DEF RecordLost, Typed, TypeOK, Unspent
<1>5. ASSUME NEW w \in Worker, RecordSuccess(w) PROVE Typed'
  <2> DEFINE e == worker[w].hand
             row == AfterSuccess(outbox[e])
  <2>1. worker' \in [Worker -> WorkerState] /\ late' \subseteq Event /\ \A v \in Worker : Handed(v)'
    BY <1>5, <1>a, GoOnTyped DEF RecordSuccess
  <2>2. e \in Event /\ outbox[e] \in EventRow
    BY <1>5, <1>a DEF RecordSuccess
  <2>3. CASE Open(e)
    <3>1. outbox' = [outbox EXCEPT ![e] = row]
      BY <1>5, <2>3 DEF RecordSuccess
    <3>2. outbox[e].attempts < MaxAttempts
      BY <2>2, <2>3, <1>t DEF Open, Unspent
    <3>3. row \in EventRow /\ row.status = "delivered"
      BY <2>2, <3>2, AfterSuccessTyped
    <3> HIDE DEF row, e
    <3> QED
      BY <1>5, <1>t, <2>1, <2>2, <3>1, <3>3, RowTyped DEF RecordSuccess, Typed, TypeOK
  <2>4. CASE ~Open(e)
    BY <1>5, <1>t, <2>1, <2>4 DEF RecordSuccess, Typed, TypeOK, Unspent
  <2> QED
    BY <2>3, <2>4
<1>6. ASSUME NEW w \in Worker, FailureRead(w) PROVE Typed'
  <2> DEFINE e == worker[w].hand
  <2>1. e \in Event /\ outbox[e] \in EventRow /\ worker[w].pc = "answered"
    BY <1>6, <1>a DEF FailureRead
  <2>2. worker' \in [Worker -> WorkerState] /\ late' \subseteq Event /\ \A v \in Worker : Handed(v)'
    <3>1. CASE Open(e)
      <4>1. outbox[e].attempts + 1 \in 1 .. MaxAttempts
        BY <2>1, <3>1, <1>t, MaxAttemptsTyped DEF Open, Unspent, EventRow
      <4>2. worker' = [worker EXCEPT ![w].pc = "failing",
                                     ![w].attempts = outbox[e].attempts + 1]
        BY <1>6, <3>1 DEF FailureRead
      <4> DEFINE next == [worker[w] EXCEPT !.pc = "failing",
                                           !.attempts = outbox[e].attempts + 1]
      <4>3. /\ next \in WorkerState /\ next.todo = worker[w].todo
            /\ next.hand = worker[w].hand /\ next.pc = "failing" /\ next.attempts >= 1
        <5>1. worker[w] \in WorkerState /\ outbox[e].attempts + 1 \in 0 .. MaxAttempts
          BY <1>t, <4>1, MaxAttemptsTyped
        <5>2. next \in WorkerState
          BY <5>1 DEF WorkerState
        <5>3. /\ next.todo = worker[w].todo /\ next.hand = worker[w].hand
              /\ next.pc = "failing" /\ next.attempts = outbox[e].attempts + 1
          BY <5>1 DEF WorkerState
        <5> QED
          BY <4>1, <5>2, <5>3, MaxAttemptsTyped
      <4>4. worker' = [worker EXCEPT ![w] = next]
        BY <1>t, <4>2
      <4> HIDE DEF next
      <4> QED
        BY <1>6, <1>t, <2>1, <3>1, <4>3, <4>4 DEF Handed, FailureRead
    <3>2. CASE ~Open(e)
      BY <1>6, <1>a, <3>2, GoOnTyped DEF FailureRead
    <3> QED
      BY <3>1, <3>2
  <2> QED
    BY <1>6, <1>t, <2>2 DEF FailureRead, Typed, TypeOK, Unspent
<1>7. ASSUME NEW w \in Worker, FailureWrite(w) PROVE Typed'
  <2> DEFINE e == worker[w].hand
             row == AfterFailure(outbox[e], worker[w].attempts)
  <2>1. worker' \in [Worker -> WorkerState] /\ late' \subseteq Event /\ \A v \in Worker : Handed(v)'
    BY <1>7, <1>a, GoOnTyped DEF FailureWrite
  <2>2. e \in Event /\ outbox[e] \in EventRow
    BY <1>7, <1>a DEF FailureWrite
  <2>3. worker[w].attempts \in 1 .. MaxAttempts
    BY <1>7, <1>t, MaxAttemptsTyped DEF FailureWrite, Handed, WorkerState
  <2>4. CASE UNCHANGED outbox
    BY <1>7, <1>t, <2>1, <2>4 DEF FailureWrite, Typed, TypeOK, Unspent
  <2>5. CASE outbox' = [outbox EXCEPT ![e] = row]
    <3>1. row \in EventRow /\ (row.status \in {"new", "queued"} => row.attempts < MaxAttempts)
      BY <2>2, <2>3, AfterFailureTyped
    <3> HIDE DEF row, e
    <3> QED
      BY <1>7, <1>t, <2>1, <2>2, <2>5, <3>1, RowTyped DEF FailureWrite, Typed, TypeOK
  <2> QED
    BY <1>7, <2>4, <2>5 DEF FailureWrite
<1>8. ASSUME NEW w \in Worker, Crash(w) PROVE Typed'
  <2>1. Idle.pc = "idle" /\ Idle.todo = {}
    BY DEF Idle
  <2>2. worker' \in [Worker -> WorkerState]
    BY <1>8, <1>t, IdleTyped DEF Crash
  <2> QED
    BY <1>8, <1>t, <2>1, <2>2, OverstayTyped DEF Crash, Typed, TypeOK, Handed, Unspent
<1>9. ASSUME NEW e \in Event, Prune(e) PROVE Typed'
  <2> DEFINE row == [Unwritten EXCEPT !.status = "gone"]
  <2>1. row \in EventRow /\ row.status = "gone"
    BY IdleTyped DEF EventRow, Unwritten
  <2>2. outbox' = [outbox EXCEPT ![e] = row]
    BY <1>9 DEF Prune
  <2> HIDE DEF row
  <2> QED
    BY <1>9, <1>t, <2>1, <2>2, RowTyped DEF Prune, Typed, TypeOK, Handed
<1>10. CASE Switch
  BY <1>10, <1>t DEF Switch, Typed, TypeOK, Handed, Unspent
<1>11. CASE Tick
  <2>1. \A n \in Nat : Less(n) \in Nat /\ Less(n) <= n
    BY DEF Less
  <2>2. ASSUME NEW e \in Event PROVE outbox'[e] \in EventRow /\ Unspent(e)'
    BY <1>11, <1>t, <2>1 DEF Tick, EventRow, Unspent
  <2>3. ASSUME NEW w \in Worker PROVE worker'[w] \in WorkerState /\ Handed(w)'
    <3>1. worker'[w] = [worker[w] EXCEPT !.left = Less(@)]
      BY <1>11 DEF Tick
    <3>2. worker[w] \in WorkerState
      BY <1>t
    <3>3. Less(worker[w].left) \in 0 .. EventTime
      <4>1. worker[w].left \in 0 .. EventTime
        BY <3>2 DEF WorkerState
      <4> DEFINE n == worker[w].left
      <4>2. n \in Nat /\ n <= EventTime /\ EventTime \in Nat
        BY <4>1
      <4> HIDE DEF n
      <4>3. Less(n) \in 0 .. EventTime
        BY <4>2 DEF Less
      <4> QED
        BY <4>3 DEF n
    <3> QED
      BY <1>t, <3>1, <3>2, <3>3 DEF WorkerState, Handed
  <2>4. worker' \in [Worker -> WorkerState]
    BY <1>11, <2>3 DEF Tick
  <2> QED
    BY <1>11, <1>t, <2>2, <2>3, <2>4, OverstayTyped DEF Tick, Typed, TypeOK
<1>12. CASE UNCHANGED vars
  BY <1>12, <1>t DEF vars, Typed, TypeOK, Handed, Unspent
<1> QED
  BY <1>1, <1>2, <1>3, <1>4, <1>5, <1>6, <1>7, <1>8, <1>9, <1>10, <1>11, <1>12
     DEF Next, WorkerStep

(* Every reachable state of the outbox and its drains is well typed: no    *)
(* event is tried more often than there are attempts, and no delay beyond  *)
(* the schedule is ever asked for.                                         *)
THEOREM TypeCorrect == Spec => []TypeOK
<1>1. Typed => TypeOK
  BY DEF Typed
<1> QED
  BY <1>1, TypedInit, TypedStep, PTL DEF Spec

-----------------------------------------------------------------------------
(* One live drain per event. *)

(* What drain w has to do and has not outstayed is open, is claimed by it, *)
(* and has lease to go.                                                    *)
Holds(w) ==
  \A e \in worker[w].todo \ late :
    /\ outbox[e].status = "queued" /\ outbox[e].claimedBy = w
    /\ outbox[e].lease > 0

Exclusive == \A w \in Worker : Holds(w)

LEMMA TodoTyped ==
  ASSUME Typed, NEW w \in Worker
  PROVE  /\ worker[w].todo \in SUBSET Event
         /\ worker[w].pc # "idle" =>
              worker[w].hand \in worker[w].todo /\ Rest(w) \in SUBSET worker[w].todo
BY DEF Typed, TypeOK, WorkerState, Handed, Rest

(* What is not late after a step was not late before it, and has lease.    *)
LEMMA StillInTime ==
  ASSUME Overstay, NEW v \in Worker, NEW e \in worker'[v].todo, e \notin late'
  PROVE  e \notin late /\ outbox'[e].lease # 0
BY DEF Overstay, Held

(* A step that leaves what a drain has to do, and the rows of what it has  *)
(* in time.                                                                *)
LEMMA HoldsFrame ==
  ASSUME Typed, NEW w \in Worker, Holds(w), worker'[w].todo = worker[w].todo,
         late' = late \/ Overstay,
         \A e \in worker[w].todo \ late : outbox'[e] = outbox[e]
  PROVE  Holds(w)'
<1> SUFFICES ASSUME NEW e \in worker[w].todo, e \notin late'
             PROVE  /\ outbox'[e].status = "queued" /\ outbox'[e].claimedBy = w
                    /\ outbox'[e].lease > 0
  BY DEF Holds
<1>1. e \notin late
  BY StillInTime
<1> QED
  BY <1>1 DEF Holds

(* Going on after a step that touched at most the row in hand: another     *)
(* drain that has the event in hand too has outstayed its claim.           *)
LEMMA GoOnHolds ==
  ASSUME Typed, Exclusive, NEW w \in Worker, worker[w].pc # "idle",
         GoOn(w, Rest(w)),
         \A e \in Event : e # worker[w].hand => outbox'[e] = outbox[e]
  PROVE  Exclusive'
<1>1. Rest(w) \in SUBSET Event /\ worker[w].hand \in worker[w].todo
  BY TodoTyped
<1>2. /\ \A v \in Worker : v # w => worker'[v] = worker[v]
      /\ worker'[w].todo = Rest(w)
  BY <1>1, GoOnTyped
<1>3. Overstay
  BY DEF GoOn
<1> SUFFICES ASSUME NEW v \in Worker, NEW e \in worker'[v].todo, e \notin late'
             PROVE  /\ outbox'[e].status = "queued" /\ outbox'[e].claimedBy = v
                    /\ outbox'[e].lease > 0
  BY DEF Exclusive, Holds
<1>4. e \notin late
  BY <1>3, StillInTime
<1>5. e \in worker[v].todo /\ e \in Event
  BY <1>2, TodoTyped DEF Rest
<1>6. e # worker[w].hand
  <2>1. CASE v = w
    BY <1>2, <2>1 DEF Rest
  <2>2. CASE v # w
    BY <1>1, <1>4, <1>5, <2>2 DEF Exclusive, Holds
  <2> QED
    BY <2>1, <2>2
<1> QED
  BY <1>4, <1>5, <1>6 DEF Exclusive, Holds

(* A new claim takes nothing that another drain has in time. *)
LEMMA ClaimHolds ==
  ASSUME Typed, Exclusive, NEW w \in Worker, Claim(w)
  PROVE  Exclusive'
<1>1. PICK batch \in Batches :
        /\ outbox' = [e \in Event |->
                        IF e \in batch
                        THEN [outbox[e] EXCEPT !.lease = Lease + 1, !.claimedBy = w]
                        ELSE outbox[e]]
        /\ GoOn(w, batch)
  BY DEF Claim
<1>2. batch \in SUBSET Due /\ batch \in SUBSET Event
  BY DEF Batches, Due
<1>3. /\ \A v \in Worker : v # w => worker'[v] = worker[v]
      /\ worker'[w].todo = batch
  BY <1>1, <1>2, GoOnTyped
<1>4. ASSUME NEW v \in Worker, v # w PROVE Holds(v)'
  <2>1. ASSUME NEW e \in worker[v].todo \ late PROVE outbox'[e] = outbox[e]
    <3>1. e \in Event /\ e \notin batch
      BY <1>2, TodoTyped DEF Exclusive, Holds, Due
    <3> QED
      BY <1>1, <3>1
  <2>2. Overstay
    BY <1>1 DEF GoOn
  <2> QED
    BY <1>3, <1>4, <2>1, <2>2, HoldsFrame DEF Exclusive
<1>5. Holds(w)'
  <2> SUFFICES ASSUME NEW e \in batch
               PROVE  /\ outbox'[e].status = "queued" /\ outbox'[e].claimedBy = w
                      /\ outbox'[e].lease > 0
    BY <1>3 DEF Holds
  <2>1. e \in Event /\ outbox[e].status = "queued" /\ outbox[e] \in EventRow
    BY <1>2 DEF Due, Typed, TypeOK
  <2>2. outbox'[e] = [outbox[e] EXCEPT !.lease = Lease + 1, !.claimedBy = w]
    BY <1>1, <2>1
  <2> QED
    BY <2>1, <2>2 DEF EventRow
<1> QED
  BY <1>4, <1>5 DEF Exclusive

(* A lease that runs out makes its event late, and no other claim ends.    *)
LEMMA TickHolds == Typed /\ Exclusive /\ Tick => Exclusive'
<1> SUFFICES ASSUME Typed, Exclusive, Tick, NEW w \in Worker,
                    NEW e \in worker'[w].todo, e \notin late'
             PROVE  /\ outbox'[e].status = "queued" /\ outbox'[e].claimedBy = w
                    /\ outbox'[e].lease > 0
  BY DEF Exclusive, Holds
<1>1. worker'[w].todo = worker[w].todo
  BY DEF Tick, Typed, TypeOK, WorkerState
<1>2. e \in Event /\ e \notin late /\ outbox'[e].lease # 0
  BY <1>1, TodoTyped, StillInTime DEF Tick
<1>3. /\ outbox[e] \in EventRow
      /\ outbox'[e] = [outbox[e] EXCEPT !.wait = Less(@), !.lease = Less(@), !.keep = Less(@)]
  BY <1>2 DEF Tick, Typed, TypeOK
<1>4. /\ outbox'[e].status = outbox[e].status /\ outbox'[e].claimedBy = outbox[e].claimedBy
      /\ outbox'[e].lease = Less(outbox[e].lease) /\ outbox[e].lease \in Nat
  BY <1>3 DEF EventRow
<1>5. outbox'[e].lease > 0
  BY <1>2, <1>4 DEF Less
<1> QED
  BY <1>1, <1>2, <1>4, <1>5 DEF Exclusive, Holds

LEMMA ExclusiveStep == Typed /\ Exclusive /\ [Next]_vars => Exclusive'
<1> SUFFICES ASSUME Typed, Exclusive, [Next]_vars PROVE Exclusive'
  OBVIOUS
<1>t. /\ outbox \in [Event -> EventRow] /\ worker \in [Worker -> WorkerState]
      /\ \A v \in Worker : worker[v].todo \in SUBSET Event
  BY TodoTyped DEF Typed, TypeOK
(* Rows that are not open are in no drain's batch in time. *)
<1>u. ASSUME UNCHANGED <<worker, late>>,
             \A e \in Event : outbox[e].status = "queued" => outbox'[e] = outbox[e]
      PROVE  Exclusive'
  <2> SUFFICES ASSUME NEW v \in Worker PROVE Holds(v)'
    BY DEF Exclusive
  <2>1. \A e \in worker[v].todo \ late : outbox'[e] = outbox[e]
    BY <1>t, <1>u DEF Exclusive, Holds
  <2> QED
    BY <1>u, <2>1, HoldsFrame DEF Exclusive
(* A step that changes only where one drain stands with its event. *)
<1>v. ASSUME NEW w \in Worker, NEW next,
             worker' = [worker EXCEPT ![w] = next],
             next.todo = worker[w].todo, UNCHANGED <<outbox, late>>
      PROVE  Exclusive'
  <2> SUFFICES ASSUME NEW v \in Worker PROVE Holds(v)'
    BY DEF Exclusive
  <2>1. worker'[v].todo = worker[v].todo
    BY <1>t, <1>v
  <2> QED
    BY <1>v, <2>1, HoldsFrame DEF Exclusive
<1>1. ASSUME NEW v \in Value \cup {Absent}, Upsert(v) PROVE Exclusive'
  <2>1. \A e \in Event : outbox[e].status = "queued" => outbox'[e] = outbox[e]
    BY <1>1, <1>t DEF Upsert
  <2> QED
    BY <1>1, <1>u, <2>1 DEF Upsert
<1>2. ASSUME NEW w \in Worker, Claim(w) PROVE Exclusive'
  BY <1>2, ClaimHolds
<1>3. ASSUME NEW w \in Worker, Refuse(w) \/ Post(w) PROVE Exclusive'
  <2>1. PICK ok \in BOOLEAN : Answer(w, ok)
    BY <1>3 DEF Refuse, Post
  <2> DEFINE next == [worker[w] EXCEPT !.pc = "answered", !.ok = ok]
  <2>2. next.todo = worker[w].todo
    BY <1>t DEF WorkerState
  <2>3. worker' = [worker EXCEPT ![w] = next]
    BY <1>t, <2>1 DEF Answer
  <2> HIDE DEF next
  <2> QED
    BY <1>3, <1>v, <2>2, <2>3 DEF Refuse, Post
<1>4. ASSUME NEW w \in Worker, RecordLost(w) PROVE Exclusive'
  BY <1>4, GoOnHolds DEF RecordLost
<1>5. ASSUME NEW w \in Worker, RecordSuccess(w) PROVE Exclusive'
  BY <1>5, <1>t, GoOnHolds DEF RecordSuccess
<1>6. ASSUME NEW w \in Worker, FailureRead(w) PROVE Exclusive'
  <2>1. CASE ~Open(worker[w].hand)
    BY <1>6, <2>1, GoOnHolds DEF FailureRead
  <2>2. CASE Open(worker[w].hand)
    <3> DEFINE next == [worker[w] EXCEPT !.pc = "failing",
                                         !.attempts = outbox[worker[w].hand].attempts + 1]
    <3>1. next.todo = worker[w].todo
      BY <1>t DEF WorkerState
    <3>2. worker' = [worker EXCEPT ![w] = next]
      BY <1>t, <1>6, <2>2 DEF FailureRead
    <3> HIDE DEF next
    <3> QED
      BY <1>6, <1>v, <2>2, <3>1, <3>2 DEF FailureRead
  <2> QED
    BY <2>1, <2>2
<1>7. ASSUME NEW w \in Worker, FailureWrite(w) PROVE Exclusive'
  BY <1>7, <1>t, GoOnHolds DEF FailureWrite
<1>8. ASSUME NEW w \in Worker, Crash(w) PROVE Exclusive'
  <2> SUFFICES ASSUME NEW v \in Worker PROVE Holds(v)'
    BY DEF Exclusive
  <2>1. CASE v = w
    <3>1. worker'[v].todo = {}
      BY <1>8, <1>t, <2>1 DEF Crash, Idle
    <3> QED
      BY <3>1 DEF Holds
  <2>2. CASE v # w
    BY <1>8, <1>t, <2>2, HoldsFrame DEF Crash, Exclusive
  <2> QED
    BY <2>1, <2>2
<1>9. ASSUME NEW e \in Event, Prune(e) PROVE Exclusive'
  BY <1>9, <1>t, <1>u DEF Prune, Prunable
<1>10. CASE Switch \/ UNCHANGED vars
  BY <1>10, <1>u DEF Switch, vars
<1>11. CASE Tick
  BY <1>11, TickHolds
<1> QED
  BY <1>1, <1>2, <1>3, <1>4, <1>5, <1>6, <1>7, <1>8, <1>9, <1>10, <1>11
     DEF Next, WorkerStep

LEMMA ExclusiveInductive == Spec => [](Typed /\ Exclusive)
<1>1. Init => Exclusive
  BY DEF Init, Exclusive, Holds, Idle
<1> QED
  BY <1>1, TypedInit, TypedStep, ExclusiveStep, PTL DEF Spec

(* "Two workers must not both deliver the same event": whatever the batch  *)
(* and the lease, two drains have one event to do only when one of them    *)
(* still had it when its claim ran out.                                    *)
THEOREM OneDrainPerEvent == Spec => []OneWorkerPerEvent
<1>1. Exclusive => OneWorkerPerEvent
  BY DEF Exclusive, Holds, OneWorkerPerEvent
<1> QED
  BY <1>1, ExclusiveInductive, PTL

(* Whatever the batch and the lease, an event whose outcome is written is  *)
(* posted only from a batch that has outlived its lease.                   *)
THEOREM SettledIsNotPosted == Spec => []NeverPostSettled
<1>1. Typed /\ Exclusive => NeverPostSettled
  BY DEF Typed, Handed, Exclusive, Holds, NeverPostSettled, Open
<1> QED
  BY <1>1, ExclusiveInductive, PTL

-----------------------------------------------------------------------------
(* Outcomes. *)

(* A positive answer in hand was given by the endpoint. *)
Truthful ==
  /\ OutcomeIsTrue
  /\ \A w \in Worker :
       worker[w].pc = "answered" /\ worker[w].ok => worker[w].hand \in accepted

(* A drain that goes on has no answer in hand. *)
LEMMA GoOnTruthful ==
  ASSUME Typed, Truthful, NEW w \in Worker, worker[w].pc # "idle",
         GoOn(w, Rest(w)), UNCHANGED accepted, OutcomeIsTrue'
  PROVE  Truthful'
<1>1. Rest(w) \in SUBSET Event
  BY TodoTyped DEF Rest
<1>2. /\ \A v \in Worker : v # w => worker'[v] = worker[v]
      /\ worker'[w].pc \in {"idle", "posting"}
  BY <1>1, GoOnTyped
<1> QED
  BY <1>2 DEF Truthful

LEMMA TruthfulStep == Typed /\ Truthful /\ [Next]_vars => Truthful'
<1> SUFFICES ASSUME Typed, Truthful, [Next]_vars PROVE Truthful'
  OBVIOUS
<1>t. /\ outbox \in [Event -> EventRow] /\ worker \in [Worker -> WorkerState]
      /\ OutcomeIsTrue
      /\ \A w \in Worker : worker[w].pc # "idle" => worker[w].hand \in Event
  BY TodoTyped DEF Typed, TypeOK, Truthful
(* Statuses that move to neither outcome, and attempts that stay. *)
<1>o. ASSUME accepted \subseteq accepted',
             \A e \in Event :
               outbox'[e].status \in {"delivered", "failed"} =>
                 /\ outbox'[e].status = outbox[e].status
                 /\ outbox'[e].attempts = outbox[e].attempts
      PROVE  OutcomeIsTrue'
  BY <1>o, <1>t DEF OutcomeIsTrue
<1>1. ASSUME NEW v \in Value \cup {Absent}, Upsert(v) PROVE Truthful'
  <2>1. \A e \in Event :
          outbox'[e].status \in {"delivered", "failed"} => outbox'[e] = outbox[e]
    <3>1. CASE UNCHANGED outbox
      BY <3>1
    <3>2. CASE ~UNCHANGED outbox
      <4>1. PICK d \in Event :
              outbox' = [outbox EXCEPT ![d].status = "queued", ![d].from = metric]
        BY <1>1, <3>2 DEF Upsert
      <4>2. outbox'[d].status = "queued" /\ \A e \in Event : e # d => outbox'[e] = outbox[e]
        BY <1>t, <4>1 DEF EventRow
      <4> QED
        BY <4>2
    <3> QED
      BY <3>1, <3>2
  <2> QED
    BY <1>1, <1>o, <2>1 DEF Upsert, Truthful
<1>2. ASSUME NEW w \in Worker, Claim(w) PROVE Truthful'
  <2>1. PICK batch \in Batches :
          /\ outbox' = [e \in Event |->
                          IF e \in batch
                          THEN [outbox[e] EXCEPT !.lease = Lease + 1, !.claimedBy = w]
                          ELSE outbox[e]]
          /\ GoOn(w, batch)
    BY <1>2 DEF Claim
  <2>2. batch \in SUBSET Event
    BY DEF Batches, Due
  <2>3. ASSUME NEW e \in Event
        PROVE  outbox'[e].status = outbox[e].status /\ outbox'[e].attempts = outbox[e].attempts
    <3> DEFINE row == [outbox[e] EXCEPT !.lease = Lease + 1, !.claimedBy = w]
    <3>1. row.status = outbox[e].status /\ row.attempts = outbox[e].attempts
      BY <1>t DEF EventRow
    <3>2. outbox'[e] \in {row, outbox[e]}
      BY <2>1
    <3> HIDE DEF row
    <3> QED
      BY <3>1, <3>2
  <2>4. /\ \A v \in Worker : v # w => worker'[v] = worker[v]
        /\ worker'[w].pc \in {"idle", "posting"}
    BY <2>1, <2>2, GoOnTyped
  <2> QED
    BY <1>2, <1>o, <2>3, <2>4 DEF Claim, Truthful
<1>3. ASSUME NEW w \in Worker, Refuse(w) \/ Post(w) PROVE Truthful'
  <2>1. PICK ok \in BOOLEAN :
          /\ worker' = [worker EXCEPT ![w].pc = "answered", ![w].ok = ok]
          /\ ok => worker[w].hand \in accepted'
          /\ accepted \subseteq accepted'
    BY <1>3 DEF Refuse, Post, Answer
  <2>2. worker'[w].ok = ok /\ worker'[w].hand = worker[w].hand
    BY <1>t, <2>1 DEF WorkerState
  <2>3. \A v \in Worker : v # w => worker'[v] = worker[v]
    BY <1>t, <2>1
  <2>4. UNCHANGED outbox
    BY <1>3 DEF Refuse, Post
  <2> QED
    BY <1>o, <2>1, <2>2, <2>3, <2>4 DEF Truthful
<1>4. ASSUME NEW w \in Worker, RecordLost(w) PROVE Truthful'
  BY <1>4, <1>o, GoOnTruthful DEF RecordLost
<1>5. ASSUME NEW w \in Worker, RecordSuccess(w) PROVE Truthful'
  <2> DEFINE e == worker[w].hand
  <2>1. e \in Event /\ e \in accepted
    BY <1>5, <1>t DEF RecordSuccess, Truthful
  <2>2. CASE UNCHANGED outbox
    BY <1>5, <1>o, <2>2, GoOnTruthful DEF RecordSuccess
  <2>3. CASE outbox' = [outbox EXCEPT ![e] = AfterSuccess(outbox[e])]
    <3>1. AfterSuccess(outbox[e]).status = "delivered"
      BY <1>t, <2>1 DEF AfterSuccess, EventRow
    <3>2. outbox'[e].status = "delivered" /\ \A d \in Event : d # e => outbox'[d] = outbox[d]
      BY <1>t, <2>1, <2>3, <3>1
    <3> HIDE DEF e
    <3>3. OutcomeIsTrue'
      BY <1>5, <1>t, <2>1, <3>2 DEF OutcomeIsTrue, RecordSuccess
    <3> QED
      BY <1>5, <3>3, GoOnTruthful DEF RecordSuccess
  <2> QED
    BY <1>5, <2>2, <2>3 DEF RecordSuccess
<1>6. ASSUME NEW w \in Worker, FailureRead(w) PROVE Truthful'
  <2>1. OutcomeIsTrue' /\ UNCHANGED accepted
    BY <1>6, <1>o DEF FailureRead
  <2>2. CASE ~Open(worker[w].hand)
    BY <1>6, <2>1, <2>2, GoOnTruthful DEF FailureRead
  <2>3. CASE Open(worker[w].hand)
    <3>1. /\ \A v \in Worker : v # w => worker'[v] = worker[v]
          /\ worker'[w].pc = "failing"
      BY <1>t, <1>6, <2>3 DEF FailureRead, WorkerState
    <3> QED
      BY <2>1, <3>1 DEF Truthful
  <2> QED
    BY <2>2, <2>3
<1>7. ASSUME NEW w \in Worker, FailureWrite(w) PROVE Truthful'
  <2> DEFINE e == worker[w].hand
             attempts == worker[w].attempts
  <2>1. CASE UNCHANGED outbox
    BY <1>7, <1>o, <2>1, GoOnTruthful DEF FailureWrite
  <2>2. CASE /\ outbox' = [outbox EXCEPT ![e] = AfterFailure(outbox[e], attempts)]
             /\ ~(outbox[e].status = "delivered" /\ Spent(attempts))
    <3>1. e \in Event /\ attempts \in 0 .. MaxAttempts
      BY <1>7, <1>t DEF FailureWrite, WorkerState
    <3>2. /\ outbox'[e] = AfterFailure(outbox[e], attempts)
          /\ \A d \in Event : d # e => outbox'[d] = outbox[d]
      BY <1>t, <2>2, <3>1
    <3>3. /\ outbox'[e].attempts = attempts
          /\ outbox'[e].status = IF outbox[e].status = "delivered" THEN "delivered"
                                 ELSE IF Spent(attempts) THEN "failed" ELSE "queued"
      BY <1>t, <3>1, <3>2 DEF AfterFailure, EventRow
    <3>4. Spent(attempts) => attempts = MaxAttempts
      BY <3>1, MaxAttemptsTyped DEF Spent
    <3>5. accepted' = accepted
      BY <1>7 DEF FailureWrite
    <3> HIDE DEF e, attempts
    <3>6. OutcomeIsTrue'
      BY <1>t, <3>1, <3>2, <3>3, <3>4, <3>5 DEF OutcomeIsTrue
    <3> QED
      BY <1>7, <3>6, GoOnTruthful DEF FailureWrite
  <2> QED
    BY <1>7, <2>1, <2>2 DEF FailureWrite
<1>8. ASSUME NEW w \in Worker, Crash(w) PROVE Truthful'
  <2>1. /\ \A v \in Worker : v # w => worker'[v] = worker[v]
        /\ worker'[w].pc = "idle"
    BY <1>t, <1>8 DEF Crash, Idle
  <2> QED
    BY <1>8, <1>o, <2>1 DEF Crash, Truthful
<1>9. ASSUME NEW d \in Event, Prune(d) PROVE Truthful'
  <2>1. outbox'[d].status = "gone" /\ \A e \in Event : e # d => outbox'[e] = outbox[e]
    BY <1>t, <1>9 DEF Prune, Unwritten
  <2> QED
    BY <1>9, <1>o, <2>1 DEF Prune, Truthful
<1>10. CASE Switch \/ UNCHANGED vars
  BY <1>10, <1>o DEF Switch, vars, Truthful
<1>11. CASE Tick
  <2>1. ASSUME NEW e \in Event
        PROVE  outbox'[e].status = outbox[e].status /\ outbox'[e].attempts = outbox[e].attempts
    <3>1. outbox[e] \in EventRow
      BY <1>t
    <3>2. outbox'[e] = [outbox[e] EXCEPT !.wait = Less(@), !.lease = Less(@), !.keep = Less(@)]
      BY <1>11 DEF Tick
    <3> QED
      BY <3>1, <3>2 DEF EventRow
  <2>2. ASSUME NEW w \in Worker
        PROVE  /\ worker'[w].pc = worker[w].pc /\ worker'[w].ok = worker[w].ok
               /\ worker'[w].hand = worker[w].hand
    BY <1>t, <1>11 DEF Tick, WorkerState
  <2>3. accepted' = accepted
    BY <1>11 DEF Tick
  <2>4. OutcomeIsTrue'
    BY <1>o, <2>1, <2>3
  <2> QED
    BY <2>2, <2>3, <2>4 DEF Truthful
<1> QED
  BY <1>1, <1>2, <1>3, <1>4, <1>5, <1>6, <1>7, <1>8, <1>9, <1>10, <1>11
     DEF Next, WorkerStep

(* A delivery was acknowledged by the endpoint and a dead letter has had   *)
(* every attempt, however long a batch takes and however many drains       *)
(* overlap.                                                                *)
THEOREM OutcomesAreTrue == Spec => []OutcomeIsTrue
<1>1. Init => Truthful
  BY DEF Init, Truthful, OutcomeIsTrue, Unwritten, Idle
<1>2. Truthful => OutcomeIsTrue
  BY DEF Truthful
<1> QED
  BY <1>1, <1>2, TypedInit, TypedStep, TruthfulStep, PTL DEF Spec

(* The second statement of a failure writes by id alone, over whatever     *)
(* another drain has made of the row since the first statement read it.    *)
LEMMA FailureSparesDelivery ==
  ASSUME TypeOK, NEW w \in Worker, NEW e \in Event
  PROVE  LET row == AfterFailure(outbox[e], worker[w].attempts) IN
         /\ row.status \in {"delivered", "failed", "queued"}
         /\ outbox[e].status = "delivered" => row.status = "delivered"
<1>1. outbox[e] \in EventRow
  BY DEF TypeOK
<1> QED
  BY <1>1 DEF AfterFailure, EventRow

LEMMA OutcomeStep == Typed /\ Exclusive /\ [Next]_vars => OutcomeKept
<1> SUFFICES ASSUME Typed, Exclusive, [Next]_vars PROVE OutcomeKept
  OBVIOUS
<1>t. /\ TypeOK /\ outbox \in [Event -> EventRow]
      /\ \A w \in Worker : worker[w].hand \in Event
  BY DEF Typed, TypeOK, WorkerState
<1>s. ASSUME \A e \in Event : outbox'[e].status = outbox[e].status PROVE OutcomeKept
  BY <1>s DEF OutcomeKept
<1>u. CASE UNCHANGED outbox
  BY <1>u, <1>s
(* One row changes: its outcome stays, is late, or goes with the prune. *)
<1>o. ASSUME NEW d \in Event, NEW row, outbox' = [outbox EXCEPT ![d] = row],
             outbox[d].status = "delivered" => row.status \in {"delivered", "gone"},
             outbox[d].status = "failed" => row.status \in {"failed", "gone"} \/ d \in late,
             row.status = "gone" => outbox[d].status \in {"delivered", "failed"}
      PROVE  OutcomeKept
  <2>1. ASSUME NEW e \in Event
        PROVE  outbox'[e] = IF e = d THEN row ELSE outbox[e]
    BY <1>o, <1>t
  <2> QED
    BY <1>o, <2>1 DEF OutcomeKept
<1>1. ASSUME NEW v \in Value \cup {Absent}, Upsert(v) PROVE OutcomeKept
  <2>1. CASE ~UNCHANGED outbox
    <3>1. PICK d \in Event :
            /\ outbox[d].status = "new"
            /\ outbox' = [outbox EXCEPT ![d].status = "queued", ![d].from = metric]
      BY <1>1, <2>1 DEF Upsert
    <3> DEFINE row == [outbox[d] EXCEPT !.status = "queued", !.from = metric]
    <3>2. row.status = "queued" /\ outbox' = [outbox EXCEPT ![d] = row]
      BY <1>t, <3>1 DEF EventRow
    <3> HIDE DEF row
    <3> QED
      BY <1>o, <3>1, <3>2
  <2> QED
    BY <1>u, <2>1
<1>2. ASSUME NEW w \in Worker, Claim(w) PROVE OutcomeKept
  <2>1. PICK batch \in Batches :
          outbox' = [e \in Event |->
                      IF e \in batch
                      THEN [outbox[e] EXCEPT !.lease = Lease + 1, !.claimedBy = w]
                      ELSE outbox[e]]
    BY <1>2 DEF Claim
  <2>2. ASSUME NEW e \in Event PROVE outbox'[e].status = outbox[e].status
    BY <1>t, <2>1 DEF EventRow
  <2> QED
    BY <1>s, <2>2
<1>3. ASSUME NEW w \in Worker, RecordSuccess(w) PROVE OutcomeKept
  <2> DEFINE e == worker[w].hand
             row == AfterSuccess(outbox[e])
  <2>1. e \in Event /\ row.status = "delivered"
    BY <1>t DEF AfterSuccess, EventRow
  <2>2. \/ UNCHANGED outbox
        \/ outbox' = [outbox EXCEPT ![e] = row] /\ outbox[e].status = "queued"
    BY <1>3 DEF RecordSuccess, Open
  <2> HIDE DEF row, e
  <2> QED
    BY <1>o, <1>u, <2>1, <2>2
<1>4. ASSUME NEW w \in Worker, FailureWrite(w) PROVE OutcomeKept
  <2> DEFINE e == worker[w].hand
             row == AfterFailure(outbox[e], worker[w].attempts)
  <2>1. /\ e \in Event /\ row.status \in {"delivered", "failed", "queued"}
        /\ outbox[e].status = "delivered" => row.status = "delivered"
    BY <1>t, FailureSparesDelivery
  <2>2. UNCHANGED outbox \/ outbox' = [outbox EXCEPT ![e] = row]
    BY <1>4 DEF FailureWrite
  <2>3. e \in late \/ outbox[e].status = "queued"
    BY <1>4, TodoTyped DEF FailureWrite, Exclusive, Holds
  <2> HIDE DEF row, e
  <2> QED
    BY <1>o, <1>u, <2>1, <2>2, <2>3
<1>5. ASSUME NEW e \in Event, Prune(e) PROVE OutcomeKept
  <2> DEFINE row == [Unwritten EXCEPT !.status = "gone"]
  <2>1. row.status = "gone" /\ outbox[e].status \in {"delivered", "failed"}
    BY <1>5 DEF Prune, Prunable, Unwritten
  <2>2. outbox' = [outbox EXCEPT ![e] = row]
    BY <1>5 DEF Prune
  <2> HIDE DEF row
  <2> QED
    BY <1>o, <2>1, <2>2
<1>6. CASE Tick
  <2>1. ASSUME NEW e \in Event PROVE outbox'[e].status = outbox[e].status
    BY <1>6, <1>t DEF Tick, EventRow
  <2> QED
    BY <1>s, <2>1
<1> QED
  BY <1>u, <1>1, <1>2, <1>3, <1>4, <1>5, <1>6
     DEF Next, WorkerStep, Refuse, Post, FailureRead, RecordLost, Crash, Switch, vars

(* Whatever the lease: a recorded delivery survives the failures that      *)
(* overlapping drains record after it, a dead letter is put back only by a *)
(* drain that has outstayed its claim, and nothing is pruned undelivered.  *)
THEOREM OutcomesAreFinal == Spec => OutcomeIsFinal
<1>1. Typed /\ Exclusive /\ [Next]_vars => [OutcomeKept]_vars
  BY OutcomeStep
<1> QED
  BY <1>1, ExclusiveInductive, PTL DEF Spec, OutcomeIsFinal

-----------------------------------------------------------------------------
(* The contract of the outbox. *)

Statuses == [e \in Event |-> outbox[e].status]

(* A step that writes one row moves one event, or none, in the contract.   *)
LEMMA OneRowMoves ==
  ASSUME NEW d \in Event, NEW row, outbox \in [Event -> EventRow],
         outbox' = [outbox EXCEPT ![d] = row]
  PROVE  Statuses' = [Statuses EXCEPT ![d] = row.status]
BY DEF Statuses

LEMMA NoRowMoves ==
  ASSUME \A e \in Event : outbox'[e].status = outbox[e].status
  PROVE  Statuses' = Statuses
BY DEF Statuses

(* What a drain has to do has been filed. *)
Filed == \A w \in Worker : \A e \in worker[w].todo : outbox[e].status # "new"

LEMMA FiledStep == Typed /\ Filed /\ [Next]_vars => Filed'
<1> SUFFICES ASSUME Typed, Filed, [Next]_vars PROVE Filed'
  OBVIOUS
<1>t. outbox \in [Event -> EventRow] /\ worker \in [Worker -> WorkerState]
  BY DEF Typed, TypeOK
(* No row becomes new again. *)
<1>r. ASSUME NEW e \in Event, outbox'[e].status = "new" PROVE outbox[e].status = "new"
  <2>1. ASSUME NEW d \in Event, NEW row, outbox' = [outbox EXCEPT ![d] = row],
               row.status # "new"
        PROVE  outbox[e].status = "new"
    BY <1>r, <1>t, <2>1
  <2>2. CASE outbox'[e].status = outbox[e].status
    BY <1>r, <2>2
  <2>3. ASSUME NEW v \in Value \cup {Absent}, Upsert(v), ~UNCHANGED outbox
        PROVE  outbox[e].status = "new"
    <3>1. PICK d \in Event :
            outbox' = [outbox EXCEPT ![d].status = "queued", ![d].from = metric]
      BY <2>3 DEF Upsert
    <3>2. e # d => outbox'[e] = outbox[e]
      BY <1>t, <3>1
    <3>3. outbox'[d].status = "queued"
      BY <1>t, <3>1 DEF EventRow
    <3> QED
      BY <1>r, <3>2, <3>3
  <2>4. ASSUME NEW w \in Worker, Claim(w) PROVE outbox[e].status = "new"
    <3>1. PICK batch \in Batches :
            outbox' = [d \in Event |->
                        IF d \in batch
                        THEN [outbox[d] EXCEPT !.lease = Lease + 1, !.claimedBy = w]
                        ELSE outbox[d]]
      BY <2>4 DEF Claim
    <3> QED
      BY <1>t, <2>2, <3>1 DEF EventRow
  <2>5. ASSUME NEW w \in Worker, RecordSuccess(w) PROVE outbox[e].status = "new"
    <3>1. worker[w].hand \in Event
      BY <1>t DEF WorkerState
    <3>2. AfterSuccess(outbox[worker[w].hand]).status = "delivered"
      BY <1>t, <3>1 DEF AfterSuccess, EventRow
    <3> QED
      BY <2>1, <2>2, <2>5, <3>1, <3>2 DEF RecordSuccess
  <2>6. ASSUME NEW w \in Worker, FailureWrite(w) PROVE outbox[e].status = "new"
    <3>1. worker[w].hand \in Event
      BY <1>t DEF WorkerState
    <3>2. AfterFailure(outbox[worker[w].hand], worker[w].attempts).status # "new"
      BY <3>1, FailureSparesDelivery DEF Typed
    <3> QED
      BY <2>1, <2>2, <2>6, <3>1, <3>2 DEF FailureWrite
  <2>7. ASSUME NEW d \in Event, Prune(d) PROVE outbox[e].status = "new"
    <3> DEFINE row == [Unwritten EXCEPT !.status = "gone"]
    <3>1. row.status # "new" /\ outbox' = [outbox EXCEPT ![d] = row]
      BY <2>7 DEF Prune, Unwritten
    <3> HIDE DEF row
    <3> QED
      BY <2>1, <3>1
  <2>8. CASE Tick
    BY <1>t, <2>2, <2>8 DEF Tick, EventRow
  <2> QED
    BY <1>r, <2>3, <2>4, <2>5, <2>6, <2>7, <2>8
       DEF Next, WorkerStep, Refuse, Post, FailureRead, RecordLost, Crash, Switch, vars
<1>1. ASSUME \A w \in Worker : worker'[w].todo \subseteq worker[w].todo PROVE Filed'
  BY <1>1, <1>r, TodoTyped DEF Filed
<1>2. ASSUME NEW w \in Worker, Claim(w) PROVE Filed'
  <2>1. PICK batch \in Batches :
          /\ outbox' = [d \in Event |->
                          IF d \in batch
                          THEN [outbox[d] EXCEPT !.lease = Lease + 1, !.claimedBy = w]
                          ELSE outbox[d]]
          /\ GoOn(w, batch)
    BY <1>2 DEF Claim
  <2>2. batch \in SUBSET Event /\ \A e \in batch : outbox[e].status = "queued"
    BY DEF Batches, Due
  <2>3. /\ \A v \in Worker : v # w => worker'[v] = worker[v]
        /\ worker'[w].todo = batch
    BY <2>1, <2>2, GoOnTyped
  <2> QED
    BY <1>r, <2>2, <2>3, TodoTyped DEF Filed
<1>3. ASSUME NEW w \in Worker, worker[w].pc # "idle", GoOn(w, Rest(w)) PROVE Filed'
  <2>1. Rest(w) \in SUBSET Event /\ Rest(w) \subseteq worker[w].todo
    BY <1>3, TodoTyped
  <2> QED
    BY <1>1, <1>3, <2>1, GoOnTyped
<1>4. ASSUME NEW w \in Worker, Refuse(w) \/ Post(w) \/ (FailureRead(w) /\ Open(worker[w].hand))
      PROVE  Filed'
  <2>1. worker'[w].todo = worker[w].todo
    BY <1>4, <1>t DEF Refuse, Post, Answer, FailureRead, WorkerState
  <2>2. \A v \in Worker : v # w => worker'[v] = worker[v]
    BY <1>4, <1>t DEF Refuse, Post, Answer, FailureRead
  <2> QED
    BY <1>1, <2>1, <2>2
<1>5. ASSUME NEW w \in Worker, Crash(w) PROVE Filed'
  BY <1>1, <1>5, <1>t DEF Crash, Idle
<1>6. CASE Tick
  BY <1>1, <1>6, <1>t DEF Tick, WorkerState
<1>7. CASE UNCHANGED worker
  BY <1>1, <1>7
<1> QED
  BY <1>2, <1>3, <1>4, <1>5, <1>6, <1>7
     DEF Next, WorkerStep, RecordLost, RecordSuccess, FailureRead, FailureWrite, Upsert, Prune,
         Switch, vars

(* Only a filed event gets late. *)
LEMMA LateIsFiled ==
  ASSUME Typed', Filed', Overstay
  PROVE  late' \in SUBSET {e \in Event : outbox'[e].status # "new"}
BY TodoTyped DEF Overstay, Held, Filed, Typed, TypeOK, WorkerState

LEMMA StepImplements ==
  Typed /\ Exclusive /\ Truthful /\ Filed /\ [Next]_vars
    => [Contract!Next]_(Contract!vars)
<1> SUFFICES ASSUME Typed, Exclusive, Truthful, Filed, [Next]_vars
             PROVE  [Contract!Next]_(Contract!vars)
  OBVIOUS
<1>n. Typed' /\ Filed'
  BY TypedStep, FiledStep
<1>t. /\ outbox \in [Event -> EventRow]
      /\ \A w \in Worker : worker[w].hand \in Event
      /\ \A w \in Worker : worker[w].pc # "idle" =>
           outbox[worker[w].hand].status = "queued" \/ worker[w].hand \in late
  BY TodoTyped DEF Typed, TypeOK, WorkerState, Exclusive, Holds
(* A step that moves no event, and what it may do to the late ones.        *)
<1>s. ASSUME \A e \in Event : outbox'[e].status = outbox[e].status, UNCHANGED accepted,
             Overstay \/ UNCHANGED late
      PROVE  [Contract!Next]_(Contract!vars)
  <2>1. Statuses' = Statuses
    BY <1>s, NoRowMoves
  <2>2. CASE UNCHANGED late
    BY <1>s, <2>1, <2>2 DEF Contract!vars, Statuses
  <2>3. CASE Overstay
    <3>1. late' \in SUBSET {e \in Event : Statuses[e] # "new"}
      BY <1>n, <1>s, <2>3, LateIsFiled DEF Statuses
    <3> QED
      BY <1>s, <2>1, <3>1 DEF Contract!Next, Contract!Overstay, Statuses
  <2> QED
    BY <1>s, <2>2, <2>3
(* The moves of the contract, by the row that is written.                  *)
<1>m. ASSUME NEW d \in Event, NEW row, outbox' = [outbox EXCEPT ![d] = row],
             UNCHANGED accepted, late' \subseteq late,
             \/ outbox[d].status = "new" /\ row.status = "queued"
             \/ outbox[d].status = "queued" /\ row.status = "delivered" /\ d \in accepted
             \/ outbox[d].status = "queued" /\ row.status = "failed"
             \/ outbox[d].status = "failed" /\ row.status = "queued" /\ d \in late
             \/ outbox[d].status \in {"delivered", "failed"} /\ row.status = "gone"
      PROVE  Contract!Next
  <2>1. Statuses' = [Statuses EXCEPT ![d] = row.status] /\ Statuses[d] = outbox[d].status
    BY <1>m, <1>t, OneRowMoves DEF Statuses
  <2> QED
    BY <1>m, <2>1 DEF Contract!Next, Contract!Move, Statuses
(* A drain that goes on after its own row at most makes nothing late: the  *)
(* claims of what others have are as they were.                            *)
<1>g. ASSUME NEW w \in Worker, GoOn(w, Rest(w)), worker[w].pc # "idle",
             \A e \in Event : e # worker[w].hand => outbox'[e] = outbox[e]
      PROVE  late' \subseteq late
  <2>1. Rest(w) \in SUBSET Event /\ worker[w].hand \in worker[w].todo
    BY <1>g, TodoTyped
  <2>2. /\ \A v \in Worker : v # w => worker'[v] = worker[v]
        /\ worker'[w].todo = Rest(w)
    BY <1>g, <2>1, GoOnTyped
  <2> SUFFICES ASSUME NEW e \in late', e \notin late PROVE FALSE
    OBVIOUS
  <2>3. PICK v \in Worker : e \in worker'[v].todo /\ outbox'[e].lease = 0
    BY <1>g DEF GoOn, Overstay, Held
  <2>4. e \in worker[v].todo /\ e \in Event
    BY <2>2, <2>3, TodoTyped DEF Rest
  <2>5. outbox[e].lease > 0 /\ outbox[e].claimedBy = v
    BY <2>4 DEF Exclusive, Holds
  <2>6. CASE e = worker[w].hand
    <3>1. outbox[e].claimedBy = w
      BY <2>1, <2>6 DEF Exclusive, Holds
    <3> QED
      BY <2>2, <2>3, <2>5, <2>6, <3>1 DEF Rest
  <2>7. CASE e # worker[w].hand
    BY <1>g, <2>3, <2>4, <2>5, <2>7
  <2> QED
    BY <2>6, <2>7
<1>1. ASSUME NEW v \in Value \cup {Absent}, Upsert(v)
      PROVE  [Contract!Next]_(Contract!vars)
  <2>1. UNCHANGED <<accepted, late>>
    BY <1>1 DEF Upsert
  <2>2. CASE ~UNCHANGED outbox
    <3>1. PICK d \in Event :
            /\ outbox[d].status = "new"
            /\ outbox' = [outbox EXCEPT ![d].status = "queued", ![d].from = metric]
      BY <1>1, <2>2 DEF Upsert
    <3> DEFINE row == [outbox[d] EXCEPT !.status = "queued", !.from = metric]
    <3>2. row.status = "queued" /\ outbox' = [outbox EXCEPT ![d] = row]
      BY <1>t, <3>1 DEF EventRow
    <3> HIDE DEF row
    <3> QED
      BY <1>m, <2>1, <3>1, <3>2
  <2> QED
    BY <1>s, <2>1, <2>2
<1>2. ASSUME NEW w \in Worker, Claim(w) PROVE [Contract!Next]_(Contract!vars)
  <2>1. PICK batch \in Batches :
          /\ outbox' = [e \in Event |->
                          IF e \in batch
                          THEN [outbox[e] EXCEPT !.lease = Lease + 1, !.claimedBy = w]
                          ELSE outbox[e]]
          /\ GoOn(w, batch)
    BY <1>2 DEF Claim
  <2>2. ASSUME NEW e \in Event PROVE outbox'[e].status = outbox[e].status
    BY <1>t, <2>1 DEF EventRow
  <2>3. UNCHANGED accepted /\ Overstay
    BY <1>2, <2>1 DEF Claim, GoOn
  <2> QED
    BY <1>s, <2>2, <2>3
<1>3. ASSUME NEW w \in Worker, Post(w) PROVE [Contract!Next]_(Contract!vars)
  <2> DEFINE e == worker[w].hand
  <2>1. e \in Event /\ (outbox[e].status = "queued" \/ e \in late)
    BY <1>3, <1>t DEF Post
  <2>2. UNCHANGED <<outbox, late>> /\ (accepted' = accepted \cup {e} \/ UNCHANGED accepted)
    BY <1>3 DEF Post
  <2> HIDE DEF e
  <2>3. CASE accepted' = accepted \cup {e}
    BY <2>1, <2>2, <2>3 DEF Contract!Next, Contract!Take, Statuses
  <2> QED
    BY <1>s, <2>2, <2>3
<1>4. ASSUME NEW w \in Worker, RecordSuccess(w) PROVE [Contract!Next]_(Contract!vars)
  <2> DEFINE e == worker[w].hand
             row == AfterSuccess(outbox[e])
  <2>1. e \in Event /\ e \in accepted /\ UNCHANGED accepted /\ GoOn(w, Rest(w))
    BY <1>4, <1>t DEF RecordSuccess, Truthful
  <2>2. CASE Open(e)
    <3>1. outbox' = [outbox EXCEPT ![e] = row] /\ row.status = "delivered"
      BY <1>4, <1>t, <2>1, <2>2 DEF RecordSuccess, AfterSuccess, EventRow
    <3>2. late' \subseteq late
      BY <1>4, <1>g, <1>t, <2>1, <3>1 DEF RecordSuccess
    <3> HIDE DEF row, e
    <3> QED
      BY <1>m, <2>1, <2>2, <3>1, <3>2 DEF Open
  <2>3. CASE ~Open(e)
    BY <1>4, <1>s, <2>1, <2>3 DEF RecordSuccess, GoOn
  <2> QED
    BY <2>2, <2>3
<1>5. ASSUME NEW w \in Worker, FailureWrite(w) PROVE [Contract!Next]_(Contract!vars)
  <2> DEFINE e == worker[w].hand
             row == AfterFailure(outbox[e], worker[w].attempts)
  <2>1. /\ e \in Event /\ UNCHANGED accepted /\ GoOn(w, Rest(w))
        /\ outbox[e].status = "queued" \/ e \in late
        /\ outbox[e] \in EventRow
    BY <1>5, <1>t DEF FailureWrite
  <2>2. CASE UNCHANGED outbox
    BY <1>s, <2>1, <2>2 DEF GoOn
  <2>3. CASE ~UNCHANGED outbox
    <3>1. outbox' = [outbox EXCEPT ![e] = row] /\ outbox[e].status # "gone"
      BY <1>5, <2>3 DEF FailureWrite
    <3>2. /\ row.status \in {"delivered", "failed", "queued"}
          /\ row.status = "delivered" <=> outbox[e].status = "delivered"
      BY <2>1 DEF AfterFailure, EventRow
    <3>3. outbox[e].status # "new"
      BY <1>5, TodoTyped DEF FailureWrite, Filed
    <3>4. late' \subseteq late
      BY <1>5, <1>g, <1>t, <2>1, <3>1 DEF FailureWrite
    <3> HIDE DEF row, e
    <3>5. CASE row.status = outbox[e].status
      <4>1. \A d \in Event : outbox'[d].status = outbox[d].status
        BY <1>t, <2>1, <3>1, <3>5
      <4> QED
        BY <1>s, <2>1, <4>1 DEF GoOn
    <3>6. CASE row.status # outbox[e].status
      <4>1. outbox[e].status \in {"queued", "failed"}
        BY <2>1, <3>1, <3>2, <3>3, <3>6 DEF EventRow
      <4> QED
        BY <1>m, <2>1, <3>1, <3>2, <3>4, <3>6, <4>1
    <3> QED
      BY <3>5, <3>6
  <2> QED
    BY <2>2, <2>3
<1>6. ASSUME NEW e \in Event, Prune(e) PROVE [Contract!Next]_(Contract!vars)
  <2> DEFINE row == [Unwritten EXCEPT !.status = "gone"]
  <2>1. row.status = "gone" /\ outbox[e].status \in {"delivered", "failed"}
    BY <1>6 DEF Prune, Prunable, Unwritten
  <2>2. outbox' = [outbox EXCEPT ![e] = row] /\ UNCHANGED <<accepted, late>>
    BY <1>6 DEF Prune
  <2> HIDE DEF row
  <2> QED
    BY <1>m, <2>1, <2>2
<1>7. CASE Tick
  <2>1. ASSUME NEW e \in Event PROVE outbox'[e].status = outbox[e].status
    BY <1>7, <1>t DEF Tick, EventRow
  <2> QED
    BY <1>7, <1>s, <2>1 DEF Tick
<1>8. ASSUME NEW w \in Worker, Refuse(w) \/ FailureRead(w) \/ RecordLost(w) \/ Crash(w)
      PROVE  [Contract!Next]_(Contract!vars)
  BY <1>8, <1>s DEF Refuse, FailureRead, RecordLost, Crash, GoOn
<1>9. CASE Switch \/ UNCHANGED vars
  BY <1>9, <1>s DEF Switch, vars
<1> QED
  BY <1>1, <1>2, <1>3, <1>4, <1>5, <1>6, <1>7, <1>8, <1>9 DEF Next, WorkerStep

(* The drains, their leases and the two statements of a failure implement  *)
(* the contract of the outbox, for any batch and lease: what is sent after *)
(* its outcome, or put back after it, is an event some drain kept past its *)
(* claim; a delivery was answered by the endpoint and stays; and an event  *)
(* leaves only with an outcome.                                            *)
THEOREM DrainsImplementContract == Spec => ImplementsContract
<1>1. Init => Contract!Init
  BY DEF Init, Contract!Init, Unwritten
<1>2. Init => Truthful /\ Filed
  BY DEF Init, Truthful, OutcomeIsTrue, Filed, Unwritten, Idle
<1> QED
  BY <1>1, <1>2, ExclusiveInductive, TypedInit, TypedStep, TruthfulStep, FiledStep,
     StepImplements, PTL
     DEF Spec, ImplementsContract, Contract!Spec

=============================================================================
