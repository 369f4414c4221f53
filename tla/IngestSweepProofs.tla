------------------------- MODULE IngestSweepProofs -------------------------
(***************************************************************************)
(* What TLAPS proves of IngestSweep, for any number of connections and     *)
(* sweeps, any lease no shorter than the wall clock, any list limit, any   *)
(* chunk span and an unbounded clock.                                      *)
(*                                                                         *)
(* The argument for LeaseExclusion: a running sweep is younger than the    *)
(* wall clock, its lease is younger than the sweep, and a lease can only   *)
(* be taken over when it is older than Lease >= WallClock.  So nobody else *)
(* can become the row's claimed_by while the sweep runs, and the row has   *)
(* one claimed_by.  The argument for NoHole: what a run has reached is     *)
(* always behind a prefix that is covered without a gap.  The last section *)
(* is about SweepRotation, the same sweep night after night.               *)
(***************************************************************************)
EXTENDS IngestSweep, TLAPS

USE SweepAssumption DEF Null, Time, NullableTime

LEMMA StatesTyped ==
  /\ Fresh \in SweepState
  /\ Over \in SweepState
<1>1. <<>> \in Seq(Connection)
  OBVIOUS
<1>2. Fresh \in SweepState
  BY <1>1 DEF Fresh, SweepState
<1> QED
  BY <1>1, <1>2 DEF Fresh, Over, SweepState

(* Every list the scheduler answers is a sequence of connections. *)
LEMMA ListsTyped ==
  \A list \in DueLists : list \in Seq(Connection)
BY DEF DueLists

(* The answers of Resume, NextConnection and Remains are sweep states. *)
LEMMA NextConnectionTyped ==
  ASSUME TypeOK, NEW i \in Instance, sweep[i].todo # <<>>, NextConnection(i)
  PROVE  sweep' \in [Instance -> SweepState]
<1>1. sweep[i].todo \in Seq(Connection) /\ sweep[i].started \in Nat
  BY DEF TypeOK, SweepState
<1>2. Tail(sweep[i].todo) \in Seq(Connection)
  BY <1>1
<1>3. [Fresh EXCEPT !.pc = "loop", !.alive = TRUE, !.started = sweep[i].started,
                    !.todo = Tail(sweep[i].todo)] \in SweepState
  BY <1>1, <1>2 DEF Fresh, SweepState
<1> QED
  BY <1>3, StatesTyped DEF NextConnection, Resume, TypeOK

LEMMA RemainsTyped ==
  ASSUME TypeOK, NEW i \in Instance
  PROVE  Remains(i) \in SweepState
BY StatesTyped DEF Remains, TypeOK, SweepState

(* Whatever is left of a sweep that stopped does not run. *)
LEMMA OverIsDead == ~Over.alive /\ ~Fresh.alive
BY DEF Over, Fresh

LEMMA RemainsIsDead ==
  ASSUME TypeOK, NEW i \in Instance
  PROVE  ~Remains(i).alive
<1>1. sweep[i] \in SweepState
  BY DEF TypeOK
<1>2. [sweep[i] EXCEPT !.alive = FALSE].alive = FALSE
  BY <1>1 DEF SweepState
<1>3. Remains(i) = [sweep[i] EXCEPT !.alive = FALSE] \/ Remains(i) = Over
  BY DEF Remains
<1> QED
  BY <1>2, <1>3, OverIsDead

-----------------------------------------------------------------------------
(* A sweep that has a connection in hand still has it at the head of its   *)
(* list.                                                                   *)
Busy(i) == sweep[i].pc \in {"claiming", "claimed", "pulling", "closing"}

HandsFull == \A i \in Instance : Busy(i) => sweep[i].todo # <<>>

Typed == TypeOK /\ HandsFull

LEMMA CurrentTyped ==
  ASSUME Typed, NEW i \in Instance, sweep[i].todo # <<>>
  PROVE  Current(i) \in Connection
BY DEF Typed, TypeOK, SweepState, Current

LEMMA TypedInit == Init => Typed
<1> SUFFICES ASSUME Init PROVE Typed
  OBVIOUS
<1>1. TypeOK
  BY StatesTyped DEF Init, TypeOK, Condition
<1>2. HandsFull
  BY DEF Init, HandsFull, Busy, Fresh
<1> QED
  BY <1>1, <1>2 DEF Typed

(* The steps that leave the database alone and give one sweep a new state. *)
LEMMA SweepOnlyTyped ==
  ASSUME Typed, NEW i \in Instance, NEW state \in SweepState,
         state.todo = <<>> =>
           state.pc \notin {"claiming", "claimed", "pulling", "closing"},
         sweep' = [sweep EXCEPT ![i] = state],
         UNCHANGED <<now, row, covered>>
  PROVE  Typed'
<1>1. TypeOK'
  BY DEF Typed, TypeOK, row
<1>2. HandsFull'
  BY DEF Typed, TypeOK, HandsFull, Busy
<1> QED
  BY <1>1, <1>2 DEF Typed

LEMMA TypedStep == Typed /\ [Next]_vars => Typed'
<1> SUFFICES ASSUME Typed, [Next]_vars PROVE Typed'
  OBVIOUS
<1> USE DEF Typed
<1>1. CASE Tick
  <2>1. now + 1 \in Nat /\ \A i \in Instance : Remains(i) \in SweepState
    BY RemainsTyped DEF TypeOK
  <2>2. TypeOK'
    BY <1>1, <2>1 DEF Tick, TypeOK, row
  <2>3. HandsFull'
    BY <1>1 DEF Tick, HandsFull, Busy, Remains, Over, Fresh, TypeOK, SweepState
  <2> QED
    BY <2>2, <2>3
<1>2. ASSUME NEW c \in Connection, Withdraw(c) PROVE Typed'
  <2>1. TypeOK'
    BY <1>2 DEF Withdraw, TypeOK, Condition
  <2>2. HandsFull'
    BY <1>2 DEF Withdraw, HandsFull, Busy
  <2> QED
    BY <2>1, <2>2
<1>3. ASSUME NEW i \in Instance, SweepStep(i) PROVE Typed'
  <2>0. sweep[i] \in SweepState /\ now \in Nat
    BY DEF TypeOK
  <2>1. CASE StartSweep(i)
    <3>1. PICK list \in DueLists :
            sweep' = [sweep EXCEPT ![i] = [Fresh EXCEPT !.pc = "loop", !.alive = TRUE,
                                             !.started = now, !.todo = list]]
      BY <2>1 DEF StartSweep
    <3>2. [Fresh EXCEPT !.pc = "loop", !.alive = TRUE, !.started = now,
                        !.todo = list] \in SweepState
      BY <2>0, ListsTyped DEF Fresh, SweepState
    <3> QED
      BY <2>1, <3>1, <3>2, SweepOnlyTyped DEF StartSweep, Fresh
  <2>2. CASE FinishSweep(i) \/ RecordRaises(i)
    BY <2>2, StatesTyped, SweepOnlyTyped DEF FinishSweep, RecordRaises, Over, Fresh
  <2>3. CASE SkipConnection(i) \/ ClaimRefused(i) \/ RecordNotOwner(i)
    <3>1. sweep[i].todo # <<>> /\ NextConnection(i) /\ UNCHANGED <<now, row, covered>>
      BY <2>3 DEF SkipConnection, ClaimRefused, RecordNotOwner, HandsFull, Busy
    <3>2. TypeOK'
      BY <3>1, NextConnectionTyped DEF TypeOK, row
    <3>3. HandsFull'
      BY <3>1, <2>0 DEF NextConnection, Resume, HandsFull, Busy, Over, Fresh, TypeOK
    <3> QED
      BY <3>2, <3>3
  <2>4. CASE ReadWatermark(i)
    <3>1. Current(i) \in Connection /\ sweep[i].todo # <<>>
      BY <2>4, CurrentTyped DEF ReadWatermark
    <3>2. checkpoint[Current(i)] \in Nat
      BY <2>4, <3>1 DEF ReadWatermark, Readable, TypeOK
    <3>3. [sweep[i] EXCEPT !.pc = "claiming", !.since = checkpoint[Current(i)]]
            \in SweepState
      BY <2>0, <3>2 DEF SweepState
    <3> DEFINE state == [sweep[i] EXCEPT !.pc = "claiming",
                                         !.since = checkpoint[Current(i)]]
    <3>4. sweep' = [sweep EXCEPT ![i] = state]
      BY <2>4, <2>0 DEF ReadWatermark, TypeOK
    <3>5. state.todo # <<>>
      BY <2>0, <3>1 DEF SweepState
    <3> HIDE DEF state
    <3> QED
      BY <2>4, <3>3, <3>4, <3>5, SweepOnlyTyped DEF ReadWatermark, state
  <2>5. CASE ClaimGranted(i)
    <3>1. Current(i) \in Connection /\ sweep[i].todo # <<>>
      BY <2>5, CurrentTyped DEF ClaimGranted, HandsFull, Busy
    <3>2. [sweep[i] EXCEPT !.pc = "claimed"] \in SweepState
      BY <2>0 DEF SweepState
    <3>3. TypeOK'
      BY <2>5, <3>1, <3>2, <2>0, StatesTyped DEF ClaimGranted, Resume, TypeOK
    <3>4. HandsFull'
      BY <2>5, <3>1, <2>0 DEF ClaimGranted, Resume, HandsFull, Busy, Over, Fresh,
                             TypeOK, SweepState
    <3> QED
      BY <3>3, <3>4
  <2>6. CASE RunRefused(i) \/ CompleteRun(i) \/ FailRun(i)
    <3>1. PICK ok \in BOOLEAN, m \in NullableTime : Close(i, ok, m)
      BY <2>6, <2>0 DEF RunRefused, CompleteRun, FailRun, SweepState
    <3>2. sweep[i].todo # <<>>
      BY <2>6 DEF RunRefused, CompleteRun, FailRun, Running, HandsFull, Busy
    <3>3. [sweep[i] EXCEPT !.pc = "closing", !.succeeded = ok, !.mark = m] \in SweepState
      BY <2>0, <3>1 DEF SweepState
    <3> DEFINE state == [sweep[i] EXCEPT !.pc = "closing", !.succeeded = ok, !.mark = m]
    <3>4. sweep' = [sweep EXCEPT ![i] = state]
      BY <3>1, <2>0 DEF Close, TypeOK
    <3>5. state.todo # <<>>
      BY <2>0, <3>2 DEF SweepState
    <3>6. UNCHANGED <<now, row, covered>>
      BY <2>6 DEF RunRefused, CompleteRun, FailRun
    <3> HIDE DEF state
    <3> QED
      BY <3>3, <3>4, <3>5, <3>6, SweepOnlyTyped DEF state
  <2>7. CASE StartRun(i)
    <3>1. PICK clock \in now - Behind .. now + Ahead :
            /\ clock >= 0
            /\ sweep' = [sweep EXCEPT ![i].pc = "pulling", ![i].until = clock,
                                      ![i].reached = sweep[i].since]
      BY <2>7 DEF StartRun
    <3>2. clock \in Nat
      BY <2>0, <3>1
    <3>3. sweep[i].todo # <<>>
      BY <2>7 DEF StartRun, Running, HandsFull, Busy
    <3>4. [sweep[i] EXCEPT !.pc = "pulling", !.until = clock,
                           !.reached = sweep[i].since] \in SweepState
      BY <2>0, <3>2 DEF SweepState
    <3> DEFINE state == [sweep[i] EXCEPT !.pc = "pulling", !.until = clock,
                                         !.reached = sweep[i].since]
    <3>5. sweep' = [sweep EXCEPT ![i] = state]
      BY <3>1, <2>0 DEF TypeOK
    <3>6. state.todo # <<>>
      BY <2>0, <3>3 DEF SweepState
    <3> HIDE DEF state
    <3> QED
      BY <2>7, <3>4, <3>5, <3>6, SweepOnlyTyped DEF StartRun, state
  <2>8. CASE PullChunk(i)
    <3>1. sweep[i].todo # <<>> /\ Current(i) \in Connection
      BY <2>8, CurrentTyped DEF PullChunk, Running, HandsFull, Busy
    <3>2. ChunkEnd(i) \in Nat
      BY <2>0 DEF ChunkEnd, SweepState
    <3>3. [sweep[i] EXCEPT !.reached = ChunkEnd(i)] \in SweepState
      BY <2>0, <3>2 DEF SweepState
    <3>4. \A t \in sweep[i].reached .. ChunkEnd(i) : t \in Nat
      BY <2>0, <3>2 DEF SweepState
    <3>5. TypeOK'
      BY <2>8, <3>1, <3>3, <3>4 DEF PullChunk, TypeOK, row
    <3>6. HandsFull'
      BY <2>8, <3>1, <2>0 DEF PullChunk, HandsFull, Busy, TypeOK, SweepState
    <3> QED
      BY <3>5, <3>6
  <2>9. CASE RecordBackfill(i)
    <3>1. sweep[i].todo # <<>> /\ Current(i) \in Connection
      BY <2>9, CurrentTyped DEF RecordBackfill, HandsFull, Busy
    <3>2. Greatest(checkpoint[Current(i)], sweep[i].mark) \in NullableTime
      BY <2>0, <3>1 DEF Greatest, TypeOK, SweepState
    <3>3. sweep' \in [Instance -> SweepState]
      BY <2>9, <3>1, NextConnectionTyped DEF RecordBackfill
    <3>4. TypeOK'
      BY <2>9, <3>1, <3>2, <3>3, <2>0 DEF RecordBackfill, ReleaseLease, TypeOK
    <3>5. HandsFull'
      BY <2>9, <3>1, <2>0 DEF RecordBackfill, NextConnection, Resume, HandsFull, Busy,
                              Over, Fresh, TypeOK
    <3> QED
      BY <3>4, <3>5
  <2>10. CASE Die(i)
    <3>1. Remains(i) \in SweepState
      BY RemainsTyped
    <3>2. TypeOK'
      BY <2>10, <3>1 DEF Die, TypeOK, row
    <3>3. HandsFull'
      BY <2>10, <2>0 DEF Die, HandsFull, Busy, Remains, Over, Fresh, TypeOK, SweepState
    <3> QED
      BY <3>2, <3>3
  <2> QED
    BY <1>3, <2>1, <2>2, <2>3, <2>4, <2>5, <2>6, <2>7, <2>8, <2>9, <2>10 DEF SweepStep
<1>4. CASE UNCHANGED vars
  BY <1>4 DEF vars, row, TypeOK, HandsFull, Busy
<1> QED
  BY <1>1, <1>2, <1>3, <1>4 DEF Next

(* Every reachable state is well typed, whatever dies and whatever lands   *)
(* late, and a lease is always a stamp together with a holder.             *)
THEOREM TypeCorrect == Spec => []TypeOK
<1>1. Spec => []Typed
  BY TypedInit, TypedStep, PTL DEF Spec
<1>2. Typed => TypeOK
  BY DEF Typed
<1> QED
  BY <1>1, <1>2, PTL
-----------------------------------------------------------------------------
(* The lease. *)

(* A running sweep is within its wall clock. *)
Young(i) ==
  sweep[i].alive => sweep[i].started <= now /\ now <= sweep[i].started + WallClock

(* A running sweep that was granted its connection is the row's holder, by *)
(* a claim it made during its own life.                                    *)
Holder(i) ==
  sweep[i].alive /\ sweep[i].pc \in {"claimed", "pulling", "closing"} =>
    /\ claimedBy[Current(i)] = i
    /\ claimedAt[Current(i)] >= sweep[i].started

LeaseInv == \A i \in Instance : Young(i) /\ Holder(i)

(* What a live holder has cannot be claimed by anybody. *)
LEMMA HeldIsNotFree ==
  ASSUME Typed, LeaseInv, NEW i \in Instance, sweep[i].alive,
         sweep[i].pc \in {"claimed", "pulling", "closing"}
  PROVE  ~LeaseFree(Current(i))
<1>1. Current(i) \in Connection
  BY CurrentTyped DEF Typed, HandsFull, Busy
<1>2. /\ claimedAt[Current(i)] \in NullableTime /\ now \in Nat
      /\ sweep[i].started \in Nat
  BY <1>1 DEF Typed, TypeOK, SweepState
<1>3. claimedAt[Current(i)] >= sweep[i].started /\ now <= sweep[i].started + WallClock
  BY DEF LeaseInv, Young, Holder
<1> QED
  BY <1>2, <1>3 DEF LeaseFree

(* A sweep keeps its place when it stops, or when the columns of the       *)
(* connection it has open stay as they are.                                *)
LEMMA LeaseFrame ==
  ASSUME NEW j \in Instance, Young(j), Holder(j), now' = now,
         sweep'[j].alive =>
           /\ sweep[j].alive
           /\ sweep'[j].started = sweep[j].started,
         sweep'[j].alive /\ sweep'[j].pc \in {"claimed", "pulling", "closing"} =>
           /\ sweep[j].pc \in {"claimed", "pulling", "closing"}
           /\ sweep'[j].todo = sweep[j].todo
           /\ claimedBy'[Current(j)] = claimedBy[Current(j)]
           /\ claimedAt'[Current(j)] = claimedAt[Current(j)]
  PROVE  Young(j)' /\ Holder(j)'
BY DEF Young, Holder, Current

(* So the invariant survives every step that gives one sweep a new state   *)
(* in which it has stopped, or has what it had, and leaves the leases.     *)
LEMMA LeaseInvFrame ==
  ASSUME Typed, LeaseInv, NEW i \in Instance, NEW state,
         sweep' = [sweep EXCEPT ![i] = state],
         UNCHANGED <<now, claimedAt, claimedBy>>,
         state.alive => sweep[i].alive /\ state.started = sweep[i].started,
         state.alive /\ state.pc \in {"claimed", "pulling", "closing"} =>
           /\ sweep[i].pc \in {"claimed", "pulling", "closing"}
           /\ state.todo = sweep[i].todo
  PROVE  LeaseInv'
<1> SUFFICES ASSUME NEW j \in Instance PROVE Young(j)' /\ Holder(j)'
  BY DEF LeaseInv
<1>1. Young(j) /\ Holder(j)
  BY DEF LeaseInv
<1>2. CASE j = i
  <2>1. sweep'[j] = state
    BY <1>2 DEF Typed, TypeOK
  <2> QED
    BY <1>1, <1>2, <2>1, LeaseFrame
<1>3. CASE j # i
  <2>1. sweep'[j] = sweep[j]
    BY <1>3 DEF Typed, TypeOK
  <2> QED
    BY <1>1, <2>1, LeaseFrame
<1> QED
  BY <1>2, <1>3

(* A sweep that moves on to its next connection has none open.             *)
LEMMA NextConnectionIdle ==
  ASSUME Typed, NEW i \in Instance, NextConnection(i)
  PROVE  \E state :
           /\ sweep' = [sweep EXCEPT ![i] = state]
           /\ state.alive => sweep[i].alive /\ state.started = sweep[i].started
           /\ state.pc \in {"loop", "done"}
<1> DEFINE next == [Fresh EXCEPT !.pc = "loop", !.alive = TRUE,
                                 !.started = sweep[i].started,
                                 !.todo = Tail(sweep[i].todo)]
<1>1. next.started = sweep[i].started /\ next.pc = "loop"
  BY DEF Fresh
<1>2. ~Over.alive /\ Over.pc = "done"
  BY DEF Over, Fresh
<1>3. sweep' = [sweep EXCEPT ![i] = IF sweep[i].alive THEN next ELSE Over]
  BY DEF NextConnection, Resume
<1> HIDE DEF next
<1>4. CASE sweep[i].alive
  <2>1. sweep' = [sweep EXCEPT ![i] = next]
    BY <1>3, <1>4
  <2> QED
    BY <1>1, <1>4, <2>1
<1>5. CASE ~sweep[i].alive
  <2>1. sweep' = [sweep EXCEPT ![i] = Over]
    BY <1>3, <1>5
  <2> QED
    BY <1>2, <2>1
<1> QED
  BY <1>4, <1>5

LEMMA LeaseInvStep == Typed /\ LeaseInv /\ [Next]_vars => LeaseInv'
<1> SUFFICES ASSUME Typed, LeaseInv, [Next]_vars PROVE LeaseInv'
  OBVIOUS
<1> USE DEF LeaseInv
<1>t. /\ now \in Nat
      /\ sweep \in [Instance -> SweepState]
      /\ \A j \in Instance : sweep[j].started \in Nat
  BY DEF Typed, TypeOK, SweepState
<1>1. CASE Tick
  <2> SUFFICES ASSUME NEW j \in Instance PROVE Young(j)' /\ Holder(j)'
    OBVIOUS
  <2>1. sweep'[j].alive => sweep'[j] = sweep[j] /\ now + 1 <= sweep[j].started + WallClock
    BY <1>1, <1>t DEF Tick, OutOfTime, Remains, Over, Fresh, SweepState
  <2> QED
    BY <1>1, <1>t, <2>1 DEF Tick, Young, Holder, Current, row
<1>2. ASSUME NEW c \in Connection, Withdraw(c) PROVE LeaseInv'
  BY <1>2 DEF Withdraw, Young, Holder, Current
<1>3. ASSUME NEW i \in Instance, SweepStep(i) PROVE LeaseInv'
  <2>0. now' = now
    BY <1>3 DEF SweepStep, StartSweep, FinishSweep, SkipConnection, ReadWatermark,
         ClaimGranted, ClaimRefused, RunRefused, StartRun, PullChunk, CompleteRun,
         FailRun, RecordBackfill, RecordNotOwner, RecordRaises, Die
  <2>1. CASE StartSweep(i)
    BY <2>1, <1>t, <2>0 DEF StartSweep, Young, Holder, Current, Fresh, row
  <2>2. CASE FinishSweep(i) \/ RecordRaises(i) \/ Die(i)
    <3>1. UNCHANGED <<now, claimedAt, claimedBy>>
      BY <2>2 DEF FinishSweep, RecordRaises, Die, row
    <3>2. PICK state \in {Over, Remains(i)} : sweep' = [sweep EXCEPT ![i] = state]
      BY <2>2 DEF FinishSweep, RecordRaises, Die
    <3>3. ~state.alive
      BY <3>2, OverIsDead, RemainsIsDead DEF Typed
    <3> QED
      BY <3>1, <3>2, <3>3, LeaseInvFrame
  <2>3. CASE SkipConnection(i) \/ ClaimRefused(i) \/ RecordNotOwner(i)
    <3>1. NextConnection(i) /\ UNCHANGED <<now, claimedAt, claimedBy>>
      BY <2>3 DEF SkipConnection, ClaimRefused, RecordNotOwner, row
    <3> QED
      BY <3>1, NextConnectionIdle, LeaseInvFrame
  <2>4. CASE ReadWatermark(i)
    <3> DEFINE state == [sweep[i] EXCEPT !.pc = "claiming",
                                         !.since = checkpoint[Current(i)]]
    <3>1. sweep' = [sweep EXCEPT ![i] = state] /\ UNCHANGED <<now, claimedAt, claimedBy>>
      BY <2>4, <1>t DEF ReadWatermark, row
    <3>2. /\ state.alive = sweep[i].alive /\ state.started = sweep[i].started
          /\ state.pc = "claiming"
      BY <1>t DEF SweepState
    <3> HIDE DEF state
    <3> QED
      BY <3>1, <3>2, LeaseInvFrame
  <2>5. CASE ClaimGranted(i)
    <3>1. Current(i) \in Connection
      BY <2>5, CurrentTyped DEF ClaimGranted, Typed, HandsFull, Busy
    <3>2. /\ claimedAt' = [claimedAt EXCEPT ![Current(i)] = now]
          /\ claimedBy' = [claimedBy EXCEPT ![Current(i)] = i]
          /\ LeaseFree(Current(i))
      BY <2>5 DEF ClaimGranted, Claimable
    <3>3. sweep' = [sweep EXCEPT ![i] = IF sweep[i].alive
                                        THEN [sweep[i] EXCEPT !.pc = "claimed"] ELSE Over]
      BY <2>5 DEF ClaimGranted, Resume
    <3> SUFFICES ASSUME NEW j \in Instance PROVE Young(j)' /\ Holder(j)'
      OBVIOUS
    <3>4. CASE j = i
      <4>1. CASE sweep[i].alive
        <5>1. sweep'[i] = [sweep[i] EXCEPT !.pc = "claimed"]
          BY <3>3, <4>1, <1>t
        <5>2. /\ sweep'[i].started = sweep[i].started /\ sweep'[i].todo = sweep[i].todo
              /\ sweep'[i].alive
          BY <5>1, <1>t, <4>1 DEF SweepState
        <5>3. sweep[i].started <= now /\ now <= sweep[i].started + WallClock
          BY <4>1 DEF Young
        <5>4. Head(sweep'[i].todo) = Current(i)
          BY <5>2 DEF Current
        <5>5. claimedBy'[Current(i)] = i /\ claimedAt'[Current(i)] = now
          BY <3>1, <3>2 DEF Typed, TypeOK
        <5>6. Young(i)'
          BY <5>2, <5>3, <2>0 DEF Young
        <5>7. Holder(i)'
          BY <5>2, <5>3, <5>4, <5>5, <2>0, <1>t DEF Holder, Current
        <5> QED
          BY <3>4, <5>6, <5>7
      <4>2. CASE ~sweep[i].alive
        BY <3>3, <3>4, <4>2, <1>t DEF Young, Holder, Over, Fresh
      <4> QED
        BY <4>1, <4>2
    <3>5. CASE j # i
      <4>1. sweep'[j] = sweep[j]
        BY <3>3, <3>5, <1>t
      <4>2. CASE sweep[j].alive /\ sweep[j].pc \in {"claimed", "pulling", "closing"}
        <5>1. Current(j) # Current(i)
          BY <4>2, <3>2, HeldIsNotFree
        <5>2. claimedBy'[Current(j)] = claimedBy[Current(j)]
              /\ claimedAt'[Current(j)] = claimedAt[Current(j)]
          BY <3>2, <5>1, <4>2, CurrentTyped DEF Typed, TypeOK, HandsFull, Busy
        <5> QED
          BY <4>1, <5>2, <2>0, <4>2 DEF Young, Holder, Current
      <4>3. CASE ~(sweep[j].alive /\ sweep[j].pc \in {"claimed", "pulling", "closing"})
        BY <4>1, <4>3, <2>0 DEF Young, Holder
      <4> QED
        BY <4>2, <4>3
    <3> QED
      BY <3>4, <3>5
  <2>6. CASE RunRefused(i) \/ CompleteRun(i) \/ FailRun(i)
    <3>1. PICK ok \in BOOLEAN, m \in NullableTime : Close(i, ok, m)
      BY <2>6, <1>t DEF RunRefused, CompleteRun, FailRun, SweepState
    <3> DEFINE state == [sweep[i] EXCEPT !.pc = "closing", !.succeeded = ok, !.mark = m]
    <3>2. sweep' = [sweep EXCEPT ![i] = state]
      BY <3>1, <1>t DEF Close
    <3>3. UNCHANGED <<now, claimedAt, claimedBy>>
      BY <2>6 DEF RunRefused, CompleteRun, FailRun, row
    <3>4. /\ state.alive = sweep[i].alive /\ state.started = sweep[i].started
          /\ state.todo = sweep[i].todo
      BY <1>t DEF SweepState
    <3>5. sweep[i].pc \in {"claimed", "pulling"}
      BY <2>6 DEF RunRefused, CompleteRun, FailRun, Running
    <3> HIDE DEF state
    <3> QED
      BY <3>2, <3>3, <3>4, <3>5, LeaseInvFrame
  <2>7. CASE StartRun(i) \/ PullChunk(i)
    <3>1. PICK u, r : sweep' = [sweep EXCEPT ![i] =
                        [sweep[i] EXCEPT !.pc = "pulling", !.until = u, !.reached = r]]
      <4>1. CASE StartRun(i)
        <5>1. PICK clock :
                sweep' = [sweep EXCEPT ![i].pc = "pulling", ![i].until = clock,
                                       ![i].reached = sweep[i].since]
          BY <4>1 DEF StartRun
        <5>2. sweep' = [sweep EXCEPT ![i] =
                [sweep[i] EXCEPT !.pc = "pulling", !.until = clock,
                                 !.reached = sweep[i].since]]
          BY <5>1, <1>t
        <5> QED
          BY <5>2
      <4>2. CASE PullChunk(i)
        <5>1. [sweep[i] EXCEPT !.reached = ChunkEnd(i)] =
                [sweep[i] EXCEPT !.pc = "pulling", !.until = sweep[i].until,
                                 !.reached = ChunkEnd(i)]
          BY <4>2, <1>t DEF PullChunk, Running, SweepState
        <5> QED
          BY <4>2, <5>1, <1>t DEF PullChunk
      <4> QED
        BY <2>7, <4>1, <4>2
    <3> DEFINE state == [sweep[i] EXCEPT !.pc = "pulling", !.until = u, !.reached = r]
    <3>2. /\ state.alive = sweep[i].alive /\ state.started = sweep[i].started
          /\ state.todo = sweep[i].todo
      BY <1>t DEF SweepState
    <3>3. sweep[i].pc \in {"claimed", "pulling"} /\ UNCHANGED <<now, claimedAt, claimedBy>>
      BY <2>7 DEF StartRun, PullChunk, Running, row
    <3>4. sweep' = [sweep EXCEPT ![i] = state]
      BY <3>1
    <3> HIDE DEF state
    <3> QED
      BY <3>2, <3>3, <3>4, LeaseInvFrame
  <2>8. CASE RecordBackfill(i)
    <3>1. Current(i) \in Connection /\ claimedBy[Current(i)] = i
      BY <2>8, CurrentTyped DEF RecordBackfill, HoldsLease, Typed, HandsFull, Busy
    <3>2. /\ claimedAt' = [claimedAt EXCEPT ![Current(i)] = Null]
          /\ claimedBy' = [claimedBy EXCEPT ![Current(i)] = NoInstance]
      BY <2>8 DEF RecordBackfill, ReleaseLease
    <3> SUFFICES ASSUME NEW j \in Instance PROVE Young(j)' /\ Holder(j)'
      OBVIOUS
    <3>3. CASE j = i
      <4>1. PICK state : /\ sweep' = [sweep EXCEPT ![i] = state]
                         /\ state.alive => sweep[i].alive /\ state.started = sweep[i].started
                         /\ state.pc \in {"loop", "done"}
        BY <2>8, NextConnectionIdle DEF RecordBackfill
      <4>2. sweep'[i] = state
        BY <4>1, <1>t
      <4>3. Young(i)
        OBVIOUS
      <4> QED
        BY <3>3, <4>1, <4>2, <4>3, <2>0 DEF Young, Holder
    <3>4. CASE j # i
      <4>1. sweep'[j] = sweep[j]
        BY <2>8, <3>4, <1>t DEF RecordBackfill, NextConnection, Resume
      <4>2. CASE sweep[j].alive /\ sweep[j].pc \in {"claimed", "pulling", "closing"}
        <5>1. Current(j) # Current(i)
          BY <4>2, <3>1, <3>4 DEF Holder
        <5>2. claimedBy'[Current(j)] = claimedBy[Current(j)]
              /\ claimedAt'[Current(j)] = claimedAt[Current(j)]
          BY <3>2, <5>1, <4>2, CurrentTyped DEF Typed, TypeOK, HandsFull, Busy
        <5> QED
          BY <4>1, <5>2, <2>0, <4>2 DEF Young, Holder, Current
      <4>3. CASE ~(sweep[j].alive /\ sweep[j].pc \in {"claimed", "pulling", "closing"})
        BY <4>1, <4>3, <2>0 DEF Young, Holder
      <4> QED
        BY <4>2, <4>3
    <3> QED
      BY <3>3, <3>4
  <2> QED
    BY <1>3, <2>1, <2>2, <2>3, <2>4, <2>5, <2>6, <2>7, <2>8 DEF SweepStep
<1>4. CASE UNCHANGED vars
  BY <1>4 DEF vars, row, Young, Holder, Current
<1> QED
  BY <1>1, <1>2, <1>3, <1>4 DEF Next

(* Typed and LeaseInv together are inductive. *)
LEMMA LeaseInductive == Spec => [](Typed /\ LeaseInv)
<1>1. Init => LeaseInv
  BY DEF Init, LeaseInv, Young, Holder, Fresh
<1> QED
  BY <1>1, TypedInit, TypedStep, LeaseInvStep, PTL DEF Spec

(* No two running sweeps ever have one connection open, however the lease  *)
(* expires, is stolen, or is claimed by a call that outlived its sender.   *)
THEOREM LeaseExcludes == Spec => []LeaseExclusion
<1>1. Typed /\ LeaseInv => LeaseExclusion
  BY DEF LeaseInv, Holder, LeaseExclusion, Pulling
<1> QED
  BY <1>1, LeaseInductive, PTL

(* A lease changes hands only by running out, and is given back only by    *)
(* the call of the instance that holds it.                                 *)
THEOREM LeaseChangesHandsLawfully == Spec => LeaseIsKept
<1>1. Typed /\ [Next]_vars => [LeaseKept]_vars
  <2> SUFFICES ASSUME Typed, Next, NEW c \in Connection,
                      claimedBy[c] # NoInstance, claimedBy'[c] # claimedBy[c]
               PROVE  \/ claimedAt[c] < now - Lease
                      \/ /\ claimedBy'[c] = NoInstance
                         /\ sweep[claimedBy[c]].pc = "closing"
                         /\ Current(claimedBy[c]) = c
    BY DEF LeaseKept
  <2>1. PICK i \in Instance : ClaimGranted(i) \/ RecordBackfill(i)
    BY DEF Next, Tick, Withdraw, SweepStep, StartSweep, FinishSweep, SkipConnection,
         ReadWatermark, ClaimRefused, RunRefused, StartRun, PullChunk, CompleteRun,
         FailRun, RecordNotOwner, RecordRaises, Die, row
  <2>2. CASE ClaimGranted(i)
    BY <2>2 DEF ClaimGranted, Claimable, LeaseFree, Typed, TypeOK
  <2>3. CASE RecordBackfill(i)
    BY <2>3 DEF RecordBackfill, ReleaseLease, HoldsLease, Typed, TypeOK
  <2> QED
    BY <2>1, <2>2, <2>3
<1> QED
  BY <1>1, TypedInit, TypedStep, PTL DEF Spec, LeaseIsKept
-----------------------------------------------------------------------------
(* The watermark. *)

(* A run starts at or behind the watermark. *)
SealedRuns ==
  \A i \in Instance : Busy(i) => sweep[i].since <= checkpoint[Current(i)]

(* What every step does to the three things the invariants measure by.     *)
Grown ==
  /\ now <= now'
  /\ \A c \in Connection :
       checkpoint[c] <= checkpoint'[c] /\ covered[c] \subseteq covered'[c]

LEMMA Growth == Typed /\ [Next]_vars => Grown
<1> SUFFICES ASSUME Typed, [Next]_vars PROVE Grown
  OBVIOUS
<1>t. /\ now \in Nat /\ checkpoint \in [Connection -> Nat \cup {-1}]
      /\ covered \in [Connection -> SUBSET Nat]
      /\ sweep \in [Instance -> SweepState]
  BY DEF Typed, TypeOK
<1>1. CASE Tick
  BY <1>1, <1>t DEF Tick, row, Grown
<1>2. ASSUME NEW i \in Instance, PullChunk(i) PROVE Grown
  BY <1>2, <1>t DEF PullChunk, row, Grown
<1>3. ASSUME NEW i \in Instance, RecordBackfill(i) PROVE Grown
  <2>1. /\ checkpoint' = [checkpoint EXCEPT ![Current(i)] =
                            Greatest(checkpoint[Current(i)], sweep[i].mark)]
        /\ UNCHANGED <<now, covered>>
    BY <1>3 DEF RecordBackfill
  <2>2. sweep[i].mark \in Nat \cup {-1}
    BY <1>t DEF SweepState
  <2> QED
    BY <2>1, <2>2, <1>t DEF Greatest, Grown
<1>4. CASE UNCHANGED <<now, checkpoint, covered>>
  BY <1>4, <1>t DEF Grown
<1> QED
  BY <1>1, <1>2, <1>3, <1>4
     DEF Next, Withdraw, SweepStep, StartSweep, FinishSweep, SkipConnection,
         ReadWatermark, ClaimGranted, ClaimRefused, RunRefused, StartRun, CompleteRun,
         FailRun, RecordNotOwner, RecordRaises, Die, row, vars

(* The watermark lies behind the database clock, for any clock skew: it is *)
(* the guard of record_backfill that does it.                              *)
THEOREM WatermarkNotAhead == Spec => []CheckpointNotAhead
<1>1. Init => CheckpointNotAhead
  BY DEF Init, CheckpointNotAhead
<1>2. Typed /\ CheckpointNotAhead /\ [Next]_vars => CheckpointNotAhead'
  <2> SUFFICES ASSUME Typed, CheckpointNotAhead, [Next]_vars,
                      NEW c \in Connection
               PROVE  checkpoint'[c] <= now'
    BY DEF CheckpointNotAhead
  <2>t. /\ now \in Nat /\ checkpoint \in [Connection -> Nat \cup {-1}]
        /\ sweep \in [Instance -> SweepState]
        /\ checkpoint[c] <= now
    BY DEF Typed, TypeOK, CheckpointNotAhead
  <2>1. now' \in Nat /\ now <= now'
    BY Growth, TypedStep DEF Grown, Typed, TypeOK
  <2>2. ASSUME NEW i \in Instance, RecordBackfill(i) PROVE checkpoint'[c] <= now'
    <3>1. /\ checkpoint' = [checkpoint EXCEPT ![Current(i)] =
                              Greatest(checkpoint[Current(i)], sweep[i].mark)]
          /\ ~(sweep[i].mark > now) /\ now' = now
      BY <2>2 DEF RecordBackfill, MarkAhead
    <3>2. sweep[i].mark \in Nat \cup {-1}
      BY <2>t DEF SweepState
    <3> QED
      BY <3>1, <3>2, <2>t DEF Greatest
  <2>3. CASE checkpoint' = checkpoint
    BY <2>1, <2>3, <2>t
  <2> QED
    BY <2>2, <2>3
       DEF Next, Tick, Withdraw, SweepStep, StartSweep, FinishSweep, SkipConnection,
           ReadWatermark, ClaimGranted, ClaimRefused, RunRefused, StartRun, PullChunk,
           CompleteRun, FailRun, RecordNotOwner, RecordRaises, Die, row, vars
<1> QED
  BY <1>1, <1>2, TypedInit, TypedStep, PTL DEF Spec
-----------------------------------------------------------------------------
(* No hole. *)

(* Sweep i keeps its connection, its window and its progress. *)
Keeps(i) ==
  /\ sweep'[i].pc = sweep[i].pc /\ sweep'[i].todo = sweep[i].todo
  /\ sweep'[i].since = sweep[i].since /\ sweep'[i].until = sweep[i].until
  /\ sweep'[i].reached = sweep[i].reached /\ sweep'[i].mark = sweep[i].mark
  /\ sweep'[i].succeeded = sweep[i].succeeded

LEMMA RemainsKeeps ==
  ASSUME Typed, NEW i \in Instance, sweep'[i] = Remains(i), Busy(i)'
  PROVE  Keeps(i)
<1>1. sweep[i] \in SweepState
  BY DEF Typed, TypeOK
<1>2. Remains(i) = [sweep[i] EXCEPT !.alive = FALSE]
  BY DEF Remains, Busy, Over, Fresh
<1> QED
  BY <1>1, <1>2 DEF Keeps, SweepState

(* One sweep moves at a time. *)
LEMMA OthersStay ==
  ASSUME Typed, NEW i \in Instance, SweepStep(i), NEW j \in Instance, j # i
  PROVE  sweep'[j] = sweep[j]
<1>1. sweep \in [Instance -> SweepState]
  BY DEF Typed, TypeOK
<1>2. \E state : sweep' = [sweep EXCEPT ![i] = state]
  <2>1. CASE StartSweep(i)
    BY <2>1 DEF StartSweep
  <2>2. CASE FinishSweep(i) \/ RecordRaises(i) \/ Die(i)
    BY <2>2 DEF FinishSweep, RecordRaises, Die
  <2>3. CASE SkipConnection(i) \/ ClaimRefused(i) \/ RecordNotOwner(i) \/ RecordBackfill(i)
    BY <2>3 DEF SkipConnection, ClaimRefused, RecordNotOwner, RecordBackfill,
                NextConnection, Resume
  <2>4. CASE ReadWatermark(i)
    BY <2>4, <1>1 DEF ReadWatermark
  <2>5. CASE ClaimGranted(i)
    BY <2>5 DEF ClaimGranted, Resume
  <2>6. CASE RunRefused(i) \/ CompleteRun(i) \/ FailRun(i)
    BY <2>6, <1>1 DEF RunRefused, CompleteRun, FailRun, Close
  <2>7. CASE StartRun(i)
    <3>1. PICK clock :
            sweep' = [sweep EXCEPT ![i].pc = "pulling", ![i].until = clock,
                                   ![i].reached = sweep[i].since]
      BY <2>7 DEF StartRun
    <3> QED
      BY <3>1, <1>1
  <2>8. CASE PullChunk(i)
    BY <2>8, <1>1 DEF PullChunk
  <2> QED
    BY <2>1, <2>2, <2>3, <2>4, <2>5, <2>6, <2>7, <2>8 DEF SweepStep
<1> QED
  BY <1>1, <1>2

(* The steps that change what a busy sweep has in hand. *)
Works(i) ==
  \/ ReadWatermark(i) \/ ClaimGranted(i) \/ StartRun(i) \/ PullChunk(i)
  \/ RunRefused(i) \/ CompleteRun(i) \/ FailRun(i)

LEMMA BusyMoves ==
  ASSUME Typed, [Next]_vars, NEW j \in Instance, Busy(j)'
  PROVE  Works(j) \/ Keeps(j)
<1>t. sweep \in [Instance -> SweepState]
  BY DEF Typed, TypeOK
<1>1. CASE Tick
  BY <1>1, <1>t, RemainsKeeps DEF Tick, Keeps
<1>2. CASE (\E c \in Connection : Withdraw(c)) \/ UNCHANGED vars
  BY <1>2 DEF Withdraw, vars, Keeps
<1>3. ASSUME NEW i \in Instance, SweepStep(i) PROVE Works(j) \/ Keeps(j)
  <2>1. CASE j # i
    BY <1>3, <2>1, OthersStay DEF Keeps
  <2>2. CASE j = i
    <3>1. CASE StartSweep(i)
      BY <3>1, <2>2, <1>t DEF StartSweep, Fresh, Busy
    <3>2. CASE FinishSweep(i) \/ RecordRaises(i)
      BY <3>2, <2>2, <1>t DEF FinishSweep, RecordRaises, Over, Fresh, Busy
    <3>3. CASE SkipConnection(i) \/ ClaimRefused(i) \/ RecordNotOwner(i) \/ RecordBackfill(i)
      <4>1. NextConnection(i)
        BY <3>3 DEF SkipConnection, ClaimRefused, RecordNotOwner, RecordBackfill
      <4> QED
        BY <4>1, <2>2, <1>t, NextConnectionIdle DEF Busy
    <3>4. CASE Die(i)
      <4>1. sweep'[i] = Remains(i)
        BY <3>4, <1>t DEF Die
      <4> QED
        BY <4>1, <2>2, RemainsKeeps
    <3> QED
      BY <1>3, <2>2, <3>1, <3>2, <3>3, <3>4 DEF SweepStep, Works
  <2> QED
    BY <2>1, <2>2
<1> QED
  BY <1>1, <1>2, <1>3 DEF Next

(* What is at the head of a list that is kept stays there. *)
LEMMA SealedStep == Typed /\ SealedRuns /\ [Next]_vars => SealedRuns'
<1> SUFFICES ASSUME Typed, SealedRuns, [Next]_vars, NEW j \in Instance, Busy(j)'
             PROVE  sweep'[j].since <= checkpoint'[Current(j)']
  BY DEF SealedRuns
<1>t. /\ sweep \in [Instance -> SweepState]
      /\ checkpoint \in [Connection -> Nat \cup {-1}]
  BY DEF Typed, TypeOK
<1>g. /\ \A c \in Connection : checkpoint[c] <= checkpoint'[c]
      /\ \A c \in Connection : checkpoint'[c] \in Nat \cup {-1}
  BY Growth, TypedStep DEF Grown, Typed, TypeOK
<1>1. ASSUME Busy(j), sweep'[j].todo = sweep[j].todo, sweep'[j].since = sweep[j].since
      PROVE  sweep'[j].since <= checkpoint'[Current(j)']
  <2>1. Current(j)' = Current(j) /\ Current(j) \in Connection
    BY <1>1, CurrentTyped DEF Current, Typed, HandsFull
  <2>2. sweep[j].since <= checkpoint[Current(j)] /\ sweep[j].since \in Nat
    BY <1>1, <1>t DEF SealedRuns, SweepState
  <2> QED
    BY <1>1, <2>1, <2>2, <1>t, <1>g
<1>2. CASE Keeps(j)
  BY <1>1, <1>2 DEF Keeps, Busy
<1>3. CASE ReadWatermark(j)
  <2>1. Current(j) \in Connection
    BY <1>3, CurrentTyped DEF ReadWatermark
  <2>2. sweep' = [sweep EXCEPT ![j] = [sweep[j] EXCEPT !.pc = "claiming",
                                         !.since = checkpoint[Current(j)]]]
    BY <1>3, <1>t DEF ReadWatermark
  <2>3. /\ sweep'[j].todo = sweep[j].todo
        /\ sweep'[j].since = checkpoint[Current(j)]
    BY <2>2, <1>t DEF SweepState
  <2> QED
    BY <2>1, <2>3, <1>g DEF Current
<1>4. CASE ClaimGranted(j)
  <2>1. sweep[j].alive
    BY <1>4, <1>t DEF ClaimGranted, Resume, Busy, Over, Fresh
  <2>2. sweep' = [sweep EXCEPT ![j] = [sweep[j] EXCEPT !.pc = "claimed"]]
    BY <1>4, <2>1 DEF ClaimGranted, Resume
  <2>3. sweep'[j].todo = sweep[j].todo /\ sweep'[j].since = sweep[j].since
    BY <2>2, <1>t DEF SweepState
  <2> QED
    BY <2>3, <1>1, <1>4 DEF ClaimGranted, Busy
<1>5. CASE StartRun(j)
  <2>1. PICK clock :
          sweep' = [sweep EXCEPT ![j].pc = "pulling", ![j].until = clock,
                                 ![j].reached = sweep[j].since]
    BY <1>5 DEF StartRun
  <2>2. sweep'[j].todo = sweep[j].todo /\ sweep'[j].since = sweep[j].since
    BY <2>1, <1>t DEF SweepState
  <2> QED
    BY <2>2, <1>1, <1>5 DEF StartRun, Running, Busy
<1>6. CASE PullChunk(j)
  <2>1. sweep'[j].todo = sweep[j].todo /\ sweep'[j].since = sweep[j].since
    BY <1>6, <1>t DEF PullChunk, SweepState
  <2> QED
    BY <2>1, <1>1, <1>6 DEF PullChunk, Running, Busy
<1>7. CASE RunRefused(j) \/ CompleteRun(j) \/ FailRun(j)
  <2>1. sweep'[j].todo = sweep[j].todo /\ sweep'[j].since = sweep[j].since
    BY <1>7, <1>t DEF RunRefused, CompleteRun, FailRun, Close, SweepState
  <2> QED
    BY <2>1, <1>1, <1>7 DEF RunRefused, CompleteRun, FailRun, Running, Busy
<1> QED
  BY <1>2, <1>3, <1>4, <1>5, <1>6, <1>7, BusyMoves DEF Works

LEMMA SealedInductive == Spec => [](Typed /\ SealedRuns)
<1>1. Init => SealedRuns
  BY DEF Init, SealedRuns, Busy, Fresh
<1> QED
  BY <1>1, TypedInit, TypedStep, SealedStep, PTL DEF Spec

(* The watermark only moves forward, for any clock skew, and no sweep ever *)
(* gives a first watermark to a connection that was never sealed with one. *)
THEOREM WatermarkMovesForward == Spec => WatermarkNeverRegresses
<1>1. Typed /\ SealedRuns /\ [Next]_vars => [WatermarkForward]_vars
  <2> SUFFICES ASSUME Typed, SealedRuns, [Next]_vars, NEW c \in Connection
               PROVE  /\ checkpoint[c] <= checkpoint'[c]
                      /\ checkpoint[c] = -1 => checkpoint'[c] = -1
    BY DEF WatermarkForward
  <2>1. checkpoint[c] <= checkpoint'[c]
    BY Growth DEF Grown
  <2>2. ASSUME NEW i \in Instance, RecordBackfill(i), checkpoint[c] = -1
        PROVE  checkpoint'[c] = -1
    <3>1. Current(i) # c
      BY <2>2 DEF RecordBackfill, SealedRuns, Busy, Typed, TypeOK, SweepState
    <3> QED
      BY <2>2, <3>1 DEF RecordBackfill, Typed, TypeOK
  <2>3. CASE checkpoint' = checkpoint
    BY <2>1, <2>3
  <2> QED
    BY <2>1, <2>2, <2>3
       DEF Next, Tick, Withdraw, SweepStep, StartSweep, FinishSweep, SkipConnection,
           ReadWatermark, ClaimGranted, ClaimRefused, RunRefused, StartRun, PullChunk,
           CompleteRun, FailRun, RecordNotOwner, RecordRaises, Die, row, vars
<1> QED
  BY <1>1, SealedInductive, PTL DEF Spec, WatermarkNeverRegresses

-----------------------------------------------------------------------------
(* No hole. *)

(* Everything of connection c that was modified before instant t is stored.*)
CoveredTo(c, t) == \A s \in 0 .. t - 1 : s \in covered[c]

(* A run pins an end that is already past and leaves no gap behind what it *)
(* has reached; a close in flight carries a mark with no gap behind it.    *)
Gapless(i) ==
  /\ sweep[i].pc = "pulling" =>
       sweep[i].until <= now /\ CoveredTo(Current(i), sweep[i].reached)
  /\ sweep[i].pc = "closing" => CoveredTo(Current(i), sweep[i].mark)

GaplessRuns == \A i \in Instance : Gapless(i)

(* What was covered stays covered. *)
LEMMA CoverageGrows ==
  ASSUME Grown, NEW c \in Connection, NEW t \in Int, CoveredTo(c, t)
  PROVE  CoveredTo(c, t)'
BY DEF Grown, CoveredTo

LEMMA GaplessStep ==
  Ahead = 0 /\ Typed /\ SealedRuns /\ NoHole /\ GaplessRuns /\ [Next]_vars => GaplessRuns'
<1> SUFFICES ASSUME Ahead = 0, Typed, SealedRuns, NoHole, GaplessRuns, [Next]_vars,
                    NEW j \in Instance, Busy(j)'
             PROVE  Gapless(j)'
  BY DEF GaplessRuns, Gapless, Busy
<1>t. /\ sweep \in [Instance -> SweepState] /\ now \in Nat
      /\ checkpoint \in [Connection -> Nat \cup {-1}]
      /\ covered \in [Connection -> SUBSET Nat]
      /\ sweep[j] \in SweepState
      /\ sweep[j].since \in Nat /\ sweep[j].until \in Nat
      /\ sweep[j].reached \in Nat /\ sweep[j].mark \in Nat \cup {-1}
  BY DEF Typed, TypeOK, SweepState
<1>g. Grown /\ now' \in Nat
  BY Growth, TypedStep DEF Typed, TypeOK
<1>h. Gapless(j)
  BY DEF GaplessRuns
<1>c. ASSUME Busy(j) PROVE Current(j) \in Connection
  BY <1>c, CurrentTyped DEF Typed, HandsFull
<1>2. CASE Keeps(j)
  <2>1. Current(j)' = Current(j) /\ Current(j) \in Connection
    BY <1>2, <1>c DEF Current, Keeps, Busy
  <2>2. CASE sweep[j].pc = "pulling"
    BY <1>2, <2>1, <2>2, <1>h, <1>g, <1>t, CoverageGrows DEF Gapless, Keeps, Grown
  <2>3. CASE sweep[j].pc = "closing"
    BY <1>2, <2>1, <2>3, <1>h, <1>g, <1>t, CoverageGrows DEF Gapless, Keeps
  <2>4. CASE sweep[j].pc \notin {"pulling", "closing"}
    BY <1>2, <2>4 DEF Gapless, Keeps
  <2> QED
    BY <2>2, <2>3, <2>4
<1>3. CASE ReadWatermark(j) \/ ClaimGranted(j)
  <2>1. sweep'[j].pc \notin {"pulling", "closing"}
    BY <1>3, <1>t DEF ReadWatermark, ClaimGranted, Resume, Over, Fresh, SweepState
  <2> QED
    BY <2>1 DEF Gapless
<1>4. CASE StartRun(j)
  <2>1. PICK clock \in now - Behind .. now + Ahead :
          /\ clock >= 0
          /\ sweep' = [sweep EXCEPT ![j].pc = "pulling", ![j].until = clock,
                                    ![j].reached = sweep[j].since]
    BY <1>4 DEF StartRun
  <2>c. clock \in Nat /\ clock <= now
    BY <2>1, <1>t, SweepAssumption
  <2>2. /\ sweep'[j].todo = sweep[j].todo /\ sweep'[j].pc = "pulling"
        /\ sweep'[j].until <= now /\ sweep'[j].reached = sweep[j].since
    BY <2>1, <2>c, <1>t DEF SweepState
  <2>3. Busy(j) /\ Current(j)' = Current(j) /\ Current(j) \in Connection
    BY <1>4, <2>2, <1>c DEF StartRun, Running, Busy, Current
  <2>4. sweep[j].since <= checkpoint[Current(j)]
    BY <2>3 DEF SealedRuns
  <2>5. CoveredTo(Current(j), sweep[j].since)
    BY <2>3, <2>4, <1>t DEF NoHole, CoveredTo
  <2>6. CoveredTo(Current(j), sweep[j].since)'
    <3>1. covered' = covered /\ sweep'[j].since = sweep[j].since
      BY <1>4, <2>1, <1>t DEF StartRun, SweepState
    <3> QED
      BY <2>3, <2>5, <3>1 DEF CoveredTo
  <2>7. sweep'[j].reached = sweep'[j].since /\ now' = now
    BY <1>4, <2>1, <1>t DEF StartRun, SweepState
  <2> QED
    BY <2>2, <2>3, <2>6, <2>7, <1>t DEF Gapless
<1>5. CASE PullChunk(j)
  <2>1. /\ sweep'[j].todo = sweep[j].todo /\ sweep'[j].pc = "pulling"
        /\ sweep'[j].until = sweep[j].until /\ sweep'[j].reached = ChunkEnd(j)
        /\ sweep[j].pc = "pulling"
    BY <1>5, <1>t DEF PullChunk, Running, SweepState
  <2>2. Current(j)' = Current(j) /\ Current(j) \in Connection
    BY <2>1, <1>c DEF Busy, Current
  <2>3. ChunkEnd(j) \in Nat /\ ChunkEnd(j) <= sweep[j].until
    BY <1>t DEF ChunkEnd
  <2>4. sweep[j].until <= now /\ CoveredTo(Current(j), sweep[j].reached)
    BY <2>1, <1>h DEF Gapless
  <2>5. now' = now /\ covered'[Current(j)] = covered[Current(j)] \cup
                        {t \in sweep[j].reached .. ChunkEnd(j) : t < now}
    BY <1>5, <1>t, <2>2 DEF PullChunk
  <2>6. ASSUME NEW t \in 0 .. ChunkEnd(j) - 1 PROVE t \in covered'[Current(j)]
    <3>1. CASE t < sweep[j].reached
      BY <3>1, <2>3, <2>4, <2>5, <1>t DEF CoveredTo
    <3>2. CASE t >= sweep[j].reached
      BY <3>2, <2>3, <2>4, <2>5, <1>t
    <3> QED
      BY <3>1, <3>2, <1>t, <2>3
  <2>7. CoveredTo(Current(j), sweep[j].reached)'
    BY <2>1, <2>2, <2>6 DEF CoveredTo
  <2> QED
    BY <2>1, <2>4, <2>5, <2>7 DEF Gapless
<1>6. CASE RunRefused(j) \/ CompleteRun(j) \/ FailRun(j)
  <2>1. PICK ok \in BOOLEAN, m \in {-1, sweep[j].reached} :
          Close(j, ok, m) /\ (m # -1 => sweep[j].pc = "pulling")
    BY <1>6, <1>t DEF RunRefused, CompleteRun, FailRun, Running
  <2>2. /\ sweep'[j].todo = sweep[j].todo /\ sweep'[j].pc = "closing"
        /\ sweep'[j].mark = m
    BY <2>1, <1>t DEF Close, SweepState
  <2>3. Current(j)' = Current(j) /\ Current(j) \in Connection
    BY <1>6, <2>2, <1>c DEF RunRefused, CompleteRun, FailRun, Running, Busy, Current
  <2>4. CoveredTo(Current(j), m)
    BY <2>1, <1>h, <1>t DEF Gapless, CoveredTo
  <2>5. covered' = covered
    BY <1>6 DEF RunRefused, CompleteRun, FailRun
  <2>6. CoveredTo(Current(j), sweep[j].mark)'
    BY <2>2, <2>3, <2>4, <2>5 DEF CoveredTo
  <2> QED
    BY <2>2, <2>6 DEF Gapless
<1> QED
  BY <1>2, <1>3, <1>4, <1>5, <1>6, BusyMoves DEF Works

LEMMA NoHoleStep == Typed /\ NoHole /\ GaplessRuns /\ [Next]_vars => NoHole'
<1> SUFFICES ASSUME Typed, NoHole, GaplessRuns, [Next]_vars, NEW c \in Connection
             PROVE  CoveredTo(c, checkpoint[c])'
  BY DEF NoHole, CoveredTo
<1>t. /\ sweep \in [Instance -> SweepState] /\ checkpoint[c] \in Int
      /\ checkpoint \in [Connection -> Nat \cup {-1}]
  BY DEF Typed, TypeOK
<1>g. Grown
  BY Growth
<1>1. CoveredTo(c, checkpoint[c])
  BY DEF NoHole, CoveredTo
<1>2. CASE checkpoint'[c] = checkpoint[c]
  BY <1>1, <1>2, <1>t, <1>g DEF CoveredTo, Grown
<1>3. ASSUME NEW i \in Instance, RecordBackfill(i)
      PROVE  CoveredTo(c, checkpoint[c])'
  <2>1. /\ checkpoint' = [checkpoint EXCEPT ![Current(i)] =
                            Greatest(checkpoint[Current(i)], sweep[i].mark)]
        /\ covered' = covered /\ sweep[i].pc = "closing"
    BY <1>3 DEF RecordBackfill
  <2>2. CASE Current(i) = c
    <3>1. CoveredTo(c, sweep[i].mark)
      BY <2>1, <2>2 DEF GaplessRuns, Gapless
    <3>2. checkpoint'[c] \in {checkpoint[c], sweep[i].mark}
      BY <2>1, <2>2, <1>t DEF Greatest
    <3> QED
      BY <3>1, <3>2, <2>1, <1>1 DEF CoveredTo
  <2>3. CASE Current(i) # c
    BY <2>1, <2>3, <1>2, <1>t
  <2> QED
    BY <2>2, <2>3
<1>4. CASE checkpoint' = checkpoint
  BY <1>2, <1>4
<1> QED
  BY <1>3, <1>4
     DEF Next, Tick, Withdraw, SweepStep, StartSweep, FinishSweep, SkipConnection,
         ReadWatermark, ClaimGranted, ClaimRefused, RunRefused, StartRun, PullChunk,
         CompleteRun, FailRun, RecordNotOwner, RecordRaises, Die, row, vars

(* While no Worker's clock is ahead of the database's, no run, no failure, *)
(* no death and no late close ever leaves a gap behind the watermark.  A   *)
(* clock that is behind does no harm, however far; one that is ahead does: *)
(* with Ahead = 1 model checking finds the gap.                            *)
THEOREM NoHoleBehindTheWatermark == ASSUME Ahead = 0 PROVE Spec => []NoHole
<1>1. Init => NoHole /\ GaplessRuns
  BY DEF Init, NoHole, GaplessRuns, Gapless, Fresh
<1>2. Typed /\ SealedRuns /\ NoHole /\ GaplessRuns /\ [Next]_vars =>
        NoHole' /\ GaplessRuns'
  BY GaplessStep, NoHoleStep
<1> QED
  BY <1>1, <1>2, SealedInductive, PTL DEF Spec

-----------------------------------------------------------------------------
(* The day's stamp. *)

(* A close that reports a success carries the end its run pinned.          *)
HonestClose(i) ==
  sweep[i].pc = "closing" /\ sweep[i].succeeded =>
    WholeSpanRead(i) /\ sweep[i].mark = sweep[i].until

HonestCloses == \A i \in Instance : HonestClose(i)

LEMMA HonestStep == Typed /\ HonestCloses /\ [Next]_vars => HonestCloses'
<1> SUFFICES ASSUME Typed, HonestCloses, [Next]_vars, NEW j \in Instance,
                    Busy(j)', sweep'[j].pc = "closing"
             PROVE  HonestClose(j)'
  BY DEF HonestCloses, HonestClose, Busy
<1>t. sweep \in [Instance -> SweepState] /\ sweep[j] \in SweepState
  BY DEF Typed, TypeOK
<1>1. CASE Keeps(j)
  BY <1>1 DEF HonestCloses, HonestClose, Keeps, WholeSpanRead
<1>2. CASE CompleteRun(j)
  BY <1>2, <1>t DEF CompleteRun, Close, HonestClose, WholeSpanRead, SweepState
<1>3. CASE RunRefused(j) \/ FailRun(j)
  BY <1>3, <1>t DEF RunRefused, FailRun, Close, HonestClose, SweepState
<1>4. sweep'[j].pc = "closing" =>
        ~(ReadWatermark(j) \/ ClaimGranted(j) \/ StartRun(j) \/ PullChunk(j))
  <2>1. ~(ReadWatermark(j) \/ PullChunk(j))
    <3>1. ReadWatermark(j) => sweep'[j].pc = "claiming"
      BY <1>t DEF ReadWatermark, SweepState
    <3>2. PullChunk(j) => sweep'[j].pc = "pulling"
      BY <1>t DEF PullChunk, Running, SweepState
    <3> QED
      BY <3>1, <3>2
  <2>2. ~ClaimGranted(j)
    BY <1>t DEF ClaimGranted, Resume, Over, Fresh, SweepState
  <2>3. ASSUME StartRun(j) PROVE FALSE
    <3>1. PICK clock :
            sweep' = [sweep EXCEPT ![j].pc = "pulling", ![j].until = clock,
                                   ![j].reached = sweep[j].since]
      BY <2>3 DEF StartRun
    <3> QED
      BY <3>1, <1>t DEF SweepState
  <2> QED
    BY <2>1, <2>2, <2>3
<1> QED
  BY <1>1, <1>2, <1>3, <1>4, BusyMoves DEF Works

(* The day is never ticked off on a refused, partial or abandoned run.     *)
THEOREM DayIsEarned == Spec => StampOnlyCompleteRuns
<1>1. Init => HonestCloses
  BY DEF Init, HonestCloses, HonestClose, Fresh
<1>2. Typed /\ HonestCloses /\ [Next]_vars => [StampEarned]_vars
  <2> SUFFICES ASSUME Typed, HonestCloses, [Next]_vars, NEW c \in Connection,
                      lastBackfill'[c] # lastBackfill[c]
               PROVE  \E i \in Instance :
                        /\ claimedBy[c] = i /\ Current(i) = c /\ WholeSpanRead(i)
                        /\ checkpoint'[c] >= sweep[i].until
    BY DEF StampEarned
  <2>1. PICK i \in Instance : RecordBackfill(i)
    BY DEF Next, Tick, Withdraw, SweepStep, StartSweep, FinishSweep, SkipConnection,
         ReadWatermark, ClaimGranted, ClaimRefused, RunRefused, StartRun, PullChunk,
         CompleteRun, FailRun, RecordNotOwner, RecordRaises, Die, row, vars
  <2>2. /\ sweep[i].succeeded /\ Current(i) = c /\ claimedBy[c] = i
        /\ sweep[i].pc = "closing"
        /\ checkpoint' = [checkpoint EXCEPT ![c] = Greatest(checkpoint[c], sweep[i].mark)]
    BY <2>1 DEF RecordBackfill, HoldsLease, Typed, TypeOK
  <2>3. WholeSpanRead(i) /\ sweep[i].mark = sweep[i].until
    BY <2>2 DEF HonestCloses, HonestClose
  <2>4. checkpoint'[c] >= sweep[i].until
    <3>1. checkpoint[c] \in Nat \cup {-1} /\ sweep[i].until \in Nat
      BY DEF Typed, TypeOK, SweepState
    <3> QED
      BY <2>2, <2>3, <3>1 DEF Greatest, Typed, TypeOK
  <2> QED
    BY <2>2, <2>3, <2>4
<1> QED
  BY <1>1, <1>2, TypedInit, TypedStep, HonestStep, PTL DEF Spec, StampOnlyCompleteRuns

-----------------------------------------------------------------------------
(* The contract of one connection. *)

(* A sweep only comes alive when it starts, and then it is not busy.       *)
LEMMA BusyWasAlive ==
  ASSUME Typed, [Next]_vars, NEW j \in Instance, Busy(j)', sweep'[j].alive
  PROVE  sweep[j].alive
<1>t. sweep \in [Instance -> SweepState]
  BY DEF Typed, TypeOK
<1>1. CASE Tick
  BY <1>1, <1>t, RemainsIsDead DEF Tick, Typed
<1>2. CASE (\E c \in Connection : Withdraw(c)) \/ UNCHANGED vars
  BY <1>2 DEF Withdraw, vars
<1>3. ASSUME NEW i \in Instance, SweepStep(i) PROVE sweep[j].alive
  <2>1. CASE j # i
    BY <1>3, <2>1, OthersStay
  <2>2. CASE j = i
    <3>1. CASE StartSweep(i)
      BY <3>1, <2>2, <1>t DEF StartSweep, Fresh, Busy
    <3>2. CASE FinishSweep(i) \/ RecordRaises(i) \/ Die(i)
      BY <3>2, <2>2, <1>t, OverIsDead, RemainsIsDead
         DEF FinishSweep, RecordRaises, Die, Typed
    <3>3. CASE \/ SkipConnection(i) \/ ClaimRefused(i) \/ RecordNotOwner(i)
               \/ RecordBackfill(i)
      BY <3>3, <2>2, <1>t, OverIsDead
         DEF SkipConnection, ClaimRefused, RecordNotOwner, RecordBackfill,
             NextConnection, Resume
    <3>4. CASE ClaimGranted(i)
      BY <3>4, <2>2, <1>t, OverIsDead DEF ClaimGranted, Resume
    <3>5. CASE \/ ReadWatermark(i) \/ RunRefused(i) \/ StartRun(i) \/ PullChunk(i)
               \/ CompleteRun(i) \/ FailRun(i)
      BY <3>5, <2>2
         DEF ReadWatermark, RunRefused, StartRun, PullChunk, CompleteRun, FailRun,
             Running
    <3> QED
      BY <1>3, <3>1, <3>2, <3>3, <3>4, <3>5 DEF SweepStep
  <2> QED
    BY <2>1, <2>2
<1> QED
  BY <1>1, <1>2, <1>3 DEF Next

(* A pull goes on from before, or begins with a claim that is granted.     *)
LEMMA PullsBegin ==
  ASSUME Typed, [Next]_vars, NEW i \in Instance, NEW c \in Connection, Pulling(i, c)'
  PROVE  Pulling(i, c) \/ (ClaimGranted(i) /\ Current(i) = c)
<1>t. sweep \in [Instance -> SweepState]
  BY DEF Typed, TypeOK
<1>1. Busy(i)' /\ sweep'[i].alive
  BY DEF Pulling, Busy
<1>2. sweep[i].alive
  BY <1>1, BusyWasAlive
<1>3. CASE Keeps(i)
  BY <1>2, <1>3 DEF Keeps, Pulling, Current
<1>4. CASE ReadWatermark(i)
  BY <1>4, <1>t DEF ReadWatermark, Pulling
<1>5. CASE ClaimGranted(i)
  <2>1. sweep'[i].todo = sweep[i].todo
    BY <1>2, <1>5, <1>t DEF ClaimGranted, Resume
  <2> QED
    BY <1>5, <2>1 DEF Pulling, Current
<1>6. CASE StartRun(i)
  <2>1. PICK clock :
          sweep' = [sweep EXCEPT ![i].pc = "pulling", ![i].until = clock,
                                 ![i].reached = sweep[i].since]
    BY <1>6 DEF StartRun
  <2>2. sweep'[i].todo = sweep[i].todo
    BY <2>1, <1>t
  <2> QED
    BY <1>6, <2>2 DEF StartRun, Running, Pulling, Current
<1>7. CASE PullChunk(i) \/ RunRefused(i) \/ CompleteRun(i) \/ FailRun(i)
  <2>1. sweep'[i].todo = sweep[i].todo
    <3>1. CASE PullChunk(i)
      BY <3>1, <1>t DEF PullChunk
    <3>2. CASE RunRefused(i) \/ CompleteRun(i) \/ FailRun(i)
      <4>1. PICK ok, mark : Close(i, ok, mark)
        BY <3>2 DEF RunRefused, CompleteRun, FailRun
      <4> QED
        BY <4>1, <1>t DEF Close
    <3> QED
      BY <1>7, <3>1, <3>2
  <2> QED
    BY <1>7, <2>1
       DEF PullChunk, RunRefused, CompleteRun, FailRun, Running, Pulling, Current
<1> QED
  BY <1>1, <1>3, <1>4, <1>5, <1>6, <1>7, BusyMoves DEF Works

(* A step that only ends pulls is a Stop of the contract. *)
LEMMA EndsAreStops ==
  ASSUME LeaseExclusion, UNCHANGED <<covered, checkpoint>>,
         \A i \in Instance : \A c \in Connection : Pulling(i, c)' => Pulling(i, c)
  PROVE  Contract!Next
<1> DEFINE some == {c \in Connection : Pullers'[c] = {}}
<1>1. \A c \in Connection : Pullers'[c] \in {{}, Pullers[c]}
  BY DEF LeaseExclusion, Pullers
<1>2. Pullers' = [c \in Connection |-> IF c \in some THEN {} ELSE Pullers[c]]
  BY <1>1 DEF Pullers
<1>3. some \in SUBSET Connection
  OBVIOUS
<1> HIDE DEF some
<1>4. Contract!Stop
  BY <1>2, <1>3 DEF Contract!Stop
<1> QED
  BY <1>4 DEF Contract!Next

(* What makes every step of the sweeps a step of the contract. *)
Pulls == Typed /\ LeaseInv /\ SealedRuns /\ NoHole /\ GaplessRuns

LEMMA StepImplements ==
  ASSUME Pulls, LeaseExclusion, NoHole', [Next]_vars
  PROVE  [Contract!Next]_(Contract!vars)
<1> USE DEF Pulls
<1>t. /\ sweep \in [Instance -> SweepState]
      /\ covered \in [Connection -> SUBSET Nat]
      /\ checkpoint \in [Connection -> Nat \cup {-1}]
  BY DEF Typed, TypeOK
<1>1. ASSUME NEW i \in Instance, ClaimGranted(i), sweep[i].alive
      PROVE  Contract!Next
  <2> DEFINE c == Current(i)
  <2>1. c \in Connection
    BY <1>1, CurrentTyped DEF ClaimGranted, Typed, HandsFull, Busy
  <2>2. ASSUME NEW j \in Instance PROVE ~Pulling(j, c)
    BY <1>1, <2>2, HeldIsNotFree DEF Pulling, ClaimGranted, Claimable
  <2>3. sweep' = [sweep EXCEPT ![i] = [sweep[i] EXCEPT !.pc = "claimed"]]
    BY <1>1 DEF ClaimGranted, Resume
  <2>4. \A d \in Connection : Pulling(i, d)' <=> d = c
    BY <1>1, <1>t, <2>3 DEF Pulling, Current
  <2>5. \A j \in Instance \ {i} : \A d \in Connection : Pulling(j, d)' <=> Pulling(j, d)
    BY <1>t, <2>3 DEF Pulling, Current
  <2>6. \A d \in Connection : ~Pulling(i, d)
    BY <1>1 DEF ClaimGranted, Pulling
  <2> HIDE DEF c
  <2>7. Pullers[c] = {}
    BY <2>1, <2>2 DEF Pullers
  <2>8. Pullers' = [Pullers EXCEPT ![c] = {i}]
    <3>1. \A d \in Connection : Pullers'[d] = IF d = c THEN {i} ELSE Pullers[d]
      BY <2>2, <2>4, <2>5, <2>6 DEF Pullers
    <3> QED
      BY <3>1 DEF Pullers
  <2>9. UNCHANGED <<covered, checkpoint>>
    BY <1>1 DEF ClaimGranted
  <2> QED
    BY <2>1, <2>7, <2>8, <2>9 DEF Contract!Next, Contract!Begin
<1>2. ASSUME NEW i \in Instance, PullChunk(i) PROVE Contract!Next
  <2> DEFINE c == Current(i)
  <2>1. c \in Connection
    BY <1>2, CurrentTyped DEF PullChunk, Running, Typed, HandsFull, Busy
  <2>2. Pulling(i, c)
    BY <1>2 DEF PullChunk, Running, Pulling
  <2>3. sweep' = [sweep EXCEPT ![i].reached = ChunkEnd(i)]
    BY <1>2 DEF PullChunk
  <2>4. \A j \in Instance : \A d \in Connection : Pulling(j, d)' <=> Pulling(j, d)
    BY <1>t, <2>3 DEF Pulling, Current
  <2>5. covered' = [covered EXCEPT ![c] =
                      @ \cup {t \in sweep[i].reached .. ChunkEnd(i) : t < now}]
        /\ checkpoint' = checkpoint
    BY <1>2 DEF PullChunk, row
  <2> HIDE DEF c
  <2>6. Pullers[c] = {i}
    BY <2>1, <2>2 DEF Pullers, LeaseExclusion
  <2>7. Pullers' = Pullers
    BY <2>4 DEF Pullers
  <2>8. /\ covered' = [covered EXCEPT ![c] = covered'[c]]
        /\ covered[c] \subseteq covered'[c]
    BY <1>t, <2>1, <2>5
  <2> QED
    BY <2>1, <2>5, <2>6, <2>7, <2>8 DEF Contract!Next, Contract!Store
<1>3. ASSUME NEW i \in Instance, RecordBackfill(i) PROVE Contract!Next
  <2> DEFINE c == Current(i)
             still == Pullers'[c]
  <2>1. c \in Connection /\ Busy(i)
    BY <1>3, CurrentTyped DEF RecordBackfill, Typed, HandsFull, Busy
  <2>2. \A j \in Instance : \A d \in Connection : Pulling(j, d)' => Pulling(j, d)
    <3>1. claimedBy[c] = i /\ claimedBy'[c] = NoInstance
      BY <1>3, <2>1 DEF RecordBackfill, HoldsLease, ReleaseLease, Typed, TypeOK
    <3>2. ASSUME NEW j \in Instance PROVE ~ClaimGranted(j)
      BY <2>1, <3>1 DEF ClaimGranted, Typed, TypeOK
    <3> QED
      BY <3>2, PullsBegin
  <2>3. ASSUME NEW d \in Connection, d # c PROVE Pullers'[d] = Pullers[d]
    <3>1. ASSUME NEW j \in Instance, Pulling(j, d) PROVE Pulling(j, d)'
      <4>1. j # i
        BY <2>3, <3>1 DEF Pulling
      <4> QED
        BY <1>3, <3>1, <4>1, OthersStay DEF Pulling, Current, SweepStep
    <3> QED
      BY <2>2, <3>1 DEF Pullers
  <2>4. still \in SUBSET Pullers[c]
    BY <2>1, <2>2 DEF Pullers
  <2>5. Pullers' = [Pullers EXCEPT ![c] = still]
    BY <2>3 DEF Pullers
  <2>6. checkpoint' = [checkpoint EXCEPT ![c] = Greatest(@, sweep[i].mark)]
        /\ covered' = covered
    BY <1>3 DEF RecordBackfill
  <2>7. checkpoint[c] # -1
    BY <1>t, <2>1 DEF SealedRuns, SweepState
  <2>8. checkpoint[c] <= checkpoint'[c]
    BY <2>1, Growth DEF Grown
  <2>9. \A t \in 0 .. checkpoint'[c] - 1 : t \in covered[c]
    BY <2>1, <2>6 DEF NoHole
  <2>10. checkpoint' = [checkpoint EXCEPT ![c] = checkpoint'[c]]
    BY <1>t, <2>1, <2>6
  <2> HIDE DEF c, still
  <2> QED
    BY <2>1, <2>4, <2>5, <2>6, <2>7, <2>8, <2>9, <2>10
       DEF Contract!Next, Contract!Advance
<1>4. ASSUME UNCHANGED <<covered, checkpoint>>,
             \A i \in Instance : ClaimGranted(i) => ~sweep[i].alive
      PROVE  Contract!Next
  <2>1. ASSUME NEW i \in Instance, NEW c \in Connection, Pulling(i, c)'
        PROVE  Pulling(i, c)
    <3>1. sweep[i].alive
      BY <2>1, BusyWasAlive DEF Pulling, Busy
    <3> QED
      BY <1>4, <2>1, <3>1, PullsBegin
  <2> QED
    BY <1>4, <2>1, EndsAreStops
<1>5. ASSUME Tick \/ (\E c \in Connection : Withdraw(c)) \/ UNCHANGED vars
      PROVE  UNCHANGED <<covered, checkpoint>>
  BY <1>5 DEF Tick, Withdraw, vars, row
<1>6. ASSUME NEW i \in Instance, SweepStep(i), ~PullChunk(i), ~RecordBackfill(i)
      PROVE  UNCHANGED <<covered, checkpoint>>
  BY <1>6 DEF SweepStep, StartSweep, FinishSweep, SkipConnection, ReadWatermark,
     ClaimGranted, ClaimRefused, RunRefused, StartRun, CompleteRun, FailRun,
     RecordNotOwner, RecordRaises, Die, row
<1> QED
  BY <1>1, <1>2, <1>3, <1>4, <1>5, <1>6 DEF Next

(* The contract of one connection holds of the sweeps while no Worker's    *)
(* clock is ahead: a pull begins when nobody pulls, only the pull in       *)
(* progress stores, and the watermark advances over what is stored.        *)
THEOREM SweepsImplementContract == ASSUME Ahead = 0 PROVE Spec => ImplementsContract
<1>1. Init => Contract!Init
  <2> SUFFICES ASSUME Init PROVE Contract!Init
    OBVIOUS
  <2>1. Pullers = [c \in Connection |-> {}]
    BY DEF Init, Pullers, Pulling, Fresh
  <2>2. checkpoint \in [Connection -> {-1, 0}]
    BY DEF Init
  <2> QED
    BY <2>1, <2>2 DEF Init, Contract!Init
<1>2. Spec => []Pulls
  <2>1. Init => NoHole /\ GaplessRuns
    BY DEF Init, NoHole, GaplessRuns, Gapless, Fresh
  <2>2. Typed /\ SealedRuns /\ NoHole /\ GaplessRuns /\ [Next]_vars =>
          NoHole' /\ GaplessRuns'
    BY GaplessStep, NoHoleStep
  <2> QED
    BY <2>1, <2>2, SealedInductive, LeaseInductive, PTL DEF Spec, Pulls
<1>3. Pulls /\ LeaseExclusion /\ NoHole' /\ [Next]_vars =>
        [Contract!Next]_(Contract!vars)
  BY StepImplements
<1>4. Pulls => NoHole
  BY DEF Pulls
<1> QED
  BY <1>1, <1>2, <1>3, <1>4, LeaseExcludes, PTL DEF Spec, ImplementsContract, Contract!Spec

-----------------------------------------------------------------------------
(* The nights: SweepRotation, which leaves the leases out and keeps who is *)
(* listed and stamped.                                                     *)

CONSTANTS Undriven, Unsealed, Flaky, Backlog, NightBudget, MaxBehind
VARIABLES connected, stamped, pulledToday, behind, todo, spent, awake

Rotation == INSTANCE SweepRotation

(* Every backlog is a number of chunks, and what was pulled today is known. *)
Counted == behind \in [Connection -> Nat] /\ pulledToday \subseteq Connection

(* A page that fails is a page that was owed: a connection that is up to   *)
(* date has nothing left to fail on, so only midnight sets it back.        *)
LEMMA RotationStep ==
  ASSUME Rotation!RotationAssumption, Counted, Rotation!StampedIsCurrent,
         [Rotation!Next]_(Rotation!vars)
  PROVE  (Counted /\ Rotation!StampedIsCurrent)'
<1> USE DEF Counted, Rotation!StampedIsCurrent
<1>1. ASSUME NEW c \in Connection, Rotation!Complete(c)
      PROVE  (Counted /\ Rotation!StampedIsCurrent)'
  BY <1>1 DEF Rotation!Complete
<1>2. ASSUME NEW c \in Connection, Rotation!FailPartway(c)
      PROVE  (Counted /\ Rotation!StampedIsCurrent)'
  <2>1. PICK read \in 0 .. Rotation!Left :
          /\ read < behind[c]
          /\ behind' = [behind EXCEPT ![c] = @ - read]
    BY <1>2 DEF Rotation!FailPartway
  <2>2. read \in Nat /\ pulledToday' = pulledToday
    BY <1>2, <2>1 DEF Rotation!FailPartway
  <2>3. c \notin pulledToday
    BY <2>1, <2>2
  <2> QED
    BY <2>1, <2>2, <2>3
<1>3. CASE Rotation!NextDay
  <2>1. Rotation!RotationAssumption => MaxBehind \in Nat
    BY DEF Rotation!RotationAssumption
  <2> QED
    BY <1>3, <2>1 DEF Rotation!NextDay
<1>4. ASSUME UNCHANGED <<behind, pulledToday>>
      PROVE  (Counted /\ Rotation!StampedIsCurrent)'
  BY <1>4
<1> QED
  BY <1>1, <1>2, <1>3, <1>4
     DEF Rotation!Next, Rotation!SweepStep, Rotation!StartSweep, Rotation!Connect,
         Rotation!Decline, Rotation!Killed, Rotation!vars

(* No connection is passed over for the night while orders of it are       *)
(* missing: night after night, whatever stores fail and whenever a sweep   *)
(* is cut short, what counts as pulled today has nothing left to read.     *)
THEOREM PulledTodayIsCurrent ==
  ASSUME Rotation!RotationAssumption
  PROVE  Rotation!Spec => []Rotation!StampedIsCurrent
<1>1. Rotation!Init => Counted /\ Rotation!StampedIsCurrent
  BY DEF Rotation!Init, Counted, Rotation!StampedIsCurrent,
         Rotation!RotationAssumption
<1>2. Counted /\ Rotation!StampedIsCurrent /\ [Rotation!Next]_(Rotation!vars) =>
        (Counted /\ Rotation!StampedIsCurrent)'
  BY RotationStep
<1> QED
  BY <1>1, <1>2, PTL DEF Rotation!Spec

=============================================================================
