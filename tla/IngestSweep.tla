---------------------------- MODULE IngestSweep ----------------------------
(***************************************************************************)
(* The nightly ingest sweep and the lease that keeps two sweeps off one    *)
(* connection.                                                             *)
(*                                                                         *)
(* Three parties act on a row of public.connections:                       *)
(*   - the database functions due_connections, claim_connection and        *)
(*     record_backfill, each one atomic statement;                         *)
(*   - sweep instances (apps/api-edge/src/scheduled-ingest.ts), one Worker *)
(*     invocation each, serial over the list they were handed;             *)
(*   - the world: the clock, the platform that kills an invocation at its  *)
(*     wall clock, crashes, and the merchant or operator who withdraws a   *)
(*     connection.                                                         *)
(*                                                                         *)
(* A claim or a close that was sent is executed by the database at any     *)
(* later time, whether or not its sender is still alive.                   *)
(*                                                                         *)
(* Orders are abstracted to the instants they were modified at:            *)
(* covered[c] is the set of instants whose orders are all in the envelope. *)
(* The page walk behind one chunk is WooWalk's subject.                    *)
(***************************************************************************)
EXTENDS Integers, Sequences, FiniteSets

CONSTANTS
  Connection,     \* rows of public.connections
  Walked,         \* those of a provider the sweep drives from a watermark
  Windowed,       \* those in INGEST_SOURCES that need an explicit date span
  Sealed,         \* those an operator sealed with --since (a first checkpoint)
  Instance,       \* one per sweep: `instanceName` is a fresh uuid
  NoInstance,     \* SQL null in claimed_by
  SweepLimit,     \* SWEEP_LIMIT
  Lease,          \* app.claim_lease_interval()
  WallClock,      \* how long the platform lets one invocation run
  Day,            \* the period of date_trunc('day', now)
  ChunkSpan,      \* WOO_BACKFILL_CHUNK_DAYS, in clock units
  Behind, Ahead,  \* how far a Worker's clock may be off the database's
  MaxTime         \* bound on the clock (model checking only)

ASSUME SweepAssumption ==
  /\ Sealed \subseteq Connection
  /\ NoInstance \notin Instance
  /\ SweepLimit \in Nat /\ Lease \in Nat /\ WallClock \in Nat
  /\ WallClock <= Lease
  /\ Day \in Nat \ {0} /\ ChunkSpan \in Nat \ {0}
  /\ Behind \in Nat /\ Ahead \in Nat /\ MaxTime \in Nat

Null == -1        \* SQL null in a timestamp; sorts first, as `nulls first` does
Time == Nat
NullableTime == Time \cup {Null}

VARIABLES
  now,            \* the database clock, now() in every function
  condition,      \* what the row, its workspace and its grant say
  claimedAt, claimedBy, lastBackfill, checkpoint,   \* columns of the row
  covered,        \* instants whose orders are stored, per connection
  sweep           \* the local state of each sweep instance

row  == <<condition, claimedAt, claimedBy, lastBackfill, checkpoint>>
vars == <<now, row, covered, sweep>>

Condition == {"workable", "expired", "deleted", "revoked"}

SweepState ==
  [pc : {"off", "loop", "claiming", "claimed", "pulling", "closing", "done"},
   alive : BOOLEAN,
   started : Time,
   todo : Seq(Connection),     \* the rest of the list; its head is current
   since : Time, until : Time, \* the window of the run in progress
   reached : Time,             \* end of the last chunk read in full
   succeeded : BOOLEAN,        \* the two arguments of a close in flight
   mark : NullableTime]

Fresh == [pc |-> "off", alive |-> FALSE, started |-> 0, todo |-> <<>>,
          since |-> 0, until |-> 0, reached |-> 0, succeeded |-> FALSE,
          mark |-> Null]

Over == [Fresh EXCEPT !.pc = "done"]

(* The types, and that a lease is a stamp with a holder or neither. *)
TypeOK ==
  /\ now \in Time
  /\ condition \in [Connection -> Condition]
  /\ claimedAt \in [Connection -> NullableTime]
  /\ claimedBy \in [Connection -> Instance \cup {NoInstance}]
  /\ lastBackfill \in [Connection -> NullableTime]
  /\ checkpoint \in [Connection -> NullableTime]
  /\ covered \in [Connection -> SUBSET Time]
  /\ sweep \in [Instance -> SweepState]
  /\ \A c \in Connection : claimedAt[c] = Null <=> claimedBy[c] = NoInstance

Init ==
  /\ now = 0
  /\ condition = [c \in Connection |-> "workable"]
  /\ claimedAt = [c \in Connection |-> Null]
  /\ claimedBy = [c \in Connection |-> NoInstance]
  /\ lastBackfill = [c \in Connection |-> Null]
  /\ checkpoint = [c \in Connection |-> IF c \in Sealed THEN 0 ELSE Null]
  /\ covered = [c \in Connection |-> {}]
  /\ sweep = [i \in Instance |-> Fresh]

-----------------------------------------------------------------------------
(* due_connections. *)

(* Mutant: a lease is stealable at the very instant it runs out. *)
LeaseFreeAtExpiry(c) == claimedAt[c] = Null \/ claimedAt[c] <= now - Lease

LeaseFree(c) == claimedAt[c] = Null \/ claimedAt[c] < now - Lease

Midnight == now - (now % Day)

DueSet ==
  {c \in Connection :
     /\ condition[c] = "workable"
     /\ lastBackfill[c] = Null \/ lastBackfill[c] < Midnight
     /\ LeaseFree(c)}

(* The lists due_connections may answer: the first SweepLimit of the due   *)
(* rows by last_backfill_at, nulls first.  Ties are broken by id, which    *)
(* says nothing about the row, so any tie-break is allowed.                *)
DueLists ==
  {s \in UNION {[1 .. n -> Connection] : n \in 0 .. SweepLimit} :
     LET listed == {s[k] : k \in DOMAIN s} IN
       /\ listed \subseteq DueSet
       /\ Cardinality(listed) = Len(s)
       /\ \A j, k \in DOMAIN s : j < k => lastBackfill[s[j]] <= lastBackfill[s[k]]
       /\ \A c \in DueSet \ listed :
            /\ Len(s) = SweepLimit
            /\ \A k \in DOMAIN s : lastBackfill[s[k]] <= lastBackfill[c]}

-----------------------------------------------------------------------------
(* The control of one sweep. *)

Current(i) == Head(sweep[i].todo)

Running(i, where) == sweep[i].alive /\ sweep[i].pc = where

(* A call answered to a dead sender changes nothing any more.              *)
Resume(i, state) ==
  sweep' = [sweep EXCEPT ![i] = IF sweep[i].alive THEN state ELSE Over]

(* `continue`: the next connection of the list. *)
NextConnection(i) ==
  Resume(i, [Fresh EXCEPT !.pc = "loop", !.alive = TRUE,
                          !.started = sweep[i].started,
                          !.todo = Tail(sweep[i].todo)])

(* An invocation starts and is handed its list. *)
StartSweep(i) ==
  /\ sweep[i].pc = "off"
  /\ \E list \in DueLists :
       sweep' = [sweep EXCEPT ![i] = [Fresh EXCEPT !.pc = "loop", !.alive = TRUE,
                                                   !.started = now, !.todo = list]]
  /\ UNCHANGED <<now, row, covered>>

FinishSweep(i) ==
  /\ Running(i, "loop") /\ sweep[i].todo = <<>>
  /\ sweep' = [sweep EXCEPT ![i] = Over]
  /\ UNCHANGED <<now, row, covered>>

InIngestSources(c) == c \in Walked \cup Windowed

Readable(c) == condition[c] # "deleted" /\ checkpoint[c] # Null

(* no_driver, or awaiting_first_run: nothing to read, or nothing sealed. *)
SkipConnection(i) ==
  /\ Running(i, "loop") /\ sweep[i].todo # <<>>
  /\ ~InIngestSources(Current(i)) \/ ~Readable(Current(i))
  /\ NextConnection(i)
  /\ UNCHANGED <<now, row, covered>>

(* The watermark is read before the claim is sent. *)
ReadWatermark(i) ==
  /\ Running(i, "loop") /\ sweep[i].todo # <<>>
  /\ InIngestSources(Current(i)) /\ Readable(Current(i))
  /\ sweep' = [sweep EXCEPT ![i].pc = "claiming",
                            ![i].since = checkpoint[Current(i)]]
  /\ UNCHANGED <<now, row, covered>>

(* Mutant: the claim does not look at the lease. *)
ClaimableUnlessRevoked(c) == condition[c] # "revoked"

(* claim_connection: one UPDATE that is its own lock.  It looks at the row *)
(* only: not at last_backfill_at, the grant's expiry or the workspace.     *)
Claimable(c) == condition[c] # "revoked" /\ LeaseFree(c)

ClaimGranted(i) ==
  /\ sweep[i].pc = "claiming" /\ Claimable(Current(i))
  /\ claimedAt' = [claimedAt EXCEPT ![Current(i)] = now]
  /\ claimedBy' = [claimedBy EXCEPT ![Current(i)] = i]
  /\ Resume(i, [sweep[i] EXCEPT !.pc = "claimed"])
  /\ UNCHANGED <<now, condition, lastBackfill, checkpoint, covered>>

(* lease_held_elsewhere *)
ClaimRefused(i) ==
  /\ sweep[i].pc = "claiming" /\ ~Claimable(Current(i))
  /\ NextConnection(i)
  /\ UNCHANGED <<now, row, covered>>

-----------------------------------------------------------------------------
(* pullOne: runIngest, then the close. *)

Close(i, ok, mark) ==
  sweep' = [sweep EXCEPT ![i].pc = "closing", ![i].succeeded = ok, ![i].mark = mark]

(* runIngest throws before its first page: the connection is not usable,   *)
(* its provider needs a span the sweep does not send, or the credential,   *)
(* the timezone or the key is missing.                                     *)
RunRefused(i) ==
  /\ Running(i, "claimed")
  /\ Close(i, FALSE, Null)
  /\ UNCHANGED <<now, row, covered>>

(* runIngest reads the row again and pins `until` to the Worker's clock,   *)
(* which is all it compares a requested `until` with.                      *)
StartRun(i) ==
  /\ Running(i, "claimed")
  /\ Current(i) \in Walked /\ condition[Current(i)] = "workable"
  /\ \E clock \in now - Behind .. now + Ahead :
       /\ clock >= 0
       /\ sweep' = [sweep EXCEPT ![i].pc = "pulling", ![i].until = clock,
                                 ![i].reached = sweep[i].since]
  /\ UNCHANGED <<now, row, covered>>

ChunkEnd(i) ==
  IF sweep[i].reached + ChunkSpan <= sweep[i].until
  THEN sweep[i].reached + ChunkSpan ELSE sweep[i].until

(* One chunk read and written in full: every order modified in it before   *)
(* now.  An order modified at this very instant may still move.            *)
PullChunk(i) ==
  /\ Running(i, "pulling") /\ sweep[i].reached < sweep[i].until
  /\ covered' = [covered EXCEPT ![Current(i)] =
                   @ \cup {t \in sweep[i].reached .. ChunkEnd(i) : t < now}]
  /\ sweep' = [sweep EXCEPT ![i].reached = ChunkEnd(i)]
  /\ UNCHANGED <<now, row>>

WholeSpanRead(i) ==
  sweep[i].since < sweep[i].until /\ sweep[i].reached = sweep[i].until

(* Mutant: the watermark is the instant of the close, not the pinned end.  *)
CompleteRunAtClose(i) ==
  /\ Running(i, "pulling") /\ WholeSpanRead(i)
  /\ Close(i, TRUE, now)
  /\ UNCHANGED <<now, row, covered>>

CompleteRun(i) ==
  /\ Running(i, "pulling") /\ WholeSpanRead(i)
  /\ Close(i, TRUE, sweep[i].reached)
  /\ UNCHANGED <<now, row, covered>>

(* Mutant: a partial run is reported as a success. *)
FailRunAsSuccess(i) ==
  /\ Running(i, "pulling") /\ ~WholeSpanRead(i)
  /\ Close(i, TRUE, sweep[i].reached)
  /\ UNCHANGED <<now, row, covered>>

(* IngestRunFailure: a page, a write or an empty window was refused.  The  *)
(* report carries the last chunk read in full.                             *)
FailRun(i) ==
  /\ Running(i, "pulling") /\ ~WholeSpanRead(i)
  /\ Close(i, FALSE, sweep[i].reached)
  /\ UNCHANGED <<now, row, covered>>

(* Mutant: assignment instead of greatest(). *)
Latest(s, t) == t

(* greatest(): null loses to every instant. *)
Greatest(s, t) == IF s <= t THEN t ELSE s

(* Mutant: a mark is refused from two instants ahead on. *)
MarkFarAhead(i) == sweep[i].mark > now + 1

(* p_checkpoint > p_now *)
MarkAhead(i) == sweep[i].mark > now

(* Mutant: the close does not check whose lease it is. *)
AnyLease(i) == TRUE

HoldsLease(i) == claimedBy[Current(i)] = i

(* Mutant: the lease's stamp is cleared and its holder is not. *)
ReleaseStampOnly(c) ==
  /\ claimedAt' = [claimedAt EXCEPT ![c] = Null]
  /\ UNCHANGED claimedBy

ReleaseLease(c) ==
  /\ claimedAt' = [claimedAt EXCEPT ![c] = Null]
  /\ claimedBy' = [claimedBy EXCEPT ![c] = NoInstance]

(* record_backfill closes the lease of its caller ...                      *)
RecordBackfill(i) ==
  LET c == Current(i) IN
  /\ sweep[i].pc = "closing" /\ ~MarkAhead(i) /\ HoldsLease(i)
  /\ lastBackfill' = IF sweep[i].succeeded
                     THEN [lastBackfill EXCEPT ![c] = now] ELSE lastBackfill
  /\ checkpoint' = [checkpoint EXCEPT ![c] = Greatest(@, sweep[i].mark)]
  /\ ReleaseLease(c)
  /\ NextConnection(i)
  /\ UNCHANGED <<now, condition, covered>>

(* ... answers false when another instance holds it (leaseClosed)          *)
RecordNotOwner(i) ==
  /\ sweep[i].pc = "closing" /\ ~MarkAhead(i) /\ ~HoldsLease(i)
  /\ NextConnection(i)
  /\ UNCHANGED <<now, row, covered>>

(* ... and raises on a mark in the future; nothing catches that, so the    *)
(* sweep is over and the lease stays taken.                                *)
RecordRaises(i) ==
  /\ sweep[i].pc = "closing" /\ MarkAhead(i)
  /\ sweep' = [sweep EXCEPT ![i] = Over]
  /\ UNCHANGED <<now, row, covered>>

-----------------------------------------------------------------------------
(* The world. *)

(* What is left of a sweep that stops: the call it had sent, if any. *)
Remains(i) ==
  IF sweep[i].pc \in {"off", "claiming", "closing"}
  THEN [sweep[i] EXCEPT !.alive = FALSE] ELSE Over

(* A crash, or an error of the scheduler or connection store: neither is   *)
(* caught, so the rest of the list is abandoned.                           *)
Die(i) ==
  /\ sweep[i].alive
  /\ sweep' = [sweep EXCEPT ![i] = Remains(i)]
  /\ UNCHANGED <<now, row, covered>>

OutOfTime(i) == sweep[i].alive /\ now + 1 > sweep[i].started + WallClock

(* Time passes; the platform ends every invocation past its wall clock. *)
Tick ==
  /\ now < MaxTime
  /\ now' = now + 1
  /\ sweep' = [i \in Instance |-> IF OutOfTime(i) THEN Remains(i) ELSE sweep[i]]
  /\ UNCHANGED <<row, covered>>

Withdraw(c) ==
  /\ condition[c] = "workable"
  /\ \E to \in Condition \ {"workable"} :
       condition' = [condition EXCEPT ![c] = to]
  /\ UNCHANGED <<now, claimedAt, claimedBy, lastBackfill, checkpoint, covered, sweep>>

SweepStep(i) ==
  \/ StartSweep(i) \/ FinishSweep(i) \/ SkipConnection(i) \/ ReadWatermark(i)
  \/ ClaimGranted(i) \/ ClaimRefused(i)
  \/ RunRefused(i) \/ StartRun(i) \/ PullChunk(i) \/ CompleteRun(i) \/ FailRun(i)
  \/ RecordBackfill(i) \/ RecordNotOwner(i) \/ RecordRaises(i)
  \/ Die(i)

Next ==
  \/ Tick
  \/ \E c \in Connection : Withdraw(c)
  \/ \E i \in Instance : SweepStep(i)

Spec == Init /\ [][Next]_vars

-----------------------------------------------------------------------------
(* Properties. *)

(* A sweep that holds connection c open: it was granted the claim, it is   *)
(* still running, and its close has not been executed.                     *)
Pulling(i, c) ==
  /\ sweep[i].alive /\ sweep[i].pc \in {"claimed", "pulling", "closing"}
  /\ Current(i) = c

(* "A lease, so two instances do not pull the same connection at once":    *)
(* neither the expiry of a lease nor a claim or a close that lands after   *)
(* its sender died puts two running sweeps on one connection.              *)
LeaseExclusion ==
  \A i, j \in Instance : \A c \in Connection :
    Pulling(i, c) /\ Pulling(j, c) => i = j

(* No permanent hole: every instant behind the watermark, from the window  *)
(* the operator chose at seal time on, has its orders in the envelope,     *)
(* whatever runs failed, were cut short, or had their close refused.       *)
NoHole ==
  \A c \in Connection : \A t \in 0 .. checkpoint[c] - 1 : t \in covered[c]

(* The watermark never lies in the database's future, even when a Worker's *)
(* clock runs ahead.                                                       *)
CheckpointNotAhead ==
  \A c \in Connection : checkpoint[c] <= now

(* A lease changes hands only when it has run out, and is given back only  *)
(* by the instance that took it: a close from a dead or displaced sweep    *)
(* never releases somebody else's.                                         *)
LeaseKept ==
  \A c \in Connection :
    claimedBy[c] # NoInstance /\ claimedBy'[c] # claimedBy[c] =>
      \/ claimedAt[c] < now - Lease
      \/ /\ claimedBy'[c] = NoInstance
         /\ sweep[claimedBy[c]].pc = "closing" /\ Current(claimedBy[c]) = c

LeaseIsKept == [][LeaseKept]_vars

(* The watermark only moves forward, and a connection that was never       *)
(* sealed with a first window is never given one by a sweep.               *)
WatermarkForward ==
  \A c \in Connection :
    /\ checkpoint[c] <= checkpoint'[c]
    /\ checkpoint[c] = Null => checkpoint'[c] = Null

WatermarkNeverRegresses == [][WatermarkForward]_vars

(* A connection is marked pulled for the day only when its watermark moves *)
(* too, to the instant a run pinned before it read anything: the day is    *)
(* never ticked off on a partial or a refused run.                         *)
StampEarned ==
  \A c \in Connection :
    lastBackfill'[c] # lastBackfill[c] =>
      \E i \in Instance :
        /\ claimedBy[c] = i /\ Current(i) = c /\ WholeSpanRead(i)
        /\ checkpoint'[c] >= sweep[i].until

StampOnlyCompleteRuns == [][StampEarned]_vars

(* The sweeps, their leases and their closes implement the contract of one *)
(* connection: one pull at a time stores, and a watermark never passes     *)
(* what is stored.                                                         *)
Pullers == [c \in Connection |-> {i \in Instance : Pulling(i, c)}]

Contract == INSTANCE PullContract
              WITH pullers <- Pullers, stored <- covered, mark <- checkpoint,
                   Never <- Null

ImplementsContract == Contract!Spec
=============================================================================
