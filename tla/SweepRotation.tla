--------------------------- MODULE SweepRotation ---------------------------
(***************************************************************************)
(* Which connections the nightly sweep reaches, night after night.         *)
(*                                                                         *)
(* One sweep runs a night (INGEST_CRON).  It asks due_connections for the  *)
(* SweepLimit connections that were pulled longest ago and drives them one *)
(* after another until the list or its wall clock ends.  The leases and    *)
(* the watermark arithmetic are IngestSweep's subject; what is left of     *)
(* them here is that a lease is over before the next night (the wall clock *)
(* and the lease are fifteen minutes, a night is a day) and that the       *)
(* watermark of a connection lies a number of chunks behind the present.   *)
(*                                                                         *)
(* Connections are natural numbers in the order of their ids, which breaks *)
(* the ties of last_backfill_at.                                           *)
(***************************************************************************)
EXTENDS Integers, Sequences, FiniteSets, SequencesExt

CONSTANTS
  Connection,    \* ids of public.connections
  Undriven,      \* those of a provider outside INGEST_SOURCES
  Unsealed,      \* those whose ingest_checkpoint is null
  Windowed,      \* those in INGEST_SOURCES that need an explicit span
  Flaky,         \* those whose store may refuse a page or a write
  Backlog,       \* chunks behind the present at seal time, per connection
  SweepLimit,    \* SWEEP_LIMIT
  NightBudget,   \* chunks one invocation reads before its wall clock ends
  MaxBehind      \* bound on what `behind` counts to (model checking only)

(* The connections a sweep can pull: a driver, a first watermark, and no   *)
(* need of anything the sweep does not send.                               *)
Walkable == Connection \ (Undriven \cup Unsealed \cup Windowed)

ASSUME RotationAssumption ==
  /\ Connection \subseteq Nat
  /\ SweepLimit \in Nat \ {0} /\ NightBudget \in Nat \ {0} /\ MaxBehind \in Nat
  /\ Backlog \in [Connection -> 1 .. MaxBehind]

VARIABLES
  connected,     \* the connections that exist
  stamped,       \* those with a last_backfill_at, oldest stamp first
  pulledToday,   \* those stamped since midnight
  behind,        \* chunks between a watermark and the present
  todo,          \* the rest of the list the sweep was handed
  spent,         \* chunks this invocation has read
  awake          \* a sweep is under way

vars == <<connected, stamped, pulledToday, behind, todo, spent, awake>>

Members(s) == {s[k] : k \in DOMAIN s}

(* The types, and that a list names a connection once. *)
TypeOK ==
  /\ connected \subseteq Connection
  /\ stamped \in Seq(Connection) /\ todo \in Seq(Connection)
  /\ IsInjective(stamped) /\ IsInjective(todo)
  /\ Members(stamped) \cup Members(todo) \subseteq connected
  /\ pulledToday \subseteq Members(stamped)
  /\ behind \in [Connection -> 0 .. MaxBehind]
  /\ spent \in 0 .. NightBudget
  /\ awake \in BOOLEAN

Init ==
  /\ connected = {} /\ stamped = <<>> /\ pulledToday = {}
  /\ behind = Backlog
  /\ todo = <<>> /\ spent = 0 /\ awake = FALSE

-----------------------------------------------------------------------------

(* A merchant finishes the OAuth flow, or an operator seals a connection:  *)
(* the row has no last_backfill_at.                                        *)
Connect(c) ==
  /\ c \notin connected
  /\ connected' = connected \cup {c}
  /\ UNCHANGED <<stamped, pulledToday, behind, todo, spent, awake>>

(* Mutant: newest first. *)
QueueNewestFirst ==
  SetToSortSeq(connected \ Members(stamped), <) \o Reverse(stamped)

(* order by last_backfill_at asc nulls first, id asc *)
Queue == SetToSortSeq(connected \ Members(stamped), <) \o stamped

(* due_connections: those not pulled today, up to the limit. *)
DueList ==
  LET due == SelectSeq(Queue, LAMBDA c : c \notin pulledToday) IN
  SubSeq(due, 1, IF Len(due) < SweepLimit THEN Len(due) ELSE SweepLimit)

StartSweep ==
  /\ ~awake
  /\ awake' = TRUE /\ todo' = DueList /\ spent' = 0
  /\ UNCHANGED <<connected, stamped, pulledToday, behind>>

InHand(c) == awake /\ todo # <<>> /\ Head(todo) = c

(* no_driver, awaiting_first_run, or a run refused before its first page:  *)
(* the connection keeps its place in the queue.                            *)
Decline(c) ==
  /\ InHand(c) /\ c \notin Walkable
  /\ todo' = Tail(todo)
  /\ UNCHANGED <<connected, stamped, pulledToday, behind, spent, awake>>

(* Mutant: every connection has the whole wall clock to itself. *)
WholeWallClock == NightBudget

Left == NightBudget - spent

(* The walk reached the present within the invocation: record_backfill     *)
(* stamps the connection, which goes to the back of the queue.             *)
Complete(c) ==
  /\ InHand(c) /\ c \in Walkable /\ behind[c] <= Left
  /\ behind' = [behind EXCEPT ![c] = 0]
  /\ spent' = spent + behind[c]
  /\ stamped' = SelectSeq(stamped, LAMBDA d : d # c) \o <<c>>
  /\ pulledToday' = pulledToday \cup {c}
  /\ todo' = Tail(todo)
  /\ UNCHANGED <<connected, awake>>

(* IngestRunFailure: what was read in full is kept, the day is not stamped.*)
FailPartway(c) ==
  /\ InHand(c) /\ c \in Walkable \cap Flaky
  /\ \E read \in 0 .. Left :
       /\ read < behind[c]
       /\ behind' = [behind EXCEPT ![c] = @ - read]
       /\ spent' = spent + read
  /\ todo' = Tail(todo)
  /\ UNCHANGED <<connected, stamped, pulledToday, awake>>

(* The walk does not fit in what is left of the invocation.  The platform  *)
(* ends it between two chunks: no close is sent, so nothing of this run    *)
(* is kept, and the rest of the list is not looked at.                     *)
Killed(c) ==
  /\ InHand(c) /\ c \in Walkable /\ behind[c] > Left
  /\ todo' = <<>> /\ spent' = NightBudget
  /\ UNCHANGED <<connected, stamped, pulledToday, behind, awake>>

(* The list is done; midnight; every watermark falls one chunk behind.     *)
NextDay ==
  /\ awake /\ todo = <<>>
  /\ awake' = FALSE /\ spent' = 0 /\ pulledToday' = {}
  /\ behind' = [c \in Connection |->
                  IF behind[c] < MaxBehind THEN behind[c] + 1 ELSE behind[c]]
  /\ UNCHANGED <<connected, stamped, todo>>

SweepStep ==
  \/ StartSweep
  \/ \E c \in Connection : Decline(c) \/ Complete(c) \/ FailPartway(c) \/ Killed(c)
  \/ NextDay

Next == SweepStep \/ \E c \in Connection : Connect(c)

Spec == Init /\ [][Next]_vars

(* The cron fires, a sweep goes on, and a store that could have been read  *)
(* in full again and again is read in full again and again.                *)
Fairness == WF_vars(SweepStep) /\ \A c \in Walkable : SF_vars(Complete(c))

FairSpec == Spec /\ Fairness

-----------------------------------------------------------------------------
(* Properties. *)

(* A connection that counts as pulled today is up to date: none is passed  *)
(* over for the night while orders of it are missing.                      *)
StampedIsCurrent == \A c \in pulledToday : behind[c] = 0

(* "Oldest first, so one busy tenant cannot starve the rest": whatever the *)
(* others do, a connection the sweep can pull is pulled again and again.   *)
EveryWalkableIsPulled ==
  \A c \in Walkable : c \in connected ~> c \in pulledToday

=============================================================================
