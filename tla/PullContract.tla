---------------------------- MODULE PullContract ----------------------------
(***************************************************************************)
(* What the scheduled ingest promises about one connection, whatever runs, *)
(* leases, clocks and crashes are behind it:                               *)
(*                                                                         *)
(*   - a pull begins only while nobody is pulling that connection;         *)
(*   - orders are stored only by the pull in progress;                     *)
(*   - the watermark moves forward only, and only over instants whose      *)
(*     orders are all stored by then.                                      *)
(*                                                                         *)
(* A pull may stop at any moment, several at once.  The watermark may move *)
(* when nobody pulls any more: a close that was sent still lands.          *)
(***************************************************************************)
EXTENDS Integers

CONSTANTS
  Connection,
  Instance,
  Never           \* the watermark of a connection that has none

VARIABLES
  pullers,        \* the sweeps that are pulling a connection
  stored,         \* the instants whose orders are in the envelope
  mark            \* the watermark

vars == <<pullers, stored, mark>>

Init ==
  /\ pullers = [c \in Connection |-> {}]
  /\ stored = [c \in Connection |-> {}]
  /\ mark \in [Connection -> {Never, 0}]

Begin(i, c) ==
  /\ pullers[c] = {}
  /\ pullers' = [pullers EXCEPT ![c] = {i}]
  /\ UNCHANGED <<stored, mark>>

(* The pull in progress adds to what is stored. *)
Store(i, c) ==
  /\ pullers[c] = {i}
  /\ stored' = [stored EXCEPT ![c] = stored'[c]]
  /\ stored[c] \subseteq stored'[c]
  /\ UNCHANGED <<pullers, mark>>

(* Pulls stop, together when an invocation or the clock ends them. *)
Stop ==
  /\ \E some \in SUBSET Connection :
       pullers' = [c \in Connection |-> IF c \in some THEN {} ELSE pullers[c]]
  /\ UNCHANGED <<stored, mark>>

(* The watermark advances, and the pull that closes is over. *)
Advance(c) ==
  /\ \E still \in SUBSET pullers[c] : pullers' = [pullers EXCEPT ![c] = still]
  /\ mark[c] # Never
  /\ mark' = [mark EXCEPT ![c] = mark'[c]]
  /\ mark[c] <= mark'[c]
  /\ \A t \in 0 .. mark'[c] - 1 : t \in stored[c]
  /\ UNCHANGED stored

Next ==
  \/ Stop
  \/ \E c \in Connection : Advance(c)
  \/ \E c \in Connection, i \in Instance : Begin(i, c) \/ Store(i, c)

Spec == Init /\ [][Next]_vars
=============================================================================
