--------------------------- MODULE OutboxContract ---------------------------
(***************************************************************************)
(* What the restatement outbox promises about its events, however many     *)
(* drains, retries, crashes and lost records are behind it:                *)
(*                                                                         *)
(*   - an endpoint takes an event only while the event is queued, or while *)
(*     a drain has it that kept it past its claim;                         *)
(*   - an event is delivered only once the endpoint has taken it, and a    *)
(*     delivery is not taken back;                                         *)
(*   - a dead letter is queued again only by such a late drain;            *)
(*   - an event leaves only with an outcome.                               *)
(***************************************************************************)
CONSTANT Event

VARIABLES
  state,          \* of each event
  taken,          \* the events the endpoint has answered 2xx
  late            \* the events a drain has kept past its claim

vars == <<state, taken, late>>

Init == state = [e \in Event |-> "new"] /\ taken = {} /\ late = {}

Move(e, from, to) ==
  /\ state[e] \in from
  /\ state' = [state EXCEPT ![e] = to]
  /\ UNCHANGED taken

Take(e) ==
  /\ state[e] = "queued" \/ e \in late
  /\ taken' = taken \cup {e}
  /\ UNCHANGED <<state, late>>

(* A claim runs out while a drain has the event, or the drain lets go. *)
Overstay ==
  /\ late' \in SUBSET {e \in Event : state[e] # "new"}
  /\ UNCHANGED <<state, taken>>

Next ==
  \/ \E e \in Event : Take(e)
  \/ Overstay
  \/ \E e \in Event :
       /\ \/ Move(e, {"new"}, "queued")
          \/ e \in taken /\ Move(e, {"queued"}, "delivered")
          \/ Move(e, {"queued"}, "failed")
          \/ e \in late /\ Move(e, {"failed"}, "queued")
          \/ Move(e, {"delivered", "failed"}, "gone")
       /\ late' \in SUBSET late

Spec == Init /\ [][Next]_vars
=============================================================================
