------------------------------ MODULE Billing ------------------------------
(***************************************************************************)
(* The row of public.subscriptions as a cache of what Stripe knows.        *)
(*                                                                         *)
(* Only the webhook route writes it.  Stripe delivers each event until it  *)
(* is answered 2xx: in any order, more than once, to several invocations   *)
(* of the route at a time.  The route reads the event clock of the row and *)
(* then upserts, two calls with nothing between them that locks.  A call   *)
(* of supabase-js does not throw when the database refuses it, so the      *)
(* route goes on and answers 200.  The erasure of the account trusts the   *)
(* row.                                                                    *)
(***************************************************************************)
EXTENDS Naturals, Sequences, FiniteSets

CONSTANTS
  Subscription,   \* at Stripe, all of one organisation
  Invocation,     \* of the route, at a time
  MaxEvents       \* bound: events Stripe emits

ASSUME BillingAssumption == MaxEvents \in Nat

VARIABLES
  org,            \* the organisation exists here
  stripe,         \* each subscription as Stripe knows it
  event,          \* what Stripe has emitted, oldest first
  answered,       \* the events it had a 2xx for
  row,            \* public.subscriptions: the event it was written from, or 0
  newest,         \* history: the latest second the row has held
  route,          \* the local state of each invocation
  refused         \* a call to the database failed and the route went on

vars == <<org, stripe, event, answered, row, newest, route, refused>>

Status == {"incomplete", "active", "past_due", "canceled"}
Collecting == {"active", "past_due"}               \* Stripe takes money

(* A subscription, as the payload of an event shows it.  price: one of     *)
(* ours; cancelling: cancel_at_period_end.  The statuses left out are like *)
(* active (trialing), past_due (unpaid) or canceled to everything here.    *)
Facts == [status : Status, cancelling : BOOLEAN, price : BOOLEAN]
NoFacts == [status |-> "none", cancelling |-> FALSE, price |-> TRUE]

Event == [sub : Subscription, second : 1 .. MaxEvents, facts : Facts]

(* read: between the read of the clock and the upsert; sent: the same, but *)
(* the invocation is dead and only its upsert is on its way; written:      *)
(* after the upsert, before the 2xx.  seen is the row it read, until then. *)
Route == [pc : {"idle", "read", "sent", "written"},
          event : 0 .. Len(event), seen : 0 .. Len(event)]

Idle == [pc |-> "idle", event |-> 0, seen |-> 0]

TypeOK ==
  /\ org \in BOOLEAN /\ refused \in BOOLEAN
  /\ stripe \in [Subscription -> Facts \cup {NoFacts}]
  /\ event \in Seq(Event) /\ Len(event) <= MaxEvents
  /\ answered \subseteq DOMAIN event
  /\ row \in 0 .. Len(event)
  /\ newest \in 0 .. MaxEvents
  /\ route \in [Invocation -> Route]
  /\ row # 0 => org /\ event[row].facts.price

Init ==
  /\ org = TRUE /\ refused = FALSE
  /\ stripe = [s \in Subscription |-> NoFacts]
  /\ event = <<>> /\ answered = {} /\ row = 0 /\ newest = 0
  /\ route = [i \in Invocation |-> Idle]

-----------------------------------------------------------------------------
(* Stripe. *)

Now == IF event = <<>> THEN 1 ELSE event[Len(event)].second

(* event.created is in seconds: two events may share one. *)
Emit(s, facts) ==
  /\ Len(event) < MaxEvents
  /\ stripe' = [stripe EXCEPT ![s] = facts]
  /\ \E second \in {Now, Now + 1} :
       /\ second <= MaxEvents
       /\ event' = Append(event, [sub |-> s, second |-> second, facts |-> facts])
  /\ UNCHANGED <<org, answered, row, newest, route, refused>>

(* startCheckout, and the customer pays; nothing asks whether there is a   *)
(* subscription already.                                                   *)
Checkout(s) ==
  /\ org /\ stripe[s] = NoFacts
  /\ \E status \in {"incomplete", "active"} :
       Emit(s, [NoFacts EXCEPT !.status = status])

(* A payment succeeds, or fails, and is given up in the end. *)
Payment(s) ==
  /\ stripe[s].status \notin {"none", "canceled"}
  /\ \E status \in Status \ {"incomplete", stripe[s].status} :
       Emit(s, [stripe[s] EXCEPT !.status = status])

(* The portal moves the subscription to another price. *)
ChangePrice(s) ==
  /\ stripe[s].status \in Collecting
  /\ Emit(s, [stripe[s] EXCEPT !.price = ~@])

(* cancelSubscription and resumeSubscription: the subscription the row is  *)
(* about, when the row says otherwise; the webhook writes what comes back. *)
SetCancelling(cancelling) ==
  /\ row # 0 /\ event[row].facts.cancelling # cancelling
  /\ LET s == event[row].sub IN
     /\ stripe[s].status # "canceled" /\ stripe[s].cancelling # cancelling
     /\ Emit(s, [stripe[s] EXCEPT !.cancelling = cancelling])

-----------------------------------------------------------------------------
(* The route. *)

(* Mutant: a price nobody knows gets some plan. *)
AnyPrice(e) == TRUE

(* planForPriceId *)
KnownPrice(e) == event[e].facts.price

(* Mutant: no guard. *)
NeverOlder(e) == FALSE

(* existing.stripe_event_at > at *)
Older(e) == row # 0 /\ event[row].second > event[e].second

Start(i, e, seen) ==
  route' = [route EXCEPT ![i] = [pc |-> "read", event |-> e, seen |-> seen]]

(* apply, up to the read of the clock: an unknown price and an older event *)
(* are answered 200, and so is one of an organisation that is gone.        *)
Deliver(i, e) ==
  /\ route[i].pc = "idle"
  /\ IF KnownPrice(e) /\ ~Older(e)
     THEN Start(i, e, row) /\ UNCHANGED answered
     ELSE answered' = answered \cup {e} /\ UNCHANGED route
  /\ UNCHANGED <<org, stripe, event, row, newest, refused>>

(* The read fails: no row, as far as the route can see. *)
DeliverBlind(i, e) ==
  /\ route[i].pc = "idle" /\ KnownPrice(e)
  /\ refused' = TRUE
  /\ Start(i, e, 0)
  /\ UNCHANGED <<org, stripe, event, answered, row, newest>>

(* Mutant: on conflict do nothing. *)
UpsertedOnce(e) == IF row = 0 THEN e ELSE row

Upserted(e) == e

AfterWrite(i) ==
  route' = [route EXCEPT ![i] =
              IF @.pc = "read" THEN [@ EXCEPT !.pc = "written", !.seen = 0] ELSE Idle]

(* The upsert, of an invocation that may be dead by now; it breaks a       *)
(* foreign key once the organisation is gone.                              *)
Upsert(i) ==
  /\ route[i].pc \in {"read", "sent"}
  /\ row' = IF org THEN Upserted(route[i].event) ELSE 0
  /\ newest' = IF row' # 0 /\ event[row'].second > newest
               THEN event[row'].second ELSE newest
  /\ AfterWrite(i)
  /\ UNCHANGED <<org, stripe, event, answered, refused>>

(* It fails, and the route goes on all the same. *)
UpsertRefused(i) ==
  /\ route[i].pc = "read"
  /\ refused' = TRUE
  /\ AfterWrite(i)
  /\ UNCHANGED <<org, stripe, event, answered, row, newest>>

(* The 2xx. *)
Answer(i) ==
  /\ route[i].pc = "written"
  /\ answered' = answered \cup {route[i].event}
  /\ route' = [route EXCEPT ![i] = Idle]
  /\ UNCHANGED <<org, stripe, event, row, newest, refused>>

(* It throws, or the invocation dies, before or after its upsert was sent  *)
(* or has landed: Stripe has no answer and will deliver again.             *)
Die(i) ==
  /\ \/ route[i].pc \in {"read", "written"} /\ route' = [route EXCEPT ![i] = Idle]
     \/ route[i].pc = "read" /\ route' = [route EXCEPT ![i].pc = "sent"]
  /\ UNCHANGED <<org, stripe, event, answered, row, newest, refused>>

-----------------------------------------------------------------------------
(* delete_organisation, as far as it looks at the subscription. *)

(* Mutant: a failing card does not count. *)
LiveWhilePaid(facts) == facts.status = "active" /\ ~facts.cancelling

Live(facts) ==
  facts.status \in {"active", "trialing", "past_due", "unpaid"} /\ ~facts.cancelling

Erase ==
  /\ org
  /\ row # 0 => ~Live(event[row].facts)
  /\ org' = FALSE /\ row' = 0
  /\ UNCHANGED <<stripe, event, answered, newest, route, refused>>

Next ==
  \/ \E s \in Subscription : Checkout(s) \/ Payment(s) \/ ChangePrice(s)
  \/ \E cancelling \in BOOLEAN : SetCancelling(cancelling)
  \/ \E i \in Invocation :
       \/ \E e \in DOMAIN event : Deliver(i, e) \/ DeliverBlind(i, e)
       \/ Upsert(i) \/ UpsertRefused(i) \/ Answer(i) \/ Die(i)
  \/ Erase

Spec == Init /\ [][Next]_vars

-----------------------------------------------------------------------------
(* Properties. *)

(* The write "refuses to move state backwards", whatever the order of the  *)
(* deliveries, of the row it has read.  So the row goes back a second only *)
(* under a write whose invocation has not read what it replaces: another's *)
(* upsert came between its read and its own, or its read failed.           *)
MovesBack == row # 0 /\ row' # 0 /\ event'[row'].second < event[row].second

OverUnread ==
  \E i \in Invocation :
    /\ route[i].pc \in {"read", "sent"} /\ route'[i] # route[i]
    /\ route[i].event = row' /\ route[i].seen # row

BackOnlyOverUnread == [][MovesBack => OverUnread]_vars

Ours == {e \in DOMAIN event : event[e].facts.price}

(* When every event had its 2xx, the row is as Stripe has it: it holds an  *)
(* event of the last second that had one for it, unless a write has set it *)
(* back behind what it held.                                               *)
AllAnswered == answered = DOMAIN event /\ ~refused

SetBack == row # 0 /\ event[row].second < newest

RowCatchesUp ==
  org /\ AllAnswered /\ Ours # {} =>
    row # 0 /\ (SetBack \/ \A e \in Ours : event[e].second <= event[row].second)

(* An account is erased while Stripe goes on collecting only when the row  *)
(* cannot tell: it lags behind Stripe or was set back, or it does not know *)
(* the price, or one of two subscriptions, or which of two events of one   *)
(* second was the last.                                                    *)
Charged == \E s \in Subscription :
             stripe[s].status \in Collecting /\ ~stripe[s].cancelling

Ambiguous ==
  \E d, e \in DOMAIN event :
    event[d].sub # event[e].sub \/ (d # e /\ event[d].second = event[e].second)

RowCannotTell ==
  ~AllAnswered \/ SetBack \/ DOMAIN event # Ours \/ Ambiguous

ErasedOnlyUnpaid == [][org /\ ~org' /\ Charged => RowCannotTell]_vars
=============================================================================
