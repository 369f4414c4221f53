---------------------------- MODULE BillingProofs ----------------------------
(***************************************************************************)
(* Theorems about Billing, for every number of subscriptions, of events    *)
(* and of invocations that overlap.                                        *)
(*                                                                         *)
(* The guard of the route compares seconds, so what can be said of the row *)
(* is said of seconds.  Stripe's clock does not go back: a later event has *)
(* no smaller second.  The event about to be written is no older than the  *)
(* row its invocation has read, so a write that moves the row back covers  *)
(* a row it has not read.  And while the database answers, the row has at  *)
(* some time held a second no smaller than that of any event of ours that  *)
(* was answered: when all were, that second is the last, and unless it was *)
(* set back since, the row holds an event of it.                           *)
(***************************************************************************)
EXTENDS Billing, SequenceTheorems, TLAPS

-----------------------------------------------------------------------------
(* The invariant. *)

(* Stripe's events are in the order of their seconds. *)
InOrder ==
  \A d, e \in DOMAIN event : d <= e => event[d].second <= event[e].second

(* A subscription at Stripe is as its last event shows it. *)
LastTells ==
  \A s \in Subscription :
    \/ stripe[s] = NoFacts /\ \A e \in DOMAIN event : event[e].sub # s
    \/ \E e \in DOMAIN event :
         /\ event[e].sub = s /\ stripe[s] = event[e].facts
         /\ \A d \in DOMAIN event : event[d].sub = s => d <= e

(* What is about to be written has one of our prices, and is no older than *)
(* what the invocation has read.                                           *)
RouteOk(r) ==
  r.pc # "idle" =>
    /\ r.event \in DOMAIN event /\ event[r.event].facts.price
    /\ r.pc \in {"read", "sent"} /\ r.seen # 0 =>
         event[r.seen].second <= event[r.event].second

RoutesOk == \A i \in Invocation : RouteOk(route[i])

NewestHeld == row # 0 => event[row].second <= newest

Known == InOrder /\ LastTells /\ RoutesOk /\ NewestHeld

(* An event of ours that was written, and so any that was answered, is no  *)
(* newer than what the row has held.                                       *)
Reached(e) == row # 0 /\ event[e].second <= newest

Fresh ==
  ~refused /\ org =>
    /\ \A e \in answered : event[e].facts.price => Reached(e)
    /\ \A i \in Invocation : route[i].pc = "written" => Reached(route[i].event)

StaysFresh == Fresh => Fresh'

-----------------------------------------------------------------------------
(* Stripe's events. *)

LEMMA NoFactsOfNone == NoFacts \notin Facts /\ NoFacts.status = "none"
  BY DEF NoFacts, Facts, Status

LEMMA EventTypes ==
  ASSUME TypeOK
  PROVE  /\ Len(event) \in Nat
         /\ DOMAIN event = 1 .. Len(event)
         /\ \A e \in DOMAIN event : /\ event[e] \in Event
                                    /\ event[e].sub \in Subscription
                                    /\ event[e].second \in 1 .. MaxEvents
                                    /\ event[e].facts \in Facts
                                    /\ event[e].facts.price \in BOOLEAN
  <1>1. event \in Seq(Event)
    BY DEF TypeOK
  <1>2. /\ Len(event) \in Nat
        /\ DOMAIN event = 1 .. Len(event)
        /\ \A e \in 1 .. Len(event) : event[e] \in Event
    BY <1>1
  <1> QED
    BY <1>2 DEF Event, Facts

(* What is appended leaves the events there were where they are. *)
LEMMA Appended ==
  ASSUME TypeOK, NEW x \in Event, event' = Append(event, x)
  PROVE  /\ event' \in Seq(Event)
         /\ Len(event') = Len(event) + 1
         /\ DOMAIN event' = 1 .. Len(event) + 1
         /\ \A e \in DOMAIN event : event'[e] = event[e]
         /\ event'[Len(event) + 1] = x
  <1>1. event \in Seq(Event)
    BY DEF TypeOK
  <1> QED
    BY <1>1, EventTypes

(* Every event of Stripe's: its second is no smaller than the last one's,  *)
(* and what the row, the routes and the answers refer to stays as it was.  *)
LEMMA EmitKnown ==
  ASSUME TypeOK, Known, NEW s \in Subscription, NEW facts \in Facts,
         Emit(s, facts)
  PROVE  TypeOK' /\ Known' /\ StaysFresh
  <1> DEFINE last == Len(event) + 1
  <1>1. /\ Len(event) < MaxEvents
        /\ stripe' = [stripe EXCEPT ![s] = facts]
        /\ UNCHANGED <<org, answered, row, newest, route, refused>>
    BY DEF Emit
  <1>2. PICK second \in {Now, Now + 1} :
          /\ second <= MaxEvents
          /\ event' = Append(event, [sub |-> s, second |-> second, facts |-> facts])
    BY DEF Emit
  <1> DEFINE x == [sub |-> s, second |-> second, facts |-> facts]
  <1>3. /\ second \in 1 .. MaxEvents
        /\ \A e \in DOMAIN event : event[e].second <= second
    <2>1. CASE event = <<>>
      BY <1>2, <2>1, EventTypes, BillingAssumption DEF Now
    <2>2. CASE event # <<>>
      <3>1. event \in Seq(Event)
        BY DEF TypeOK
      <3>2. Len(event) \in DOMAIN event
        BY <2>2, <3>1, EmptySeq
      <3>3. /\ Now = event[Len(event)].second
            /\ Now \in 1 .. MaxEvents
        BY <2>2, <3>2, EventTypes DEF Now
      <3>4. \A e \in DOMAIN event : event[e].second <= Now
        BY <3>2, <3>3, EventTypes DEF Known, InOrder
      <3>5. second = Now \/ second = Now + 1
        BY <1>2
      <3> QED
        BY <1>2, <3>3, <3>4, <3>5, EventTypes, BillingAssumption
    <2> QED
      BY <2>1, <2>2
  <1>4. x \in Event /\ x.sub = s /\ x.second = second /\ x.facts = facts
    BY <1>3 DEF Event
  <1>5. event' = Append(event, x)
    BY <1>2
  <1> HIDE DEF x
  <1>6. /\ event' \in Seq(Event) /\ Len(event') = last
        /\ DOMAIN event' = 1 .. last
        /\ \A e \in DOMAIN event : event'[e] = event[e]
        /\ event'[last] = x
    BY <1>4, <1>5, Appended
  <1>7. /\ Len(event) \in Nat /\ DOMAIN event = 1 .. Len(event)
        /\ DOMAIN event' = DOMAIN event \cup {last} /\ last \notin DOMAIN event
    BY <1>6, EventTypes
  <1>8. /\ row # 0 => row \in DOMAIN event
        /\ \A i \in Invocation :
             /\ route[i] \in Route
             /\ route[i].event # 0 => route[i].event \in DOMAIN event
             /\ route[i].seen # 0 => route[i].seen \in DOMAIN event
        /\ answered \subseteq DOMAIN event
    BY <1>7 DEF TypeOK, Route
  <1>9. TypeOK'
    <2>1. stripe' \in [Subscription -> Facts \cup {NoFacts}]
      BY <1>1 DEF TypeOK
    <2>2. /\ row' \in 0 .. Len(event') /\ answered' \subseteq DOMAIN event'
          /\ newest' \in 0 .. MaxEvents
      BY <1>1, <1>6, <1>7 DEF TypeOK
    <2>3. route' \in [Invocation -> Route']
      <3>1. Route \subseteq Route'
        BY <1>6, <1>7 DEF Route
      <3> QED
        BY <1>1, <3>1 DEF TypeOK
    <2>4. Len(event') <= MaxEvents
      BY <1>1, <1>6, <1>7, BillingAssumption
    <2>5. row' # 0 => org' /\ event'[row'].facts.price
      BY <1>1, <1>6, <1>8 DEF TypeOK
    <2> QED
      BY <1>1, <1>6, <2>1, <2>2, <2>3, <2>4, <2>5 DEF TypeOK
  <1>10. InOrder'
    <2> SUFFICES ASSUME NEW d \in DOMAIN event', NEW e \in DOMAIN event', d <= e
                 PROVE  event'[d].second <= event'[e].second
      BY DEF InOrder
    <2>1. CASE e \in DOMAIN event
      <3>1. d \in DOMAIN event
        BY <1>7, <2>1
      <3> QED
        BY <1>6, <2>1, <3>1 DEF Known, InOrder
    <2>2. CASE e = last /\ d \in DOMAIN event
      BY <1>3, <1>4, <1>6, <2>2
    <2>3. CASE e = last /\ d = last
      BY <1>3, <1>4, <1>6, <2>3
    <2> QED
      BY <1>7, <2>1, <2>2, <2>3
  <1>11. LastTells'
    <2> SUFFICES ASSUME NEW z \in Subscription
                 PROVE  \/ stripe'[z] = NoFacts /\ \A e \in DOMAIN event' : event'[e].sub # z
                        \/ \E e \in DOMAIN event' :
                             /\ event'[e].sub = z /\ stripe'[z] = event'[e].facts
                             /\ \A d \in DOMAIN event' : event'[d].sub = z => d <= e
      BY DEF LastTells
    <2>1. CASE z = s
      <3>1. stripe'[z] = facts
        BY <1>1, <2>1 DEF TypeOK
      <3>2. /\ last \in DOMAIN event' /\ event'[last].sub = z
            /\ event'[last].facts = stripe'[z]
        BY <1>4, <1>6, <1>7, <2>1, <3>1
      <3>3. \A d \in DOMAIN event' : d <= last
        BY <1>6, <1>7
      <3> QED
        BY <3>2, <3>3
    <2>2. CASE z # s
      <3>1. stripe'[z] = stripe[z]
        BY <1>1, <2>2 DEF TypeOK
      <3>2. event'[last].sub # z
        BY <1>4, <1>6, <2>2
      <3> QED
        BY <1>6, <1>7, <3>1, <3>2 DEF Known, LastTells
    <2> QED
      BY <2>1, <2>2
  <1>12. RoutesOk' /\ NewestHeld'
    <2>1. NewestHeld'
      BY <1>1, <1>6, <1>8 DEF Known, NewestHeld
    <2>2. ASSUME NEW i \in Invocation PROVE RouteOk(route[i])'
      BY <1>1, <1>6, <1>7, <1>8 DEF Known, RoutesOk, RouteOk
    <2> QED
      BY <2>1, <2>2 DEF RoutesOk
  <1>13. StaysFresh
    <2>1. \A i \in Invocation : route[i].pc = "written" => route[i].event \in DOMAIN event
      BY DEF Known, RoutesOk, RouteOk
    <2> QED
      BY <1>1, <1>6, <1>8, <2>1 DEF StaysFresh, Fresh, Reached
  <1> QED
    BY <1>9, <1>10, <1>11, <1>12, <1>13 DEF Known

(* The calls that make Stripe emit one. *)
LEMMA StripeKnown ==
  ASSUME TypeOK, Known, NEW s \in Subscription,
         Checkout(s) \/ Payment(s) \/ ChangePrice(s)
  PROVE  TypeOK' /\ Known' /\ StaysFresh
  <1>1. stripe[s] \in Facts \cup {NoFacts}
    BY DEF TypeOK
  <1>2. CASE Checkout(s)
    <2>1. PICK status \in {"incomplete", "active"} :
            Emit(s, [NoFacts EXCEPT !.status = status])
      BY <1>2 DEF Checkout
    <2>2. [NoFacts EXCEPT !.status = status] \in Facts
      BY DEF NoFacts, Facts, Status
    <2> QED
      BY <2>1, <2>2, EmitKnown
  <1>3. CASE Payment(s)
    <2>1. PICK status \in Status : Emit(s, [stripe[s] EXCEPT !.status = status])
      BY <1>3 DEF Payment
    <2>2. stripe[s] \in Facts
      BY <1>1, <1>3, NoFactsOfNone DEF Payment
    <2>3. [stripe[s] EXCEPT !.status = status] \in Facts
      BY <2>2 DEF Facts
    <2> QED
      BY <2>1, <2>3, EmitKnown
  <1>4. CASE ChangePrice(s)
    <2>1. Emit(s, [stripe[s] EXCEPT !.price = ~@])
      BY <1>4 DEF ChangePrice
    <2>2. stripe[s] \in Facts
      BY <1>1, <1>4, NoFactsOfNone DEF ChangePrice, Collecting
    <2>3. [stripe[s] EXCEPT !.price = ~@] \in Facts
      BY <2>2 DEF Facts
    <2> QED
      BY <2>1, <2>3, EmitKnown
  <1> QED
    BY <1>2, <1>3, <1>4

LEMMA SetCancellingKnown ==
  ASSUME TypeOK, Known, NEW cancelling \in BOOLEAN, SetCancelling(cancelling)
  PROVE  TypeOK' /\ Known' /\ StaysFresh
  <1> DEFINE s == event[row].sub
  <1>1. row \in DOMAIN event
    BY EventTypes DEF SetCancelling, TypeOK
  <1>2. s \in Subscription
    BY <1>1, EventTypes
  <1>3. stripe[s] \in Facts
    BY <1>1, <1>2, EventTypes DEF Known, LastTells
  <1>4. [stripe[s] EXCEPT !.cancelling = cancelling] \in Facts
    BY <1>3 DEF Facts
  <1>5. Emit(s, [stripe[s] EXCEPT !.cancelling = cancelling])
    BY DEF SetCancelling
  <1> QED
    BY <1>2, <1>4, <1>5, EmitKnown

-----------------------------------------------------------------------------
(* The route, and the erasure. *)

(* Whatever leaves Stripe alone leaves its events as they were, and a      *)
(* route may take any state that is in order.                              *)
LEMMA OneRoute ==
  ASSUME TypeOK, Known, UNCHANGED <<stripe, event>>,
         NEW i \in Invocation, NEW r \in Route, RouteOk(r),
         route' = [route EXCEPT ![i] = r]
  PROVE  /\ route' \in [Invocation -> Route]
         /\ route' \in [Invocation -> Route']
         /\ route'[i] = r /\ \A j \in Invocation : j # i => route'[j] = route[j]
         /\ InOrder' /\ LastTells' /\ RoutesOk'
  <1>1. InOrder' /\ LastTells'
    BY DEF Known, InOrder, LastTells
  <1>2. route \in [Invocation -> Route]
    BY DEF TypeOK
  <1>3. /\ route'[i] = r /\ \A j \in Invocation : j # i => route'[j] = route[j]
        /\ route' \in [Invocation -> Route]
    BY <1>2
  <1>4. Route' = Route
    BY DEF Route
  <1>5. \A q : RouteOk(q) => RouteOk(q)'
    BY DEF RouteOk
  <1>6. ASSUME NEW j \in Invocation PROVE RouteOk(route[j])'
    <2>1. RouteOk(route'[j])
      BY <1>3 DEF Known, RoutesOk
    <2> QED
      BY <2>1 DEF RouteOk
  <1> QED
    BY <1>1, <1>3, <1>4, <1>6 DEF RoutesOk

LEMMA IdleRoute == TypeOK => Idle \in Route /\ RouteOk(Idle) /\ Idle.pc = "idle"
  <1> SUFFICES ASSUME TypeOK PROVE Idle \in Route /\ RouteOk(Idle) /\ Idle.pc = "idle"
    OBVIOUS
  <1>1. 0 \in 0 .. Len(event)
    BY EventTypes
  <1> QED
    BY <1>1 DEF Idle, Route, RouteOk

(* What an invocation under way is about to write, or has written.         *)
LEMMA RouteTypes ==
  ASSUME TypeOK, Known, NEW i \in Invocation, route[i].pc # "idle"
  PROVE  /\ route[i] \in Route /\ route[i].event \in DOMAIN event
         /\ route[i].event \in 0 .. Len(event) /\ route[i].event # 0
         /\ event[route[i].event].facts.price
         /\ route[i].seen \in 0 .. Len(event)
  <1>1. route[i] \in Route
    BY DEF TypeOK
  <1>2. route[i].event \in DOMAIN event /\ event[route[i].event].facts.price
    BY DEF Known, RoutesOk, RouteOk
  <1> QED
    BY <1>1, <1>2, EventTypes DEF Route

LEMMA StartKnown ==
  ASSUME TypeOK, Known, NEW i \in Invocation, NEW e \in DOMAIN event,
         NEW seen \in 0 .. Len(event), KnownPrice(e), Start(i, e, seen),
         seen # 0 => event[seen].second <= event[e].second,
         UNCHANGED <<org, stripe, event, answered, row, newest>>,
         refused' \in BOOLEAN, ~refused' => ~refused
  PROVE  TypeOK' /\ Known' /\ StaysFresh
  <1> DEFINE r == [pc |-> "read", event |-> e, seen |-> seen]
  <1>1. r \in Route /\ RouteOk(r) /\ r.pc = "read"
    BY EventTypes DEF Route, RouteOk, KnownPrice
  <1>2. route' = [route EXCEPT ![i] = r]
    BY DEF Start
  <1> HIDE DEF r
  <1>3. /\ route' \in [Invocation -> Route']
        /\ route'[i] = r /\ \A j \in Invocation : j # i => route'[j] = route[j]
        /\ InOrder' /\ LastTells' /\ RoutesOk'
    BY <1>1, <1>2, OneRoute
  <1>4. TypeOK'
    BY <1>3 DEF TypeOK
  <1>5. NewestHeld'
    BY DEF Known, NewestHeld
  <1>6. StaysFresh
    BY <1>1, <1>3 DEF StaysFresh, Fresh, Reached
  <1> QED
    BY <1>3, <1>4, <1>5, <1>6 DEF Known

LEMMA DeliverKnown ==
  ASSUME TypeOK, Known, NEW i \in Invocation, NEW e \in DOMAIN event,
         Deliver(i, e)
  PROVE  TypeOK' /\ Known' /\ StaysFresh
  <1>1. UNCHANGED <<org, stripe, event, row, newest, refused>>
    BY DEF Deliver
  <1>2. row \in 0 .. Len(event) /\ (row # 0 => row \in DOMAIN event) /\ refused \in BOOLEAN
    BY EventTypes DEF TypeOK
  <1>3. CASE KnownPrice(e) /\ ~Older(e)
    <2>1. Start(i, e, row) /\ UNCHANGED answered
      BY <1>3 DEF Deliver
    <2>2. row # 0 => event[row].second <= event[e].second
      BY <1>2, <1>3, EventTypes DEF Older
    <2> QED
      BY <1>1, <1>2, <1>3, <2>1, <2>2, StartKnown
  <1>4. CASE ~(KnownPrice(e) /\ ~Older(e))
    <2>1. answered' = answered \cup {e} /\ UNCHANGED route
      BY <1>4 DEF Deliver
    <2>2. TypeOK'
      BY <1>1, <2>1 DEF TypeOK, Route
    <2>3. Known'
      BY <1>1, <2>1 DEF Known, InOrder, LastTells, RoutesOk, RouteOk, NewestHeld
    <2>4. event[e].facts.price => Reached(e)
      <3>1. newest \in Nat
        BY DEF TypeOK
      <3> QED
        BY <1>2, <1>4, <3>1, EventTypes DEF KnownPrice, Older, Known, NewestHeld, Reached
    <2>5. StaysFresh
      BY <1>1, <2>1, <2>4 DEF StaysFresh, Fresh, Reached
    <2> QED
      BY <2>2, <2>3, <2>5
  <1> QED
    BY <1>3, <1>4

LEMMA DeliverBlindKnown ==
  ASSUME TypeOK, Known, NEW i \in Invocation, NEW e \in DOMAIN event,
         DeliverBlind(i, e)
  PROVE  TypeOK' /\ Known' /\ StaysFresh
  <1>1. 0 \in 0 .. Len(event)
    BY EventTypes
  <1> QED
    BY <1>1, StartKnown DEF DeliverBlind

(* The state of an invocation after its write. *)
LEMMA AfterWriteKnown ==
  ASSUME TypeOK, Known, NEW i \in Invocation, route[i].pc \in {"read", "sent"},
         AfterWrite(i), UNCHANGED <<stripe, event>>
  PROVE  /\ route' \in [Invocation -> Route']
         /\ InOrder' /\ LastTells' /\ RoutesOk'
         /\ \A j \in Invocation :
              route'[j].pc = "written" =>
                \/ j # i /\ route'[j] = route[j]
                \/ j = i /\ route'[j].event = route[i].event
  <1> DEFINE r == IF route[i].pc = "read"
                  THEN [route[i] EXCEPT !.pc = "written", !.seen = 0] ELSE Idle
  <1>1. route' = [route EXCEPT ![i] = r]
    BY DEF AfterWrite, TypeOK
  <1>2. /\ r \in Route /\ RouteOk(r)
        /\ r.pc = "written" => r.event = route[i].event
    <2>1. CASE route[i].pc = "read"
      <3>1. /\ route[i] \in Route /\ 0 \in 0 .. Len(event)
            /\ route[i].event \in DOMAIN event /\ event[route[i].event].facts.price
        BY RouteTypes, EventTypes
      <3>2. r = [route[i] EXCEPT !.pc = "written", !.seen = 0]
        BY <2>1
      <3>3. r \in Route /\ r.pc = "written" /\ r.event = route[i].event
        BY <3>1, <3>2 DEF Route
      <3> QED
        BY <3>1, <3>3 DEF RouteOk
    <2>2. CASE route[i].pc # "read"
      BY <2>2, IdleRoute
    <2> QED
      BY <2>1, <2>2
  <1> HIDE DEF r
  <1>3. /\ route' \in [Invocation -> Route']
        /\ route'[i] = r /\ \A j \in Invocation : j # i => route'[j] = route[j]
        /\ InOrder' /\ LastTells' /\ RoutesOk'
    BY <1>1, <1>2, OneRoute
  <1> QED
    BY <1>2, <1>3

(* A write takes what the row has held no lower, and reaches its event.    *)
LEMMA UpsertKnown ==
  ASSUME TypeOK, Known, NEW i \in Invocation, Upsert(i)
  PROVE  TypeOK' /\ Known' /\ StaysFresh
  <1> DEFINE e == route[i].event
  <1>1. /\ route[i].pc \in {"read", "sent"}
        /\ row' = IF org THEN e ELSE 0
        /\ newest' = IF row' # 0 /\ event[row'].second > newest
                     THEN event[row'].second ELSE newest
        /\ AfterWrite(i)
        /\ UNCHANGED <<org, stripe, event, answered, refused>>
    BY DEF Upsert, Upserted
  <1>2. /\ e \in DOMAIN event /\ e \in 0 .. Len(event) /\ e # 0
        /\ event[e].facts.price /\ event[e].second \in 1 .. MaxEvents
    BY <1>1, RouteTypes, EventTypes
  <1>3. /\ route' \in [Invocation -> Route']
        /\ InOrder' /\ LastTells' /\ RoutesOk'
        /\ \A j \in Invocation :
             route'[j].pc = "written" =>
               \/ j # i /\ route'[j] = route[j]
               \/ j = i /\ route'[j].event = e
    BY <1>1, AfterWriteKnown
  <1> HIDE DEF e
  <1>4. /\ newest' \in 0 .. MaxEvents /\ newest <= newest'
        /\ row' # 0 => event[row'].second <= newest'
    <2>1. newest \in 0 .. MaxEvents
      BY DEF TypeOK
    <2> QED
      BY <1>1, <1>2, <2>1, BillingAssumption
  <1>5. TypeOK'
    <2>1. row' \in 0 .. Len(event) /\ (row' # 0 => org' /\ event'[row'].facts.price)
      BY <1>1, <1>2, EventTypes
    <2> QED
      BY <1>1, <1>3, <1>4, <2>1 DEF TypeOK
  <1>6. NewestHeld'
    BY <1>1, <1>4 DEF NewestHeld
  <1>7. StaysFresh
    <2> SUFFICES ASSUME Fresh, ~refused, org PROVE Fresh'
      BY <1>1 DEF StaysFresh, Fresh
    <2>1. row' # 0 /\ event[e].second <= newest'
      BY <1>1, <1>2, <1>4
    <2>2. ASSUME NEW d \in DOMAIN event, Reached(d) PROVE Reached(d)'
      <3>1. /\ event[d].second <= newest /\ newest <= newest' /\ event[d].second \in Nat
            /\ newest \in Nat /\ newest' \in Nat
        BY <1>4, <2>2, EventTypes DEF Reached, TypeOK
      <3>2. event[d].second <= newest'
        BY <3>1
      <3> QED
        BY <1>1, <2>1, <3>2 DEF Reached
    <2>3. ASSUME NEW d \in answered, event[d].facts.price PROVE Reached(d)'
      BY <2>2, <2>3 DEF Fresh, TypeOK
    <2>4. ASSUME NEW j \in Invocation, route'[j].pc = "written"
          PROVE  Reached(route[j].event)'
      <3>1. CASE j = i
        BY <1>1, <1>3, <2>1, <2>4, <3>1 DEF Reached
      <3>2. CASE j # i
        <4>1. route'[j] = route[j] /\ route[j].pc = "written"
          BY <1>3, <2>4, <3>2
        <4>2. route[j].event \in DOMAIN event
          BY <4>1, RouteTypes
        <4>3. Reached(route[j].event)
          BY <4>1 DEF Fresh
        <4>4. event[route[j].event].second <= newest' /\ row' # 0
          BY <2>2, <4>2, <4>3, <1>1 DEF Reached
        <4> QED
          BY <1>1, <4>1, <4>4 DEF Reached
      <3> QED
        BY <3>1, <3>2
    <2> QED
      BY <1>1, <2>3, <2>4 DEF Fresh
  <1> QED
    BY <1>3, <1>5, <1>6, <1>7 DEF Known

LEMMA UpsertRefusedKnown ==
  ASSUME TypeOK, Known, NEW i \in Invocation, UpsertRefused(i)
  PROVE  TypeOK' /\ Known' /\ StaysFresh
  <1>1. /\ route[i].pc = "read" /\ AfterWrite(i) /\ refused' = TRUE
        /\ UNCHANGED <<org, stripe, event, answered, row, newest>>
    BY DEF UpsertRefused
  <1>2. /\ route' \in [Invocation -> Route']
        /\ InOrder' /\ LastTells' /\ RoutesOk'
    BY <1>1, AfterWriteKnown
  <1>3. TypeOK'
    BY <1>1, <1>2 DEF TypeOK
  <1>4. NewestHeld' /\ StaysFresh
    BY <1>1 DEF Known, NewestHeld, StaysFresh, Fresh
  <1> QED
    BY <1>2, <1>3, <1>4 DEF Known

(* The 2xx comes after the write, and a death answers nothing.             *)
LEMMA AnswerKnown ==
  ASSUME TypeOK, Known, NEW i \in Invocation, Answer(i) \/ Die(i)
  PROVE  TypeOK' /\ Known' /\ StaysFresh
  <1>1. /\ UNCHANGED <<org, stripe, event, row, newest, refused>>
        /\ route[i].pc # "idle"
        /\ \/ UNCHANGED answered
           \/ answered' = answered \cup {route[i].event} /\ route[i].pc = "written"
    BY DEF Answer, Die
  <1>2. PICK r \in Route : /\ RouteOk(r) /\ r.pc # "written"
                           /\ route' = [route EXCEPT ![i] = r]
    <2>1. CASE route' = [route EXCEPT ![i] = Idle]
      BY <2>1, IdleRoute
    <2>2. CASE route[i].pc = "read" /\ route' = [route EXCEPT ![i].pc = "sent"]
      <3> DEFINE r == [route[i] EXCEPT !.pc = "sent"]
      <3>1. route[i] \in Route /\ RouteOk(route[i])
        BY DEF TypeOK, Known, RoutesOk
      <3>2. r \in Route /\ r.pc = "sent" /\ r.event = route[i].event /\ r.seen = route[i].seen
        BY <3>1 DEF Route
      <3>3. RouteOk(r)
        BY <2>2, <3>1, <3>2 DEF RouteOk
      <3>4. route' = [route EXCEPT ![i] = r]
        BY <2>2 DEF TypeOK
      <3> HIDE DEF r
      <3> QED
        BY <3>2, <3>3, <3>4
    <2> QED
      BY <2>1, <2>2 DEF Answer, Die
  <1>3. /\ route' \in [Invocation -> Route']
        /\ route'[i] = r /\ \A j \in Invocation : j # i => route'[j] = route[j]
        /\ InOrder' /\ LastTells' /\ RoutesOk'
    BY <1>1, <1>2, OneRoute
  <1>4. TypeOK'
    <2>1. answered' \subseteq DOMAIN event
      BY <1>1, RouteTypes DEF TypeOK
    <2> QED
      BY <1>1, <1>3, <2>1 DEF TypeOK
  <1>5. NewestHeld'
    BY <1>1 DEF Known, NewestHeld
  <1>6. StaysFresh
    BY <1>1, <1>2, <1>3 DEF StaysFresh, Fresh, Reached
  <1> QED
    BY <1>3, <1>4, <1>5, <1>6 DEF Known

LEMMA EraseKnown ==
  ASSUME TypeOK, Known, Erase
  PROVE  TypeOK' /\ Known' /\ StaysFresh
  <1>1. /\ org' = FALSE /\ row' = 0
        /\ UNCHANGED <<stripe, event, answered, newest, route, refused>>
    BY DEF Erase
  <1>2. TypeOK'
    <2>1. 0 \in 0 .. Len(event)
      BY EventTypes
    <2> QED
      BY <1>1, <2>1 DEF TypeOK, Route
  <1>3. Known'
    BY <1>1 DEF Known, InOrder, LastTells, RoutesOk, RouteOk, NewestHeld
  <1>4. StaysFresh
    BY <1>1 DEF StaysFresh, Fresh
  <1> QED
    BY <1>2, <1>3, <1>4

-----------------------------------------------------------------------------
(* The theorems. *)

LEMMA InitKnown == Init => TypeOK /\ Known /\ Fresh
  <1> SUFFICES ASSUME Init PROVE TypeOK /\ Known /\ Fresh
    OBVIOUS
  <1>1. event \in Seq(Event) /\ Len(event) = 0 /\ DOMAIN event = {}
    BY EmptySeq DEF Init
  <1>2. TypeOK
    <2>1. stripe \in [Subscription -> Facts \cup {NoFacts}]
      BY DEF Init
    <2>2. route \in [Invocation -> Route]
      BY <1>1 DEF Init, Idle, Route
    <2>3. Len(event) <= MaxEvents /\ row \in 0 .. Len(event) /\ newest \in 0 .. MaxEvents
      BY <1>1, BillingAssumption DEF Init
    <2>4. answered \subseteq DOMAIN event /\ row = 0 /\ org = TRUE /\ refused = FALSE
      BY DEF Init
    <2> QED
      BY <1>1, <2>1, <2>2, <2>3, <2>4 DEF TypeOK
  <1>3. Known
    BY <1>1 DEF Init, Known, InOrder, LastTells, RoutesOk, RouteOk, Idle, NewestHeld
  <1>4. Fresh
    BY DEF Init, Fresh, Idle
  <1> QED
    BY <1>2, <1>3, <1>4

LEMMA NextKnown ==
  TypeOK /\ Known /\ [Next]_vars => TypeOK' /\ Known' /\ StaysFresh
  <1> SUFFICES ASSUME TypeOK, Known, [Next]_vars
               PROVE  TypeOK' /\ Known' /\ StaysFresh
    OBVIOUS
  <1>1. ASSUME NEW s \in Subscription, Checkout(s) \/ Payment(s) \/ ChangePrice(s)
        PROVE  TypeOK' /\ Known' /\ StaysFresh
    BY <1>1, StripeKnown
  <1>2. ASSUME NEW cancelling \in BOOLEAN, SetCancelling(cancelling)
        PROVE  TypeOK' /\ Known' /\ StaysFresh
    BY <1>2, SetCancellingKnown
  <1>3. ASSUME NEW i \in Invocation, NEW e \in DOMAIN event,
               Deliver(i, e) \/ DeliverBlind(i, e)
        PROVE  TypeOK' /\ Known' /\ StaysFresh
    BY <1>3, DeliverKnown, DeliverBlindKnown
  <1>4. ASSUME NEW i \in Invocation,
               Upsert(i) \/ UpsertRefused(i) \/ Answer(i) \/ Die(i)
        PROVE  TypeOK' /\ Known' /\ StaysFresh
    BY <1>4, UpsertKnown, UpsertRefusedKnown, AnswerKnown
  <1>5. CASE Erase
    BY <1>5, EraseKnown
  <1>6. CASE UNCHANGED vars
    BY <1>6 DEF vars, TypeOK, Route, Known, InOrder, LastTells, RoutesOk, RouteOk,
                NewestHeld, StaysFresh, Fresh, Reached
  <1> QED
    BY <1>1, <1>2, <1>3, <1>4, <1>5, <1>6 DEF Next

LEMMA AlwaysKnown == Spec => [](TypeOK /\ Known /\ Fresh)
  <1>1. TypeOK /\ Known /\ Fresh /\ [Next]_vars => TypeOK' /\ Known' /\ Fresh'
    BY NextKnown DEF StaysFresh
  <1> QED
    BY <1>1, InitKnown, PTL DEF Spec

(* Whatever Stripe emits and however it is delivered, the row is written   *)
(* from an event of ours, and never for an organisation that is gone.      *)
THEOREM BillingTypes == Spec => []TypeOK
  BY AlwaysKnown, PTL

(* What RowCatchesUp says follows from what was answered. *)
LEMMA CaughtUp ==
  ASSUME TypeOK, Known, Fresh
  PROVE  RowCatchesUp
  <1> SUFFICES ASSUME org, AllAnswered, Ours # {}, NEW e \in Ours
               PROVE  row # 0 /\ (SetBack \/ event[e].second <= event[row].second)
    BY DEF RowCatchesUp
  <1>1. row # 0 /\ event[e].second <= newest
    BY DEF Fresh, Reached, AllAnswered, Ours
  <1>2. row \in DOMAIN event /\ e \in DOMAIN event /\ newest \in Nat
    BY <1>1, EventTypes DEF TypeOK, Ours
  <1> QED
    BY <1>1, <1>2, EventTypes DEF SetBack

(* Deliveries in any order, any number of times and by any number of       *)
(* invocations that overlap and die: when all events had their 2xx, the    *)
(* row holds one of the last second that had one for it, unless a write    *)
(* has set it back.                                                        *)
THEOREM TheRowCatchesUp == Spec => []RowCatchesUp
  BY AlwaysKnown, CaughtUp, PTL

(* However the invocations overlap, no write moves the row to an earlier   *)
(* second than that of the row its invocation has read: the guard of the   *)
(* route fails only on what it was not shown.                              *)
THEOREM TheRowMovesForwards == Spec => BackOnlyOverUnread
  <1>1. TypeOK /\ Known /\ [Next]_vars => [MovesBack => OverUnread]_vars
    <2> SUFFICES ASSUME TypeOK, Known, Next, MovesBack
                 PROVE  OverUnread
      OBVIOUS
    <2>1. row \in DOMAIN event /\ row # 0 /\ row' # 0
          /\ event'[row'].second < event[row].second
      BY EventTypes DEF TypeOK, MovesBack
    <2>2. ASSUME NEW i \in Invocation, Upsert(i) PROVE OverUnread
      <3>1. /\ route[i].pc \in {"read", "sent"} /\ event' = event
            /\ row' = route[i].event
        BY <2>1, <2>2 DEF Upsert, Upserted
      <3>2. route[i].seen # row
        BY <2>1, <3>1, RouteTypes, EventTypes DEF Known, RoutesOk, RouteOk
      <3>3. route'[i] # route[i]
        <4>1. route[i] \in Route
          BY DEF TypeOK
        <4>2. route'[i] = IF route[i].pc = "read"
                          THEN [route[i] EXCEPT !.pc = "written", !.seen = 0] ELSE Idle
          BY <2>2 DEF Upsert, AfterWrite, TypeOK
        <4>3. route'[i].pc \in {"written", "idle"}
          BY <4>1, <4>2 DEF Route, Idle
        <4> QED
          BY <3>1, <4>3
      <3> QED
        BY <3>1, <3>2, <3>3 DEF OverUnread
    <2>3. ~(row' = row /\ event' = event)
      BY <2>1, EventTypes
    <2>4. ASSUME NEW s \in Subscription, NEW facts, Emit(s, facts) PROVE FALSE
      <3>1. row' = row /\ \E x : event' = Append(event, x)
        BY <2>4 DEF Emit
      <3>2. event'[row] = event[row]
        BY <2>1, <3>1 DEF TypeOK
      <3> QED
        BY <2>1, <3>1, <3>2, EventTypes
    <2>5. ~Erase
      BY <2>1 DEF Erase
    <2>6. ASSUME NEW c \in BOOLEAN, SetCancelling(c) PROVE FALSE
      <3>1. event[row].sub \in Subscription
        BY <2>1, EventTypes
      <3> QED
        BY <2>4, <2>6, <3>1 DEF SetCancelling
    <2>7. ASSUME NEW s \in Subscription, Checkout(s) \/ Payment(s) \/ ChangePrice(s)
          PROVE  FALSE
      BY <2>4, <2>7 DEF Checkout, Payment, ChangePrice
    <2>8. ASSUME NEW i \in Invocation, NEW e \in DOMAIN event,
                 Deliver(i, e) \/ DeliverBlind(i, e)
          PROVE  FALSE
      BY <2>3, <2>8 DEF Deliver, DeliverBlind
    <2>9. ASSUME NEW i \in Invocation, UpsertRefused(i) \/ Answer(i) \/ Die(i)
          PROVE  FALSE
      BY <2>3, <2>9 DEF UpsertRefused, Answer, Die
    <2> QED
      BY <2>2, <2>5, <2>6, <2>7, <2>8, <2>9 DEF Next
  <1> QED
    BY <1>1, AlwaysKnown, PTL DEF Spec, BackOnlyOverUnread

(* For any overlap of deliveries: an account is erased while Stripe goes   *)
(* on collecting only if the row lags behind Stripe or was set back, or    *)
(* there is a price it does not know, a second subscription, or a second   *)
(* event of one second.                                                    *)
THEOREM OnlyUnpaidIsErased == Spec => ErasedOnlyUnpaid
  <1>1. TypeOK /\ Known /\ Fresh /\ [Next]_vars =>
          [org /\ ~org' /\ Charged => RowCannotTell]_vars
    <2> SUFFICES ASSUME TypeOK, Known, Fresh, Next, org, ~org', ~RowCannotTell
                 PROVE  ~Charged
      OBVIOUS
    <2>1. Erase
      BY DEF Next, Checkout, Payment, ChangePrice, SetCancelling, Emit, Deliver,
             DeliverBlind, Upsert, UpsertRefused, Die, Answer
    <2>2. SUFFICES ASSUME NEW s \in Subscription
                   PROVE  ~(stripe[s].status \in Collecting /\ ~stripe[s].cancelling)
      BY DEF Charged
    <2>3. CASE stripe[s] = NoFacts
      BY <2>3, NoFactsOfNone DEF Collecting
    <2>4. CASE stripe[s] # NoFacts
      <3>1. PICK e \in DOMAIN event :
              /\ event[e].sub = s /\ stripe[s] = event[e].facts
              /\ \A d \in DOMAIN event : event[d].sub = s => d <= e
        BY <2>4 DEF Known, LastTells
      <3>2. \A d \in DOMAIN event : d <= e
        BY <3>1 DEF RowCannotTell, Ambiguous
      <3>3. RowCatchesUp
        BY CaughtUp
      <3>4. row # 0 /\ event[e].second <= event[row].second
        BY <3>1, <3>3 DEF RowCatchesUp, RowCannotTell
      <3>5. row \in DOMAIN event
        BY <3>4, EventTypes DEF TypeOK
      <3>6. event[row].second <= event[e].second
        BY <3>2, <3>5 DEF Known, InOrder
      <3>7. event[row].second = event[e].second
        BY <3>1, <3>4, <3>5, <3>6, EventTypes
      <3>8. row = e
        BY <3>1, <3>5, <3>7 DEF RowCannotTell, Ambiguous
      <3>9. ~Live(stripe[s])
        BY <2>1, <3>1, <3>4, <3>8 DEF Erase
      <3> QED
        BY <3>9 DEF Live, Collecting
    <2> QED
      BY <2>3, <2>4
  <1> QED
    BY <1>1, AlwaysKnown, PTL DEF Spec, ErasedOnlyUnpaid
=============================================================================
