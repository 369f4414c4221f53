-------------------------- MODULE ConnectingProofs --------------------------
(***************************************************************************)
(* What TLAPS proves of Connecting, for any number of flows, tabs,         *)
(* requests and accounts, any lifetimes and any drift of the edge's clock. *)
(*                                                                         *)
(* The argument: the row of a flow is deleted by the request that redeems  *)
(* it and never written again, so one request at most may exchange its     *)
(* code; a request carries the account of the flow whose state it returned *)
(* with, because the cookie of another flow is refused; and a request that *)
(* nobody listens to any more has made the screen say that nobody knows,   *)
(* before it could store anything.                                         *)
(***************************************************************************)
EXTENDS Connecting, TLAPS

USE ConnectingAssumption

-----------------------------------------------------------------------------
(* The invariant. *)

Posted == [pc : {"posted"}, flow : Flow, account : Account, clock : Int,
           declined : BOOLEAN, heard : BOOLEAN]

Granted == [pc : {"redeemed", "sealed"}, flow : Flow \cup {Pasted},
            account : Account, heard : BOOLEAN]

OfFlow(r) == req[r].pc # "idle" /\ req[r].flow \in Flow

(* A request is about a flow that was started, for the account it was      *)
(* started for, and when it is not heard the screen has been told so.      *)
Requests ==
  \A r \in Request : OfFlow(r) =>
    /\ consent[req[r].flow] # None
    /\ req[r].account = asked[req[r].flow]
    /\ req[r].heard \/ "unsure" \in told[req[r].flow]

(* One request at most has redeemed a flow and not yet exchanged its code. *)
Redemptions ==
  /\ \A r \in Request : req[r].pc = "redeemed" =>
       /\ req[r].flow \in Flow
       /\ exchanges[req[r].flow] = 0 /\ pending[req[r].flow] = NoRow
  /\ \A r, s \in Request :
       req[r].pc = "redeemed" /\ req[s].pc = "redeemed" /\ req[r].flow = req[s].flow => r = s

Exchanged ==
  \A f \in Flow : exchanges[f] # 0 => consent[f] # None /\ pending[f] = NoRow

Named == \A f \in Flow : consent[f] # None => asked[f] \in Account

(* A connection of a flow is filed as asked, and the screen did not only   *)
(* say that nothing was stored.                                            *)
Filed ==
  \A a \in Account : conn[a] \in Flow =>
    /\ consent[conn[a]] # None
    /\ asked[conn[a]] = a
    /\ told[conn[a]] \cap {"connected", "retry", "unsure"} # {}

Claimed == \A f \in Flow : "connected" \in told[f] => Stored(f)

Safe == Requests /\ Redemptions /\ Exchanged /\ Named /\ Filed /\ Claimed

LEMMA SafeInit == Init => TypeOK /\ Safe
BY DEF Init, TypeOK, Safe, Requests, Redemptions, Exchanged, Named, Filed, Claimed,
       OfFlow, Idle, NoRow, Claim

LEMMA ReqTyped ==
  ASSUME TypeOK, NEW r \in Request
  PROVE  /\ req[r].pc \in {"idle", "posted", "redeemed", "sealed"}
         /\ req[r].pc = "idle" <=> req[r] = Idle
         /\ req[r].pc = "posted" => req[r] \in Posted
         /\ req[r].pc \in {"redeemed", "sealed"} => req[r] \in Granted
<1>1. req[r] \in {Idle} \cup Posted \cup Granted
  BY DEF TypeOK, Posted, Granted
<1> QED
  BY <1>1 DEF Posted, Granted, Idle

-----------------------------------------------------------------------------
(* What the screen says, and the end of a request. *)

LEMMA TellAdds ==
  ASSUME TypeOK, NEW f \in Flow \cup {Pasted}, NEW claim \in Claim, Tell(f, claim)
  PROVE  /\ told' \in [Flow -> SUBSET Claim]
         /\ \A g \in Flow : told[g] \subseteq told'[g]
         /\ \A g \in Flow : told'[g] # told[g] => g = f
         /\ \A g \in Flow : told'[g] \subseteq told[g] \cup {claim}
         /\ f \in Flow => claim \in told'[f]
<1>0. told \in [Flow -> SUBSET Claim]
  BY DEF TypeOK
<1>1. CASE f \in Flow
  <2>1. told' = [told EXCEPT ![f] = told[f] \cup {claim}]
    BY <1>1 DEF Tell
  <2> QED
    BY <1>0, <1>1, <2>1
<1>2. CASE f \notin Flow
  BY <1>0, <1>2 DEF Tell
<1> QED
  BY <1>1, <1>2

LEMMA AnswerEnds ==
  ASSUME TypeOK, NEW r \in Request, req[r].pc # "idle",
         NEW claim \in Claim, Answer(r, claim)
  PROVE  /\ req' = [req EXCEPT ![r] = Idle]
         /\ cookie' \in Flow \cup {None}
         /\ told' \in [Flow -> SUBSET Claim]
         /\ \A g \in Flow : told[g] \subseteq told'[g]
         /\ \A g \in Flow : told'[g] # told[g] => g = req[r].flow
         /\ \A g \in Flow : told'[g] \subseteq told[g] \cup {claim}
         /\ req[r].heard /\ req[r].flow \in Flow => claim \in told'[req[r].flow]
<1>1. req[r].flow \in Flow \cup {Pasted} /\ req[r].heard \in BOOLEAN
  BY ReqTyped DEF Posted, Granted
<1>2. /\ req' = [req EXCEPT ![r] = Idle]
      /\ cookie' \in {cookie, None}
      /\ req[r].heard => Tell(req[r].flow, claim)
      /\ ~req[r].heard => UNCHANGED told
  BY DEF Answer
<1>3. cookie \in Flow \cup {None} /\ told \in [Flow -> SUBSET Claim]
  BY DEF TypeOK
<1>4. CASE req[r].heard
  BY <1>1, <1>2, <1>3, <1>4, TellAdds
<1>5. CASE ~req[r].heard
  BY <1>1, <1>2, <1>3, <1>5
<1> QED
  BY <1>1, <1>4, <1>5

LEMMA ReqChanged ==
  ASSUME TypeOK, NEW r \in Request, NEW state \in {Idle} \cup Posted \cup Granted,
         req' = [req EXCEPT ![r] = state]
  PROVE  /\ req' \in [Request -> {Idle} \cup Posted \cup Granted]
         /\ req'[r] = state /\ \A s \in Request : s # r => req'[s] = req[s]
BY DEF TypeOK, Posted, Granted

(* A step that starts, redeems, exchanges and stores nothing. *)
LEMMA SafeWhenQuiet ==
  ASSUME TypeOK, Safe, UNCHANGED <<asked, conn, exchanges>>,
         \A f \in Flow : consent'[f] # None <=> consent[f] # None,
         \A f \in Flow : pending'[f] \in {pending[f], NoRow},
         \A f \in Flow : told[f] \subseteq told'[f],
         \A f \in Flow : "connected" \in told'[f] => "connected" \in told[f],
         \A r \in Request : req'[r] \in {req[r], Idle}
  PROVE  Safe'
<1>0. \A r \in Request : req'[r].pc # "idle" => req'[r] = req[r]
  BY DEF Idle
<1>1. Requests'
  <2> SUFFICES ASSUME NEW r \in Request, OfFlow(r)'
               PROVE  /\ consent'[req'[r].flow] # None
                      /\ req'[r].account = asked'[req'[r].flow]
                      /\ req'[r].heard \/ "unsure" \in told'[req'[r].flow]
    BY DEF Requests
  <2>1. req'[r] = req[r] /\ OfFlow(r)
    BY <1>0 DEF OfFlow
  <2> QED
    BY <2>1 DEF Safe, Requests, OfFlow
<1>2. Redemptions'
  <2>1. \A r \in Request : req'[r].pc = "redeemed" => req'[r] = req[r]
    BY <1>0
  <2>2. \A r \in Request : req'[r].pc = "redeemed" =>
          /\ req'[r].flow \in Flow
          /\ exchanges'[req'[r].flow] = 0 /\ pending'[req'[r].flow] = NoRow
    BY <2>1 DEF Safe, Redemptions
  <2> QED
    BY <2>1, <2>2 DEF Safe, Redemptions
<1>3. Exchanged' /\ Named'
  BY DEF Safe, Exchanged, Named
<1>4. Filed'
  BY DEF Safe, Filed
<1>5. Claimed'
  BY DEF Safe, Claimed, Stored
<1> QED
  BY <1>1, <1>2, <1>3, <1>4, <1>5 DEF Safe

-----------------------------------------------------------------------------
(* The steps. *)

LEMMA TypesKept == TypeOK /\ Safe /\ [Next]_vars => TypeOK'
<1> SUFFICES ASSUME TypeOK, Safe, [Next]_vars PROVE TypeOK'
  OBVIOUS
<1>t. /\ now \in 0 .. MaxTime /\ writable \in BOOLEAN
      /\ asked \in [Flow -> Account \cup {None}]
      /\ pending \in [Flow -> 0 .. MaxTime \cup {NoRow}]
      /\ cookie \in Flow \cup {None}
      /\ consent \in [Flow -> {None, "starting", "screen", "code", "declined", "spent"}]
      /\ req \in [Request -> {Idle} \cup Posted \cup Granted]
      /\ exchanges \in [Flow -> 0 .. 1]
      /\ conn \in [Account -> Flow \cup {Pasted, None}]
      /\ told \in [Flow -> SUBSET Claim]
  BY DEF TypeOK, Posted, Granted
<1>c. {"connected", "nothing", "retry", "unsure"} \subseteq Claim
  BY DEF Claim
<1>r. \A r \in Request :
        /\ req[r].pc = "posted" => req[r] \in Posted
        /\ req[r].pc \in {"redeemed", "sealed"} => req[r] \in Granted
        /\ req[r].pc # "idle" => req[r].flow \in Flow \cup {Pasted}
        /\ req[r] # Idle => req[r].pc # "idle"
  BY ReqTyped DEF Posted, Granted
(* The variables a request's step touches. *)
<1>q. ASSUME UNCHANGED <<now, writable, asked>>,
             pending' \in [Flow -> 0 .. MaxTime \cup {NoRow}],
             cookie' \in Flow \cup {None},
             consent' \in [Flow -> {None, "starting", "screen", "code", "declined", "spent"}],
             req' \in [Request -> {Idle} \cup Posted \cup Granted],
             exchanges' \in [Flow -> 0 .. 1],
             conn' \in [Account -> Flow \cup {Pasted, None}],
             told' \in [Flow -> SUBSET Claim]
      PROVE  TypeOK'
  BY <1>q, <1>t DEF TypeOK, Posted, Granted
<1>1. ASSUME NEW f \in Flow, Start(f) PROVE TypeOK'
  <2>1. Swept \in [Flow -> 0 .. MaxTime \cup {NoRow}]
    BY <1>t DEF Swept
  <2>2. pending' \in [Flow -> 0 .. MaxTime \cup {NoRow}]
    BY <1>1, <1>t, <2>1 DEF Start
  <2> QED
    BY <1>1, <1>t, <2>2 DEF Start, TypeOK, Posted, Granted
<1>2. ASSUME NEW f \in Flow, Leave(f) \/ Consent(f) PROVE TypeOK'
  BY <1>2, <1>t DEF Leave, Consent, TypeOK, Posted, Granted
<1>3. ASSUME NEW r \in Request, NEW f \in Flow, Return(r, f) PROVE TypeOK'
  <2>1. CASE Matches(f) /\ UNCHANGED <<cookie, told>> /\ req' # req
    <3>1. PICK d \in Drift :
            req' = [req EXCEPT ![r] =
              [pc |-> "posted", flow |-> f, account |-> asked[cookie],
               clock |-> now + d, declined |-> consent[f] = "declined", heard |-> TRUE]]
      BY <1>3, <2>1 DEF Return
    <3>2. asked[cookie] \in Account /\ cookie = f
      BY <1>3, <2>1 DEF Return, Matches, Safe, Named, None
    <3> DEFINE next == [pc |-> "posted", flow |-> f, account |-> asked[cookie],
                        clock |-> now + d, declined |-> consent[f] = "declined", heard |-> TRUE]
    <3>3. next \in Posted
      BY <1>t, <3>2 DEF Posted
    <3>4. req' = [req EXCEPT ![r] = next]
      BY <3>1
    <3> HIDE DEF next
    <3>5. req' \in [Request -> {Idle} \cup Posted \cup Granted]
      BY <1>t, <3>3, <3>4
    <3> QED
      BY <1>3, <1>t, <1>q, <2>1, <3>5 DEF Return
  <2>2. CASE Tell(f, "nothing") /\ cookie' = None /\ UNCHANGED req
    BY <1>3, <1>t, <1>c, <1>q, <2>2, TellAdds DEF Return
  <2>3. CASE UNCHANGED <<cookie, told, req>>
    BY <1>3, <1>t, <1>q, <2>3 DEF Return
  <2> QED
    BY <1>3, <2>1, <2>2, <2>3 DEF Return
<1>4. ASSUME NEW r \in Request, Redeem(r) PROVE TypeOK'
  <2> DEFINE f == req[r].flow
  <2>1. req[r] \in Posted /\ req[r].pc # "idle" /\ f \in Flow
    BY <1>4, <1>r DEF Redeem, Posted
  <2>2. pending' \in [Flow -> 0 .. MaxTime \cup {NoRow}]
    BY <1>4, <1>t DEF Redeem, Redeemed
  <2>3. CASE Answer(r, "nothing")
    <3>1. /\ req' = [req EXCEPT ![r] = Idle] /\ cookie' \in Flow \cup {None}
          /\ told' \in [Flow -> SUBSET Claim]
      BY <1>c, <2>1, <2>3, AnswerEnds
    <3>2. req' \in [Request -> {Idle} \cup Posted \cup Granted]
      BY <1>t, <3>1
    <3> QED
      BY <1>4, <1>t, <1>q, <2>2, <3>1, <3>2 DEF Redeem
  <2>4. CASE ~Answer(r, "nothing")
    <3> DEFINE next == [pc |-> "redeemed", flow |-> f, heard |-> req[r].heard,
                        account |-> req[r].account]
    <3>1. next \in Granted
      BY <2>1 DEF Posted, Granted
    <3>2. req' = [req EXCEPT ![r] = next] /\ UNCHANGED <<told, cookie>>
      BY <1>4, <2>4 DEF Redeem
    <3> HIDE DEF next
    <3>3. req' \in [Request -> {Idle} \cup Posted \cup Granted]
      BY <1>t, <3>1, <3>2
    <3> QED
      BY <1>4, <1>t, <1>q, <2>2, <3>2, <3>3 DEF Redeem
  <2> QED
    BY <2>3, <2>4
<1>5. ASSUME NEW r \in Request, RedeemUnanswered(r) PROVE TypeOK'
  <2>1. pending' \in [Flow -> 0 .. MaxTime \cup {NoRow}]
    BY <1>5, <1>t DEF RedeemUnanswered, Redeemed
  <2>2. /\ req' = [req EXCEPT ![r] = Idle] /\ cookie' \in Flow \cup {None}
        /\ told' \in [Flow -> SUBSET Claim]
    BY <1>5, <1>c, AnswerEnds DEF RedeemUnanswered
  <2>3. req' \in [Request -> {Idle} \cup Posted \cup Granted]
    BY <1>t, <2>2
  <2> QED
    BY <1>5, <1>t, <1>q, <2>1, <2>2, <2>3 DEF RedeemUnanswered
<1>6. ASSUME NEW r \in Request, Exchange(r) PROVE TypeOK'
  <2> DEFINE f == req[r].flow
  <2>1. req[r] \in Granted /\ req[r].pc # "idle" /\ f \in Flow /\ exchanges[f] = 0
    BY <1>6, <1>r DEF Exchange, Safe, Redemptions
  <2>2. /\ exchanges' = [exchanges EXCEPT ![f] = exchanges[f] + 1]
        /\ consent' = [consent EXCEPT ![f] = "spent"]
        /\ UNCHANGED <<now, writable, asked, pending, conn>>
        /\ \/ req' = [req EXCEPT ![r].pc = "sealed"] /\ UNCHANGED <<told, cookie>>
           \/ Answer(r, "nothing")
           \/ Answer(r, "unsure")
    BY <1>6 DEF Exchange
  <2>3. /\ exchanges' \in [Flow -> 0 .. 1]
        /\ consent' \in [Flow -> {None, "starting", "screen", "code", "declined", "spent"}]
    BY <1>t, <2>1, <2>2
  <2>4. CASE Answer(r, "nothing") \/ Answer(r, "unsure")
    <3>1. /\ req' = [req EXCEPT ![r] = Idle] /\ cookie' \in Flow \cup {None}
          /\ told' \in [Flow -> SUBSET Claim]
      BY <1>c, <2>1, <2>4, AnswerEnds
    <3>2. req' \in [Request -> {Idle} \cup Posted \cup Granted]
      BY <1>t, <3>1
    <3> QED
      BY <1>t, <1>q, <2>2, <2>3, <3>1, <3>2
  <2>5. CASE req' = [req EXCEPT ![r].pc = "sealed"] /\ UNCHANGED <<told, cookie>>
    <3> DEFINE next == [req[r] EXCEPT !.pc = "sealed"]
    <3>1. next \in Granted
      BY <2>1 DEF Granted
    <3>2. req' = [req EXCEPT ![r] = next]
      BY <1>t, <2>5
    <3> HIDE DEF next
    <3>3. req' \in [Request -> {Idle} \cup Posted \cup Granted]
      BY <1>t, <3>1, <3>2
    <3> QED
      BY <1>t, <1>q, <2>2, <2>3, <2>5, <3>3
  <2> QED
    BY <2>2, <2>4, <2>5
<1>7. ASSUME NEW r \in Request, Paste(r) PROVE TypeOK'
  <2>1. PICK a \in Account :
          req' = [req EXCEPT ![r] =
            [pc |-> "sealed", flow |-> Pasted, heard |-> TRUE, account |-> a]]
    BY <1>7 DEF Paste
  <2>2. [pc |-> "sealed", flow |-> Pasted, heard |-> TRUE, account |-> a] \in Granted
    BY DEF Granted
  <2>3. req' \in [Request -> {Idle} \cup Posted \cup Granted]
    BY <1>t, <2>1, <2>2
  <2> QED
    BY <1>7, <1>t, <1>q, <2>3 DEF Paste
<1>8. ASSUME NEW r \in Request, Insert(r) \/ InsertUnanswered(r) PROVE TypeOK'
  <2>1. req[r] \in Granted /\ req[r].pc # "idle"
    BY <1>8, <1>r DEF Insert, InsertUnanswered
  <2>2. conn' \in {conn, Inserted(r)}
    BY <1>8 DEF Insert, InsertUnanswered
  <2>3. conn' \in [Account -> Flow \cup {Pasted, None}]
    BY <1>t, <2>1, <2>2 DEF Inserted, Granted
  <2>4. PICK claim \in Claim : Answer(r, claim)
    BY <1>8, <1>c DEF Insert, InsertUnanswered
  <2>5. /\ req' = [req EXCEPT ![r] = Idle] /\ cookie' \in Flow \cup {None}
        /\ told' \in [Flow -> SUBSET Claim]
    BY <2>1, <2>4, AnswerEnds
  <2>6. req' \in [Request -> {Idle} \cup Posted \cup Granted]
    BY <1>t, <2>5
  <2> QED
    BY <1>8, <1>t, <1>q, <2>3, <2>5, <2>6 DEF Insert, InsertUnanswered
<1>9. ASSUME NEW r \in Request, HangUp(r) PROVE TypeOK'
  <2>1. /\ req[r].pc # "idle" /\ req[r].flow \in Flow \cup {Pasted}
        /\ req[r] \in Posted \cup Granted
    BY <1>9, <1>r, ReqTyped DEF HangUp
  <2> DEFINE next == [req[r] EXCEPT !.heard = FALSE]
  <2>2. next \in Posted \cup Granted
    BY <2>1 DEF Posted, Granted
  <2>3. req' \in {[req EXCEPT ![r] = next], [req EXCEPT ![r] = Idle]}
    BY <1>9, <1>t DEF HangUp
  <2> HIDE DEF next
  <2>4. req' \in [Request -> {Idle} \cup Posted \cup Granted]
    BY <1>t, <2>2, <2>3
  <2>5. told' \in [Flow -> SUBSET Claim]
    BY <1>9, <1>c, <2>1, TellAdds DEF HangUp
  <2> QED
    BY <1>9, <1>t, <1>q, <2>4, <2>5 DEF HangUp
<1>10. CASE CookieExpires \/ UNCHANGED vars
  BY <1>10, <1>t, <1>q DEF CookieExpires, vars
<1>11. CASE Regrant
  <2>1. writable' \in BOOLEAN
    BY <1>11 DEF Regrant
  <2> QED
    BY <1>11, <1>t, <2>1 DEF Regrant, TypeOK, Posted, Granted
<1>12. CASE Tick
  <2>1. now' \in 0 .. MaxTime
    BY <1>12, <1>t DEF Tick
  <2> QED
    BY <1>12, <1>t, <2>1 DEF Tick, TypeOK, Posted, Granted
<1> QED
  BY <1>1, <1>2, <1>3, <1>4, <1>5, <1>6, <1>7, <1>8, <1>9, <1>10, <1>11, <1>12 DEF Next

LEMMA SafeKept == TypeOK /\ Safe /\ [Next]_vars => Safe'
<1> SUFFICES ASSUME TypeOK, Safe, [Next]_vars PROVE Safe'
  OBVIOUS
<1>t. /\ asked \in [Flow -> Account \cup {None}]
      /\ pending \in [Flow -> 0 .. MaxTime \cup {NoRow}]
      /\ consent \in [Flow -> {None, "starting", "screen", "code", "declined", "spent"}]
      /\ req \in [Request -> {Idle} \cup Posted \cup Granted]
      /\ exchanges \in [Flow -> 0 .. 1]
      /\ conn \in [Account -> Flow \cup {Pasted, None}]
      /\ told \in [Flow -> SUBSET Claim]
  BY DEF TypeOK, Posted, Granted
<1>c. {"connected", "nothing", "retry", "unsure"} \subseteq Claim
  BY DEF Claim
<1>r. \A r \in Request :
        /\ req[r].pc = "posted" => req[r] \in Posted
        /\ req[r].pc \in {"redeemed", "sealed"} => req[r] \in Granted
        /\ req[r].pc # "idle" => req[r].flow \in Flow \cup {Pasted}
        /\ req[r] # Idle => req[r].pc # "idle"
  BY ReqTyped DEF Posted, Granted
<1>1. ASSUME NEW f \in Flow, Start(f) PROVE Safe'
  <2>1. PICK a \in Account : asked' = [asked EXCEPT ![f] = a]
    BY <1>1 DEF Start
  <2>2. /\ consent[f] = None
        /\ pending' = [Swept EXCEPT ![f] = now]
        /\ consent' = [consent EXCEPT ![f] = "starting"]
        /\ UNCHANGED <<cookie, req, exchanges, conn, told>>
    BY <1>1 DEF Start
  <2>3. /\ asked'[f] = a /\ \A g \in Flow : g # f => asked'[g] = asked[g]
        /\ consent'[f] # None /\ \A g \in Flow : g # f => consent'[g] = consent[g]
    BY <1>t, <2>1, <2>2 DEF None
  <2>4. \A g \in Flow : g # f => pending'[g] \in {pending[g], NoRow}
    BY <1>t, <2>2 DEF Swept
  <2>5. exchanges[f] = 0 /\ \A r \in Request : OfFlow(r) => req[r].flow # f
    BY <2>2 DEF Safe, Exchanged, Requests
  <2>6. \A b \in Account : conn[b] # f
    BY <2>2 DEF Safe, Filed
  <2>7. Requests'
    BY <2>2, <2>3, <2>5 DEF Safe, Requests, OfFlow
  <2>8. Redemptions'
    <3>1. \A r \in Request : req[r].pc = "redeemed" => req[r].flow \in Flow /\ req[r].flow # f
      BY <2>5 DEF Safe, Redemptions, OfFlow
    <3> QED
      BY <2>2, <2>4, <3>1 DEF Safe, Redemptions
  <2>9. Exchanged' /\ Named'
    BY <2>2, <2>3, <2>4, <2>5 DEF Safe, Exchanged, Named
  <2>10. Filed'
    BY <2>2, <2>3, <2>6 DEF Safe, Filed
  <2>11. Claimed'
    BY <2>2 DEF Safe, Claimed, Stored
  <2> QED
    BY <2>7, <2>8, <2>9, <2>10, <2>11 DEF Safe
<1>2. ASSUME NEW f \in Flow, Leave(f) \/ Consent(f) PROVE Safe'
  <2>1. \A g \in Flow : consent'[g] # None <=> consent[g] # None
    BY <1>2, <1>t DEF Leave, Consent, None
  <2> QED
    BY <1>2, <2>1, SafeWhenQuiet DEF Leave, Consent
<1>3. ASSUME NEW r \in Request, NEW f \in Flow, Return(r, f) PROVE Safe'
  <2>0. UNCHANGED <<asked, pending, consent, exchanges, conn>>
    BY <1>3 DEF Return
  <2>1. CASE UNCHANGED req /\ Tell(f, "nothing")
    <3>1. /\ \A g \in Flow : told[g] \subseteq told'[g]
          /\ \A g \in Flow : told'[g] \subseteq told[g] \cup {"nothing"}
      BY <1>c, <2>1, TellAdds
    <3> QED
      BY <2>0, <2>1, <3>1, SafeWhenQuiet
  <2>2. CASE Matches(f) /\ UNCHANGED told /\ ~UNCHANGED req
    <3>1. PICK d \in Drift :
            req' = [req EXCEPT ![r] =
              [pc |-> "posted", flow |-> f, account |-> asked[cookie],
               clock |-> now + d, declined |-> consent[f] = "declined", heard |-> TRUE]]
      BY <1>3, <2>2 DEF Return
    <3>2. consent[f] # None /\ cookie = f
      BY <1>3, <2>2 DEF Return, Matches, None
    <3>3. /\ req'[r].pc = "posted" /\ req'[r].flow = f /\ req'[r].account = asked[f]
          /\ req'[r].heard
          /\ \A s \in Request : s # r => req'[s] = req[s]
      BY <1>t, <3>1, <3>2
    <3>4. Requests'
      BY <2>0, <2>2, <3>2, <3>3 DEF Safe, Requests, OfFlow
    <3>5. Redemptions'
      BY <2>0, <3>3 DEF Safe, Redemptions
    <3> QED
      BY <2>0, <2>2, <3>4, <3>5 DEF Safe, Exchanged, Named, Filed, Claimed, Stored
  <2>3. CASE UNCHANGED <<req, told>>
    BY <2>0, <2>3, SafeWhenQuiet
  <2> QED
    BY <1>3, <2>1, <2>2, <2>3 DEF Return
(* A request ends and nothing is stored. *)
<1>e. ASSUME NEW r \in Request, req[r].pc # "idle",
             NEW claim \in Claim \ {"connected"}, Answer(r, claim),
             UNCHANGED <<asked, consent, exchanges, conn>>,
             \A f \in Flow : pending'[f] \in {pending[f], NoRow}
      PROVE  Safe'
  <2>1. /\ req' = [req EXCEPT ![r] = Idle]
        /\ \A g \in Flow : told[g] \subseteq told'[g]
        /\ \A g \in Flow : told'[g] \subseteq told[g] \cup {claim}
    BY <1>e, AnswerEnds
  <2>2. \A s \in Request : req'[s] \in {req[s], Idle}
    BY <1>t, <2>1
  <2> QED
    BY <1>e, <2>1, <2>2, SafeWhenQuiet
<1>4. ASSUME NEW r \in Request, Redeem(r) PROVE Safe'
  <2> DEFINE f == req[r].flow
  <2>1. req[r] \in Posted /\ req[r].pc = "posted" /\ f \in Flow
    BY <1>4, <1>r DEF Redeem, Posted
  <2>2. UNCHANGED <<asked, consent, exchanges, conn>>
    BY <1>4 DEF Redeem
  <2>3. \A g \in Flow : pending'[g] \in {pending[g], NoRow}
    BY <1>4, <1>t, <2>1 DEF Redeem, Redeemed
  <2>4. CASE Answer(r, "nothing")
    BY <1>c, <1>e, <2>1, <2>2, <2>3, <2>4
  <2>5. CASE ~Answer(r, "nothing")
    <3> DEFINE next == [pc |-> "redeemed", flow |-> f, heard |-> req[r].heard,
                        account |-> req[r].account]
    <3>1. /\ req' = [req EXCEPT ![r] = next] /\ UNCHANGED told
          /\ pending[f] # NoRow /\ pending' = [pending EXCEPT ![f] = NoRow]
      BY <1>4, <2>5 DEF Redeem, Redeemed
    <3>2. /\ next.pc = "redeemed" /\ next.flow = f /\ next.heard = req[r].heard
          /\ next.account = req[r].account
      OBVIOUS
    <3> HIDE DEF next
    <3>3. req'[r] = next /\ \A s \in Request : s # r => req'[s] = req[s]
      BY <1>t, <3>1
    <3>4. pending'[f] = NoRow /\ exchanges[f] = 0
      BY <1>t, <2>1, <3>1 DEF Safe, Exchanged
    <3>5. \A s \in Request : req[s].pc = "redeemed" => req[s].flow # f
      BY <3>1 DEF Safe, Redemptions
    <3>6. Requests'
      <4>1. OfFlow(r)
        BY <2>1 DEF OfFlow
      <4> QED
        BY <2>1, <2>2, <3>1, <3>2, <3>3, <4>1 DEF Safe, Requests, OfFlow
    <3>7. Redemptions'
      <4>1. \A s \in Request : req'[s].pc = "redeemed" =>
              /\ req'[s].flow \in Flow
              /\ exchanges'[req'[s].flow] = 0 /\ pending'[req'[s].flow] = NoRow
        <5> SUFFICES ASSUME NEW s \in Request, req'[s].pc = "redeemed"
                     PROVE  /\ req'[s].flow \in Flow
                            /\ exchanges'[req'[s].flow] = 0 /\ pending'[req'[s].flow] = NoRow
          OBVIOUS
        <5>1. CASE s = r
          BY <2>1, <2>2, <3>2, <3>3, <3>4, <5>1
        <5>2. CASE s # r
          BY <2>2, <2>3, <3>3, <5>2 DEF Safe, Redemptions
        <5> QED
          BY <5>1, <5>2
      <4> QED
        BY <3>2, <3>3, <3>5, <4>1 DEF Safe, Redemptions
    <3>8. Exchanged' /\ Named'
      BY <2>2, <2>3 DEF Safe, Exchanged, Named
    <3> QED
      BY <2>2, <3>1, <3>6, <3>7, <3>8 DEF Safe, Filed, Claimed, Stored
  <2> QED
    BY <2>4, <2>5
<1>5. ASSUME NEW r \in Request, RedeemUnanswered(r) PROVE Safe'
  <2>1. \A g \in Flow : pending'[g] \in {pending[g], NoRow}
    BY <1>5, <1>t DEF RedeemUnanswered, Redeemed
  <2> QED
    BY <1>5, <1>c, <1>e, <2>1 DEF RedeemUnanswered
<1>6. ASSUME NEW r \in Request, Exchange(r) PROVE Safe'
  <2> DEFINE f == req[r].flow
  <2>1. /\ req[r] \in Granted /\ req[r].pc = "redeemed" /\ f \in Flow
        /\ exchanges[f] = 0 /\ pending[f] = NoRow /\ consent[f] # None
    BY <1>6, <1>r DEF Exchange, Safe, Redemptions, Requests, OfFlow
  <2>2. /\ exchanges' = [exchanges EXCEPT ![f] = exchanges[f] + 1]
        /\ consent' = [consent EXCEPT ![f] = "spent"]
        /\ UNCHANGED <<asked, pending, conn>>
        /\ \/ req' = [req EXCEPT ![r].pc = "sealed"] /\ UNCHANGED <<told, cookie>>
           \/ Answer(r, "nothing")
           \/ Answer(r, "unsure")
    BY <1>6 DEF Exchange
  <2>3. /\ \A g \in Flow : g # f => exchanges'[g] = exchanges[g]
        /\ \A g \in Flow : consent'[g] # None <=> consent[g] # None
    BY <1>t, <2>1, <2>2 DEF None
  <2>4. /\ \A g \in Flow : told[g] \subseteq told'[g]
        /\ \A g \in Flow : told'[g] \subseteq told[g] \cup {"nothing", "unsure"}
    BY <1>c, <2>1, <2>2, AnswerEnds
  <2>5. /\ \A s \in Request : s # r => req'[s] = req[s]
        /\ req'[r].pc # "idle" =>
             /\ req'[r].pc = "sealed" /\ req'[r].flow = f
             /\ req'[r].account = req[r].account /\ req'[r].heard = req[r].heard
        /\ req'[r].pc # "redeemed"
    <3>1. CASE req' = [req EXCEPT ![r] = Idle]
      BY <1>t, <3>1 DEF Idle
    <3>2. CASE req' = [req EXCEPT ![r].pc = "sealed"]
      <4> DEFINE next == [req[r] EXCEPT !.pc = "sealed"]
      <4>1. /\ next.pc = "sealed" /\ next.flow = f /\ next.heard = req[r].heard
            /\ next.account = req[r].account
        BY <2>1 DEF Granted
      <4>2. req' = [req EXCEPT ![r] = next]
        BY <1>t, <3>2
      <4> HIDE DEF next, f
      <4> QED
        BY <1>t, <4>1, <4>2
    <3> QED
      BY <1>c, <2>1, <2>2, <3>1, <3>2, AnswerEnds
  <2>6. Requests'
    <3> SUFFICES ASSUME NEW s \in Request, OfFlow(s)'
                 PROVE  /\ consent'[req'[s].flow] # None
                        /\ req'[s].account = asked'[req'[s].flow]
                        /\ req'[s].heard \/ "unsure" \in told'[req'[s].flow]
      BY DEF Requests
    <3>1. OfFlow(s) /\ req'[s].flow = req[s].flow /\ req'[s].account = req[s].account
          /\ req'[s].heard = req[s].heard
      BY <2>1, <2>5 DEF OfFlow
    <3> QED
      BY <2>2, <2>3, <2>4, <3>1 DEF Safe, Requests, OfFlow
  <2>7. Redemptions'
    <3>1. \A s \in Request : req'[s].pc = "redeemed" =>
            /\ req'[s] = req[s] /\ s # r /\ req[s].flow \in Flow /\ req[s].flow # f
      BY <2>1, <2>5 DEF Safe, Redemptions
    <3> QED
      BY <2>2, <2>3, <3>1 DEF Safe, Redemptions
  <2>8. Exchanged' /\ Named'
    BY <2>1, <2>2, <2>3 DEF Safe, Exchanged, Named
  <2>9. Filed'
    BY <2>2, <2>3, <2>4 DEF Safe, Filed
  <2>10. Claimed'
    BY <2>2, <2>4 DEF Safe, Claimed, Stored
  <2> QED
    BY <2>6, <2>7, <2>8, <2>9, <2>10 DEF Safe
<1>7. ASSUME NEW r \in Request, Paste(r) PROVE Safe'
  <2>1. PICK a \in Account :
          req' = [req EXCEPT ![r] =
            [pc |-> "sealed", flow |-> Pasted, heard |-> TRUE, account |-> a]]
    BY <1>7 DEF Paste
  <2>2. /\ req'[r].flow \notin Flow /\ req'[r].pc = "sealed"
        /\ \A s \in Request : s # r => req'[s] = req[s]
    BY <1>t, <2>1
  <2>3. UNCHANGED <<asked, pending, consent, exchanges, conn, told>>
    BY <1>7 DEF Paste
  <2>4. Requests' /\ Redemptions'
    BY <2>2, <2>3 DEF Safe, Requests, Redemptions, OfFlow
  <2> QED
    BY <2>3, <2>4 DEF Safe, Exchanged, Named, Filed, Claimed, Stored
(* The row is inserted, and the request ends with a claim that allows it.  *)
<1>i. ASSUME NEW r \in Request, req[r].pc = "sealed", Free(req[r].account),
             conn' = Inserted(r), NEW claim \in {"connected", "retry"}, Answer(r, claim),
             UNCHANGED <<asked, pending, consent, exchanges>>
      PROVE  Safe'
  <2> DEFINE f == req[r].flow
             a == req[r].account
  <2>1. req[r] \in Granted /\ a \in Account /\ f \in Flow \cup {Pasted} /\ conn[a] = None
    BY <1>i, <1>r DEF Granted, Free
  <2>2. /\ req' = [req EXCEPT ![r] = Idle]
        /\ \A g \in Flow : told[g] \subseteq told'[g]
        /\ \A g \in Flow : told'[g] # told[g] => g = f
        /\ \A g \in Flow : told'[g] \subseteq told[g] \cup {claim}
        /\ req[r].heard /\ f \in Flow => claim \in told'[f]
    BY <1>i, <1>c, AnswerEnds
  <2>3. conn'[a] = f /\ \A b \in Account : b # a => conn'[b] = conn[b]
    BY <1>i, <1>t, <2>1 DEF Inserted
  <2>4. \A s \in Request : s # r => req'[s] = req[s]
    BY <1>t, <2>2
  <2>5. req'[r].pc = "idle"
    BY <1>t, <2>2 DEF Idle
  <2>6. Requests' /\ Redemptions'
    <3>1. Requests'
      BY <1>i, <2>2, <2>4, <2>5 DEF Safe, Requests, OfFlow
    <3>2. Redemptions'
      BY <1>i, <2>4, <2>5 DEF Safe, Redemptions
    <3> QED
      BY <3>1, <3>2
  <2>7. Exchanged' /\ Named'
    BY <1>i DEF Safe, Exchanged, Named
  <2>8. f \in Flow =>
          /\ consent[f] # None /\ asked[f] = a
          /\ told'[f] \cap {"connected", "retry", "unsure"} # {}
    BY <1>i, <2>1, <2>2 DEF Safe, Requests, OfFlow
  <2>9. Filed'
    <3> SUFFICES ASSUME NEW b \in Account, conn'[b] \in Flow
                 PROVE  /\ consent'[conn'[b]] # None
                        /\ asked'[conn'[b]] = b
                        /\ told'[conn'[b]] \cap {"connected", "retry", "unsure"} # {}
      BY DEF Filed
    <3>1. CASE b = a
      BY <1>i, <2>3, <2>8, <3>1
    <3>2. CASE b # a
      BY <1>i, <2>2, <2>3, <3>2 DEF Safe, Filed
    <3> QED
      BY <3>1, <3>2
  <2>10. Claimed'
    <3> SUFFICES ASSUME NEW g \in Flow, "connected" \in told'[g]
                 PROVE  \E b \in Account : conn'[b] = g
      BY DEF Claimed, Stored
    <3>1. CASE g = f
      BY <2>1, <2>3, <3>1
    <3>2. CASE g # f
      <4>1. PICK b \in Account : conn[b] = g
        BY <2>2, <3>2 DEF Safe, Claimed, Stored
      <4>2. b # a
        BY <2>1, <4>1
      <4> QED
        BY <2>3, <4>1, <4>2
    <3> QED
      BY <3>1, <3>2
  <2> QED
    BY <2>6, <2>7, <2>9, <2>10 DEF Safe
<1>8. ASSUME NEW r \in Request, Insert(r) PROVE Safe'
  <2>1. CASE writable /\ Free(req[r].account)
    BY <1>8, <1>i, <2>1 DEF Insert
  <2>2. CASE ~(writable /\ Free(req[r].account))
    BY <1>8, <1>c, <1>e, <2>2 DEF Insert
  <2> QED
    BY <2>1, <2>2
<1>9. ASSUME NEW r \in Request, InsertUnanswered(r) PROVE Safe'
  <2>1. CASE conn' = conn
    BY <1>9, <1>c, <1>e, <2>1 DEF InsertUnanswered
  <2>2. CASE conn' # conn
    BY <1>9, <1>i, <2>2 DEF InsertUnanswered
  <2> QED
    BY <2>1, <2>2
<1>10. ASSUME NEW r \in Request, HangUp(r) PROVE Safe'
  <2>1. /\ req[r].pc # "idle" /\ req[r].flow \in Flow \cup {Pasted}
        /\ req[r] \in Posted \cup Granted
    BY <1>10, <1>r, ReqTyped DEF HangUp
  <2>2. /\ \A g \in Flow : told[g] \subseteq told'[g]
        /\ \A g \in Flow : told'[g] \subseteq told[g] \cup {"unsure"}
        /\ req[r].flow \in Flow => "unsure" \in told'[req[r].flow]
    BY <1>10, <1>c, <2>1, TellAdds DEF HangUp
  <2>3. UNCHANGED <<asked, pending, consent, exchanges, conn>>
    BY <1>10 DEF HangUp
  <2>4. CASE req' = [req EXCEPT ![r] = Idle]
    <3>1. \A s \in Request : req'[s] \in {req[s], Idle}
      BY <1>t, <2>4
    <3> QED
      BY <2>2, <2>3, <3>1, SafeWhenQuiet
  <2>5. CASE req' = [req EXCEPT ![r].heard = FALSE]
    <3> DEFINE next == [req[r] EXCEPT !.heard = FALSE]
    <3>1. /\ next.pc = req[r].pc /\ next.flow = req[r].flow
          /\ next.account = req[r].account
      BY <2>1 DEF Posted, Granted
    <3>2. req' = [req EXCEPT ![r] = next]
      BY <1>t, <2>5
    <3> HIDE DEF next
    <3>3. req'[r] = next /\ \A s \in Request : s # r => req'[s] = req[s]
      BY <1>t, <3>2
    <3>4. Requests'
      <4> SUFFICES ASSUME NEW s \in Request, OfFlow(s)'
                   PROVE  /\ consent'[req'[s].flow] # None
                          /\ req'[s].account = asked'[req'[s].flow]
                          /\ req'[s].heard \/ "unsure" \in told'[req'[s].flow]
        BY DEF Requests
      <4>1. OfFlow(s) /\ req'[s].flow = req[s].flow /\ req'[s].account = req[s].account
        BY <3>1, <3>3 DEF OfFlow
      <4>2. s # r => req'[s].heard = req[s].heard
        BY <3>3
      <4> QED
        BY <2>2, <2>3, <4>1, <4>2 DEF Safe, Requests, OfFlow
    <3>5. Redemptions'
      <4>1. \A s \in Request : req'[s].pc = req[s].pc /\ req'[s].flow = req[s].flow
        BY <3>1, <3>3
      <4> QED
        BY <2>3, <4>1 DEF Safe, Redemptions
    <3>6. Filed'
      BY <2>2, <2>3 DEF Safe, Filed
    <3>7. Claimed'
      BY <2>2, <2>3 DEF Safe, Claimed, Stored
    <3> QED
      BY <2>3, <3>4, <3>5, <3>6, <3>7 DEF Safe, Exchanged, Named
  <2> QED
    BY <1>10, <2>4, <2>5 DEF HangUp
<1>11. CASE CookieExpires \/ Regrant \/ Tick \/ UNCHANGED vars
  BY <1>11, SafeWhenQuiet DEF CookieExpires, Regrant, Tick, vars
<1> QED
  BY <1>1, <1>2, <1>3, <1>4, <1>5, <1>6, <1>7, <1>8, <1>9, <1>10, <1>11 DEF Next

-----------------------------------------------------------------------------
(* The theorems. *)

(* The variables keep their types, of which one is that no code is         *)
(* presented to the provider twice, however often the customer reloads the *)
(* address they came back to and however many requests run together.       *)
THEOREM ConnectingTypes == Spec => []TypeOK
BY SafeInit, TypesKept, SafeKept, PTL DEF Spec

(* Every connection that came of an authorisation is filed under the       *)
(* account its customer named for that very authorisation, whatever two    *)
(* tabs did to their one cookie.                                           *)
THEOREM ConnectionsFiledAsAsked == Spec => []FiledAsAsked
<1>1. Safe => FiledAsAsked
  BY DEF Safe, Filed, FiledAsAsked
<1> QED
  BY <1>1, SafeInit, TypesKept, SafeKept, PTL DEF Spec

(* "connected" is said of a connection that is there, and a customer who   *)
(* heard nothing but that nothing was stored has no connection of that     *)
(* flow, although answers are lost and requests outlive their callers.     *)
THEOREM ScreensTellTheTruth == Spec => []ToldTruth
<1>1. Safe => ToldTruth
  BY DEF Safe, Filed, Claimed, ToldTruth, Stored
<1> QED
  BY <1>1, SafeInit, TypesKept, SafeKept, PTL DEF Spec

-----------------------------------------------------------------------------
(* What a connection rests on. *)

(* The customer agreed, and the code was presented, once. *)
Spent(f) == exchanges[f] = 1 /\ consent[f] = "spent"

(* A request carries what the customer decided from the return on, and     *)
(* only one that has exchanged a code has something to store.              *)
Earned ==
  /\ \A r \in Request :
       /\ req[r].pc = "posted" =>
            /\ consent[req[r].flow] \in {"code", "declined", "spent"}
            /\ consent[req[r].flow] = "declined" => req[r].declined
       /\ req[r].pc = "redeemed" => consent[req[r].flow] \in {"code", "spent"}
       /\ req[r].pc = "sealed" /\ req[r].flow \in Flow => Spent(req[r].flow)
  /\ \A f \in Flow : exchanges[f] # 0 => consent[f] = "spent"

GrantsEarned == \A a \in Account : conn[a] \in Flow => Spent(conn[a])

LEMMA EarnedWhenQuiet ==
  ASSUME TypeOK, Safe, Earned, GrantsEarned, UNCHANGED <<exchanges, conn>>,
         \A f \in Flow : consent[f] \in {"code", "declined", "spent"} =>
                          consent'[f] = consent[f],
         \A r \in Request :
           \/ req'[r] = Idle
           \/ /\ req'[r].pc = req[r].pc /\ req'[r].flow = req[r].flow
              /\ req[r].pc = "posted" => req'[r].declined = req[r].declined
  PROVE  Earned' /\ GrantsEarned'
<1>1. \A r \in Request :
        /\ req[r].pc = "posted" => req[r].flow \in Flow
        /\ req[r].pc = "redeemed" => req[r].flow \in Flow
  BY ReqTyped DEF Posted, Safe, Redemptions
<1> QED
  BY <1>1 DEF Earned, GrantsEarned, Spent, Idle

(* One request moves on, and nothing is stored. *)
LEMMA EarnedWhenMoved ==
  ASSUME TypeOK, Safe, Earned, GrantsEarned, NEW r \in Request, NEW state,
         req' = [req EXCEPT ![r] = state], UNCHANGED <<consent, exchanges, conn>>,
         /\ state.pc = "posted" =>
              /\ consent[state.flow] \in {"code", "declined", "spent"}
              /\ consent[state.flow] = "declined" => state.declined
         /\ state.pc = "redeemed" => consent[state.flow] \in {"code", "spent"}
         /\ state.pc = "sealed" /\ state.flow \in Flow => Spent(state.flow)
  PROVE  Earned' /\ GrantsEarned'
<1>1. req'[r] = state /\ \A s \in Request : s # r => req'[s] = req[s]
  BY DEF TypeOK
<1> QED
  BY <1>1 DEF Earned, GrantsEarned, Spent

LEMMA EarnedKept ==
  TypeOK /\ Safe /\ Earned /\ GrantsEarned /\ [Next]_vars => Earned' /\ GrantsEarned'
<1> SUFFICES ASSUME TypeOK, Safe, Earned, GrantsEarned, [Next]_vars
             PROVE  Earned' /\ GrantsEarned'
  OBVIOUS
<1>t. /\ consent \in [Flow -> {None, "starting", "screen", "code", "declined", "spent"}]
      /\ req \in [Request -> {Idle} \cup Posted \cup Granted]
      /\ exchanges \in [Flow -> 0 .. 1]
      /\ conn \in [Account -> Flow \cup {Pasted, None}]
  BY DEF TypeOK, Posted, Granted
<1>1. ASSUME NEW f \in Flow, Start(f) \/ Leave(f) \/ Consent(f)
      PROVE  Earned' /\ GrantsEarned'
  <2>1. UNCHANGED <<req, exchanges, conn>>
    BY <1>1 DEF Start, Leave, Consent
  <2>2. \A g \in Flow : consent[g] \in {"code", "declined", "spent"} =>
                         consent'[g] = consent[g]
    BY <1>1, <1>t DEF Start, Leave, Consent, None
  <2> QED
    BY <2>1, <2>2, EarnedWhenQuiet
<1>2. ASSUME NEW r \in Request, NEW f \in Flow, Return(r, f)
      PROVE  Earned' /\ GrantsEarned'
  <2>1. UNCHANGED <<consent, exchanges, conn>> /\ consent[f] \in {"code", "declined", "spent"}
    BY <1>2 DEF Return
  <2>2. CASE UNCHANGED req
    BY <2>1, <2>2, EarnedWhenQuiet
  <2>3. CASE ~UNCHANGED req
    <3>1. PICK d \in Drift :
            req' = [req EXCEPT ![r] =
              [pc |-> "posted", flow |-> f, account |-> asked[cookie],
               clock |-> now + d, declined |-> consent[f] = "declined", heard |-> TRUE]]
      BY <1>2, <2>3 DEF Return
    <3> DEFINE state == [pc |-> "posted", flow |-> f, account |-> asked[cookie],
                         clock |-> now + d, declined |-> consent[f] = "declined", heard |-> TRUE]
    <3>2. state.pc = "posted" /\ state.flow = f /\ (state.declined <=> consent[f] = "declined")
      OBVIOUS
    <3>3. req' = [req EXCEPT ![r] = state]
      BY <3>1
    <3> HIDE DEF state
    <3> QED
      BY <2>1, <3>2, <3>3, EarnedWhenMoved
  <2> QED
    BY <2>2, <2>3
(* A request ends and nothing is stored. *)
<1>e. ASSUME NEW r \in Request, NEW claim, Answer(r, claim), UNCHANGED <<consent, exchanges, conn>>
      PROVE  Earned' /\ GrantsEarned'
  BY <1>e, EarnedWhenMoved DEF Answer, Idle
<1>3. ASSUME NEW r \in Request, Redeem(r) \/ RedeemUnanswered(r)
      PROVE  Earned' /\ GrantsEarned'
  <2>1. UNCHANGED <<consent, exchanges, conn>> /\ req[r].pc = "posted"
    BY <1>3 DEF Redeem, RedeemUnanswered
  <2>2. CASE \E claim : Answer(r, claim)
    BY <1>e, <2>1, <2>2
  <2>3. CASE ~\E claim : Answer(r, claim)
    <3> DEFINE state == [pc |-> "redeemed", flow |-> req[r].flow, heard |-> req[r].heard,
                         account |-> req[r].account]
    <3>1. ~req[r].declined /\ req' = [req EXCEPT ![r] = state]
      BY <1>3, <2>3 DEF Redeem, RedeemUnanswered
    <3>2. consent[req[r].flow] \in {"code", "spent"}
      BY <2>1, <3>1 DEF Earned
    <3>3. state.pc = "redeemed" /\ state.flow = req[r].flow
      OBVIOUS
    <3> HIDE DEF state
    <3> QED
      BY <2>1, <3>1, <3>2, <3>3, EarnedWhenMoved
  <2> QED
    BY <2>2, <2>3
<1>4. ASSUME NEW r \in Request, Exchange(r) PROVE Earned' /\ GrantsEarned'
  <2> DEFINE f == req[r].flow
             state == [req[r] EXCEPT !.pc = "sealed"]
  <2>1. /\ req[r].pc = "redeemed" /\ f \in Flow /\ exchanges[f] = 0
        /\ req[r] \in Granted
    BY <1>4, ReqTyped DEF Exchange, Safe, Redemptions
  <2>2. /\ exchanges' = [exchanges EXCEPT ![f] = @ + 1]
        /\ consent' = [consent EXCEPT ![f] = "spent"]
        /\ UNCHANGED conn
    BY <1>4 DEF Exchange
  <2>3. /\ exchanges'[f] = 1 /\ consent'[f] = "spent"
        /\ \A g \in Flow \ {f} : consent'[g] = consent[g] /\ exchanges'[g] = exchanges[g]
    <3>1. exchanges'[f] = 1 /\ consent'[f] = "spent"
      BY <1>t, <2>1, <2>2
    <3>2. \A g \in Flow : g # f => consent'[g] = consent[g] /\ exchanges'[g] = exchanges[g]
      BY <1>t, <2>1, <2>2
    <3> QED
      BY <3>1, <3>2
  <2>4. /\ \A s \in Request : s # r => req'[s] = req[s]
        /\ req'[r] = Idle \/ (req'[r].pc = "sealed" /\ req'[r].flow = f)
    <3>1. req' = [req EXCEPT ![r] = state] \/ req' = [req EXCEPT ![r] = Idle]
      BY <1>4, <1>t DEF Exchange, Answer
    <3>2. state.pc = "sealed" /\ state.flow = f
      BY <2>1 DEF Granted
    <3> HIDE DEF state, f
    <3>3. CASE req' = [req EXCEPT ![r] = state]
      BY <1>t, <3>2, <3>3
    <3>4. CASE req' = [req EXCEPT ![r] = Idle]
      BY <1>t, <3>4
    <3> QED
      BY <3>1, <3>3, <3>4
  <2>5. \A s \in Request :
          /\ req[s].pc = "posted" => req[s].flow \in Flow
          /\ req[s].pc = "redeemed" => req[s].flow \in Flow
    BY ReqTyped DEF Posted, Safe, Redemptions
  <2> HIDE DEF f
  <2>6. \A g \in Flow : Spent(g) => Spent(g)'
    <3> SUFFICES ASSUME NEW g \in Flow, Spent(g) PROVE Spent(g)'
      OBVIOUS
    <3>1. g # f
      BY <2>1 DEF Spent
    <3> QED
      BY <2>3, <3>1 DEF Spent
  <2>7. Earned'
    <3>1. \A g \in Flow : exchanges'[g] # 0 => consent'[g] = "spent"
      BY <2>3 DEF Earned, Spent
    <3>2. ASSUME NEW s \in Request
          PROVE  /\ req'[s].pc = "posted" =>
                      /\ consent'[req'[s].flow] \in {"code", "declined", "spent"}
                      /\ consent'[req'[s].flow] = "declined" => req'[s].declined
                 /\ req'[s].pc = "redeemed" => consent'[req'[s].flow] \in {"code", "spent"}
                 /\ req'[s].pc = "sealed" /\ req'[s].flow \in Flow =>
                      exchanges'[req'[s].flow] = 1 /\ consent'[req'[s].flow] = "spent"
      <4>1. CASE s = r
        BY <2>3, <2>4, <4>1 DEF Idle
      <4>2. CASE s # r
        <5>1. req'[s] = req[s]
          BY <2>4, <4>2
        <5>2. CASE req[s].pc \in {"posted", "redeemed"}
          <6>1. req[s].flow \in Flow
            BY <2>5, <5>2
          <6>2. consent'[req[s].flow] \in {consent[req[s].flow], "spent"}
            BY <2>3, <6>1 DEF Spent
          <6> QED
            BY <5>1, <5>2, <6>2 DEF Earned
        <5>3. CASE req[s].pc \notin {"posted", "redeemed"}
          BY <2>6, <5>1, <5>3 DEF Earned, Spent
        <5> QED
          BY <5>2, <5>3
      <4> QED
        BY <4>1, <4>2
    <3> QED
      BY <3>1, <3>2 DEF Earned, Spent
  <2>8. GrantsEarned'
    BY <2>2, <2>6 DEF GrantsEarned
  <2> QED
    BY <2>7, <2>8
<1>5. ASSUME NEW r \in Request, Paste(r) PROVE Earned' /\ GrantsEarned'
  <2>1. PICK a \in Account :
          req' = [req EXCEPT ![r] =
            [pc |-> "sealed", flow |-> Pasted, heard |-> TRUE, account |-> a]]
    BY <1>5 DEF Paste
  <2> QED
    BY <1>5, <2>1, EarnedWhenMoved DEF Paste
<1>6. ASSUME NEW r \in Request, Insert(r) \/ InsertUnanswered(r)
      PROVE  Earned' /\ GrantsEarned'
  <2>1. /\ req[r].pc = "sealed" /\ UNCHANGED <<consent, exchanges>>
        /\ \E claim : Answer(r, claim)
        /\ conn' = conn \/ conn' = Inserted(r)
    BY <1>6 DEF Insert, InsertUnanswered
  <2>2. req' = [req EXCEPT ![r] = Idle]
    BY <2>1 DEF Answer
  <2>3. req'[r] = Idle /\ \A s \in Request : s # r => req'[s] = req[s]
    BY <1>t, <2>2
  <2>4. Earned'
    BY <2>1, <2>3 DEF Earned, Spent, Idle
  <2>5. \A a \in Account : conn'[a] = conn[a] \/ conn'[a] = req[r].flow
    BY <1>t, <2>1 DEF Inserted
  <2>6. GrantsEarned'
    BY <2>1, <2>5 DEF Earned, GrantsEarned, Spent
  <2> QED
    BY <2>4, <2>6
<1>7. ASSUME NEW r \in Request, HangUp(r) PROVE Earned' /\ GrantsEarned'
  <2> DEFINE state == [req[r] EXCEPT !.heard = FALSE]
  <2>1. /\ UNCHANGED <<consent, exchanges, conn>>
        /\ req' = [req EXCEPT ![r] = state] \/ req' = [req EXCEPT ![r] = Idle]
    BY <1>7 DEF HangUp
  <2>2. req[r] \in Posted \cup Granted
    BY <1>7, <1>t DEF HangUp
  <2>3. /\ state.pc = req[r].pc /\ state.flow = req[r].flow
        /\ req[r].pc = "posted" => state.declined = req[r].declined
    BY <2>2 DEF Posted, Granted
  <2> HIDE DEF state
  <2>4. \A s \in Request :
          \/ req'[s] = Idle
          \/ /\ req'[s].pc = req[s].pc /\ req'[s].flow = req[s].flow
             /\ req[s].pc = "posted" => req'[s].declined = req[s].declined
    BY <1>t, <2>1, <2>3
  <2> QED
    BY <2>1, <2>4, EarnedWhenQuiet
<1>8. CASE CookieExpires \/ Regrant \/ Tick \/ UNCHANGED vars
  BY <1>8, EarnedWhenQuiet DEF CookieExpires, Regrant, Tick, vars
<1> QED
  BY <1>1, <1>2, <1>3, <1>4, <1>5, <1>6, <1>7, <1>8 DEF Next

(* A connection that a flow has filed rests on the one exchange of its     *)
(* code: no consent that was declined, left on the screen or refused on    *)
(* its return has ever given one, whichever returns were repeated, hung up *)
(* on or left unanswered.                                                  *)
THEOREM ConnectionsRestOnAGrant == Spec => []GrantsEarned
<1>1. Init => Earned /\ GrantsEarned
  BY DEF Init, Earned, GrantsEarned, Idle, None
<1> QED
  BY <1>1, SafeInit, TypesKept, SafeKept, EarnedKept, PTL DEF Spec
=============================================================================
