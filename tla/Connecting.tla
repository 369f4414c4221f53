----------------------------- MODULE Connecting -----------------------------
(***************************************************************************)
(* How a connection comes to be: the OAuth detour (start, consent screen,  *)
(* return, redemption, exchange, insert) and the credential a customer     *)
(* pastes.                                                                 *)
(*                                                                         *)
(* One customer, one workspace (the row of a flow names it, and nothing    *)
(* rewrites the row) and one provider; one browser with several tabs,      *)
(* hence one context cookie; the edge; the database.  A return may be sent *)
(* twice (a reload), answers are lost between any two of them, an edge     *)
(* request may die anywhere, and the customer may lose the right to write  *)
(* meanwhile.                                                              *)
(***************************************************************************)
EXTENDS Integers, FiniteSets

CONSTANTS
  Flow,        \* authorisations, each with a state and a code_verifier
  Request,     \* requests to the edge at a time
  Account,     \* external_account_id
  TTL,         \* PENDING_TTL_MS
  SweepAge,    \* one hour
  Drift,       \* by how much the edge's clock differs from the database's
  MaxTime      \* bound on the clock

None == "none"
Pasted == "pasted"      \* in the place of a flow: a typed credential
Idle == [pc |-> "idle"]
NoRow == -1

ASSUME ConnectingAssumption ==
  /\ {None, Pasted} \cap Flow = {}
  /\ TTL \in Nat /\ SweepAge \in Nat /\ MaxTime \in Nat
  /\ Drift \subseteq Int

VARIABLES
  now,         \* the database's clock
  writable,    \* app.can_write_workspace() for the customer
  asked,       \* the account each flow was started for
  pending,     \* public.oauth_authorizations: when each row was written
  cookie,      \* connect_oauth_context: the flow it is for
  consent,     \* each flow at the provider
  req,         \* the edge's requests
  exchanges,   \* how often each flow's code was presented
  conn,        \* public.connections, by its unique key
  told         \* what the screen claimed at the end of each flow

vars == <<now, writable, asked, pending, cookie, consent, req,
          exchanges, conn, told>>

(* The classes of message: connected; refused and nothing stored; the      *)
(* database could not be reached (store_unavailable); nobody knows.        *)
Claim == {"connected", "nothing", "retry", "unsure"}

(* An exchange happens once: a type of `exchanges` that says so. *)
TypeOK ==
  /\ now \in 0 .. MaxTime /\ writable \in BOOLEAN
  /\ asked \in [Flow -> Account \cup {None}]
  /\ pending \in [Flow -> 0 .. MaxTime \cup {NoRow}]
  /\ cookie \in Flow \cup {None}
  /\ consent \in [Flow -> {None, "starting", "screen", "code", "declined", "spent"}]
  /\ req \in [Request ->
       {Idle}
       \cup [pc : {"posted"}, flow : Flow, account : Account, clock : Int,
             declined : BOOLEAN, heard : BOOLEAN]
       \cup [pc : {"redeemed", "sealed"}, flow : Flow \cup {Pasted},
             account : Account, heard : BOOLEAN]]
  /\ exchanges \in [Flow -> 0 .. 1]
  /\ conn \in [Account -> Flow \cup {Pasted, None}]
  /\ told \in [Flow -> SUBSET Claim]

Init ==
  /\ now = 0 /\ writable = TRUE
  /\ asked = [f \in Flow |-> None]
  /\ pending = [f \in Flow |-> NoRow]
  /\ cookie = None
  /\ consent = [f \in Flow |-> None]
  /\ req = [r \in Request |-> Idle]
  /\ exchanges = [f \in Flow |-> 0]
  /\ conn = [a \in Account |-> None]
  /\ told = [f \in Flow |-> {}]

-----------------------------------------------------------------------------
(* The start leg. *)

Swept == [f \in Flow |-> IF pending[f] < now - SweepAge THEN NoRow ELSE pending[f]]

(* beginAuthorization, handleOAuthStart and start_oauth_authorization, up  *)
(* to the row; when the database refuses, nothing has happened.            *)
Start(f) ==
  /\ consent[f] = None /\ writable
  /\ \E a \in Account : asked' = [asked EXCEPT ![f] = a]
  /\ pending' = [Swept EXCEPT ![f] = now]
  /\ consent' = [consent EXCEPT ![f] = "starting"]
  /\ UNCHANGED <<now, writable, cookie, req, exchanges, conn, told>>

(* The answer reaches the browser: one cookie, whatever it held, and off   *)
(* to the consent screen.                                                  *)
Leave(f) ==
  /\ consent[f] = "starting"
  /\ cookie' = f
  /\ consent' = [consent EXCEPT ![f] = "screen"]
  /\ UNCHANGED <<now, writable, asked, pending, req, exchanges, conn, told>>

(* The cookie expires at createdAt + PENDING_TTL_MS (and, once the row is  *)
(* redeemed and the cookie of no more use, whenever it likes).             *)
CookieExpires ==
  /\ cookie # None /\ pending[cookie] + TTL <= now
  /\ cookie' = None
  /\ UNCHANGED <<now, writable, asked, pending, consent, req, exchanges, conn, told>>

(* The customer decides. *)
Consent(f) ==
  /\ consent[f] = "screen"
  /\ \E c \in {"code", "declined"} : consent' = [consent EXCEPT ![f] = c]
  /\ UNCHANGED <<now, writable, asked, pending, cookie, req, exchanges, conn, told>>

-----------------------------------------------------------------------------
(* The return leg. *)

Tell(f, claim) ==
  IF f \in Flow THEN told' = [told EXCEPT ![f] = @ \cup {claim}] ELSE UNCHANGED told

(* Mutant: whatever cookie there is. *)
MatchesAny(f) == cookie # None

(* context.state = state *)
Matches(f) == cookie = f

(* callbackDecision refuses, or posts the account of the cookie with the   *)
(* state of the address bar.  `back` deletes the cookie on every path.     *)
Return(r, f) ==
  /\ consent[f] \in {"code", "declined", "spent"} /\ req[r] = Idle
  /\ \/ /\ Matches(f)
        /\ \E d \in Drift :
             req' = [req EXCEPT ![r] =
               [pc |-> "posted", flow |-> f, account |-> asked[cookie],
                clock |-> now + d, declined |-> consent[f] = "declined",
                heard |-> TRUE]]
        /\ UNCHANGED <<cookie, told>>
     \/ \* not signed in, no cookie, or another flow's
        /\ Tell(f, "nothing")
        /\ cookie' = None
        /\ UNCHANGED req
  /\ UNCHANGED <<now, writable, asked, pending, consent, exchanges, conn>>

(* The end of a request; the screen hears of it if it still listens. *)
Answer(r, claim) ==
  /\ req' = [req EXCEPT ![r] = Idle]
  /\ IF req[r].heard
     THEN /\ Tell(req[r].flow, claim)
          /\ cookie' = IF req[r].flow \in Flow THEN None ELSE cookie
     ELSE UNCHANGED <<told, cookie>>

(* Mutant: a select. *)
RedeemedKept(f) == pending

(* delete ... returning *)
Redeemed(f) == [pending EXCEPT ![f] = NoRow]

InTime(r) == req[r].clock - pending[req[r].flow] \in 0 .. TTL

(* redeem, then verifyCallback on what it returned. *)
Redeem(r) ==
  /\ req[r].pc = "posted"
  /\ LET f == req[r].flow IN
     IF pending[f] # NoRow /\ writable
     THEN /\ pending' = Redeemed(f)
          /\ IF ~req[r].declined /\ InTime(r)
             THEN /\ req' = [req EXCEPT ![r] =
                       [pc |-> "redeemed", flow |-> f, heard |-> req[r].heard,
                        account |-> req[r].account]]
                  /\ UNCHANGED <<told, cookie>>
             ELSE Answer(r, "nothing")
     ELSE Answer(r, "nothing") /\ UNCHANGED pending
  /\ UNCHANGED <<now, writable, asked, consent, exchanges, conn>>

(* The row is deleted and the answer lost, or the call never arrived. *)
RedeemUnanswered(r) ==
  /\ req[r].pc = "posted"
  /\ pending' \in {pending, IF writable THEN Redeemed(req[r].flow) ELSE pending}
  /\ Answer(r, "retry")
  /\ UNCHANGED <<now, writable, asked, consent, exchanges, conn>>

(* exchangeCode, and the checks of connect() before it seals: the provider *)
(* refuses the code or issues too little, or there is a grant to store.    *)
Exchange(r) ==
  /\ req[r].pc = "redeemed"
  /\ LET f == req[r].flow IN
     /\ exchanges' = [exchanges EXCEPT ![f] = @ + 1]
     /\ consent' = [consent EXCEPT ![f] = "spent"]
     /\ \/ /\ consent[f] = "code"
           /\ req' = [req EXCEPT ![r].pc = "sealed"]
           /\ UNCHANGED <<told, cookie>>
        \/ \* an error, no refresh token, a missing scope, no key to seal with
           Answer(r, "nothing")
        \/ \* the call to the provider throws, which nothing here catches
           Answer(r, "unsure")
  /\ UNCHANGED <<now, writable, asked, pending, conn>>

-----------------------------------------------------------------------------
(* The insert, which both doors share. *)

(* createConnection and handleConnect, up to the insert; what they refuse  *)
(* leaves nothing.                                                         *)
Paste(r) ==
  /\ req[r] = Idle
  /\ \E a \in Account :
       req' = [req EXCEPT ![r] =
         [pc |-> "sealed", flow |-> Pasted, heard |-> TRUE, account |-> a]]
  /\ UNCHANGED <<now, writable, asked, pending, cookie, consent, exchanges,
                 conn, told>>

(* Mutant: the upsert its name promises. *)
FreeAlways(a) == TRUE

(* unique (workspace_id, provider, external_account_id) *)
Free(a) == conn[a] = None

Inserted(r) == [conn EXCEPT ![req[r].account] = req[r].flow]

(* connections_insert refuses (forbidden), the key refuses                 *)
(* (already_connected), or the row is there.                               *)
Insert(r) ==
  /\ req[r].pc = "sealed"
  /\ IF writable /\ Free(req[r].account)
     THEN conn' = Inserted(r) /\ Answer(r, "connected")
     ELSE Answer(r, "nothing") /\ UNCHANGED conn
  /\ UNCHANGED <<now, writable, asked, pending, consent, exchanges>>

InsertUnanswered(r) ==
  /\ req[r].pc = "sealed"
  /\ conn' \in {conn, IF writable /\ Free(req[r].account) THEN Inserted(r) ELSE conn}
  /\ Answer(r, "retry")
  /\ UNCHANGED <<now, writable, asked, pending, consent, exchanges>>

-----------------------------------------------------------------------------
(* What may happen at any moment. *)

(* The web's call to the edge fails; the edge goes on, or it has died. *)
HangUp(r) ==
  /\ req[r] # Idle /\ req[r].heard
  /\ Tell(req[r].flow, "unsure")
  /\ cookie' = IF req[r].flow \in Flow THEN None ELSE cookie
  /\ req' \in {[req EXCEPT ![r].heard = FALSE], [req EXCEPT ![r] = Idle]}
  /\ UNCHANGED <<now, writable, asked, pending, consent, exchanges, conn>>

(* Somebody changes the customer's grant on the workspaces. *)
Regrant ==
  /\ writable' = ~writable
  /\ UNCHANGED <<now, asked, pending, cookie, consent, req, exchanges, conn, told>>

Tick ==
  /\ now < MaxTime /\ now' = now + 1
  /\ UNCHANGED <<writable, asked, pending, cookie, consent, req, exchanges, conn, told>>

Next ==
  \/ \E f \in Flow : Start(f) \/ Leave(f) \/ Consent(f)
  \/ \E r \in Request :
       \/ \E f \in Flow : Return(r, f)
       \/ Redeem(r) \/ RedeemUnanswered(r) \/ Exchange(r)
       \/ Paste(r) \/ Insert(r) \/ InsertUnanswered(r) \/ HangUp(r)
  \/ CookieExpires \/ Regrant \/ Tick

Spec == Init /\ [][Next]_vars

-----------------------------------------------------------------------------
(* Properties. *)

(* A connection is filed under the account its customer named when they    *)
(* started that very flow, whatever two tabs did to their one cookie and   *)
(* in whatever order they came back.                                       *)
FiledAsAsked == \A a \in Account : conn[a] \in Flow => asked[conn[a]] = a

(* What the screen said is true when the flow has settled: after           *)
(* "connected" the connection is the one of this flow, and a flow whose    *)
(* every message was that nothing was stored left nothing.                 *)
Settled(f) == \A r \in Request : req[r] # Idle => req[r].flow # f

Stored(f) == \E a \in Account : conn[a] = f

ToldTruth ==
  \A f \in Flow :
    /\ "connected" \in told[f] => Stored(f)
    /\ Settled(f) /\ told[f] = {"nothing"} => ~Stored(f)

(* "store_unavailable means the database could not be reached and the      *)
(* authorisation is still good."                                           *)
RetryIsPossible ==
  \A f \in Flow : "retry" \in told[f] => pending[f] # NoRow
=============================================================================
