----------------------------- MODULE Membership -----------------------------
(***************************************************************************)
(* Who belongs to an organisation: role changes and removals by its        *)
(* members, invitation links, and the erasure of the whole account.        *)
(*                                                                         *)
(* Every call is one PostgreSQL transaction at READ COMMITTED.  A policy   *)
(* is judged on the snapshot a statement began with; a trigger takes a     *)
(* fresh one, sees what its own transaction did and never what another has *)
(* not committed; row locks are held to the end.  A transaction is         *)
(* therefore several steps here, and those of different users interleave.  *)
(* Whatever raises, rolls back.                                            *)
(***************************************************************************)
EXTENDS Naturals, FiniteSets

CONSTANTS
  User,
  Role,        \* app.member_role: two of them have rights here
  Link,        \* invitations, all to one address
  Offer        \* the role each of them offers

None == "none"         \* not a member
Admins == {"owner", "admin"}

ASSUME MembershipAssumption ==
  /\ Admins \subseteq Role /\ None \notin Role
  /\ Offer \in [Link -> Role \ {"owner"}]

VARIABLES
  org,         \* the organisation's row exists
  role,        \* public.members
  link,        \* public.invitations, whoever holds the token
  joined,      \* who was admitted by each link
  told,        \* the role each member joined with, and then what the trail tells
  txn          \* the transaction of each user, one at a time

vars == <<org, role, link, joined, told, txn>>

Idle == [pc |-> "idle"]

TxnState ==
  {Idle}
  \cup [pc : {"asked", "written", "counted"},     \* manageMembership
        on : User, to : Role \cup {None},
        owned : BOOLEAN]            \* the actor has been an owner meanwhile
  \cup [pc : {"joining"}, on : Link]              \* accept_invitation
  \cup [pc : {"checked"}]                         \* delete_organisation
  \cup [pc : {"erasing"}, gone : SUBSET User]

(* The types, and that an erased organisation leaves nobody behind. *)
TypeOK ==
  /\ org \in BOOLEAN
  /\ role \in [User -> Role \cup {None}]
  /\ link \in [Link -> {"unsent", "open", "expired", "accepted", "revoked", "gone"}]
  /\ joined \in [Link -> SUBSET User]
  /\ told \in [User -> Role \cup {None, "broken"}]
  /\ txn \in [User -> TxnState]
  /\ ~org => \A u \in User : role[u] = None

(* create_organisation made somebody the owner; others joined since. *)
Init ==
  /\ org = TRUE
  /\ role \in {r \in [User -> Role \cup {None}] : \E u \in User : r[u] = "owner"}
  /\ link = [i \in Link |-> "unsent"]
  /\ joined = [i \in Link |-> {}]
  /\ told = role
  /\ txn = [u \in User |-> Idle]

-----------------------------------------------------------------------------
(* Locks and views. *)

In(u, pc) == txn[u].pc = pc

To(u, state) == txn' = [txn EXCEPT ![u] = state]

Raise(u) == To(u, Idle) /\ UNCHANGED <<org, role, link, joined, told>>

(* Who holds the row of t: who wrote it, or deleted it in a cascade. *)
RowHeldBy(t, v) ==
  \/ (In(v, "written") \/ In(v, "counted")) /\ txn[v].on = t
  \/ In(v, "erasing") /\ t \in txn[v].gone

RowHeld(t, u) == \E v \in User \ {u} : RowHeldBy(t, v)

(* The organisation's row, deleted and not committed: every insert that    *)
(* refers to it waits.                                                     *)
OrgHeld(u) == \E v \in User \ {u} : In(v, "erasing")

(* Mutant: select without `for update`. *)
LinkNeverHeld(i) == FALSE

LinkHeld(i) == \E v \in User : In(v, "joining") /\ txn[v].on = i

IsAdmin(u) == role[u] \in Admins

-----------------------------------------------------------------------------
(* Changing a role, or removing a member (to = None). *)

(* manageMembership sends the statement; the policy passes on its snapshot.*)
Ask(u) ==
  /\ In(u, "idle") /\ IsAdmin(u)
  /\ \E t \in {v \in User : role[v] # None}, to \in Role \cup {None} :
       To(u, [pc |-> "asked", on |-> t, to |-> to, owned |-> role[u] = "owner"])
  /\ UNCHANGED <<org, role, link, joined, told>>

(* Mutant: `<> 'owner'`, which is never true of a null. *)
MayChangeByInequality(u, t) == role[t] # "owner" \/ role[u] \in {"owner", None}

(* assert_owner_changed_only_by_owner: `is distinct from 'owner'`. *)
MayChange(u, t) == role[t] # "owner" \/ role[u] = "owner"

(* The row is locked as it is by now, and the BEFORE trigger runs. *)
Write(u) ==
  LET t == txn[u].on IN
  /\ In(u, "asked") /\ ~RowHeld(t, u)
  /\ IF role[t] # None /\ MayChange(u, t)
     THEN /\ To(u, [txn[u] EXCEPT !.pc = "written",
                                  !.owned = @ \/ role[u] = "owner"])
          /\ UNCHANGED <<org, role, link, joined, told>>
     ELSE Raise(u)

(* What u sees of its own change. *)
RoleSeenBy(u) == [role EXCEPT ![txn[u].on] = txn[u].to]

(* assert_organisation_keeps_an_owner. *)
Count(u) ==
  /\ In(u, "written")
  /\ IF \E t \in User : RoleSeenBy(u)[t] = "owner"
     THEN /\ To(u, [txn[u] EXCEPT !.pc = "counted"])
          /\ UNCHANGED <<org, role, link, joined, told>>
     ELSE Raise(u)

(* Mutant: the trigger is declared for updates alone. *)
FilesUpdate(from, to) == from # to /\ to # None

(* record_membership_event: a removal, or a role that is distinct. *)
Files(from, to) == from # to

(* Reading the trail: an event names the role before and the one after. *)
Told(t, from, to) ==
  IF ~Files(from, to) THEN told
  ELSE [told EXCEPT ![t] = IF @ = from THEN to ELSE "broken"]

(* The event's insert, if there is one, waits for an erasure under way;    *)
(* then the commit.                                                        *)
CommitChange(u) ==
  LET t == txn[u].on IN
  /\ In(u, "counted") /\ (Files(role[t], txn[u].to) => ~OrgHeld(u))
  /\ role' = RoleSeenBy(u)
  /\ told' = Told(t, role[t], txn[u].to)
  /\ To(u, Idle)
  /\ UNCHANGED <<org, link, joined>>

-----------------------------------------------------------------------------
(* Invitations. *)

(* createInvitation: one open invitation per organisation and address, and *)
(* one that has expired is still open to the unique index.                 *)
Invite(u, i) ==
  /\ IsAdmin(u) /\ ~OrgHeld(u)
  /\ link[i] = "unsent"
  /\ \A j \in Link : link[j] \notin {"open", "expired"}
  /\ link' = [link EXCEPT ![i] = "open"]
  /\ UNCHANGED <<org, role, joined, told, txn>>

Expire(i) ==
  /\ link[i] = "open"
  /\ link' = [link EXCEPT ![i] = "expired"]
  /\ UNCHANGED <<org, role, joined, told, txn>>

(* manageMembership, withdraw: a statement that looks again once it has    *)
(* the lock.                                                               *)
Withdraw(u, i) ==
  /\ IsAdmin(u) /\ ~LinkHeld(i)
  /\ link[i] \in {"open", "expired"}
  /\ link' = [link EXCEPT ![i] = "revoked"]
  /\ UNCHANGED <<org, role, joined, told, txn>>

(* accept_invitation, its first statement: select .. for update. *)
Accept(u, i) ==
  /\ In(u, "idle") /\ link[i] = "open" /\ ~LinkHeld(i)
  /\ To(u, [pc |-> "joining", on |-> i])
  /\ UNCHANGED <<org, role, link, joined, told>>

(* Its others: insert, or touch the row that is there, whose triggers then *)
(* run; the link is closed by its id.  An insert files no event: who reads *)
(* the trail starts with the role a member joined with, which the row has, *)
(* and follows the events from there.                                      *)
Join(u) ==
  LET i == txn[u].on IN
  /\ In(u, "joining") /\ ~RowHeld(u, u) /\ ~OrgHeld(u)
  /\ IF role[u] # None /\ \A t \in User : role[t] # "owner" THEN Raise(u)
     ELSE /\ role' = [role EXCEPT ![u] = IF @ = None THEN Offer[i] ELSE @]
          /\ told' = [told EXCEPT ![u] = IF role[u] = None THEN Offer[i] ELSE @]
          /\ link' = [link EXCEPT ![i] = "accepted"]
          /\ joined' = [joined EXCEPT ![i] = @ \cup {u}]
          /\ To(u, Idle)
          /\ UNCHANGED org

-----------------------------------------------------------------------------
(* delete_organisation. *)

(* An owner, the name typed exactly, no live subscription (Billing). *)
CheckErase(u) ==
  /\ In(u, "idle") /\ role[u] = "owner"
  /\ To(u, [pc |-> "checked"])
  /\ UNCHANGED <<org, role, link, joined, told>>

(* The one statement; it finds nothing after another erasure. *)
Erase(u) ==
  /\ In(u, "checked") /\ ~OrgHeld(u)
  /\ To(u, IF org THEN [pc |-> "erasing", gone |-> {}] ELSE Idle)
  /\ UNCHANGED <<org, role, link, joined, told>>

(* Mutant: the key of the actor's own row has no `on delete cascade`. *)
CascadedToOthers(u) == {t \in User : role[t] # None} \ {u}

Cascaded(u) == {t \in User : role[t] # None}

(* The cascade deletes the members row by row, in no particular order, and *)
(* the BEFORE trigger runs for each: it sees the rows that are gone, the   *)
(* actor's own included.                                                   *)
EraseMember(u, t) ==
  LET roleOfActor == IF u \in txn[u].gone THEN None ELSE role[u] IN
  /\ In(u, "erasing") /\ t \in Cascaded(u) \ txn[u].gone
  /\ ~RowHeld(t, u)
  /\ IF role[t] = "owner" /\ roleOfActor # "owner" THEN Raise(u)
     ELSE /\ To(u, [txn[u] EXCEPT !.gone = @ \cup {t}])
          /\ UNCHANGED <<org, role, link, joined, told>>

(* The invitations go too, and the transaction commits. *)
CommitErase(u) ==
  /\ In(u, "erasing") /\ Cascaded(u) \subseteq txn[u].gone
  /\ \A i \in Link : ~LinkHeld(i)
  /\ org' = FALSE
  /\ role' = [t \in User |-> IF t \in txn[u].gone THEN None ELSE role[t]]
  /\ told' = role'
  /\ link' = [i \in Link |-> "gone"]
  /\ To(u, Idle)
  /\ UNCHANGED joined

-----------------------------------------------------------------------------
(* PostgreSQL: one of those that wait for each other is rolled back. *)

WaitsFor(u, v) ==
  /\ u # v
  /\ \/ In(u, "asked") /\ RowHeldBy(txn[u].on, v)
     \/ In(u, "joining") /\ RowHeldBy(u, v)
     \/ (In(u, "joining") \/ In(u, "checked")) /\ In(v, "erasing")
     \/ In(u, "counted") /\ Files(role[txn[u].on], txn[u].to) /\ In(v, "erasing")
     \/ In(u, "erasing") /\ \E t \in User : t \notin txn[u].gone /\ RowHeldBy(t, v)
     \/ In(u, "erasing") /\ In(v, "joining")

Deadlocked(u) ==
  \E S \in SUBSET User : u \in S /\ \A v \in S : \E w \in S : WaitsFor(v, w)

DeadlockVictim(u) == Deadlocked(u) /\ Raise(u)

Next ==
  \/ \E u \in User :
       \/ Ask(u) \/ Write(u) \/ Count(u) \/ CommitChange(u)
       \/ Join(u)
       \/ CheckErase(u) \/ Erase(u) \/ CommitErase(u)
       \/ \E t \in User : EraseMember(u, t)
       \/ DeadlockVictim(u)
  \/ \E u \in User, i \in Link : Invite(u, i) \/ Withdraw(u, i) \/ Accept(u, i)
  \/ \E i \in Link : Expire(i)

Spec == Init /\ [][Next]_vars

-----------------------------------------------------------------------------
(* Properties. *)

(* A link admits one user at most, and none once it is withdrawn, however  *)
(* many present its token at once.                                         *)
LinkAdmitsOnce ==
  \A i \in Link :
    /\ Cardinality(joined[i]) <= 1
    /\ link[i] = "revoked" => joined[i] = {}

(* "Either both happened or neither did": who follows the security trail   *)
(* from the role each member joined with arrives at the role they have, or *)
(* at their removal, whatever changes, removals and erasures overlapped.   *)
TrailTellsRoles == told = role

(* An owner is demoted or removed only by somebody who has been an owner   *)
(* while doing it: never by an admin, nor by one who was removed while the *)
(* statement waited.                                                       *)
OwnersFallByOwners ==
  [][\A t \in User : role[t] = "owner" /\ role'[t] # "owner" /\ org' =>
       \E u \in User : In(u, "counted") /\ txn[u].on = t /\ txn[u].owned]_vars

(* "An organisation must keep at least one owner." *)
KeepsAnOwner == org => \E u \in User : role[u] = "owner"

(* An owner who has confirmed an erasure is not refused it by the guard of *)
(* the members table: "refusing that cascade would make an organisation    *)
(* undeletable".                                                           *)
ErasureGoesThrough ==
  [][\A u \in User : In(u, "erasing") /\ role[u] = "owner" /\ txn'[u] = Idle =>
       ~org' \/ Deadlocked(u)]_vars
=============================================================================
