-------------------------- MODULE MembershipProofs --------------------------
(***************************************************************************)
(* Theorems about Membership, for every set of users, of roles and of      *)
(* links.                                                                  *)
(*                                                                         *)
(* What the calls rely on is who holds which lock.  A row of the members   *)
(* table is held by one transaction at a time, so the role read when the   *)
(* row was locked is the role it has at the commit; one transaction at a   *)
(* time holds an invitation, which is open until that one has closed it;   *)
(* one erases.  An erasure that commits holds the row of every member, so  *)
(* nobody else is left in the middle of a change.                          *)
(***************************************************************************)
EXTENDS Membership, FiniteSetTheorems, TLAPS

-----------------------------------------------------------------------------
(* The invariant. *)

(* A row of the members table has one holder. *)
RowsExclusive ==
  \A t, v, w \in User : RowHeldBy(t, v) /\ RowHeldBy(t, w) => v = w

(* A row held for a change is a member's, and an owner's only for somebody *)
(* who has been an owner meanwhile.                                        *)
RowsRead ==
  \A u \in User : In(u, "written") \/ In(u, "counted") =>
    /\ role[txn[u].on] # None
    /\ role[txn[u].on] = "owner" => txn[u].owned

(* An organisation is erased by one transaction at a time. *)
OneErases == \A u, v \in User : In(u, "erasing") /\ In(v, "erasing") => u = v

(* An invitation being accepted has one holder and is not closed. *)
LinksExclusive ==
  \A u \in User : In(u, "joining") =>
    /\ link[txn[u].on] \in {"open", "expired"}
    /\ \A v \in User : In(v, "joining") /\ txn[v].on = txn[u].on => v = u

(* Who was admitted by a link closed it. *)
LinksUsed ==
  \A i \in Link :
    \/ joined[i] = {}
    \/ link[i] \in {"accepted", "gone"} /\ \E u \in User : joined[i] = {u}

(* Once the organisation is gone, no link is left and nothing is under way *)
(* that could bring a member back.                                         *)
NothingUnderWay ==
  ~org =>
    /\ \A i \in Link : link[i] = "gone"
    /\ \A u \in User : /\ ~In(u, "written") /\ ~In(u, "counted")
                       /\ ~In(u, "joining") /\ ~In(u, "erasing")

Locks == RowsExclusive /\ RowsRead /\ OneErases /\ LinksExclusive

Safe == Locks /\ LinksUsed /\ NothingUnderWay /\ TrailTellsRoles

-----------------------------------------------------------------------------
(* Transactions. *)

LEMMA Shapes ==
  ASSUME TypeOK, NEW u \in User
  PROVE  /\ In(u, "asked") \/ In(u, "written") \/ In(u, "counted") =>
              /\ txn[u].on \in User
              /\ txn[u].to \in Role \cup {None}
              /\ txn[u].owned \in BOOLEAN
         /\ In(u, "joining") => txn[u].on \in Link
         /\ In(u, "erasing") => txn[u].gone \in SUBSET User
  <1>1. txn[u] \in TxnState
    BY DEF TypeOK
  <1> QED
    BY <1>1 DEF TxnState, Idle, In

LEMMA ChangeShape ==
  ASSUME NEW pc \in {"asked", "written", "counted"}, NEW t \in User,
         NEW to \in Role \cup {None}, NEW owned \in BOOLEAN
  PROVE  [pc |-> pc, on |-> t, to |-> to, owned |-> owned] \in TxnState
  BY DEF TxnState

LEMMA OneMoves ==
  ASSUME TypeOK, NEW u \in User, NEW s \in TxnState, To(u, s)
  PROVE  /\ txn' \in [User -> TxnState]
         /\ txn'[u] = s
         /\ \A v \in User \ {u} : txn'[v] = txn[v]
  BY DEF TypeOK, To

LEMMA IdleIsState == Idle \in TxnState /\ Idle.pc = "idle"
  BY DEF TxnState, Idle

(* A step that leaves the tables alone, and its transaction without locks. *)
LEMMA SafeWithoutLocks ==
  ASSUME TypeOK, Safe, NEW u \in User, NEW s \in TxnState, To(u, s),
         s.pc \in {"idle", "asked", "checked"},
         UNCHANGED <<org, role, link, joined, told>>
  PROVE  TypeOK' /\ Safe'
  <1>1. /\ txn' \in [User -> TxnState]
        /\ txn'[u] = s
        /\ \A v \in User \ {u} : txn'[v] = txn[v]
    BY OneMoves
  <1>2. TypeOK'
    BY <1>1 DEF TypeOK
  <1>3. RowsExclusive'
    BY <1>1 DEF Safe, Locks, RowsExclusive, RowHeldBy, In
  <1>4. RowsRead'
    BY <1>1 DEF Safe, Locks, RowsRead, In
  <1>5. OneErases' /\ LinksExclusive'
    BY <1>1 DEF Safe, Locks, OneErases, LinksExclusive, In
  <1>6. LinksUsed' /\ TrailTellsRoles'
    BY DEF Safe, LinksUsed, TrailTellsRoles
  <1>7. NothingUnderWay'
    BY <1>1 DEF Safe, NothingUnderWay, In
  <1> QED
    BY <1>2, <1>3, <1>4, <1>5, <1>6, <1>7 DEF Safe, Locks

LEMMA RaiseSafe ==
  ASSUME TypeOK, Safe, NEW u \in User, Raise(u)
  PROVE  TypeOK' /\ Safe'
  BY IdleIsState, SafeWithoutLocks DEF Raise

(* An admission or a change of role leaves the rows others hold alone. *)
LEMMA OthersKeepTheirRows ==
  ASSUME TypeOK, Safe, NEW u \in User, NEW t \in User, NEW new \in Role \cup {None},
         ~RowHeld(t, u), role' = [role EXCEPT ![t] = new],
         To(u, Idle)
  PROVE  /\ txn' \in [User -> TxnState]
         /\ RowsExclusive' /\ RowsRead' /\ OneErases'
  <1>1. /\ txn' \in [User -> TxnState]
        /\ txn'[u] = Idle
        /\ \A v \in User \ {u} : txn'[v] = txn[v]
    BY IdleIsState, OneMoves
  <1>2. RowsExclusive'
    BY <1>1 DEF Safe, Locks, RowsExclusive, RowHeldBy, In, Idle
  <1>3. OneErases'
    BY <1>1 DEF Safe, Locks, OneErases, In, Idle
  <1>4. ASSUME NEW v \in User, In(v, "written")' \/ In(v, "counted")'
        PROVE  /\ role'[txn'[v].on] # None
               /\ role'[txn'[v].on] = "owner" => txn'[v].owned
    <2>1. v # u /\ txn'[v] = txn[v] /\ (In(v, "written") \/ In(v, "counted"))
      BY <1>1, <1>4 DEF In, Idle
    <2>2. txn[v].on # t
      BY <2>1 DEF RowHeld, RowHeldBy
    <2>3. txn[v].on \in User
      BY <2>1, Shapes
    <2>4. role'[txn[v].on] = role[txn[v].on]
      BY <2>2, <2>3 DEF TypeOK
    <2> QED
      BY <2>1, <2>4 DEF Safe, Locks, RowsRead
  <1>5. RowsRead'
    BY <1>4 DEF RowsRead
  <1> QED
    BY <1>1, <1>2, <1>3, <1>5

-----------------------------------------------------------------------------
(* Changing a role, or removing a member. *)

LEMMA AskSafe ==
  ASSUME TypeOK, Safe, NEW u \in User, Ask(u)
  PROVE  TypeOK' /\ Safe'
  <1>1. PICK t \in User, to \in Role \cup {None} :
          To(u, [pc |-> "asked", on |-> t, to |-> to, owned |-> role[u] = "owner"])
    BY DEF Ask
  <1> DEFINE s == [pc |-> "asked", on |-> t, to |-> to, owned |-> role[u] = "owner"]
  <1>2. s \in TxnState /\ s.pc = "asked"
    BY ChangeShape
  <1>3. UNCHANGED <<org, role, link, joined, told>>
    BY DEF Ask
  <1> QED
    BY <1>1, <1>2, <1>3, SafeWithoutLocks

LEMMA WriteSafe ==
  ASSUME TypeOK, Safe, NEW u \in User, Write(u)
  PROVE  TypeOK' /\ Safe'
  <1> DEFINE t == txn[u].on
             s == [pc |-> "written", on |-> t, to |-> txn[u].to,
                   owned |-> txn[u].owned \/ role[u] = "owner"]
  <1>1. In(u, "asked") /\ ~RowHeld(t, u)
    BY DEF Write
  <1>2. t \in User /\ txn[u].to \in Role \cup {None} /\ txn[u].owned \in BOOLEAN
    BY <1>1, Shapes
  <1>3. CASE ~(role[t] # None /\ MayChange(u, t))
    <2>1. Raise(u)
      BY <1>3 DEF Write
    <2> QED
      BY <2>1, RaiseSafe
  <1>4. CASE role[t] # None /\ MayChange(u, t)
    <2>1. s \in TxnState /\ s.pc = "written" /\ s.on = t
      BY <1>2, ChangeShape
    <2>2. [txn[u] EXCEPT !.pc = "written", !.owned = @ \/ role[u] = "owner"] = s
      <3>1. txn[u] \in TxnState
        BY DEF TypeOK
      <3>2. txn[u] = [pc |-> "asked", on |-> t, to |-> txn[u].to, owned |-> txn[u].owned]
        BY <1>1, <3>1 DEF In, TxnState, Idle
      <3> DEFINE m == [txn[u] EXCEPT !.pc = "written"]
                 since == txn[u].owned \/ role[u] = "owner"
      <3>3. m = [pc |-> "written", on |-> t, to |-> txn[u].to, owned |-> txn[u].owned]
        BY <3>2
      <3>4. [m EXCEPT !.owned = since]
              = [pc |-> "written", on |-> t, to |-> txn[u].to, owned |-> since]
        <4> HIDE DEF m, since
        <4> QED
          BY <3>3
      <3>5. m.owned = txn[u].owned
        BY <3>3
      <3> QED
        BY <3>4, <3>5
    <2>3. To(u, s) /\ UNCHANGED <<org, role, link, joined, told>>
      BY <1>4, <2>2 DEF Write
    <2>4. s.owned <=> txn[u].owned \/ role[u] = "owner"
      OBVIOUS
    <2> HIDE DEF s
    <2>5. /\ txn' \in [User -> TxnState]
          /\ txn'[u] = s
          /\ \A v \in User \ {u} : txn'[v] = txn[v]
      BY <2>1, <2>3, OneMoves
    <2>6. TypeOK'
      BY <2>3, <2>5 DEF TypeOK
    <2>7. RowsExclusive'
      BY <1>1, <2>1, <2>5 DEF Safe, Locks, RowsExclusive, RowHeld, RowHeldBy, In
    <2>8. RowsRead'
      BY <1>4, <2>1, <2>3, <2>4, <2>5 DEF Safe, Locks, RowsRead, In, MayChange
    <2>9. OneErases' /\ LinksExclusive'
      BY <2>1, <2>3, <2>5 DEF Safe, Locks, OneErases, LinksExclusive, In
    <2>10. LinksUsed' /\ TrailTellsRoles'
      BY <2>3 DEF Safe, LinksUsed, TrailTellsRoles
    <2>11. NothingUnderWay'
      BY <1>2, <1>4, <2>3 DEF TypeOK, NothingUnderWay
    <2> QED
      BY <2>6, <2>7, <2>8, <2>9, <2>10, <2>11 DEF Safe, Locks
  <1> QED
    BY <1>3, <1>4

LEMMA CountSafe ==
  ASSUME TypeOK, Safe, NEW u \in User, Count(u)
  PROVE  TypeOK' /\ Safe'
  <1> DEFINE s == [pc |-> "counted", on |-> txn[u].on, to |-> txn[u].to,
                   owned |-> txn[u].owned]
  <1>1. In(u, "written")
    BY DEF Count
  <1>2. /\ txn[u].on \in User /\ txn[u].to \in Role \cup {None}
        /\ txn[u].owned \in BOOLEAN
    BY <1>1, Shapes
  <1>3. CASE ~\E t \in User : RoleSeenBy(u)[t] = "owner"
    <2>1. Raise(u)
      BY <1>3 DEF Count
    <2> QED
      BY <2>1, RaiseSafe
  <1>4. CASE \E t \in User : RoleSeenBy(u)[t] = "owner"
    <2>1. s \in TxnState /\ s.pc = "counted" /\ s.on = txn[u].on /\ s.owned = txn[u].owned
      BY <1>2, ChangeShape
    <2>2. [txn[u] EXCEPT !.pc = "counted"] = s
      <3>1. txn[u] \in TxnState
        BY DEF TypeOK
      <3> QED
        BY <1>1, <3>1 DEF In, TxnState, Idle
    <2>3. To(u, s) /\ UNCHANGED <<org, role, link, joined, told>>
      BY <1>4, <2>2 DEF Count
    <2> HIDE DEF s
    <2>4. /\ txn' \in [User -> TxnState]
          /\ txn'[u] = s
          /\ \A v \in User \ {u} : txn'[v] = txn[v]
      BY <2>1, <2>3, OneMoves
    <2>5. TypeOK'
      BY <2>3, <2>4 DEF TypeOK
    <2>6. RowsExclusive'
      BY <1>1, <2>1, <2>4 DEF Safe, Locks, RowsExclusive, RowHeldBy, In
    <2>7. RowsRead'
      BY <1>1, <2>1, <2>3, <2>4 DEF Safe, Locks, RowsRead, In
    <2>8. OneErases' /\ LinksExclusive'
      BY <2>1, <2>3, <2>4 DEF Safe, Locks, OneErases, LinksExclusive, In
    <2>9. LinksUsed' /\ TrailTellsRoles'
      BY <2>3 DEF Safe, LinksUsed, TrailTellsRoles
    <2>10. NothingUnderWay'
      BY <1>1, <2>1, <2>3, <2>4 DEF Safe, NothingUnderWay, In
    <2> QED
      BY <2>5, <2>6, <2>7, <2>8, <2>9, <2>10 DEF Safe, Locks
  <1> QED
    BY <1>3, <1>4

(* The row is still what the transaction found it to be, so the event it   *)
(* files names the role before and the one after.                          *)
LEMMA CommitChangeSafe ==
  ASSUME TypeOK, Safe, NEW u \in User, CommitChange(u)
  PROVE  TypeOK' /\ Safe'
  <1> DEFINE t == txn[u].on
  <1>1. In(u, "counted")
    BY DEF CommitChange
  <1>2. t \in User /\ txn[u].to \in Role \cup {None}
    BY <1>1, Shapes
  <1>3. /\ role' = [role EXCEPT ![t] = txn[u].to]
        /\ told' = Told(t, role[t], txn[u].to)
        /\ To(u, Idle) /\ UNCHANGED <<org, link, joined>>
    BY DEF CommitChange, RoleSeenBy
  <1>4. ~RowHeld(t, u)
    BY <1>1, <1>2 DEF Safe, Locks, RowsExclusive, RowHeld, RowHeldBy
  <1>5. /\ txn' \in [User -> TxnState]
        /\ RowsExclusive' /\ RowsRead' /\ OneErases'
    BY <1>2, <1>3, <1>4, OthersKeepTheirRows
  <1>6. /\ txn'[u] = Idle
        /\ \A v \in User \ {u} : txn'[v] = txn[v]
    BY <1>3, IdleIsState, OneMoves
  <1>7. org /\ org'
    BY <1>1, <1>3 DEF Safe, NothingUnderWay, TypeOK
  <1>8. role' \in [User -> Role \cup {None}]
    BY <1>2, <1>3 DEF TypeOK
  <1>9. told' = role'
    <2>1. told = role
      BY DEF Safe, TrailTellsRoles
    <2>2. CASE role[t] = txn[u].to
      BY <1>2, <1>3, <2>1, <2>2 DEF Told, Files, TypeOK
    <2>3. CASE role[t] # txn[u].to
      BY <1>2, <1>3, <2>1, <2>3 DEF Told, Files, TypeOK
    <2> QED
      BY <2>2, <2>3
  <1>10. TypeOK'
    BY <1>3, <1>5, <1>7, <1>8, <1>9 DEF TypeOK
  <1>11. LinksExclusive'
    BY <1>3, <1>6 DEF Safe, Locks, LinksExclusive, In, Idle
  <1>12. LinksUsed'
    BY <1>3 DEF Safe, LinksUsed
  <1> QED
    BY <1>5, <1>7, <1>9, <1>10, <1>11, <1>12
       DEF Safe, Locks, NothingUnderWay, TrailTellsRoles

-----------------------------------------------------------------------------
(* Invitations. *)

LEMMA InviteSafe ==
  ASSUME TypeOK, Safe, NEW i \in Link,
         \/ \E u \in User : Invite(u, i) \/ Withdraw(u, i)
         \/ Expire(i)
  PROVE  TypeOK' /\ Safe'
  <1> DEFINE Status == {"unsent", "open", "expired", "accepted", "revoked", "gone"}
  <1>1. /\ UNCHANGED <<org, role, joined, told, txn>>
        /\ link[i] \in {"unsent", "open", "expired"}
        /\ \E s \in Status \ {"unsent"} : link' = [link EXCEPT ![i] = s]
    BY DEF Invite, Expire, Withdraw
  <1>2. link' \in [Link -> Status]
    BY <1>1 DEF TypeOK
  <1>3. \A j \in Link \ {i} : link'[j] = link[j]
    BY <1>1 DEF TypeOK
  <1>4. TypeOK'
    BY <1>1, <1>2 DEF TypeOK
  <1>5. RowsExclusive' /\ RowsRead' /\ OneErases'
    BY <1>1 DEF Safe, Locks, RowsExclusive, RowsRead, OneErases, RowHeldBy, In
  <1>6. link'[i] \in {"open", "expired"} \/ \A v \in User : ~(In(v, "joining") /\ txn[v].on = i)
    BY DEF Invite, Expire, Withdraw, LinkHeld, TypeOK
  <1>7. \A v \in User : In(v, "joining") => txn[v].on \in Link
    BY Shapes
  <1>8. LinksExclusive'
    BY <1>1, <1>3, <1>6, <1>7 DEF Safe, Locks, LinksExclusive, In
  <1>9. LinksUsed'
    BY <1>1, <1>3 DEF Safe, LinksUsed
  <1>10. NothingUnderWay' /\ TrailTellsRoles'
    BY <1>1 DEF Safe, NothingUnderWay, TrailTellsRoles, TypeOK
  <1> QED
    BY <1>4, <1>5, <1>8, <1>9, <1>10 DEF Safe, Locks

LEMMA AcceptSafe ==
  ASSUME TypeOK, Safe, NEW u \in User, NEW i \in Link, Accept(u, i)
  PROVE  TypeOK' /\ Safe'
  <1> DEFINE s == [pc |-> "joining", on |-> i]
  <1>1. s \in TxnState /\ s.pc = "joining" /\ s.on = i
    BY DEF TxnState
  <1>2. /\ To(u, s) /\ UNCHANGED <<org, role, link, joined, told>>
        /\ In(u, "idle") /\ link[i] = "open" /\ ~LinkHeld(i)
    BY DEF Accept
  <1> HIDE DEF s
  <1>3. /\ txn' \in [User -> TxnState]
        /\ txn'[u] = s
        /\ \A v \in User \ {u} : txn'[v] = txn[v]
    BY <1>1, <1>2, OneMoves
  <1>4. TypeOK'
    BY <1>2, <1>3 DEF TypeOK
  <1>5. RowsExclusive' /\ RowsRead' /\ OneErases'
    BY <1>1, <1>2, <1>3
       DEF Safe, Locks, RowsExclusive, RowsRead, OneErases, RowHeldBy, In
  <1>6. LinksExclusive'
    BY <1>1, <1>2, <1>3 DEF Safe, Locks, LinksExclusive, LinkHeld, In
  <1>7. LinksUsed' /\ TrailTellsRoles'
    BY <1>2 DEF Safe, LinksUsed, TrailTellsRoles
  <1>8. org
    BY <1>2 DEF Safe, NothingUnderWay, TypeOK
  <1>9. NothingUnderWay'
    BY <1>2, <1>8 DEF NothingUnderWay
  <1> QED
    BY <1>4, <1>5, <1>6, <1>7, <1>9 DEF Safe, Locks

(* Only the holder of an open link joins by it, so it closes it for all.   *)
LEMMA JoinSafe ==
  ASSUME TypeOK, Safe, NEW u \in User, Join(u)
  PROVE  TypeOK' /\ Safe'
  <1> DEFINE i == txn[u].on
             new == IF role[u] = None THEN Offer[i] ELSE role[u]
  <1>1. In(u, "joining") /\ ~RowHeld(u, u)
    BY DEF Join
  <1>2. i \in Link
    BY <1>1, Shapes
  <1>3. CASE role[u] # None /\ \A t \in User : role[t] # "owner"
    <2>1. Raise(u)
      BY <1>3 DEF Join
    <2> QED
      BY <2>1, RaiseSafe
  <1>4. CASE ~(role[u] # None /\ \A t \in User : role[t] # "owner")
    <2>1. new \in Role \cup {None} /\ Offer[i] \in Role
      BY <1>2, MembershipAssumption DEF TypeOK
    <2>2. /\ role' = [role EXCEPT ![u] = IF @ = None THEN Offer[i] ELSE @]
          /\ told' = [told EXCEPT ![u] = IF role[u] = None THEN Offer[i] ELSE @]
          /\ link' = [link EXCEPT ![i] = "accepted"]
          /\ joined' = [joined EXCEPT ![i] = @ \cup {u}]
          /\ To(u, Idle) /\ UNCHANGED org
      BY <1>4 DEF Join
    <2>3. role' = [role EXCEPT ![u] = new]
      BY <2>2 DEF TypeOK
    <2>4. told' = role'
      BY <2>2 DEF Safe, TrailTellsRoles, TypeOK
    <2> HIDE DEF new
    <2>5. /\ txn' \in [User -> TxnState]
          /\ RowsExclusive' /\ RowsRead' /\ OneErases'
      BY <1>1, <2>1, <2>2, <2>3, OthersKeepTheirRows
    <2>6. /\ txn'[u] = Idle
          /\ \A v \in User \ {u} : txn'[v] = txn[v]
      BY <2>2, IdleIsState, OneMoves
    <2>7. org /\ org'
      BY <1>1, <2>2 DEF Safe, NothingUnderWay, TypeOK
    <2>8. role' \in [User -> Role \cup {None}]
      BY <2>1, <2>3 DEF TypeOK
    <2>9. /\ link' \in [Link -> {"unsent", "open", "expired", "accepted", "revoked", "gone"}]
          /\ joined' \in [Link -> SUBSET User]
      BY <2>2 DEF TypeOK
    <2>10. TypeOK'
      BY <2>4, <2>5, <2>7, <2>8, <2>9 DEF TypeOK
    <2>11. /\ link[i] \in {"open", "expired"}
           /\ \A v \in User : In(v, "joining") /\ txn[v].on = i => v = u
      BY <1>1 DEF Safe, Locks, LinksExclusive
    <2>12. LinksExclusive'
      <3>1. ASSUME NEW v \in User, In(v, "joining")'
            PROVE  /\ v # u /\ txn'[v] = txn[v] /\ In(v, "joining")
                   /\ txn[v].on \in Link /\ txn[v].on # i
        <4>1. v # u /\ txn'[v] = txn[v] /\ In(v, "joining")
          BY <2>6, <3>1 DEF In, Idle
        <4> QED
          BY <2>11, <4>1, Shapes
      <3>2. \A j \in Link \ {i} : link'[j] = link[j]
        BY <2>2 DEF TypeOK
      <3> QED
        BY <3>1, <3>2 DEF Safe, Locks, LinksExclusive
    <2>13. LinksUsed'
      <3>1. joined[i] = {}
        BY <1>2, <2>11 DEF Safe, LinksUsed
      <3>2. joined'[i] = {u} /\ link'[i] = "accepted"
        BY <1>2, <2>2, <3>1 DEF TypeOK
      <3>3. \A j \in Link \ {i} : joined'[j] = joined[j] /\ link'[j] = link[j]
        BY <2>2 DEF TypeOK
      <3> QED
        BY <3>2, <3>3 DEF Safe, LinksUsed
    <2> QED
      BY <2>4, <2>5, <2>7, <2>10, <2>12, <2>13
         DEF Safe, Locks, NothingUnderWay, TrailTellsRoles
  <1> QED
    BY <1>3, <1>4

-----------------------------------------------------------------------------
(* delete_organisation. *)

LEMMA CheckEraseSafe ==
  ASSUME TypeOK, Safe, NEW u \in User, CheckErase(u)
  PROVE  TypeOK' /\ Safe'
  <1> DEFINE s == [pc |-> "checked"]
  <1>1. s \in TxnState /\ s.pc = "checked"
    BY DEF TxnState
  <1>2. To(u, s) /\ UNCHANGED <<org, role, link, joined, told>>
    BY DEF CheckErase
  <1> QED
    BY <1>1, <1>2, SafeWithoutLocks

(* A transaction that erases holds the rows it has deleted. *)
LEMMA ErasingSafe ==
  ASSUME TypeOK, Safe, NEW u \in User, NEW gone \in SUBSET User,
         To(u, [pc |-> "erasing", gone |-> gone]), org,
         \A v \in User \ {u} : ~In(v, "erasing"),
         \A t \in gone : ~RowHeld(t, u),
         UNCHANGED <<org, role, link, joined, told>>
  PROVE  TypeOK' /\ Safe'
  <1> DEFINE s == [pc |-> "erasing", gone |-> gone]
  <1>1. s \in TxnState /\ s.pc = "erasing" /\ s.gone = gone
    BY DEF TxnState
  <1>2. To(u, s)
    OBVIOUS
  <1> HIDE DEF s
  <1>3. /\ txn' \in [User -> TxnState]
        /\ txn'[u] = s
        /\ \A v \in User \ {u} : txn'[v] = txn[v]
    BY <1>1, <1>2, OneMoves
  <1>4. TypeOK'
    BY <1>3 DEF TypeOK
  <1>5. RowsExclusive'
    BY <1>1, <1>3 DEF Safe, Locks, RowsExclusive, RowHeld, RowHeldBy, In
  <1>6. RowsRead' /\ OneErases' /\ LinksExclusive'
    BY <1>1, <1>3 DEF Safe, Locks, RowsRead, OneErases, LinksExclusive, In
  <1>7. LinksUsed' /\ TrailTellsRoles' /\ NothingUnderWay'
    BY DEF Safe, LinksUsed, TrailTellsRoles, NothingUnderWay
  <1> QED
    BY <1>4, <1>5, <1>6, <1>7 DEF Safe, Locks

LEMMA EraseSafe ==
  ASSUME TypeOK, Safe, NEW u \in User, Erase(u)
  PROVE  TypeOK' /\ Safe'
  <1>1. UNCHANGED <<org, role, link, joined, told>> /\ ~OrgHeld(u)
    BY DEF Erase
  <1>2. CASE org
    <2>1. To(u, [pc |-> "erasing", gone |-> {}])
      BY <1>2 DEF Erase
    <2> QED
      BY <1>1, <1>2, <2>1, ErasingSafe DEF OrgHeld
  <1>3. CASE ~org
    <2>1. Raise(u)
      BY <1>1, <1>3 DEF Erase, Raise
    <2> QED
      BY <2>1, RaiseSafe
  <1> QED
    BY <1>2, <1>3

LEMMA EraseMemberSafe ==
  ASSUME TypeOK, Safe, NEW u \in User, NEW t \in User, EraseMember(u, t)
  PROVE  TypeOK' /\ Safe'
  <1> DEFINE refuses == /\ role[t] = "owner"
                        /\ (IF u \in txn[u].gone THEN None ELSE role[u]) # "owner"
             gone == txn[u].gone \cup {t}
  <1>1. In(u, "erasing") /\ ~RowHeld(t, u)
    BY DEF EraseMember
  <1>2. txn[u].gone \in SUBSET User
    BY <1>1, Shapes
  <1>3. CASE refuses
    <2>1. Raise(u)
      BY <1>3 DEF EraseMember
    <2> QED
      BY <2>1, RaiseSafe
  <1>4. CASE ~refuses
    <2>1. [txn[u] EXCEPT !.gone = @ \cup {t}] = [pc |-> "erasing", gone |-> gone]
      <3>1. txn[u] \in TxnState
        BY DEF TypeOK
      <3>2. txn[u] = [pc |-> "erasing", gone |-> txn[u].gone]
        BY <1>1, <3>1 DEF In, TxnState, Idle
      <3> QED
        BY <3>2
    <2>2. To(u, [pc |-> "erasing", gone |-> gone]) /\ UNCHANGED <<org, role, link, joined, told>>
      BY <1>4, <2>1 DEF EraseMember
    <2>3. org /\ \A v \in User \ {u} : ~In(v, "erasing")
      BY <1>1 DEF Safe, Locks, OneErases, NothingUnderWay, TypeOK
    <2>4. \A w \in gone : ~RowHeld(w, u)
      BY <1>1, <1>2 DEF Safe, Locks, RowsExclusive, RowHeld, RowHeldBy
    <2>5. gone \in SUBSET User
      BY <1>2
    <2> QED
      BY <2>2, <2>3, <2>4, <2>5, ErasingSafe
  <1> QED
    BY <1>3, <1>4

(* It holds the row of every member, and no invitation is held: so nobody  *)
(* is in the middle of a change or of joining.                             *)
LEMMA CommitEraseSafe ==
  ASSUME TypeOK, Safe, NEW u \in User, CommitErase(u)
  PROVE  TypeOK' /\ Safe'
  <1>1. /\ In(u, "erasing") /\ Cascaded(u) \subseteq txn[u].gone
        /\ \A i \in Link : ~LinkHeld(i)
        /\ org' = FALSE /\ UNCHANGED joined
        /\ role' = [t \in User |-> IF t \in txn[u].gone THEN None ELSE role[t]]
        /\ told' = role'
        /\ link' = [i \in Link |-> "gone"]
        /\ To(u, Idle)
    BY DEF CommitErase
  <1>2. /\ txn' \in [User -> TxnState]
        /\ txn'[u] = Idle
        /\ \A v \in User \ {u} : txn'[v] = txn[v]
    BY <1>1, IdleIsState, OneMoves
  <1>3. \A t \in User : role'[t] = None
    BY <1>1 DEF Cascaded
  <1>4. TypeOK'
    <2>1. role' \in [User -> Role \cup {None}]
      BY <1>1, <1>3
    <2> QED
      BY <1>1, <1>2, <1>3, <2>1 DEF TypeOK
  <1>5. \A v \in User : ~In(v, "joining")
    BY <1>1, Shapes DEF LinkHeld
  <1>6. ASSUME NEW v \in User, In(v, "written") \/ In(v, "counted")
        PROVE  FALSE
    <2>1. txn[v].on \in User /\ role[txn[v].on] # None
      BY <1>6, Shapes DEF Safe, Locks, RowsRead
    <2>2. txn[v].on \in txn[u].gone
      BY <1>1, <2>1 DEF Cascaded
    <2>3. RowHeldBy(txn[v].on, v) /\ RowHeldBy(txn[v].on, u)
      BY <1>1, <1>6, <2>2 DEF RowHeldBy
    <2>4. u = v
      BY <2>1, <2>3 DEF Safe, Locks, RowsExclusive
    <2> QED
      BY <1>1, <1>6, <2>4 DEF In
  <1>7. \A v \in User \ {u} : ~In(v, "erasing")
    BY <1>1 DEF Safe, Locks, OneErases
  <1>8. \A v \in User : /\ ~In(v, "written")' /\ ~In(v, "counted")'
                        /\ ~In(v, "joining")' /\ ~In(v, "erasing")'
    BY <1>2, <1>5, <1>6, <1>7 DEF In, Idle
  <1>9. Locks'
    BY <1>8 DEF Locks, RowsExclusive, RowsRead, OneErases, LinksExclusive, RowHeldBy
  <1>10. LinksUsed'
    BY <1>1 DEF Safe, LinksUsed
  <1>11. NothingUnderWay'
    BY <1>1, <1>8 DEF NothingUnderWay
  <1>12. TrailTellsRoles'
    BY <1>1 DEF TrailTellsRoles
  <1> QED
    BY <1>4, <1>9, <1>10, <1>11, <1>12 DEF Safe

-----------------------------------------------------------------------------
(* The theorems. *)

LEMMA InitSafe == Init => TypeOK /\ Safe
  <1> SUFFICES ASSUME Init PROVE TypeOK /\ Safe
    OBVIOUS
  <1>1. TypeOK
    BY IdleIsState DEF Init, TypeOK
  <1>2. Locks
    BY DEF Init, Locks, RowsExclusive, RowsRead, OneErases, LinksExclusive,
           RowHeldBy, In, Idle
  <1>3. LinksUsed /\ NothingUnderWay /\ TrailTellsRoles
    BY DEF Init, LinksUsed, NothingUnderWay, TrailTellsRoles
  <1> QED
    BY <1>1, <1>2, <1>3 DEF Safe

LEMMA NextSafe == TypeOK /\ Safe /\ [Next]_vars => TypeOK' /\ Safe'
  <1> SUFFICES ASSUME TypeOK, Safe, [Next]_vars PROVE TypeOK' /\ Safe'
    OBVIOUS
  <1>1. ASSUME NEW u \in User, Ask(u) \/ Write(u) \/ Count(u) \/ CommitChange(u)
        PROVE  TypeOK' /\ Safe'
    BY <1>1, AskSafe, WriteSafe, CountSafe, CommitChangeSafe
  <1>2. ASSUME NEW u \in User, Join(u) \/ DeadlockVictim(u)
        PROVE  TypeOK' /\ Safe'
    BY <1>2, JoinSafe, RaiseSafe DEF DeadlockVictim
  <1>3. ASSUME NEW u \in User, CheckErase(u) \/ Erase(u) \/ CommitErase(u)
        PROVE  TypeOK' /\ Safe'
    BY <1>3, CheckEraseSafe, EraseSafe, CommitEraseSafe
  <1>4. ASSUME NEW u \in User, NEW t \in User, EraseMember(u, t)
        PROVE  TypeOK' /\ Safe'
    BY <1>4, EraseMemberSafe
  <1>5. ASSUME NEW u \in User, NEW i \in Link, Invite(u, i) \/ Withdraw(u, i) \/ Accept(u, i)
        PROVE  TypeOK' /\ Safe'
    BY <1>5, InviteSafe, AcceptSafe
  <1>6. ASSUME NEW i \in Link, Expire(i)
        PROVE  TypeOK' /\ Safe'
    BY <1>6, InviteSafe
  <1>7. CASE UNCHANGED vars
    <2>1. TypeOK'
      BY <1>7 DEF vars, TypeOK
    <2> QED
      BY <1>7, <2>1 DEF vars, Safe, Locks, RowsExclusive, RowsRead, OneErases,
         LinksExclusive, LinksUsed, NothingUnderWay, TrailTellsRoles, RowHeldBy, In
  <1> QED
    BY <1>1, <1>2, <1>3, <1>4, <1>5, <1>6, <1>7 DEF Next

(* The transactions of any number of users, whatever rolls back, leave the *)
(* tables as their columns allow, and an erased organisation has nobody.   *)
THEOREM MembershipTypes == Spec => []TypeOK
  <1>1. Spec => [](TypeOK /\ Safe)
    BY InitSafe, NextSafe, PTL DEF Spec
  <1> QED
    BY <1>1, PTL

(* A link admits one user at most, and none once it is withdrawn, however  *)
(* many accept it at once.                                                 *)
THEOREM LinksAdmitOnce == Spec => []LinkAdmitsOnce
  <1>1. Spec => [](TypeOK /\ Safe)
    BY InitSafe, NextSafe, PTL DEF Spec
  <1>2. TypeOK /\ Safe => LinkAdmitsOnce
    <2> SUFFICES ASSUME TypeOK, Safe, NEW i \in Link
                 PROVE  /\ Cardinality(joined[i]) <= 1
                        /\ link[i] = "revoked" => joined[i] = {}
      BY DEF LinkAdmitsOnce
    <2>1. CASE joined[i] = {}
      <3>1. Cardinality(joined[i]) = 0
        BY <2>1, FS_EmptySet
      <3> QED
        BY <2>1, <3>1
    <2>2. CASE link[i] \in {"accepted", "gone"} /\ \E u \in User : joined[i] = {u}
      <3>1. Cardinality(joined[i]) = 1
        BY <2>2, FS_Singleton
      <3> QED
        BY <2>2, <3>1
    <2> QED
      BY <2>1, <2>2 DEF Safe, LinksUsed
  <1> QED
    BY <1>1, <1>2, PTL

(* Who reads the security trail arrives at the role each member has,       *)
(* whatever changes, admissions and erasures overlapped.                   *)
THEOREM TheTrailTellsRoles == Spec => []TrailTellsRoles
  <1>1. Spec => [](TypeOK /\ Safe)
    BY InitSafe, NextSafe, PTL DEF Spec
  <1>2. TypeOK /\ Safe => TrailTellsRoles
    BY DEF Safe
  <1> QED
    BY <1>1, <1>2, PTL

(* An owner is demoted or removed only by somebody who has been an owner   *)
(* while doing it: the check made when the row was locked still holds when *)
(* the change commits.                                                     *)
THEOREM OwnersFallOnlyByOwners == Spec => OwnersFallByOwners
  <1> DEFINE ByOwner ==
        \A t \in User : role[t] = "owner" /\ role'[t] # "owner" /\ org' =>
          \E u \in User : In(u, "counted") /\ txn[u].on = t /\ txn[u].owned
  <1>1. Spec => [](TypeOK /\ Safe)
    BY InitSafe, NextSafe, PTL DEF Spec
  <1>2. TypeOK /\ Safe /\ [Next]_vars => [ByOwner]_vars
    <2> SUFFICES ASSUME TypeOK, Safe, Next, NEW t \in User,
                        role[t] = "owner", role'[t] # "owner", org'
                 PROVE  \E u \in User : In(u, "counted") /\ txn[u].on = t /\ txn[u].owned
      OBVIOUS
    <2>1. PICK u \in User : CommitChange(u) \/ Join(u)
      BY DEF Next, Ask, Write, Count, CheckErase, Erase, CommitErase, EraseMember,
             DeadlockVictim, Raise, Invite, Withdraw, Accept, Expire
    <2>2. ~Join(u)
      BY DEF Join, Raise, TypeOK, None
    <2>3. /\ In(u, "counted") /\ txn[u].on \in User
          /\ role' = [role EXCEPT ![txn[u].on] = txn[u].to]
      BY <2>1, <2>2, Shapes DEF CommitChange, RoleSeenBy
    <2>4. txn[u].on = t
      BY <2>3 DEF TypeOK
    <2>5. txn[u].owned
      BY <2>3, <2>4 DEF Safe, Locks, RowsRead
    <2> QED
      BY <2>3, <2>4, <2>5
  <1> QED
    BY <1>1, <1>2, PTL DEF Spec, OwnersFallByOwners

-----------------------------------------------------------------------------
(* When the rule "an organisation must keep at least one owner" does hold. *)
(* The count that guards it does not see what others have not committed,   *)
(* so it is a count of rows that may be on their way out.  One overlap     *)
(* alone makes it wrong: two counts passed, each of a change that takes    *)
(* the row of another owner away, and neither of them committed.           *)

(* The change of u is counted and takes an owner away. *)
Unseats(u) ==
  In(u, "counted") /\ role[txn[u].on] = "owner" /\ txn[u].to # "owner"

OneUnseats == \A u, v \in User : Unseats(u) /\ Unseats(v) => u = v

(* The owner that was counted is an owner still. *)
CountHolds ==
  \A u \in User : Unseats(u) => \E t \in User \ {txn[u].on} : role[t] = "owner"

Kept == KeepsAnOwner /\ CountHolds

(* A step that leaves the roles alone keeps an owner, and the count of     *)
(* every change that was counted before it.                                *)
LEMMA SameRolesKept ==
  ASSUME Kept, UNCHANGED <<org, role>>,
         \A v \in User : In(v, "counted")' => In(v, "counted") /\ txn'[v] = txn[v]
  PROVE  Kept'
  BY DEF Kept, KeepsAnOwner, CountHolds, Unseats, In

LEMMA RaiseKept ==
  ASSUME TypeOK, Kept, NEW u \in User, Raise(u)
  PROVE  Kept'
  <1>1. /\ txn'[u] = Idle
        /\ \A v \in User \ {u} : txn'[v] = txn[v]
    BY IdleIsState, OneMoves DEF Raise
  <1>2. \A v \in User : In(v, "counted")' => In(v, "counted") /\ txn'[v] = txn[v]
    BY <1>1 DEF In, Idle
  <1> QED
    BY <1>2, SameRolesKept DEF Raise

(* The steps that move a transaction and no row. *)
LEMMA MoveKept ==
  ASSUME TypeOK, Kept, NEW u \in User,
         \/ Ask(u) \/ Write(u) \/ CheckErase(u) \/ Erase(u)
         \/ \E i \in Link : Accept(u, i)
         \/ \E t \in User : EraseMember(u, t)
  PROVE  Kept'
  <1>1. UNCHANGED <<org, role>>
    BY DEF Ask, Write, CheckErase, Erase, Accept, EraseMember, Raise
  <1>2. txn[u] \in TxnState /\ txn \in [User -> TxnState]
    BY DEF TypeOK
  <1>3. txn'[u].pc # "counted" /\ \A v \in User \ {u} : txn'[v] = txn[v]
    <2>1. CASE Ask(u)
      BY <1>2, <2>1 DEF Ask, To
    <2>2. CASE Write(u)
      <3> DEFINE s == [txn[u] EXCEPT !.pc = "written",
                                     !.owned = @ \/ role[u] = "owner"]
      <3>1. s.pc = "written"
        BY <1>2, <2>2 DEF Write, In, TxnState, Idle
      <3>2. To(u, s) \/ To(u, Idle)
        BY <2>2 DEF Write, Raise
      <3> HIDE DEF s
      <3> QED
        BY <1>2, <3>1, <3>2 DEF To, Idle
    <2>3. CASE CheckErase(u) \/ Erase(u)
      BY <1>2, <2>3 DEF CheckErase, Erase, To, Idle
    <2>4. CASE \E i \in Link : Accept(u, i)
      BY <1>2, <2>4 DEF Accept, To
    <2>5. CASE \E t \in User : EraseMember(u, t)
      <3>1. PICK t \in User : EraseMember(u, t)
        BY <2>5
      <3> DEFINE s == [txn[u] EXCEPT !.gone = @ \cup {t}]
      <3>2. s.pc = "erasing"
        BY <1>2, <3>1 DEF EraseMember, In, TxnState, Idle
      <3>3. To(u, s) \/ To(u, Idle)
        BY <3>1 DEF EraseMember, Raise
      <3> HIDE DEF s
      <3> QED
        BY <1>2, <3>2, <3>3 DEF To, Idle
    <2> QED
      BY <2>1, <2>2, <2>3, <2>4, <2>5
  <1>4. \A v \in User : In(v, "counted")' => In(v, "counted") /\ txn'[v] = txn[v]
    BY <1>3 DEF In
  <1> QED
    BY <1>1, <1>4, SameRolesKept

(* The count sees an owner other than the one its own change takes away. *)
LEMMA CountKept ==
  ASSUME TypeOK, Kept, NEW u \in User, Count(u)
  PROVE  Kept'
  <1>1. CASE Raise(u)
    BY <1>1, RaiseKept
  <1>2. CASE ~Raise(u)
    <2>1. /\ In(u, "written") /\ \E t \in User : RoleSeenBy(u)[t] = "owner"
          /\ txn' = [txn EXCEPT ![u] = [txn[u] EXCEPT !.pc = "counted"]]
          /\ UNCHANGED <<org, role>>
      BY <1>2 DEF Count, To
    <2>2. txn[u].on \in User /\ txn \in [User -> TxnState] /\ txn[u] \in TxnState
      BY <2>1, Shapes DEF TypeOK
    <2>3. txn'[u].on = txn[u].on /\ txn'[u].to = txn[u].to
      BY <2>1, <2>2 DEF In, TxnState, Idle
    <2>4. \A v \in User \ {u} : txn'[v] = txn[v]
      BY <2>1, <2>2
    <2>5. ASSUME txn[u].to # "owner"
          PROVE  \E t \in User \ {txn[u].on} : role[t] = "owner"
      <3>1. PICK t \in User : RoleSeenBy(u)[t] = "owner"
        BY <2>1
      <3>2. t # txn[u].on /\ role[t] = "owner"
        BY <2>2, <2>5, <3>1 DEF RoleSeenBy, TypeOK
      <3> QED
        BY <3>2
    <2>6. CountHolds'
      <3>1. ASSUME NEW v \in User, Unseats(v)'
            PROVE  \E t \in User \ {txn'[v].on} : role'[t] = "owner"
        <4>1. CASE v = u
          BY <2>1, <2>3, <2>5, <3>1, <4>1 DEF Unseats
        <4>2. CASE v # u
          BY <2>1, <2>4, <3>1, <4>2 DEF Kept, CountHolds, Unseats, In
        <4> QED
          BY <4>1, <4>2
      <3> QED
        BY <3>1 DEF CountHolds
    <2> QED
      BY <2>1, <2>6 DEF Kept, KeepsAnOwner
  <1> QED
    BY <1>1, <1>2

(* A change that commits alone leaves the owner it counted; one that takes *)
(* no owner away disturbs nobody's count.                                  *)
LEMMA CommitChangeKept ==
  ASSUME TypeOK, Safe, Kept, OneUnseats, NEW u \in User, CommitChange(u)
  PROVE  Kept'
  <1> DEFINE t == txn[u].on
  <1>1. /\ In(u, "counted") /\ t \in User
        /\ role' = [role EXCEPT ![t] = txn[u].to]
        /\ To(u, Idle) /\ UNCHANGED org
    BY Shapes DEF CommitChange, RoleSeenBy
  <1>2. /\ txn'[u] = Idle
        /\ \A v \in User \ {u} : txn'[v] = txn[v]
    BY <1>1, IdleIsState, OneMoves
  <1>3. \A w \in User \ {t} : role'[w] = role[w]
    BY <1>1 DEF TypeOK
  <1>4. CASE Unseats(u)
    <2>1. \E w \in User \ {t} : role[w] = "owner"
      BY <1>4 DEF Kept, CountHolds
    <2>2. KeepsAnOwner'
      BY <1>3, <2>1 DEF KeepsAnOwner
    <2>3. \A v \in User : ~Unseats(v)'
      <3> SUFFICES ASSUME NEW v \in User, Unseats(v)'
                   PROVE  FALSE
        OBVIOUS
      <3>1. v # u /\ txn'[v] = txn[v] /\ In(v, "counted")
        BY <1>2 DEF Unseats, In, Idle
      <3>2. txn[v].on \in User
        BY <3>1, Shapes
      <3>3. role[txn[v].on] = "owner"
        BY <1>3, <1>4, <3>1, <3>2 DEF Unseats
      <3>4. Unseats(v)
        BY <3>1, <3>3 DEF Unseats
      <3> QED
        BY <1>4, <3>1, <3>4 DEF OneUnseats
    <2> QED
      BY <2>2, <2>3 DEF Kept, CountHolds
  <1>5. CASE ~Unseats(u)
    <2>1. \A w \in User : role[w] = "owner" => role'[w] = "owner"
      <3>1. role[t] = "owner" => role'[t] = "owner"
        BY <1>1, <1>5 DEF Unseats, TypeOK
      <3> QED
        BY <1>3, <3>1
    <2>2. KeepsAnOwner'
      BY <1>1, <2>1 DEF Kept, KeepsAnOwner
    <2>3. ASSUME NEW v \in User, Unseats(v)'
          PROVE  \E w \in User \ {txn'[v].on} : role'[w] = "owner"
      <3>1. v # u /\ txn'[v] = txn[v] /\ In(v, "counted")
        BY <1>2, <2>3 DEF Unseats, In, Idle
      <3>2. txn[v].on \in User \ {t}
        <4>1. txn[v].on \in User
          BY <3>1, Shapes
        <4>2. txn[v].on # t
          BY <1>1, <3>1, <4>1 DEF Safe, Locks, RowsExclusive, RowHeldBy
        <4> QED
          BY <4>1, <4>2
      <3>3. Unseats(v)
        BY <1>3, <2>3, <3>1, <3>2 DEF Unseats
      <3> QED
        BY <2>1, <3>1, <3>3 DEF Kept, CountHolds
    <2> QED
      BY <2>2, <2>3 DEF Kept, CountHolds
  <1> QED
    BY <1>4, <1>5

(* Nobody leaves by joining, and an erasure leaves no owner to be counted. *)
LEMMA JoinKept ==
  ASSUME TypeOK, Kept, NEW u \in User, Join(u)
  PROVE  Kept'
  <1>1. CASE Raise(u)
    BY <1>1, RaiseKept
  <1>2. CASE ~Raise(u)
    <2>1. /\ In(u, "joining")
          /\ role' = [role EXCEPT ![u] = IF @ = None THEN Offer[txn[u].on] ELSE @]
          /\ To(u, Idle) /\ UNCHANGED org
      BY <1>2 DEF Join
    <2>2. /\ txn'[u] = Idle
          /\ \A v \in User \ {u} : txn'[v] = txn[v]
      BY <2>1, IdleIsState, OneMoves
    <2>3. txn[u].on \in Link
      BY <2>1, Shapes
    <2>4. \A w \in User : role[w] = "owner" <=> role'[w] = "owner"
      BY <2>1, <2>3, MembershipAssumption DEF TypeOK, None
    <2>5. ASSUME NEW v \in User, Unseats(v)'
          PROVE  \E w \in User \ {txn'[v].on} : role'[w] = "owner"
      <3>1. v # u /\ txn'[v] = txn[v] /\ In(v, "counted")
        BY <2>2, <2>5 DEF Unseats, In, Idle
      <3>2. txn[v].on \in User
        BY <3>1, Shapes
      <3>3. Unseats(v)
        BY <2>4, <2>5, <3>1, <3>2 DEF Unseats
      <3> QED
        BY <2>4, <3>1, <3>3 DEF Kept, CountHolds
    <2> QED
      BY <2>1, <2>4, <2>5 DEF Kept, KeepsAnOwner, CountHolds
  <1> QED
    BY <1>1, <1>2

LEMMA CommitEraseKept ==
  ASSUME TypeOK, Safe, NEW u \in User, CommitErase(u)
  PROVE  Kept'
  <1>1. TypeOK' /\ Safe'
    BY CommitEraseSafe
  <1>2. ~org'
    BY DEF CommitErase
  <1>3. \A v \in User : ~In(v, "counted")'
    BY <1>1, <1>2 DEF Safe, NothingUnderWay
  <1> QED
    BY <1>2, <1>3 DEF Kept, KeepsAnOwner, CountHolds, Unseats

LEMMA NextKept ==
  TypeOK /\ Safe /\ Kept /\ OneUnseats /\ [Next]_vars => Kept'
  <1> SUFFICES ASSUME TypeOK, Safe, Kept, OneUnseats, [Next]_vars PROVE Kept'
    OBVIOUS
  <1>1. ASSUME NEW u \in User,
               \/ Ask(u) \/ Write(u) \/ CheckErase(u) \/ Erase(u)
               \/ \E i \in Link : Accept(u, i)
               \/ \E t \in User : EraseMember(u, t)
        PROVE  Kept'
    BY <1>1, MoveKept
  <1>2. ASSUME NEW u \in User,
               Count(u) \/ CommitChange(u) \/ Join(u) \/ CommitErase(u) \/ DeadlockVictim(u)
        PROVE  Kept'
    BY <1>2, CountKept, CommitChangeKept, JoinKept, CommitEraseKept, RaiseKept
       DEF DeadlockVictim
  <1>3. CASE UNCHANGED <<org, role, txn>>
    BY <1>3, SameRolesKept DEF In
  <1>4. ASSUME NEW i \in Link, Expire(i) \/ \E u \in User : Invite(u, i) \/ Withdraw(u, i)
        PROVE  Kept'
    BY <1>3, <1>4 DEF Expire, Invite, Withdraw
  <1> QED
    BY <1>1, <1>2, <1>3, <1>4 DEF Next, vars

(* The organisation keeps an owner, through every change, removal,         *)
(* admission and rollback, in whatever order the transactions interleave,  *)
(* so long as no two that each take an owner away have both been counted   *)
(* before either has committed.  The run that refutes KeepsAnOwner is that *)
(* overlap, and there is no other way to lose the last owner: not a link,  *)
(* not an erasure that is rolled back, not a change that waited for a row. *)
THEOREM OnlyOverlapUnseatsTheLast ==
  Spec /\ []OneUnseats => []KeepsAnOwner
  <1>1. Spec => [](TypeOK /\ Safe)
    BY InitSafe, NextSafe, PTL DEF Spec
  <1>2. Init => Kept
    BY DEF Init, Kept, KeepsAnOwner, CountHolds, Unseats, In, Idle
  <1>3. TypeOK /\ Safe /\ Kept /\ OneUnseats /\ [Next]_vars => Kept'
    BY NextKept
  <1>4. Kept => KeepsAnOwner
    BY DEF Kept
  <1> QED
    BY <1>1, <1>2, <1>3, <1>4, PTL DEF Spec

-----------------------------------------------------------------------------
(* When an erasure does go through.  The guard asks for the actor's own    *)
(* role row by row, and the actor's own row may be gone by then: that      *)
(* refuses the erasure when the row of another owner is left.              *)

SoleOwner(u) == \A t \in User : role[t] = "owner" <=> t = u

(* The only owner is not refused the erasure by the guard, in whatever     *)
(* order the cascade takes the rows: a transaction that erases for the     *)
(* only owner commits, or is the victim of a deadlock, or goes on.         *)
THEOREM SoleOwnersErasureGoesThrough ==
  Spec => [][\A u \in User : In(u, "erasing") /\ SoleOwner(u) /\ txn'[u] = Idle =>
               ~org' \/ Deadlocked(u)]_vars
  <1> DEFINE GoesThrough ==
        \A u \in User : In(u, "erasing") /\ SoleOwner(u) /\ txn'[u] = Idle =>
          ~org' \/ Deadlocked(u)
  <1>1. Spec => [](TypeOK /\ Safe)
    BY InitSafe, NextSafe, PTL DEF Spec
  <1>2. TypeOK /\ [Next]_vars => [GoesThrough]_vars
    <2> SUFFICES ASSUME TypeOK, Next, NEW u \in User, In(u, "erasing"), SoleOwner(u),
                        txn'[u] = Idle, org', ~Deadlocked(u)
                 PROVE  FALSE
      OBVIOUS
    <2>1. txn'[u] # txn[u] /\ txn \in [User -> TxnState]
      BY DEF In, Idle, TypeOK
    <2>2. PICK v \in User :
            \/ Ask(v) \/ Write(v) \/ Count(v) \/ CommitChange(v) \/ Join(v)
            \/ CheckErase(v) \/ Erase(v) \/ CommitErase(v) \/ DeadlockVictim(v)
            \/ \E t \in User : EraseMember(v, t)
            \/ \E i \in Link : Accept(v, i)
      BY <2>1 DEF Next, Invite, Withdraw, Expire
    <2>3. \A w \in User \ {v} : txn'[w] = txn[w]
      BY <2>1, <2>2 DEF Ask, Write, Count, CommitChange, Join, CheckErase, Erase, CommitErase,
         DeadlockVictim, EraseMember, Accept, Raise, To
    <2>4. v = u
      BY <2>1, <2>3
    <2>5. PICK t \in User : EraseMember(u, t)
      BY <2>2, <2>4 DEF Ask, Write, Count, CommitChange, Join, CheckErase, Erase, CommitErase,
         DeadlockVictim, Accept, In
    <2>6. role[t] = "owner" /\ (IF u \in txn[u].gone THEN None ELSE role[u]) # "owner"
      <3> SUFFICES ASSUME ~(role[t] = "owner" /\ (IF u \in txn[u].gone THEN None ELSE role[u]) # "owner")
                   PROVE  FALSE
        OBVIOUS
      <3> DEFINE s == [txn[u] EXCEPT !.gone = @ \cup {t}]
      <3>1. To(u, s)
        BY <2>5 DEF EraseMember
      <3>2. s.pc = "erasing"
        BY <2>1 DEF In, TxnState, Idle
      <3> HIDE DEF s
      <3>3. txn'[u] = s
        BY <2>1, <3>1 DEF To
      <3> QED
        BY <3>2, <3>3 DEF Idle
    <2>7. t = u /\ t \notin txn[u].gone
      BY <2>5, <2>6 DEF SoleOwner, EraseMember
    <2> QED
      BY <2>6, <2>7
  <1> QED
    BY <1>1, <1>2, PTL DEF Spec
=============================================================================
