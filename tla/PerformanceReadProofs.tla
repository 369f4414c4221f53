------------------------ MODULE PerformanceReadProofs ------------------------
(***************************************************************************)
(* What TLAPS proves of PerformanceRead, for any rows, span, limit and cap *)
(* above it.                                                               *)
(*                                                                         *)
(* The argument: the predicate of a page is exactly `after the cursor' in  *)
(* the order of the page, nulls included, and that order is total on the   *)
(* key columns.  A page is a prefix of what is after the cursor, so the    *)
(* rows handed out are never after the cursor and every row of the span    *)
(* that was there at the start and is not after it has been handed out.    *)
(* The probe row tells the last page from the others, and every other page *)
(* passes as many keys as its limit.                                       *)
(***************************************************************************)
EXTENDS PerformanceRead, FiniteSetTheorems, WellFoundedInduction, TLAPS

USE ReadAssumption

-----------------------------------------------------------------------------
(* Finite sets under a strict total order. *)

(* A finite set that a relation orders strictly and totally has a least    *)
(* element: its predecessors cannot be a smaller set of predecessors.      *)
LEMMA LeastElement ==
  ASSUME NEW S, IsFiniteSet(S), S # {}, NEW R,
         \A x \in S : <<x, x>> \notin R,
         \A x, y, z \in S : <<x, y>> \in R /\ <<y, z>> \in R => <<x, z>> \in R,
         \A x, y \in S : x = y \/ <<x, y>> \in R \/ <<y, x>> \in R
  PROVE  \E m \in S : \A j \in S : j = m \/ <<m, j>> \in R
<1> DEFINE Below(x) == {j \in S : <<j, x>> \in R}
           T == {Below(x) : x \in S}
<1>1. T \subseteq FiniteSubsetsOf(S) /\ T # {}
  <2>1. \A x \in S : Below(x) \in SUBSET S
    OBVIOUS
  <2>2. \A U \in SUBSET S : U \in FiniteSubsetsOf(S)
    BY FS_Subset DEF FiniteSubsetsOf
  <2> HIDE DEF Below
  <2>3. T \subseteq FiniteSubsetsOf(S)
    BY <2>1, <2>2
  <2>4. PICK x \in S : TRUE
    OBVIOUS
  <2>5. Below(x) \in T
    BY <2>4
  <2> QED
    BY <2>3, <2>5
<1>2. PICK U \in T : \A V \in T : <<V, U>> \notin StrictSubsetOrdering(S)
  <2> HIDE DEF T
  <2> QED
    BY <1>1, FS_StrictSubsetOrderingWellFounded, WFMin
<1>3. PICK m \in S : U = Below(m)
  OBVIOUS
<1>4. ASSUME NEW j \in Below(m) PROVE FALSE
  <2>1. j \in S /\ <<j, m>> \in R
    OBVIOUS
  <2>2. Below(j) \subseteq Below(m) /\ j \in Below(m) /\ j \notin Below(j)
    BY <2>1
  <2>3. Below(j) \in T /\ Below(j) \in SUBSET S /\ Below(m) \in SUBSET S
    BY <2>1
  <2>4. <<Below(j), Below(m)>> \in StrictSubsetOrdering(S)
    BY <2>2, <2>3 DEF StrictSubsetOrdering
  <2> QED
    BY <1>2, <1>3, <2>3, <2>4
<1> QED
  BY <1>4

-----------------------------------------------------------------------------
(* The order of a page. *)

LEMMA KeyTyped ==
  ASSUME NEW k \in Key
  PROVE  k.date \in Nat /\ k.account \in Nat /\ k.entity \in Nat /\ k.window \in Nat
BY DEF KeyColumns

LEMMA BeforeIsStrict ==
  ASSUME NEW j \in Key, NEW k \in Key
  PROVE  ~Before(j, j) /\ ~(Before(j, k) /\ Before(k, j))
BY KeyTyped DEF Before

LEMMA BeforeIsTransitive ==
  ASSUME NEW i \in Key, NEW j \in Key, NEW k \in Key, Before(i, j), Before(j, k)
  PROVE  Before(i, k)
BY KeyTyped DEF Before

LEMMA BeforeIsTotal ==
  ASSUME NEW j \in Key, NEW k \in Key
  PROVE  j = k \/ Before(j, k) \/ Before(k, j)
<1>1. CASE /\ j.date = k.date /\ j.account = k.account
           /\ j.entity = k.entity /\ j.window = k.window
  BY <1>1 DEF KeyColumns
<1>2. CASE ~(/\ j.date = k.date /\ j.account = k.account
             /\ j.entity = k.entity /\ j.window = k.window)
  BY <1>2, KeyTyped DEF Before
<1> QED
  BY <1>1, <1>2

(* The predicate of the query is the order: a null window sorts first, is  *)
(* compared with nothing, and still no row is dropped at it.               *)
LEMMA AfterCursorIsAfter ==
  ASSUME NEW row \in Key, NEW cursor \in Key
  PROVE  AfterCursor(row, cursor) <=> Before(cursor, row)
BY KeyTyped DEF AfterCursor, WindowAfter, Greater, Null, Before

LEMMA FirstAndLast ==
  ASSUME NEW S \in SUBSET Key, S # {}
  PROVE  /\ \E m \in S : \A j \in S : j = m \/ Before(m, j)
         /\ \E m \in S : \A j \in S : j = m \/ Before(j, m)
<1> DEFINE Up == {p \in Key \X Key : Before(p[1], p[2])}
           Down == {p \in Key \X Key : Before(p[2], p[1])}
<1>1. /\ \A x, y \in Key : <<x, y>> \in Up <=> Before(x, y)
      /\ \A x, y \in Key : <<x, y>> \in Down <=> Before(y, x)
  OBVIOUS
<1> HIDE DEF Up, Down
<1>2. IsFiniteSet(S)
  BY FS_Subset
<1>3. \E m \in S : \A j \in S : j = m \/ <<m, j>> \in Up
  <2>1. \A x \in S : <<x, x>> \notin Up
    BY <1>1, BeforeIsStrict
  <2>2. \A x, y, z \in S : <<x, y>> \in Up /\ <<y, z>> \in Up => <<x, z>> \in Up
    BY <1>1, BeforeIsTransitive
  <2>3. \A x, y \in S : x = y \/ <<x, y>> \in Up \/ <<y, x>> \in Up
    BY <1>1, BeforeIsTotal
  <2> QED
    BY <1>2, <2>1, <2>2, <2>3, LeastElement
<1>4. \E m \in S : \A j \in S : j = m \/ <<m, j>> \in Down
  <2>1. \A x \in S : <<x, x>> \notin Down
    BY <1>1, BeforeIsStrict
  <2>2. \A x, y, z \in S : <<x, y>> \in Down /\ <<y, z>> \in Down => <<x, z>> \in Down
    BY <1>1, BeforeIsTransitive
  <2>3. \A x, y \in S : x = y \/ <<x, y>> \in Down \/ <<y, x>> \in Down
    BY <1>1, BeforeIsTotal
  <2> QED
    BY <1>2, <2>1, <2>2, <2>3, LeastElement
<1> QED
  BY <1>1, <1>3, <1>4

(* The last row of a set that has any is in it, with all others before it. *)
LEMMA LastRowIsLast ==
  ASSUME NEW S \in SUBSET Key, S # {}
  PROVE  LastRow(S) \in S /\ \A j \in S : j = LastRow(S) \/ Before(j, LastRow(S))
BY FirstAndLast DEF LastRow

-----------------------------------------------------------------------------
(* Prefixes. *)

LEMMA PredecessorsCount ==
  ASSUME NEW S \in SUBSET Key, NEW k \in Key
  PROVE  /\ Cardinality({j \in S : Before(j, k)}) \in Nat
         /\ IsFiniteSet({j \in S : Before(j, k)})
<1>1. {j \in S : Before(j, k)} \in SUBSET Key
  OBVIOUS
<1> QED
  BY <1>1, FS_Subset, FS_CardinalityType

(* The first rows of a set are a prefix of it in the order. *)
LEMMA FirstRowsArePrefix ==
  ASSUME NEW S \in SUBSET Key, NEW n \in Nat
  PROVE  /\ FirstRows(S, n) \subseteq S
         /\ \A j \in S, k \in FirstRows(S, n) : Before(j, k) => j \in FirstRows(S, n)
<1>1. FirstRows(S, n) \subseteq S
  BY DEF FirstRows
<1>2. ASSUME NEW j \in S, NEW k \in FirstRows(S, n), Before(j, k)
      PROVE  j \in FirstRows(S, n)
  <2>1. {i \in S : Before(i, j)} \in SUBSET {i \in S : Before(i, k)}
    BY <1>1, <1>2, BeforeIsTransitive
  <2>2. Cardinality({i \in S : Before(i, j)}) <= Cardinality({i \in S : Before(i, k)})
    BY <1>1, <2>1, PredecessorsCount, FS_Subset
  <2>3. Cardinality({i \in S : Before(i, k)}) < n
    BY DEF FirstRows
  <2> QED
    BY <1>1, <2>2, <2>3, PredecessorsCount DEF FirstRows
<1> QED
  BY <1>1, <1>2

(* There is a first row as long as there is any. *)
LEMMA SomeFirstRow ==
  ASSUME NEW S \in SUBSET Key, S # {}, NEW n \in Nat \ {0}
  PROVE  FirstRows(S, n) # {}
<1>1. PICK m \in S : \A j \in S : j = m \/ Before(m, j)
  BY FirstAndLast
<1>2. {j \in S : Before(j, m)} = {}
  BY <1>1, BeforeIsStrict
<1>3. Cardinality({j \in S : Before(j, m)}) < n
  BY <1>2, FS_EmptySet
<1> QED
  BY <1>3 DEF FirstRows

(* When some row of a set is left out of its first n, these are at least n. *)
LEMMA FullPrefix ==
  ASSUME NEW S \in SUBSET Key, NEW n \in Nat, FirstRows(S, n) # S
  PROVE  Cardinality(FirstRows(S, n)) >= n
<1> DEFINE rest == S \ FirstRows(S, n)
<1>1. rest \in SUBSET Key /\ rest # {}
  BY FirstRowsArePrefix
<1>2. PICK m \in rest : \A j \in rest : j = m \/ Before(m, j)
  BY <1>1, FirstAndLast
<1>3. {j \in S : Before(j, m)} \in SUBSET FirstRows(S, n)
  BY <1>2, BeforeIsStrict
<1>4. ~(Cardinality({j \in S : Before(j, m)}) < n) /\ m \in Key
  BY <1>2 DEF FirstRows
<1>5. FirstRows(S, n) \in SUBSET Key
  BY FirstRowsArePrefix
<1>6. IsFiniteSet(FirstRows(S, n)) /\ Cardinality(FirstRows(S, n)) \in Nat
  BY <1>5, FS_Subset, FS_CardinalityType
<1>7. Cardinality({j \in S : Before(j, m)}) <= Cardinality(FirstRows(S, n))
  BY <1>3, <1>6, FS_Subset
<1> QED
  BY <1>4, <1>6, <1>7, PredecessorsCount

(* A set that is its own first n rows has no more than n. *)
LEMMA ShortSet ==
  ASSUME NEW S \in SUBSET Key, NEW n \in Nat, FirstRows(S, n) = S
  PROVE  Cardinality(S) <= n
<1>0. IsFiniteSet(S) /\ Cardinality(S) \in Nat
  BY FS_Subset, FS_CardinalityType
<1>1. CASE S = {}
  BY <1>1, FS_EmptySet
<1>2. CASE S # {}
  <2>1. PICK m \in S : \A j \in S : j = m \/ Before(j, m)
    BY <1>2, FirstAndLast
  <2>2. {j \in S : Before(j, m)} = S \ {m}
    BY <2>1, BeforeIsStrict
  <2>3. Cardinality(S \ {m}) < n
    BY <2>2 DEF FirstRows
  <2>4. Cardinality(S \ {m}) = Cardinality(S) - 1
    BY <1>0, FS_RemoveElement
  <2> QED
    BY <1>0, <2>3, <2>4
<1> QED
  BY <1>1, <1>2

-----------------------------------------------------------------------------
(* One page. *)

Answer == FirstRows(Selected, Probe)
Page == FirstRows(Answer, client.limit)

(* What a page is: a prefix of what is selected, all of it when the probe  *)
(* row is not there, and up to its last row when it is.                    *)
LEMMA PageIsPrefix ==
  ASSUME TypeOK
  PROVE  /\ Page \subseteq Answer /\ Answer \subseteq Selected /\ Selected \subseteq table
         /\ Answer = Page => Page = Selected
         /\ Answer # Page =>
              /\ Boundary(Answer) \in Page
              /\ \A k \in Selected :
                   k \in Page <=> k = Boundary(Answer) \/ Before(k, Boundary(Answer))
<1> DEFINE last == Boundary(Answer)
<1>1. /\ client.limit \in Nat \ {0} /\ client.limit + 1 <= MaxRows
      /\ table \in SUBSET Key
  BY DEF TypeOK
<1>2. Probe = client.limit + 1 /\ Probe \in Nat
  BY <1>1 DEF Probe
<1>3. Selected \in SUBSET Key /\ Selected \subseteq table
  BY <1>1 DEF Selected
<1>4. /\ Answer \subseteq Selected
      /\ \A j \in Selected, k \in Answer : Before(j, k) => j \in Answer
  BY <1>2, <1>3, FirstRowsArePrefix DEF Answer
<1>5. /\ Page \subseteq Answer
      /\ \A j \in Answer, k \in Page : Before(j, k) => j \in Page
  BY <1>1, <1>3, <1>4, FirstRowsArePrefix DEF Page
<1>6. Answer \in SUBSET Key /\ Page \in SUBSET Key
  BY <1>3, <1>4, <1>5
<1>7. ASSUME Answer = Page PROVE Page = Selected
  <2>1. Cardinality(Answer) <= client.limit
    BY <1>1, <1>6, <1>7, ShortSet DEF Page
  <2>2. Answer # Selected => Cardinality(Answer) >= client.limit + 1
    BY <1>2, <1>3, FullPrefix DEF Answer
  <2>3. Cardinality(Answer) \in Nat
    BY <1>6, FS_Subset, FS_CardinalityType
  <2> QED
    BY <1>1, <1>7, <2>1, <2>2, <2>3
<1>8. ASSUME Answer # Page
      PROVE  /\ last \in Page
             /\ \A k \in Selected : k \in Page <=> k = last \/ Before(k, last)
  <2>1. Answer # {}
    BY <1>5, <1>8
  <2>2. Page # {}
    BY <1>1, <1>6, <2>1, SomeFirstRow DEF Page
  <2>3. last = LastRow(Page)
    BY DEF Boundary, Page
  <2>4. last \in Page /\ \A j \in Page : j = last \/ Before(j, last)
    BY <1>6, <2>2, <2>3, LastRowIsLast
  <2> HIDE DEF last
  <2> QED
    BY <1>4, <1>5, <2>4
<1> QED
  BY <1>3, <1>4, <1>5, <1>7, <1>8

-----------------------------------------------------------------------------
(* The invariant. *)

(* What has been handed out lies up to the cursor, and the rows of the     *)
(* start that lie there have been handed out.                              *)
UpToCursor ==
  client.pc # "done" =>
    IF client.cursor = NoCursor THEN \A k \in Key : handed[k] = 0
    ELSE /\ \A k \in Key :
              handed[k] # 0 => k = client.cursor \/ Before(k, client.cursor)
         /\ \A row \in atStart :
              InSpan(row) /\ (row = client.cursor \/ Before(row, client.cursor)) =>
                handed[row] > 0

Paged == NothingTwice /\ UpToCursor /\ NothingSkipped

ClientState ==
  [pc : {"ready", "authorised", "done", "refused"}, limit : 1 .. MaxLimit,
   started : BOOLEAN, cursor : Key \cup {NoCursor}]

LEMMA PagedInit == Init => TypeOK /\ Paged
<1> SUFFICES ASSUME Init PROVE TypeOK /\ Paged
  OBVIOUS
<1>1. PICK limit \in 1 .. MaxLimit :
        client = [pc |-> "ready", limit |-> limit, started |-> FALSE, cursor |-> NoCursor]
  BY DEF Init
<1>2. /\ client \in ClientState /\ client.pc = "ready" /\ ~client.started
      /\ client.cursor = NoCursor
  BY <1>1 DEF ClientState
<1>3. /\ handed \in [Key -> 0 .. 2] /\ \A k \in Key : handed[k] = 0
      /\ table \subseteq Key /\ keyState = "live" /\ lastUsed = FALSE /\ atStart = {}
  BY DEF Init
<1>4. TypeOK
  BY <1>2, <1>3 DEF TypeOK, ClientState
<1> QED
  BY <1>2, <1>3, <1>4 DEF Paged, NothingTwice, UpToCursor, NothingSkipped

LEMMA ReadPageStep ==
  ASSUME TypeOK, Paged, ReadPage
  PROVE  TypeOK' /\ Paged'
<1> DEFINE last == Boundary(Answer)
           cursor == client.cursor
           hasMore == Answer # Page
<1>1. /\ client.pc = "authorised" /\ client \in ClientState
      /\ cursor \in Key \cup {NoCursor} /\ (client.started <=> cursor # NoCursor)
      /\ table \subseteq Key /\ atStart \subseteq table /\ handed \in [Key -> 0 .. 2]
  BY DEF ReadPage, TypeOK, ClientState
<1>2. /\ handed' = [k \in Key |->
                      IF k \notin Page THEN handed[k]
                      ELSE IF handed[k] = 0 THEN 1 ELSE 2]
      /\ client' = [client EXCEPT
                      !.pc = IF hasMore THEN "ready" ELSE "done",
                      !.started = TRUE,
                      !.cursor = IF hasMore THEN last ELSE @]
      /\ atStart' = IF client.started THEN atStart ELSE table
      /\ UNCHANGED <<table, keyState, lastUsed>>
  BY DEF ReadPage, Answer, Page
<1>3. /\ Page \subseteq Selected /\ Selected \subseteq table
      /\ ~hasMore => Page = Selected
      /\ hasMore => /\ last \in Page
                    /\ \A k \in Selected : k \in Page <=> k = last \/ Before(k, last)
  BY PageIsPrefix
<1> HIDE DEF last, hasMore
<1>4. /\ client' \in ClientState /\ client'.started /\ client'.limit = client.limit
      /\ client'.pc = IF hasMore THEN "ready" ELSE "done"
      /\ client'.cursor = IF hasMore THEN last ELSE cursor
  <2>1. (IF hasMore THEN last ELSE cursor) \in Key \cup {NoCursor}
    BY <1>1, <1>3
  <2> QED
    BY <1>1, <1>2, <2>1 DEF ClientState
<1>5. hasMore => last \in Key /\ client'.cursor # NoCursor
  BY <1>1, <1>3, <1>4
(* What the query selects: the rows of the span after the cursor. *)
<1>6. \A row \in table :
        row \in Selected <=> InSpan(row) /\ (cursor # NoCursor => Before(cursor, row))
  BY <1>1, AfterCursorIsAfter DEF Selected
<1>7. \A k \in Page : handed[k] = 0
  <2> SUFFICES ASSUME NEW k \in Page, handed[k] # 0 PROVE FALSE
    OBVIOUS
  <2>1. k \in Key /\ k \in Selected /\ k \in table
    BY <1>1, <1>3
  <2>2. cursor # NoCursor /\ (k = cursor \/ Before(k, cursor))
    BY <1>1, <2>1 DEF Paged, UpToCursor
  <2>3. Before(cursor, k)
    BY <1>6, <2>1, <2>2
  <2> QED
    BY <1>1, <2>1, <2>2, <2>3, BeforeIsStrict
<1>8. /\ \A k \in Page : handed'[k] = 1
      /\ \A k \in Key \ Page : handed'[k] = handed[k]
      /\ handed' \in [Key -> 0 .. 2]
  BY <1>1, <1>2, <1>3, <1>7
<1>9. atStart' \subseteq table' /\ table' = table /\ (cursor # NoCursor => atStart' = atStart)
  BY <1>1, <1>2
<1>10. TypeOK'
  <2>1. \A k \in Key \ table' : handed'[k] = 0
    BY <1>2, <1>3, <1>8 DEF TypeOK
  <2>2. client'.started <=> client'.cursor # NoCursor \/ client'.pc = "done"
    BY <1>4, <1>5
  <2> QED
    BY <1>2, <1>4, <1>8, <1>9, <2>1, <2>2 DEF TypeOK, ClientState
(* A row of the start and of the span is handed out or still selected. *)
<1>11. ASSUME NEW row \in atStart', InSpan(row)
       PROVE  \/ row \in Selected
              \/ handed'[row] > 0 /\ cursor # NoCursor /\ (row = cursor \/ Before(row, cursor))
  <2>1. row \in table /\ row \in Key
    BY <1>1, <1>9
  <2>2. CASE cursor = NoCursor
    BY <1>6, <1>11, <2>1, <2>2
  <2>3. CASE cursor # NoCursor /\ Before(cursor, row)
    BY <1>6, <1>11, <2>1, <2>3
  <2>4. CASE cursor # NoCursor /\ ~Before(cursor, row)
    <3>1. row = cursor \/ Before(row, cursor)
      BY <1>1, <2>1, <2>4, BeforeIsTotal
    <3>2. handed[row] > 0
      BY <1>1, <1>9, <1>11, <2>4, <3>1 DEF Paged, UpToCursor
    <3> QED
      BY <1>8, <2>1, <2>4, <3>1, <3>2
  <2> QED
    BY <2>2, <2>3, <2>4
<1>12. NothingTwice'
  <2>1. \A k \in Key : handed'[k] <= 1
    BY <1>8 DEF Paged, NothingTwice
  <2> QED
    BY <2>1 DEF NothingTwice
<1>13. NothingSkipped'
  <2> SUFFICES ASSUME client'.pc = "done", NEW row \in atStart', InSpan(row)
               PROVE  handed'[row] > 0
    BY DEF NothingSkipped, InSpan
  <2>1. row \in Selected => row \in Page
    BY <1>3, <1>4
  <2> QED
    BY <1>8, <1>11, <2>1
<1>14. UpToCursor'
  <2> SUFFICES ASSUME hasMore
               PROVE  /\ \A k \in Key : handed'[k] # 0 => k = last \/ Before(k, last)
                      /\ \A row \in atStart' :
                           InSpan(row) /\ (row = last \/ Before(row, last)) =>
                             handed'[row] > 0
    BY <1>4, <1>5 DEF UpToCursor, InSpan, Before
  <2>1. ASSUME NEW k \in Key, handed'[k] # 0 PROVE k = last \/ Before(k, last)
    <3>1. CASE k \in Page
      BY <1>3, <3>1
    <3>2. CASE k \notin Page
      <4>1. cursor # NoCursor /\ (k = cursor \/ Before(k, cursor))
        BY <1>1, <1>8, <2>1, <3>2 DEF Paged, UpToCursor
      <4>2. Before(cursor, last)
        BY <1>3, <1>6, <4>1
      <4> QED
        BY <1>1, <1>5, <4>1, <4>2, BeforeIsTransitive
    <3> QED
      BY <3>1, <3>2
  <2>2. ASSUME NEW row \in atStart', InSpan(row), row = last \/ Before(row, last)
        PROVE  handed'[row] > 0
    <3>1. row \in Selected => row \in Page
      BY <1>3, <2>2
    <3> QED
      BY <1>8, <1>11, <2>2, <3>1
  <2> QED
    BY <2>1, <2>2
<1> QED
  BY <1>10, <1>12, <1>13, <1>14 DEF Paged

LEMMA PagedStep == TypeOK /\ Paged /\ [Next]_vars => TypeOK' /\ Paged'
<1> SUFFICES ASSUME TypeOK, Paged, [Next]_vars PROVE TypeOK' /\ Paged'
  OBVIOUS
(* Steps that leave the client's progress alone. *)
<1>p. ASSUME client' \in ClientState,
             client'.cursor = client.cursor, client'.started = client.started,
             client'.pc = client.pc \/ {client'.pc, client.pc} \subseteq {"ready", "authorised", "refused"},
             UNCHANGED <<atStart, handed>>,
             table \subseteq table' /\ table' \subseteq Key,
             keyState' \in {"live", "revoked", "expired"}, lastUsed' \in BOOLEAN
      PROVE  TypeOK' /\ Paged'
  <2>1. client'.pc = "done" <=> client.pc = "done"
    BY <1>p
  <2>2. TypeOK'
    BY <1>p, <2>1 DEF TypeOK, ClientState
  <2>3. Paged'
    BY <1>p, <2>1 DEF Paged, NothingTwice, UpToCursor, NothingSkipped, InSpan, Before
  <2> QED
    BY <2>2, <2>3
<1>c. client \in ClientState
  BY DEF TypeOK, ClientState
<1>1. CASE Authenticate
  <2>1. PICK pc \in {"authorised", "refused"} : client' = [client EXCEPT !.pc = pc]
    BY <1>1 DEF Authenticate
  <2>2. /\ client' \in ClientState /\ client'.cursor = client.cursor
        /\ client'.started = client.started /\ client'.pc = pc
    BY <1>c, <2>1 DEF ClientState
  <2>3. /\ client.pc = "ready" /\ lastUsed' \in BOOLEAN
        /\ UNCHANGED <<table, keyState, atStart, handed>>
    BY <1>1 DEF Authenticate, Good, TypeOK
  <2> QED
    BY <1>p, <2>2, <2>3 DEF TypeOK
<1>2. CASE ReadPage
  BY <1>2, ReadPageStep
<1>3. CASE PageLost
  <2>1. client' = [client EXCEPT !.pc = "ready"] /\ client.pc = "authorised"
    BY <1>3 DEF PageLost
  <2>2. /\ client' \in ClientState /\ client'.cursor = client.cursor
        /\ client'.started = client.started /\ client'.pc = "ready"
    BY <1>c, <2>1 DEF ClientState
  <2> QED
    BY <1>3, <1>p, <2>1, <2>2 DEF PageLost, TypeOK
<1>4. ASSUME NEW k \in Key, Insert(k) PROVE TypeOK' /\ Paged'
  BY <1>4, <1>c, <1>p DEF Insert, TypeOK
<1>5. CASE KeyEnds
  BY <1>5, <1>c, <1>p DEF KeyEnds, TypeOK
<1>6. CASE UNCHANGED vars
  BY <1>6, <1>c, <1>p DEF vars, TypeOK
<1> QED
  BY <1>1, <1>2, <1>3, <1>4, <1>5, <1>6 DEF Next

(* The variables keep their types; a client has a cursor exactly while it  *)
(* is between two pages.                                                   *)
THEOREM ReadTypes == Spec => []TypeOK
BY PagedInit, PagedStep, PTL DEF Spec

(* "Keyset cannot skip": a client that followed the cursors to the end has *)
(* every row of its span that was there when it read the first page, for   *)
(* any rows, ties in any column, null windows and rows inserted meanwhile. *)
THEOREM KeysetSkipsNothing == Spec => []NothingSkipped
<1>1. Paged => NothingSkipped
  BY DEF Paged
<1> QED
  BY <1>1, PagedInit, PagedStep, PTL DEF Spec

(* And no row twice, whatever is inserted and however often a page is lost *)
(* and asked for again.                                                    *)
THEOREM KeysetRepeatsNothing == Spec => []NothingTwice
<1>1. Paged => NothingTwice
  BY DEF Paged
<1> QED
  BY <1>1, PagedInit, PagedStep, PTL DEF Spec

-----------------------------------------------------------------------------
(* Progress. *)

(* The keys a client has still to hear of, whether or not they have a row. *)
Ahead == {k \in Key : client.cursor = NoCursor \/ Before(client.cursor, k)}

(* No step brings back a key that was passed, and every page that is       *)
(* answered is the last or passes as many keys as its limit.               *)
CursorAdvances ==
  /\ Ahead' \subseteq Ahead
  /\ ReadPage =>
       client'.pc = "done" \/ Cardinality(Ahead') + client.limit <= Cardinality(Ahead)

LEMMA PageAdvances ==
  ASSUME TypeOK, ReadPage
  PROVE  CursorAdvances
<1> DEFINE last == Boundary(Answer)
           cursor == client.cursor
           hasMore == Answer # Page
<1>1. /\ client \in ClientState /\ client.limit \in Nat
      /\ cursor \in Key \cup {NoCursor} /\ table \subseteq Key
  BY DEF TypeOK, ClientState
<1>2. client' = [client EXCEPT !.pc = IF hasMore THEN "ready" ELSE "done",
                               !.started = TRUE,
                               !.cursor = IF hasMore THEN last ELSE @]
  BY DEF ReadPage, Answer, Page
<1>3. /\ Page \subseteq Answer /\ Answer \subseteq Selected /\ Selected \subseteq table
      /\ hasMore => /\ last \in Page
                    /\ \A k \in Selected : k \in Page <=> k = last \/ Before(k, last)
  BY PageIsPrefix
<1> HIDE DEF last, hasMore
<1>4. /\ client'.pc = IF hasMore THEN "ready" ELSE "done"
      /\ client'.cursor = IF hasMore THEN last ELSE cursor
  BY <1>1, <1>2 DEF ClientState
<1>5. CASE ~hasMore
  <2>1. Ahead' = Ahead
    BY <1>4, <1>5 DEF Ahead, Before
  <2> QED
    BY <1>4, <1>5, <2>1 DEF CursorAdvances
<1>6. CASE hasMore
  <2>1. /\ last \in Key /\ last # NoCursor /\ client'.cursor = last
        /\ cursor = NoCursor \/ Before(cursor, last)
    BY <1>1, <1>3, <1>4, <1>6, AfterCursorIsAfter DEF Selected
  <2>2. Ahead' = {k \in Key : Before(last, k)}
    BY <2>1 DEF Ahead, Before
  <2>3. Ahead' \subseteq Ahead
    BY <1>1, <2>1, <2>2, BeforeIsTransitive DEF Ahead
  <2>4. Page \subseteq Ahead
    BY <1>1, <1>3, AfterCursorIsAfter DEF Ahead, Selected
  <2>5. Page \cap Ahead' = {}
    BY <1>3, <1>1, <1>6, <2>1, <2>2, BeforeIsStrict
  <2>6. Cardinality(Page) >= client.limit
    <3>1. Answer \in SUBSET Key /\ FirstRows(Answer, client.limit) # Answer
      BY <1>1, <1>3, <1>6 DEF Page, hasMore
    <3> QED
      BY <1>1, <3>1, FullPrefix DEF Page
  <2>7. /\ IsFiniteSet(Ahead) /\ IsFiniteSet(Ahead') /\ IsFiniteSet(Page)
        /\ Cardinality(Ahead) \in Nat /\ Cardinality(Ahead') \in Nat
        /\ Cardinality(Page) \in Nat
    <3>1. Ahead \subseteq Key /\ Ahead' \subseteq Key /\ Page \subseteq Key
      BY <1>1, <1>3, <2>2 DEF Ahead
    <3> QED
      BY <3>1, FS_Subset, FS_CardinalityType
  <2>8. Cardinality(Page \cup Ahead') = Cardinality(Page) + Cardinality(Ahead')
    <3>1. Cardinality(Page \cup Ahead') =
            Cardinality(Page) + Cardinality(Ahead') - Cardinality(Page \cap Ahead')
      BY <2>7, FS_Union
    <3>2. Cardinality(Page \cap Ahead') = 0
      BY <2>5, FS_EmptySet, Zenon
    <3> QED
      BY <2>7, <3>1, <3>2
  <2>9. Cardinality(Page \cup Ahead') <= Cardinality(Ahead)
    BY <2>3, <2>4, <2>7, FS_Subset
  <2> QED
    BY <1>1, <2>3, <2>6, <2>7, <2>8, <2>9 DEF CursorAdvances
<1> QED
  BY <1>5, <1>6

(* Paging cannot go on for ever: from page to page a client passes as many *)
(* keys as its limit, however many rows are inserted behind or ahead of    *)
(* it, and a page that is lost and asked for again takes nothing back.     *)
THEOREM PagesRunOut == Spec => [][CursorAdvances]_vars
<1>1. ASSUME TypeOK, [Next]_vars PROVE [CursorAdvances]_vars
  <2>1. CASE ReadPage
    BY <1>1, <2>1, PageAdvances
  <2>2. CASE ~ReadPage
    <3>1. client'.cursor = client.cursor
      BY <1>1, <2>2 DEF Next, Authenticate, PageLost, Insert, KeyEnds, vars, TypeOK
    <3>2. Ahead' = Ahead
      BY <3>1 DEF Ahead, Before
    <3> QED
      BY <2>2, <3>2 DEF CursorAdvances
  <2> QED
    BY <2>1, <2>2
<1> QED
  BY <1>1, PagedInit, PagedStep, PTL DEF Spec

=============================================================================
