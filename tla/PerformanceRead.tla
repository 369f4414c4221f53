-------------------------- MODULE PerformanceRead --------------------------
(***************************************************************************)
(* GET /v1/performance, page by page, over a table that grows underneath.  *)
(*                                                                         *)
(* A client asks for a span of dates and follows next_cursor until there   *)
(* is none.  Every request is authenticated on its own                     *)
(* (public.verify_api_key), then answered by one query of PostgREST:       *)
(* a keyset predicate over four columns, one of them nullable, an order    *)
(* with nulls first, and one row more than the limit, so that the answer   *)
(* says whether there is more.  PostgREST caps every answer at max_rows.   *)
(* Meanwhile runs insert rows (EnvelopeRows), and the key is revoked or    *)
(* runs out.                                                               *)
(***************************************************************************)
EXTENDS Integers, Sequences, FiniteSets

CONSTANTS
  Key,         \* the rows of one workspace and source, by their key columns
  MaxRows,     \* max_rows of supabase/config.toml
  MaxLimit,    \* MAX_LIMIT
  From, To     \* the span the client asks for

Null == 0      \* no attribution window; the labels are 1, 2, ... in enum order

KeyColumns == [date : Nat, account : Nat, entity : Nat, window : Nat]

NoCursor == [date |-> 0, account |-> 0, entity |-> 0, window |-> 0]

ASSUME ReadAssumption ==
  /\ Key \subseteq KeyColumns /\ NoCursor \notin Key
  /\ IsFiniteSet(Key)
  /\ MaxLimit \in Nat \ {0} /\ MaxRows \in Nat
  /\ MaxLimit < MaxRows

VARIABLES
  table,       \* the keys that have a row
  keyState,    \* the API key: "live", "revoked" or "expired"
  lastUsed,    \* api_keys.last_used_at is not null
  client,      \* the paging client
  atStart,     \* rows the table had when the first page was read
  handed       \* how often each row was handed out; 2 is more than once

vars == <<table, keyState, lastUsed, client, atStart, handed>>

TypeOK ==
  /\ table \subseteq Key
  /\ keyState \in {"live", "revoked", "expired"}
  /\ lastUsed \in BOOLEAN
  /\ client \in [pc : {"ready", "authorised", "done", "refused"},
                 limit : 1 .. MaxLimit, started : BOOLEAN,
                 cursor : Key \cup {NoCursor}]
  /\ atStart \subseteq table
  /\ handed \in [Key -> 0 .. 2]
  /\ \A k \in Key \ table : handed[k] = 0
  /\ client.started <=> client.cursor # NoCursor \/ client.pc = "done"

Init ==
  /\ table \in SUBSET Key
  /\ keyState = "live" /\ lastUsed = FALSE
  /\ \E limit \in 1 .. MaxLimit :
       client = [pc |-> "ready", limit |-> limit, started |-> FALSE, cursor |-> NoCursor]
  /\ atStart = {} /\ handed = [k \in Key |-> 0]

-----------------------------------------------------------------------------
(* The order and the predicate. *)

(* date desc, account asc, entity asc, window asc nulls first. *)
Before(j, k) ==
  \/ j.date > k.date
  \/ j.date = k.date /\ j.account < k.account
  \/ j.date = k.date /\ j.account = k.account /\ j.entity < k.entity
  \/ /\ j.date = k.date /\ j.account = k.account /\ j.entity = k.entity
     /\ j.window < k.window

(* SQL's `>`: never true of a null. *)
Greater(a, b) == a # Null /\ b # Null /\ a > b

(* Mutants: a plain comparison with the cursor's window; at or after it. *)
WindowAtOrAfter(row, cursor) == row.window >= cursor.window

WindowAfterPlain(row, cursor) == Greater(row.window, cursor.window)

(* after a null: not is null; after a label: gt *)
WindowAfter(row, cursor) ==
  IF cursor.window = Null THEN row.window # Null
  ELSE Greater(row.window, cursor.window)

(* Mutant: the entity is compared without pinning the account above it. *)
AfterCursorUnpinned(row, cursor) ==
  \/ row.date < cursor.date
  \/ row.date = cursor.date /\ row.account > cursor.account
  \/ row.date = cursor.date /\ row.entity > cursor.entity
  \/ row.date = cursor.date /\ row.entity = cursor.entity /\ WindowAfter(row, cursor)

AfterCursor(row, cursor) ==
  \/ row.date < cursor.date
  \/ row.date = cursor.date /\ row.account > cursor.account
  \/ /\ row.date = cursor.date /\ row.account = cursor.account
     /\ row.entity > cursor.entity
  \/ /\ row.date = cursor.date /\ row.account = cursor.account
     /\ row.entity = cursor.entity /\ WindowAfter(row, cursor)

InSpan(row) == From <= row.date /\ row.date <= To

Selected ==
  {row \in table :
     InSpan(row) /\ (client.cursor # NoCursor => AfterCursor(row, client.cursor))}

(* The first n rows of a set, in the order. *)
FirstRows(S, n) == {row \in S : Cardinality({j \in S : Before(j, row)}) < n}

LastRow(S) == CHOOSE row \in S : \A j \in S : j = row \/ Before(j, row)

-----------------------------------------------------------------------------
(* handlePerformance. *)

(* verify_api_key: revoked_at is null and expires_at > now() *)
Good == keyState = "live"

(* authenticate: the key is verified anew for every page, and stamped. *)
Authenticate ==
  /\ client.pc = "ready"
  /\ client' = [client EXCEPT !.pc = IF Good THEN "authorised" ELSE "refused"]
  /\ lastUsed' = (lastUsed \/ Good)
  /\ UNCHANGED <<table, keyState, atStart, handed>>

(* limit + 1, and PostgREST's cap. *)
Probe == IF client.limit + 1 < MaxRows THEN client.limit + 1 ELSE MaxRows

(* Mutant: the page has no boundary. *)
BoundaryMissing(answer) == NoCursor

(* The last row handed out, not the probe row. *)
Boundary(answer) == LastRow(FirstRows(answer, client.limit))

(* One query; the page goes out with the cursor of its last row. *)
ReadPage ==
  /\ client.pc = "authorised"
  /\ \E answer \in {FirstRows(Selected, Probe)} :
       LET page == FirstRows(answer, client.limit)
           hasMore == answer # page
       IN
       /\ handed' = [k \in Key |->
                       IF k \notin page THEN handed[k]
                       ELSE IF handed[k] = 0 THEN 1 ELSE 2]
       /\ client' = [client EXCEPT
                       !.pc = IF hasMore THEN "ready" ELSE "done",
                       !.started = TRUE,
                       !.cursor = IF hasMore THEN Boundary(answer) ELSE @]
  /\ atStart' = IF client.started THEN atStart ELSE table
  /\ UNCHANGED <<table, keyState, lastUsed>>

(* The request fails upstream, or its answer is lost: the client holds the *)
(* cursor it had and asks again.                                           *)
PageLost ==
  /\ client.pc = "authorised"
  /\ client' = [client EXCEPT !.pc = "ready"]
  /\ UNCHANGED <<table, keyState, lastUsed, atStart, handed>>

-----------------------------------------------------------------------------
(* The others. *)

(* A run commits a row: key columns are never updated, rows never deleted. *)
Insert(k) ==
  /\ k \notin table
  /\ table' = table \cup {k}
  /\ UNCHANGED <<keyState, lastUsed, client, atStart, handed>>

(* revokeApiKey, or expires_at passes. *)
KeyEnds ==
  /\ keyState = "live"
  /\ keyState' \in {"revoked", "expired"}
  /\ UNCHANGED <<table, lastUsed, client, atStart, handed>>

Next ==
  \/ Authenticate \/ ReadPage \/ PageLost
  \/ \E k \in Key : Insert(k)
  \/ KeyEnds

Spec == Init /\ [][Next]_vars

(* The client goes on, and not every page is lost. *)
FairSpec == Spec /\ WF_vars(Authenticate) /\ SF_vars(ReadPage)

-----------------------------------------------------------------------------
(* Properties. *)

(* "Keyset cannot skip": a client that was told there is no more holds     *)
(* every row of its span that was there when it read the first page.       *)
NothingSkipped ==
  client.pc = "done" =>
    \A row \in atStart : InSpan(row) => handed[row] > 0

(* No row is handed out twice, so a sum over the pages is not too high.    *)
NothingTwice == \A k \in Key : handed[k] <= 1

(* Paging ends, at the last page or at a refused key, however many rows    *)
(* are inserted meanwhile.                                                 *)
PagingEnds == <>(client.pc \in {"done", "refused"})
=============================================================================
