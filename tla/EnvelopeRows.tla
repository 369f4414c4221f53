---------------------------- MODULE EnvelopeRows ----------------------------
(***************************************************************************)
(* The writers of public.envelope_rows and the events they leave.          *)
(*                                                                         *)
(*   - an ingest run (apps/api-edge/src/ingest.ts) pins fetched_at and the *)
(*     end of its window once, asks the platform for what was modified in  *)
(*     that window, and writes every page with one call of                 *)
(*     public.ingest_envelope_rows;                                        *)
(*   - a scheduled run starts at the watermark of its connection and moves *)
(*     it when it is recorded; an operator's run reads the span it was     *)
(*     asked for and leaves the watermark alone;                           *)
(*   - that call is one transaction at READ COMMITTED: it upserts the rows *)
(*     of the page one after another, locking each, so two calls may wait  *)
(*     for each other and PostgreSQL aborts one of a cycle;                *)
(*   - app.upsert_envelope_row replaces the figures and the fetch time,    *)
(*     keeps first_seen_at and restates_until, and derives is_provisional; *)
(*     the trigger envelope_rows_restated leaves one event in the outbox   *)
(*     when the figure moved;                                              *)
(*   - the platform restates, the clock runs, Workers die.                 *)
(*                                                                         *)
(* Several runs may be under way: POST /v1/ingest/run takes no lease, and  *)
(* a call that was sent still lands when its sender is dead.               *)
(*                                                                         *)
(* A time is kept as a distance from now: how old fetched_at is, how far   *)
(* away restates_until.  Beyond MaxRun in the past it no longer matters    *)
(* how far, so the clock needs no bound.  The watermark is kept as the set *)
(* of keys modified after it, and the end a run pinned as the keys         *)
(* modified after that (what the walk itself may miss in the very second   *)
(* of such an end is the subject of WooWalk).                              *)
(***************************************************************************)
EXTENDS Integers, Sequences, FiniteSets

CONSTANTS
  Key,         \* (workspace, source, account, entity, date, window): one row
  Window,      \* restatement window of each key's source, or Unknown
  History,     \* what the platform reports for a key, version by version
  Run,         \* ingest runs that may be under way together
  MaxRun       \* the longest a run and its last call take

Unknown == -1
Absent == "absent"      \* the metric is null
Unseen == "unseen"      \* a consumer's figure of a row that does not exist

NoRow == [version |-> 0, left |-> 0, provisional |-> FALSE]

Version(k) == 1 .. Len(History[k])

ASSUME EnvelopeAssumption ==
  /\ Window \in [Key -> Nat \cup {Unknown}]
  /\ DOMAIN History = Key /\ \A k \in Key : Len(History[k]) \in Nat \ {0}
  /\ MaxRun \in Nat

VARIABLES
  reported,    \* the platform's present version of each key, 0 before any
  rows,        \* public.envelope_rows
  ahead,       \* the keys modified after ingest_checkpoint
  run          \* the local state of each run and of its transaction

(* History variables, read by the properties only. *)
VARIABLES
  told,        \* the figure a consumer holds who saw the row when it was
               \* inserted and has replayed every event since
  overwritten  \* the keys whose row an older page has replaced, until the
               \* row is written in its present version again

vars == <<reported, rows, ahead, run, told, overwritten>>
history == <<told, overwritten>>

(* left is the time to restates_until, down to -MaxRun.  version is the    *)
(* platform's version the figure was read from; no column holds it.        *)
Left(k) == IF Window[k] = Unknown THEN {0} ELSE -MaxRun .. Window[k]
Row(k) == [version : Version(k), left : Left(k), provisional : BOOLEAN]

Figure(k, row) == History[k][row.version]

RunState ==
  [pc : {"off", "reading", "writing", "landing", "done"},
   scheduled : BOOLEAN,                   \* or the operator's
   age : 0 .. MaxRun,                     \* of its fetched_at
   unread : SUBSET Key,                   \* selected and not yet listed
   later : SUBSET Key,                    \* modified after its pinned end
   page : Seq(Key \X Nat),                \* still to be upserted
   shown : SUBSET Key,                    \* inserted, or with an event
   written : UNION {[S -> UNION {Row(k) : k \in Key}] : S \in SUBSET Key}]

(* The types, and that a row of a source without a window is never final. *)
TypeOK ==
  /\ \A k \in Key : reported[k] \in 0 .. Len(History[k])
  /\ \A k \in Key :
       IF rows[k] = NoRow THEN told[k] = Unseen
       ELSE /\ rows[k] \in Row(k)
            /\ Window[k] = Unknown => rows[k].provisional
  /\ \A r \in Run : run[r] \in RunState
  /\ ahead \subseteq Key /\ overwritten \subseteq Key

Off == [pc |-> "off", scheduled |-> FALSE, age |-> 0, unread |-> {}, later |-> {},
        page |-> <<>>, shown |-> {}, written |-> <<>>]

Init ==
  /\ reported = [k \in Key |-> 0]
  /\ rows = [k \in Key |-> NoRow]
  /\ ahead = {}
  /\ run = [r \in Run |-> Off]
  /\ told = [k \in Key |-> Unseen]
  /\ overwritten = {}

-----------------------------------------------------------------------------
(* app.upsert_envelope_row. *)

AtLeast(floor, n) == IF n < floor THEN floor ELSE n

(* restatesUntil with first_seen_at = fetched_at, as every connector emits *)
(* it: a number of days from the first sight on, or null.                  *)
RestatesUntil(k, age) ==
  IF Window[k] = Unknown THEN 0 ELSE AtLeast(-MaxRun, Window[k] - age)

(* Mutant: the unknown window is forgotten. *)
ProvisionalByTime(k, age, left) == -age < left

(* p_restates_until is null or p_fetched_at < p_restates_until *)
Provisional(k, age, left) == Window[k] = Unknown \/ -age < left

Inserted(k, version, age) ==
  [version |-> version, left |-> RestatesUntil(k, age),
   provisional |-> Provisional(k, age, RestatesUntil(k, age))]

(* Mutants: the window slides with every fetch; a conflict does nothing. *)
UpdatedSliding(k, old, version, age) ==
  [version |-> version, left |-> RestatesUntil(k, age),
   provisional |-> Provisional(k, age, RestatesUntil(k, age))]

UpdatedNever(k, old, version, age) == old

(* on conflict do update: the figure is the new one, the window is kept.   *)
Updated(k, old, version, age) ==
  [version |-> version, left |-> old.left,
   provisional |-> Provisional(k, age, old.left)]

Upserted(k, old, version, age) ==
  IF old = NoRow THEN Inserted(k, version, age) ELSE Updated(k, old, version, age)

(* Mutant: `<>` instead of `is distinct from`. *)
RestatedByInequality(k, old, new) ==
  Absent \notin {Figure(k, old), Figure(k, new)} /\ Figure(k, old) # Figure(k, new)

(* old.metric is distinct from new.metric *)
Restated(k, old, new) == Figure(k, old) # Figure(k, new)

-----------------------------------------------------------------------------
(* The run. *)

Reported == {k \in Key : reported[k] > 0}

(* runIngest pins fetched_at and until.  A scheduled run selects at least  *)
(* what was modified after the watermark, and more when it read the        *)
(* watermark before another run moved it; POST /v1/ingest/run selects the  *)
(* span the operator names.                                                *)
Start(r) ==
  /\ run[r].pc = "off"
  /\ \E scheduled \in BOOLEAN, span \in SUBSET Reported :
       /\ scheduled => ahead \subseteq span
       /\ run' = [run EXCEPT ![r] = [Off EXCEPT !.pc = "reading", !.unread = span,
                                                !.scheduled = scheduled]]
  /\ UNCHANGED <<reported, rows, ahead, history>>

(* One page as the platform answers it, in any order, and the call that    *)
(* writes it.                                                              *)
ReadPage(r) ==
  /\ run[r].pc = "reading"
  /\ \E n \in 1 .. Cardinality(run[r].unread) :
       \E order \in [1 .. n -> run[r].unread] :
         LET listed == {order[j] : j \in 1 .. n} IN
         /\ Cardinality(listed) = n
         /\ run' = [run EXCEPT
                      ![r].pc = "writing",
                      ![r].unread = @ \ listed,
                      ![r].page = [j \in 1 .. n |-> <<order[j], reported[order[j]]>>]]
  /\ UNCHANGED <<reported, rows, ahead, history>>

Writing(r) == run[r].pc \in {"writing", "landing"}

(* The key r is about to upsert, and the row it will find. *)
NextKey(r) == run[r].page[1][1]

(* Mutant: the row is not locked until the transaction commits. *)
WaitsForNobody(r, s) == FALSE

WaitsFor(r, s) ==
  /\ Writing(r) /\ run[r].page # <<>> /\ r # s
  /\ NextKey(r) \in DOMAIN run[s].written

(* The row is new, or the trigger leaves an event that carries the figure. *)
Shows(k, old, new) == old = NoRow \/ Restated(k, old, new)

(* One turn of the loop in ingest_envelope_rows, with the trigger, which   *)
(* compares with the row the upsert found.                                 *)
WriteRow(r) ==
  LET k == NextKey(r)
      new == Upserted(k, rows[k], run[r].page[1][2], run[r].age)
  IN
  /\ Writing(r) /\ run[r].page # <<>>
  /\ \A s \in Run : ~WaitsFor(r, s)
  /\ run' = [run EXCEPT
               ![r].page = Tail(@),
               ![r].shown = IF Shows(k, rows[k], new) THEN @ \cup {k} ELSE @,
               ![r].written = [j \in DOMAIN @ \cup {k} |-> IF j = k THEN new ELSE @[j]]]
  /\ UNCHANGED <<reported, rows, ahead, history>>

AfterCall(r) ==
  IF run[r].pc = "landing" THEN Off
  ELSE [run[r] EXCEPT !.pc = "reading", !.page = <<>>, !.shown = {}, !.written = <<>>]

(* The transaction commits: its rows and its events appear together. *)
Commit(r) ==
  LET written == run[r].written
      keys == DOMAIN written
  IN
  /\ Writing(r) /\ run[r].page = <<>>
  /\ rows' = [k \in Key |-> IF k \in keys THEN written[k] ELSE rows[k]]
  /\ told' = [k \in Key |-> IF k \in run[r].shown THEN Figure(k, written[k]) ELSE told[k]]
  /\ overwritten' =
       (overwritten \cup {k \in keys : written[k].version < rows[k].version})
         \ {k \in keys : written[k].version = reported[k]}
  /\ run' = [run EXCEPT ![r] = AfterCall(r)]
  /\ UNCHANGED <<reported, ahead>>

(* What r has read and written: its checkpoint is the last chunk all of    *)
(* whose pages the database has taken.                                     *)
Banked(r) ==
  Reported \ (run[r].unread \cup run[r].later \cup DOMAIN run[r].written
                \cup {run[r].page[j][1] : j \in DOMAIN run[r].page})

(* The sweep records the checkpoint of a scheduled run that failed, unless *)
(* it died with it; anything up to what is banked is behind it.            *)
RecordPart(r) ==
  IF run[r].scheduled
  THEN \E chunks \in SUBSET Banked(r) : ahead' = ahead \ chunks
  ELSE UNCHANGED ahead

(* PostgreSQL aborts one of two calls that wait for each other: the page   *)
(* is rolled back and the run fails.                                       *)
DeadlockVictim(r) ==
  /\ \E s \in Run : WaitsFor(r, s) /\ WaitsFor(s, r)
  /\ RecordPart(r)
  /\ run' = [run EXCEPT ![r] = Off]
  /\ UNCHANGED <<reported, rows, history>>

(* The platform has nothing more in the window of a scheduled run. *)
Complete(r) ==
  /\ run[r].pc = "reading" /\ run[r].scheduled /\ run[r].unread = {}
  /\ run' = [run EXCEPT ![r] = [Off EXCEPT !.pc = "done", !.scheduled = TRUE,
                                           !.later = run[r].later]]
  /\ UNCHANGED <<reported, rows, ahead, history>>

(* Mutant: the watermark becomes the time the run ended. *)
RecordTheEnd(r) ==
  /\ run[r].pc = "done"
  /\ ahead' = {}
  /\ run' = [run EXCEPT ![r] = Off]
  /\ UNCHANGED <<reported, rows, history>>

(* record_backfill: the watermark becomes the end the run pinned. *)
Record(r) ==
  /\ run[r].pc = "done"
  /\ ahead' = ahead \cap run[r].later
  /\ run' = [run EXCEPT ![r] = Off]
  /\ UNCHANGED <<reported, rows, history>>

(* POST /v1/ingest/run reports to the operator and records nothing; what   *)
(* it selected and did not see has been modified after its window.         *)
Answer(r) ==
  /\ run[r].pc = "reading" /\ ~run[r].scheduled
  /\ run' = [run EXCEPT ![r] = Off]
  /\ UNCHANGED <<reported, rows, ahead, history>>

(* A page is refused by the platform or by the contract, or the Worker     *)
(* dies, perhaps before a complete run is recorded.  A call that was sent  *)
(* goes on.                                                                *)
Fail(r) ==
  /\ run[r].pc \in {"reading", "writing", "done"}
  /\ IF run[r].pc = "done" THEN UNCHANGED ahead ELSE RecordPart(r)
  /\ run' = [run EXCEPT ![r] =
                IF run[r].pc = "writing"
                THEN [@ EXCEPT !.pc = "landing", !.scheduled = FALSE, !.unread = {},
                               !.later = {}]
                ELSE Off]
  /\ UNCHANGED <<reported, rows, history>>

-----------------------------------------------------------------------------
(* The platform and the clock. *)

(* The platform reports a new version.  A scheduled run selects by the     *)
(* time of modification, so the key leaves its window and is left to the   *)
(* next run; an operator's may ask by the day (Search Console) and list    *)
(* the new version.                                                        *)
Restate(k) ==
  /\ reported[k] < Len(History[k])
  /\ reported' = [reported EXCEPT ![k] = @ + 1]
  /\ ahead' = ahead \cup {k}
  /\ run' = [r \in Run |->
               IF run[r].scheduled
               THEN [run[r] EXCEPT !.unread = @ \ {k}, !.later = @ \cup {k}]
               ELSE run[r]]
  /\ UNCHANGED <<rows, history>>

InProgress(r) == run[r].pc \in {"reading", "writing", "landing"}

Closer(k, row) ==
  IF Window[k] = Unknown THEN row
  ELSE [row EXCEPT !.left = AtLeast(-MaxRun, @ - 1)]

Tick ==
  /\ \A r \in Run : InProgress(r) => run[r].age < MaxRun
  /\ rows' = [k \in Key |-> IF rows[k] = NoRow THEN NoRow ELSE Closer(k, rows[k])]
  /\ run' = [r \in Run |->
               IF InProgress(r)
               THEN [run[r] EXCEPT !.age = @ + 1,
                                   !.written = [k \in DOMAIN @ |-> Closer(k, @[k])]]
               ELSE run[r]]
  /\ UNCHANGED <<reported, ahead, history>>

RunStep(r) ==
  \/ Start(r) \/ ReadPage(r) \/ WriteRow(r) \/ Commit(r) \/ DeadlockVictim(r)
  \/ Complete(r) \/ Record(r) \/ Answer(r) \/ Fail(r)

Next ==
  \/ \E r \in Run : RunStep(r)
  \/ \E k \in Key : Restate(k)
  \/ Tick

Spec == Init /\ [][Next]_vars

-----------------------------------------------------------------------------
(* Properties. *)

(* The outbox is complete and in step: a consumer that replays the events  *)
(* in the order they were committed holds the figure of the row, whichever *)
(* runs overlapped, were rolled back or landed late.                       *)
ConsumerKeepsUp ==
  \A k \in Key : rows[k] # NoRow => told[k] = Figure(k, rows[k])

(* The watermark leaves nothing behind that a scheduled run would never    *)
(* ask for again: a row is in the version the platform reports, or was     *)
(* modified after the watermark, or a page read before the one it held has *)
(* overwritten it.                                                         *)
NothingStaleBehindTheMark ==
  \A k \in Reported :
    k \in ahead \/ k \in overwritten \/ rows[k].version = reported[k]

(* The two properties of progress assume no fairness: they say of what     *)
(* they need that it happens again and again.                              *)
KeepsPulling == []<><<\E r \in Run : Record(r)>>_vars
KeepsWriting(k) == []<><<\E r \in Run : Commit(r) /\ k \in DOMAIN run[r].written>>_vars
TimePasses == []<><<Tick>>_vars

(* Scheduled runs that are recorded complete bring every row to the last   *)
(* version of the platform, but for a row an older page has overwritten:   *)
(* its order is behind the watermark, and only a run that is asked to will *)
(* read it again.                                                          *)
RowsCatchUp ==
  KeepsPulling =>
    \A k \in Key :
      <>[](k \in Reported \ overwritten => rows[k].version = reported[k])

(* "is_provisional eventually clears", for a row that goes on being read:  *)
(* with a window it is final for good some time after that window, however *)
(* late a page of an earlier fetch lands.                                  *)
FinalityClears ==
  \A k \in Key :
    Window[k] # Unknown /\ TimePasses /\ KeepsWriting(k) => <>[](~rows[k].provisional)

(* A row never goes back to a version read before the one it holds.  This  *)
(* needs the runs of a connection to exclude each other.                   *)
RowsOnlyForward ==
  [][\A k \in Key : rows[k] # NoRow => rows[k].version <= rows'[k].version]_vars
=============================================================================
