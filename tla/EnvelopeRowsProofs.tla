------------------------- MODULE EnvelopeRowsProofs -------------------------
(***************************************************************************)
(* What TLAPS proves of EnvelopeRows, for any rows, sources, histories and *)
(* number of overlapping runs.                                             *)
(*                                                                         *)
(* The argument: a transaction locks a row from its upsert to its commit,  *)
(* so no two open transactions have written the same row, and the row a    *)
(* commit replaces is the one its upsert found.  The window it kept is     *)
(* therefore still the row's, and the event it leaves, or does not leave,  *)
(* leads from the figure the consumer holds to the new one.  Until that    *)
(* commit the age of the fetch and the end of the window recede together,  *)
(* so is_provisional still says which of the two came first.  And what a   *)
(* scheduled run selected and nobody modified since is unread, listed,     *)
(* written, or in the envelope, so that the end it pinned may become the   *)
(* watermark when the first three are empty.                               *)
(***************************************************************************)
EXTENDS EnvelopeRows, SequenceTheorems, TLAPS

USE EnvelopeAssumption

-----------------------------------------------------------------------------
(* Types. *)

(* What a platform page may list, and the rows a key may have.             *)
Listed == {entry \in Key \X Nat : entry[2] \in Version(entry[1])}

RowsOf(k) == {row \in Row(k) : Window[k] = Unknown => row.provisional}

(* A run reads what the platform has reported and writes rows of the right *)
(* key; it holds a transaction only while a call is under way.             *)
Orderly(state) ==
  /\ \A k \in state.unread : reported[k] > 0
  /\ state.page \in Seq(Listed)
  /\ \A k \in DOMAIN state.written : state.written[k] \in RowsOf(k)
  /\ state.shown \subseteq DOMAIN state.written
  /\ state.pc \notin {"writing", "landing"} =>
       state.page = <<>> /\ DOMAIN state.written = {}
  /\ state.scheduled => state.pc \in {"reading", "writing", "done"}
  /\ state.pc = "done" => state.scheduled /\ state.unread = {}

(* Between two calls. *)
Still(state) ==
  /\ state.pc \in {"off", "reading", "done"}
  /\ state.page = <<>> /\ state.shown = {} /\ DOMAIN state.written = {}

(* The same transaction. *)
SameCall(state, old) ==
  /\ state.page = old.page /\ state.shown = old.shown
  /\ state.written = old.written /\ state.age = old.age

Typed ==
  /\ TypeOK
  /\ reported \in [Key -> Int]
  /\ run \in [Run -> RunState]
  /\ \A r \in Run : Orderly(run[r])

LEMMA EmptyTyped ==
  /\ <<>> \in Seq(Listed) /\ <<>> \in Seq(Key \X Nat) /\ DOMAIN <<>> = {}
  /\ <<>> \in UNION {[T -> UNION {Row(j) : j \in Key}] : T \in SUBSET Key}
<1>1. <<>> \in [{} -> UNION {Row(k) : k \in Key}]
  OBVIOUS
<1>2. [{} -> UNION {Row(j) : j \in Key}]
        \in {[T -> UNION {Row(j) : j \in Key}] : T \in SUBSET Key}
  OBVIOUS
<1>3. <<>> \in Seq(Listed) /\ <<>> \in Seq(Key \X Nat) /\ DOMAIN <<>> = {}
  OBVIOUS
<1>4. <<>> \in UNION {[T -> UNION {Row(j) : j \in Key}] : T \in SUBSET Key}
  BY <1>1, <1>2, Zenon
<1> QED
  BY <1>3, <1>4

LEMMA OffTyped ==
  /\ Off \in RunState
  /\ Off.pc = "off" /\ Off.unread = {} /\ Off.later = {} /\ Off.age = 0 /\ ~Off.scheduled
  /\ Off.page = <<>> /\ Off.shown = {} /\ DOMAIN Off.written = {}
<1>1. <<>> \in [{} -> UNION {Row(k) : k \in Key}]
  OBVIOUS
<1>2. Off \in RunState
  BY <1>1 DEF Off, RunState
<1> QED
  BY <1>2, EmptyTyped DEF Off

LEMMA OffOrderly == Orderly(Off) /\ Still(Off)
BY OffTyped, EmptyTyped DEF Orderly, Still

LEMMA TypedInit == Init => Typed
<1> SUFFICES ASSUME Init PROVE Typed
  OBVIOUS
<1>1. reported \in [Key -> Int] /\ \A k \in Key : reported[k] \in 0 .. Len(History[k])
  BY DEF Init
<1>2. \A k \in Key : rows[k] = NoRow /\ told[k] = Unseen
  BY DEF Init
<1>3. run \in [Run -> RunState] /\ \A r \in Run : run[r] = Off
  BY OffTyped DEF Init
<1>4. ahead = {} /\ overwritten = {}
  BY DEF Init
<1> QED
  BY <1>1, <1>2, <1>3, <1>4, OffOrderly DEF Typed, TypeOK

(* A listing of rows is a page; a function on some keys into their rows is *)
(* what a transaction may have written.                                    *)
LEMMA PageTyped ==
  ASSUME NEW page \in Seq(Listed)
  PROVE  page \in Seq(Key \X Nat)
<1>1. Listed \subseteq Key \X Nat
  BY DEF Listed
<1> QED
  BY <1>1

LEMMA WrittenTyped ==
  ASSUME NEW S \in SUBSET Key, NEW written,
         written = [k \in S |-> written[k]], \A k \in S : written[k] \in RowsOf(k)
  PROVE  written \in UNION {[T -> UNION {Row(k) : k \in Key}] : T \in SUBSET Key}
<1>1. \A k \in S : written[k] \in UNION {Row(j) : j \in Key}
  BY DEF RowsOf
<1>2. written \in [S -> UNION {Row(k) : k \in Key}]
  BY <1>1
<1> QED
  BY <1>2

(* The row of a key is a row of that key, whether inserted, updated or     *)
(* grown older.                                                            *)
LEMMA RowKinds ==
  ASSUME NEW k \in Key
  PROVE  /\ Window[k] \in Nat \cup {Unknown} /\ MaxRun \in Nat
         /\ 0 \in Left(k)
         /\ NoRow \notin RowsOf(k)
         /\ \A row \in RowsOf(k) :
              /\ row \in Row(k) /\ row.version \in Version(k) /\ row.left \in Left(k)
              /\ row.provisional \in BOOLEAN
<1>1. /\ Window[k] \in Nat \cup {Unknown} /\ MaxRun \in Nat
      /\ 0 \in Left(k)
  BY DEF Left, Unknown
<1>2. \A row \in RowsOf(k) :
         /\ row \in Row(k) /\ row.version \in Version(k) /\ row.left \in Left(k)
         /\ row.provisional \in BOOLEAN
  BY DEF RowsOf, Row
<1>3. NoRow.version \notin Version(k)
  BY DEF NoRow, Version
<1> QED
  BY <1>1, <1>2, <1>3

LEMMA UpsertedTyped ==
  ASSUME NEW k \in Key, NEW old, old = NoRow \/ old \in RowsOf(k),
         NEW version \in Version(k), NEW age \in 0 .. MaxRun
  PROVE  /\ Upserted(k, old, version, age) \in RowsOf(k)
         /\ old # NoRow => Upserted(k, old, version, age).left = old.left
         /\ Upserted(k, old, version, age).version = version
<1>1. ASSUME NEW left \in Left(k)
      PROVE  LET row == [version |-> version, left |-> left,
                         provisional |-> Provisional(k, age, left)]
             IN  row \in RowsOf(k) /\ row.left = left /\ row.version = version
  BY <1>1 DEF RowsOf, Row, Provisional
<1>2. RestatesUntil(k, age) \in Left(k)
  <2>1. CASE Window[k] = Unknown
    BY <2>1 DEF RestatesUntil, Left
  <2>2. CASE Window[k] \in Nat /\ Window[k] # Unknown
    BY <2>2 DEF RestatesUntil, Left, AtLeast
  <2> QED
    BY <2>1, <2>2
<1>3. old # NoRow => old.left \in Left(k)
  BY RowKinds
<1> QED
  BY <1>1, <1>2, <1>3 DEF Upserted, Inserted, Updated

LEMMA CloserTyped ==
  ASSUME NEW k \in Key, NEW row \in RowsOf(k)
  PROVE  /\ Closer(k, row) \in RowsOf(k)
         /\ Closer(k, row).version = row.version
         /\ Closer(k, row).left =
              IF Window[k] = Unknown THEN row.left ELSE AtLeast(-MaxRun, row.left - 1)
<1>1. CASE Window[k] = Unknown
  BY <1>1 DEF Closer
<1>2. CASE Window[k] # Unknown
  <2>1. row.left \in -MaxRun .. Window[k] /\ Window[k] \in Nat
    BY <1>2, RowKinds DEF Left
  <2>2. AtLeast(-MaxRun, row.left - 1) \in Left(k)
    BY <1>2, <2>1 DEF Left, AtLeast
  <2>3. row \in [version : Version(k), left : Left(k), provisional : BOOLEAN]
    BY DEF RowsOf, Row
  <2> QED
    BY <1>2, <2>2, <2>3 DEF Closer, RowsOf, Row
<1> QED
  BY <1>1, <1>2

(* What a transaction has written is a function on some keys.              *)
LEMMA WrittenKeys ==
  ASSUME NEW state \in RunState
  PROVE  /\ DOMAIN state.written \subseteq Key
         /\ state.written = [k \in DOMAIN state.written |-> state.written[k]]
<1>1. PICK S \in SUBSET Key : state.written \in [S -> UNION {Row(k) : k \in Key}]
  BY DEF RunState
<1> QED
  BY <1>1

-----------------------------------------------------------------------------
(* What each step does to the runs, field by field. *)

(* The run that takes a step is the only one to change. *)
LEMMA RunChanges ==
  ASSUME Typed, NEW r \in Run, NEW state, run' = [run EXCEPT ![r] = state]
  PROVE  run'[r] = state /\ \A s \in Run : s # r => run'[s] = run[s]
BY DEF Typed

(* A run starts, ends, is rolled back, or dies: afterwards it is between   *)
(* two calls, or its last call is on its own.                              *)
LEMMA QuietSteps ==
  ASSUME Typed, NEW r \in Run,
         \/ Start(r) \/ Complete(r) \/ Record(r) \/ Answer(r) \/ DeadlockVictim(r) \/ Fail(r)
  PROVE  /\ UNCHANGED <<reported, rows, told, overwritten>>
         /\ \E state \in RunState :
              /\ run' = [run EXCEPT ![r] = state] /\ Orderly(state)
              /\ \/ Still(state)
                 \/ /\ run[r].pc = "writing" /\ state.pc = "landing" /\ ~state.scheduled
                    /\ SameCall(state, run[r])
<1>0. UNCHANGED <<reported, rows, told, overwritten>>
  BY DEF Start, Complete, Record, Answer, DeadlockVictim, Fail, history
<1>t. run \in [Run -> RunState] /\ run[r] \in RunState /\ Orderly(run[r])
  BY DEF Typed
<1>1. CASE Start(r)
  <2>1. PICK scheduled \in BOOLEAN, span \in SUBSET Reported :
          run' = [run EXCEPT ![r] = [Off EXCEPT !.pc = "reading", !.unread = span,
                                               !.scheduled = scheduled]]
    BY <1>1 DEF Start
  <2> DEFINE next == [Off EXCEPT !.pc = "reading", !.unread = span, !.scheduled = scheduled]
  <2>2. next \in RunState
    BY OffTyped DEF RunState, Reported
  <2>3. /\ next.pc = "reading" /\ next.unread = span /\ next.page = <<>>
        /\ next.shown = {} /\ DOMAIN next.written = {}
    BY OffTyped DEF RunState
  <2> HIDE DEF next
  <2>4. Orderly(next) /\ Still(next)
    BY <2>3, EmptyTyped DEF Orderly, Still, Reported
  <2> QED
    BY <1>0, <2>1, <2>2, <2>4 DEF next
<1>2. CASE Complete(r)
  <2> DEFINE next == [Off EXCEPT !.pc = "done", !.scheduled = TRUE, !.later = run[r].later]
  <2>1. run' = [run EXCEPT ![r] = next] /\ next \in RunState
    BY <1>2, <1>t, OffTyped DEF Complete, RunState
  <2>2. /\ next.pc = "done" /\ next.scheduled /\ next.unread = {} /\ next.page = <<>>
        /\ next.shown = {} /\ DOMAIN next.written = {}
    BY OffTyped DEF RunState
  <2> HIDE DEF next
  <2>3. Orderly(next) /\ Still(next)
    BY <2>2, EmptyTyped DEF Orderly, Still
  <2> QED
    BY <1>0, <2>1, <2>3
<1>3. CASE run' = [run EXCEPT ![r] = Off]
  BY <1>0, <1>3, OffTyped, OffOrderly
<1>4. CASE Fail(r) /\ run[r].pc = "writing"
  <2> DEFINE next == [run[r] EXCEPT !.pc = "landing", !.scheduled = FALSE, !.unread = {},
                                    !.later = {}]
  <2>1. run' = [run EXCEPT ![r] = next]
    BY <1>4, <1>t DEF Fail
  <2>2. next \in RunState
    BY <1>t DEF RunState
  <2>3. /\ next.pc = "landing" /\ ~next.scheduled /\ next.unread = {}
        /\ SameCall(next, run[r])
    BY <1>t DEF RunState, SameCall
  <2> HIDE DEF next
  <2>4. Orderly(next)
    BY <1>t, <2>3 DEF Orderly, SameCall
  <2> QED
    BY <1>0, <1>4, <2>1, <2>2, <2>3, <2>4
<1> QED
  BY <1>0, <1>1, <1>2, <1>3, <1>4 DEF Record, Answer, DeadlockVictim, Fail

LEMMA ReadPageFields ==
  ASSUME Typed, NEW r \in Run, ReadPage(r)
  PROVE  /\ run[r].pc = "reading"
         /\ UNCHANGED <<reported, rows, ahead, told, overwritten>>
         /\ \E state \in RunState :
              /\ run' = [run EXCEPT ![r] = state] /\ Orderly(state)
              /\ state.pc = "writing" /\ state.scheduled = run[r].scheduled
              /\ state.later = run[r].later /\ state.age = run[r].age
              /\ state.written = run[r].written /\ state.shown = run[r].shown
              /\ \A k \in run[r].unread :
                   k \in state.unread \/ \E j \in 1 .. Len(state.page) : state.page[j][1] = k
              /\ \A j \in 1 .. Len(state.page) :
                   state.page[j][1] \in Key /\ state.page[j][2] = reported[state.page[j][1]]
<1>1. PICK n \in 1 .. Cardinality(run[r].unread) : \E order \in [1 .. n -> run[r].unread] :
        run' = [run EXCEPT
                  ![r].pc = "writing",
                  ![r].unread = @ \ {order[j] : j \in 1 .. n},
                  ![r].page = [j \in 1 .. n |-> <<order[j], reported[order[j]]>>]]
  BY DEF ReadPage
<1>2. PICK order \in [1 .. n -> run[r].unread] :
        run' = [run EXCEPT
                  ![r].pc = "writing",
                  ![r].unread = @ \ {order[j] : j \in 1 .. n},
                  ![r].page = [j \in 1 .. n |-> <<order[j], reported[order[j]]>>]]
  BY <1>1
<1> DEFINE unread == run[r].unread \ {order[j] : j \in 1 .. n}
           page == [j \in 1 .. n |-> <<order[j], reported[order[j]]>>]
           next == [run[r] EXCEPT !.pc = "writing", !.unread = unread, !.page = page]
<1>3. /\ run \in [Run -> RunState] /\ run[r] \in RunState /\ Orderly(run[r])
      /\ run[r].unread \in SUBSET Key /\ \A k \in Key : reported[k] \in 0 .. Len(History[k])
  BY DEF Typed, TypeOK, RunState
<1>4. n \in Nat
  <2>1. n \in Int /\ n >= 1
    OBVIOUS
  <2> QED
    BY <2>1
<1>5. ASSUME NEW j \in 1 .. n
      PROVE  /\ page[j] = <<order[j], reported[order[j]]>> /\ order[j] \in Key
             /\ page[j] \in Listed
  <2>1. order[j] \in run[r].unread
    OBVIOUS
  <2>2. order[j] \in Key /\ reported[order[j]] \in 1 .. Len(History[order[j]])
    BY <1>3, <2>1 DEF Orderly
  <2> QED
    BY <2>2 DEF Listed, Version
<1>6. page \in Seq(Listed) /\ Len(page) = n /\ DOMAIN page = 1 .. n
  BY <1>4, <1>5
<1>7. page \in Seq(Key \X Nat) /\ unread \in SUBSET Key
  BY <1>3, <1>6, PageTyped
<1>8. run' = [run EXCEPT ![r] = next]
  BY <1>2, <1>3
<1>9. /\ unread \subseteq run[r].unread
      /\ \A k \in run[r].unread : k \in unread \/ \E j \in 1 .. n : order[j] = k
  OBVIOUS
<1> HIDE DEF page, unread
<1>10. next \in RunState
  BY <1>3, <1>7 DEF RunState
<1>11. /\ next.unread = unread /\ next.page = page /\ next.pc = "writing"
       /\ next.written = run[r].written /\ next.shown = run[r].shown
       /\ next.scheduled = run[r].scheduled /\ next.later = run[r].later
       /\ next.age = run[r].age
  BY <1>3 DEF RunState
<1> HIDE DEF next
<1>12. Orderly(next)
  BY <1>3, <1>6, <1>9, <1>11 DEF Orderly
<1>13. \A k \in run[r].unread :
         k \in next.unread \/ \E j \in 1 .. Len(next.page) : next.page[j][1] = k
  <2>1. \A j \in 1 .. n : page[j][1] = order[j]
    BY <1>5
  <2> QED
    BY <1>6, <1>9, <1>11, <2>1
<1>14. \A j \in 1 .. Len(next.page) :
         next.page[j][1] \in Key /\ next.page[j][2] = reported[next.page[j][1]]
  BY <1>5, <1>6, <1>11
<1> QED
  BY <1>8, <1>10, <1>11, <1>12, <1>13, <1>14 DEF ReadPage, history

(* One upsert: the row it leaves, the key it locks and the entries left.   *)
LEMMA WriteRowFields ==
  ASSUME Typed, NEW r \in Run, WriteRow(r)
  PROVE  /\ Writing(r) /\ UNCHANGED <<reported, rows, ahead, told, overwritten>>
         /\ \A s \in Run : s # r => NextKey(r) \notin DOMAIN run[s].written
         /\ Len(run[r].page) >= 1 /\ Len(run[r].page) \in Nat
         /\ \E state \in RunState, new \in RowsOf(NextKey(r)) :
              /\ run' = [run EXCEPT ![r] = state] /\ Orderly(state)
              /\ new = Upserted(NextKey(r), rows[NextKey(r)], run[r].page[1][2], run[r].age)
              /\ new.version = run[r].page[1][2]
              /\ rows[NextKey(r)] # NoRow => new.left = rows[NextKey(r)].left
              /\ state.pc = run[r].pc /\ state.scheduled = run[r].scheduled
              /\ state.later = run[r].later /\ state.age = run[r].age
              /\ state.unread = run[r].unread
              /\ Len(state.page) = Len(run[r].page) - 1
              /\ \A j \in 1 .. Len(state.page) : state.page[j] = run[r].page[j + 1]
              /\ DOMAIN state.written = DOMAIN run[r].written \cup {NextKey(r)}
              /\ state.written[NextKey(r)] = new
              /\ \A k \in DOMAIN run[r].written :
                   k # NextKey(r) => state.written[k] = run[r].written[k]
              /\ state.shown = IF Shows(NextKey(r), rows[NextKey(r)], new)
                               THEN run[r].shown \cup {NextKey(r)} ELSE run[r].shown
         /\ NextKey(r) \in Key
<1> DEFINE k == NextKey(r)
           new == Upserted(k, rows[k], run[r].page[1][2], run[r].age)
           keys == DOMAIN run[r].written \cup {k}
           written == [j \in keys |-> IF j = k THEN new ELSE run[r].written[j]]
           shown == IF Shows(k, rows[k], new) THEN run[r].shown \cup {k} ELSE run[r].shown
           page == Tail(run[r].page)
           next == [run[r] EXCEPT !.page = page, !.shown = shown, !.written = written]
<1>1. /\ run \in [Run -> RunState] /\ run[r] \in RunState /\ Orderly(run[r])
      /\ run[r].page # <<>> /\ Writing(r) /\ UNCHANGED <<reported, rows, ahead, told, overwritten>>
  BY DEF Typed, WriteRow, history
<1>2. run[r].page \in Seq(Listed) /\ run[r].age \in 0 .. MaxRun
  BY <1>1 DEF Orderly, RunState
<1>3. /\ run[r].page[1] \in Listed /\ page \in Seq(Listed)
      /\ Len(run[r].page) >= 1 /\ Len(run[r].page) \in Nat
      /\ Len(page) = Len(run[r].page) - 1
      /\ \A j \in 1 .. Len(page) : page[j] = run[r].page[j + 1]
  BY <1>1, <1>2
<1>4. k \in Key /\ run[r].page[1][2] \in Version(k)
  BY <1>3 DEF Listed, NextKey
<1>5. /\ new \in RowsOf(k) /\ new.version = run[r].page[1][2]
      /\ rows[k] # NoRow => new.left = rows[k].left
  <2>1. rows[k] = NoRow \/ rows[k] \in RowsOf(k)
    BY <1>4 DEF Typed, TypeOK, RowsOf
  <2> QED
    BY <1>2, <1>4, <2>1, UpsertedTyped
<1>6. run' = [run EXCEPT ![r] = next]
  BY <1>1 DEF WriteRow
<1>7. \A s \in Run : s # r => k \notin DOMAIN run[s].written
  BY <1>1 DEF WriteRow, WaitsFor
<1> HIDE DEF new, k
<1>8. /\ DOMAIN written = keys /\ written = [j \in keys |-> written[j]] /\ written[k] = new
      /\ \A j \in DOMAIN run[r].written : j # k => written[j] = run[r].written[j]
  OBVIOUS
<1>9. keys \in SUBSET Key /\ \A j \in keys : written[j] \in RowsOf(j)
  BY <1>1, <1>4, <1>5, WrittenKeys DEF Orderly
<1>10. shown \subseteq keys /\ shown \in SUBSET Key
  BY <1>1, <1>9 DEF Orderly
<1> HIDE DEF written, page, shown
<1>11. written \in UNION {[T -> UNION {Row(j) : j \in Key}] : T \in SUBSET Key}
  BY <1>8, <1>9, WrittenTyped
<1>12. page \in Seq(Key \X Nat)
  BY <1>3, PageTyped
<1> HIDE DEF keys
<1>13. next \in RunState
  BY <1>1, <1>10, <1>11, <1>12 DEF RunState
<1>14. /\ next.unread = run[r].unread /\ next.page = page /\ next.pc = run[r].pc
       /\ next.written = written /\ next.shown = shown /\ next.scheduled = run[r].scheduled
       /\ next.later = run[r].later /\ next.age = run[r].age
  BY <1>1 DEF RunState
<1> HIDE DEF next
<1>15. Orderly(next)
  BY <1>1, <1>3, <1>8, <1>9, <1>10, <1>14 DEF Orderly, Writing
<1>16. keys = DOMAIN run[r].written \cup {k}
  BY DEF keys
<1> QED
  BY <1>1, <1>3, <1>4, <1>5, <1>6, <1>7, <1>8, <1>13, <1>14, <1>15, <1>16
     DEF k, new, shown

LEMMA CommitFields ==
  ASSUME Typed, NEW r \in Run, Commit(r)
  PROVE  /\ Writing(r) /\ run[r].page = <<>> /\ UNCHANGED <<reported, ahead>>
         /\ \A k \in DOMAIN run[r].written : k \in Key /\ run[r].written[k] \in RowsOf(k)
         /\ run[r].shown \subseteq DOMAIN run[r].written
         /\ \A k \in Key :
              /\ rows'[k] = IF k \in DOMAIN run[r].written THEN run[r].written[k] ELSE rows[k]
              /\ told'[k] = IF k \in run[r].shown THEN Figure(k, run[r].written[k]) ELSE told[k]
              /\ k \in overwritten' <=>
                   /\ k \in overwritten \/ /\ k \in DOMAIN run[r].written
                                           /\ run[r].written[k].version < rows[k].version
                   /\ k \in DOMAIN run[r].written => run[r].written[k].version # reported[k]
         /\ overwritten' \subseteq Key
         /\ \E state \in RunState :
              /\ run' = [run EXCEPT ![r] = state] /\ Orderly(state) /\ Still(state)
              /\ \/ ~state.scheduled
                 \/ /\ state.unread = run[r].unread /\ state.later = run[r].later
                    /\ run[r].scheduled
<1>1. run \in [Run -> RunState] /\ run[r] \in RunState /\ Orderly(run[r])
  BY DEF Typed
<1>2. \A k \in DOMAIN run[r].written : k \in Key /\ run[r].written[k] \in RowsOf(k)
  BY <1>1, WrittenKeys DEF Orderly
<1>3. /\ Writing(r) /\ run[r].page = <<>> /\ UNCHANGED <<reported, ahead>>
      /\ run' = [run EXCEPT ![r] = AfterCall(r)]
      /\ overwritten' =
           (overwritten \cup {k \in DOMAIN run[r].written :
                                run[r].written[k].version < rows[k].version})
             \ {k \in DOMAIN run[r].written : run[r].written[k].version = reported[k]}
  BY DEF Commit
<1>4. \A k \in Key :
        /\ rows'[k] = IF k \in DOMAIN run[r].written THEN run[r].written[k] ELSE rows[k]
        /\ told'[k] = IF k \in run[r].shown THEN Figure(k, run[r].written[k]) ELSE told[k]
  BY DEF Commit
<1>5. overwritten \subseteq Key
  BY DEF Typed, TypeOK
<1>6. /\ AfterCall(r) \in RunState /\ Orderly(AfterCall(r)) /\ Still(AfterCall(r))
      /\ \/ ~AfterCall(r).scheduled
         \/ /\ AfterCall(r).unread = run[r].unread /\ AfterCall(r).later = run[r].later
            /\ run[r].scheduled
  <2>1. CASE run[r].pc = "landing"
    BY <2>1, OffTyped, OffOrderly DEF AfterCall
  <2>2. CASE run[r].pc # "landing"
    <3> DEFINE next == [run[r] EXCEPT !.pc = "reading", !.page = <<>>, !.shown = {},
                                      !.written = <<>>]
    <3>1. next \in RunState
      BY <1>1, EmptyTyped DEF RunState
    <3>2. /\ next.unread = run[r].unread /\ next.page = <<>> /\ next.pc = "reading"
          /\ next.written = <<>> /\ next.shown = {} /\ next.later = run[r].later
          /\ next.scheduled = run[r].scheduled
      BY <1>1 DEF RunState
    <3>3. AfterCall(r) = next
      BY <2>2 DEF AfterCall
    <3> HIDE DEF next
    <3> QED
      BY <1>1, EmptyTyped, <3>1, <3>2, <3>3 DEF Orderly, Still
  <2> QED
    BY <2>1, <2>2
<1>7. run[r].shown \subseteq DOMAIN run[r].written
  BY <1>1 DEF Orderly
<1>8. overwritten' \subseteq Key
  BY <1>2, <1>3, <1>5
<1>9. \A k \in Key :
        k \in overwritten' <=>
          /\ k \in overwritten \/ /\ k \in DOMAIN run[r].written
                                  /\ run[r].written[k].version < rows[k].version
          /\ k \in DOMAIN run[r].written => run[r].written[k].version # reported[k]
  BY <1>3
<1> QED
  BY <1>2, <1>3, <1>4, <1>6, <1>7, <1>8, <1>9

LEMMA RestateFields ==
  ASSUME Typed, NEW k \in Key, Restate(k)
  PROVE  /\ reported' \in [Key -> Int] /\ reported'[k] = reported[k] + 1
         /\ \A j \in Key : /\ reported[j] <= reported'[j] /\ reported'[j] \in 0 .. Len(History[j])
                           /\ j # k => reported'[j] = reported[j]
         /\ ahead' = ahead \cup {k} /\ UNCHANGED <<rows, told, overwritten>>
         /\ run' \in [Run -> RunState]
         /\ \A r \in Run :
              /\ SameCall(run'[r], run[r]) /\ run'[r].pc = run[r].pc
              /\ run'[r].scheduled = run[r].scheduled
              /\ run'[r].unread \subseteq run[r].unread
              /\ run[r].scheduled => /\ run'[r].later = run[r].later \cup {k}
                                     /\ run'[r].unread = run[r].unread \ {k}
<1>1. /\ reported \in [Key -> Int] /\ reported[k] < Len(History[k])
      /\ \A j \in Key : reported[j] \in 0 .. Len(History[j])
      /\ reported' = [reported EXCEPT ![k] = @ + 1]
      /\ ahead' = ahead \cup {k} /\ UNCHANGED <<rows, told, overwritten>>
  BY DEF Typed, TypeOK, Restate, history
<1>2. ASSUME NEW r \in Run
      PROVE  /\ run'[r] \in RunState
             /\ SameCall(run'[r], run[r]) /\ run'[r].pc = run[r].pc
             /\ run'[r].scheduled = run[r].scheduled
             /\ run'[r].unread \subseteq run[r].unread
             /\ run[r].scheduled => /\ run'[r].later = run[r].later \cup {k}
                                    /\ run'[r].unread = run[r].unread \ {k}
  <2> DEFINE next == [run[r] EXCEPT !.unread = run[r].unread \ {k},
                                    !.later = run[r].later \cup {k}]
  <2>1. run[r] \in RunState
    BY DEF Typed
  <2>2. run'[r] = IF run[r].scheduled THEN next ELSE run[r]
    BY DEF Restate
  <2>3. /\ next \in RunState /\ next.unread = run[r].unread \ {k}
        /\ next.later = run[r].later \cup {k} /\ next.pc = run[r].pc
        /\ next.scheduled = run[r].scheduled /\ SameCall(next, run[r])
    BY <2>1 DEF RunState, SameCall
  <2> HIDE DEF next
  <2> QED
    BY <2>1, <2>2, <2>3 DEF SameCall
<1>3. run' \in [Run -> RunState]
  BY <1>2 DEF Restate
<1> QED
  BY <1>1, <1>2, <1>3

(* Time: rows and what is written of them grow older together.             *)
LEMMA TickFields ==
  ASSUME Typed, Tick
  PROVE  /\ UNCHANGED <<reported, ahead, told, overwritten>>
         /\ run' \in [Run -> RunState]
         /\ \A k \in Key : rows'[k] = IF rows[k] = NoRow THEN NoRow ELSE Closer(k, rows[k])
         /\ \A r \in Run :
              /\ run'[r].pc = run[r].pc /\ run'[r].page = run[r].page
              /\ run'[r].shown = run[r].shown /\ run'[r].unread = run[r].unread
              /\ run'[r].later = run[r].later /\ run'[r].scheduled = run[r].scheduled
              /\ DOMAIN run'[r].written = DOMAIN run[r].written
              /\ \A k \in DOMAIN run[r].written :
                   /\ k \in Key /\ run[r].written[k] \in RowsOf(k)
                   /\ run'[r].written[k] = Closer(k, run[r].written[k])
                   /\ run[r].age \in 0 .. MaxRun - 1 /\ run'[r].age = run[r].age + 1
<1>1. ASSUME NEW r \in Run
      PROVE  /\ run'[r] \in RunState
             /\ run'[r].pc = run[r].pc /\ run'[r].page = run[r].page
             /\ run'[r].shown = run[r].shown /\ run'[r].unread = run[r].unread
             /\ run'[r].later = run[r].later /\ run'[r].scheduled = run[r].scheduled
             /\ DOMAIN run'[r].written = DOMAIN run[r].written
             /\ \A k \in DOMAIN run[r].written :
                  /\ k \in Key /\ run[r].written[k] \in RowsOf(k)
                  /\ run'[r].written[k] = Closer(k, run[r].written[k])
                  /\ run[r].age \in 0 .. MaxRun - 1 /\ run'[r].age = run[r].age + 1
  <2> DEFINE old == run[r].written
             written == [k \in DOMAIN old |-> Closer(k, old[k])]
             next == [run[r] EXCEPT !.age = run[r].age + 1, !.written = written]
  <2>1. run[r] \in RunState /\ Orderly(run[r])
    BY DEF Typed
  <2>2. CASE ~InProgress(r)
    <3>1. run'[r] = run[r]
      BY <2>2 DEF Tick
    <3>2. DOMAIN run[r].written = {}
      BY <2>1, <2>2 DEF Orderly, InProgress
    <3> QED
      BY <2>1, <3>1, <3>2
  <2>3. CASE InProgress(r)
    <3>1. run'[r] = next /\ run[r].age < MaxRun
      BY <2>3 DEF Tick
    <3>2. DOMAIN old \in SUBSET Key
      BY <2>1, WrittenKeys
    <3>3. \A k \in DOMAIN old : k \in Key /\ old[k] \in RowsOf(k) /\ written[k] \in RowsOf(k)
      BY <2>1, <3>2, CloserTyped DEF Orderly
    <3>4. /\ DOMAIN written = DOMAIN old /\ written = [k \in DOMAIN old |-> written[k]]
          /\ \A k \in DOMAIN old : written[k] = Closer(k, old[k])
      OBVIOUS
    <3> HIDE DEF written
    <3>5. written \in UNION {[T -> UNION {Row(j) : j \in Key}] : T \in SUBSET Key}
      BY <3>2, <3>3, <3>4, WrittenTyped
    <3>6. run[r].age + 1 \in 0 .. MaxRun /\ run[r].age \in 0 .. MaxRun - 1
      BY <2>1, <3>1 DEF RunState
    <3>7. next \in RunState
      BY <2>1, <3>5, <3>6 DEF RunState
    <3>8. /\ next.unread = run[r].unread /\ next.page = run[r].page
          /\ next.pc = run[r].pc /\ next.written = written /\ next.age = run[r].age + 1
          /\ next.shown = run[r].shown /\ next.later = run[r].later
          /\ next.scheduled = run[r].scheduled
      BY <2>1 DEF RunState
    <3> HIDE DEF next
    <3> QED
      BY <3>1, <3>3, <3>4, <3>6, <3>7, <3>8
  <2> QED
    BY <2>2, <2>3
<1>2. run' \in [Run -> RunState]
  BY <1>1 DEF Tick
<1> QED
  BY <1>1, <1>2 DEF Tick, history

-----------------------------------------------------------------------------
LEMMA TypedStep == Typed /\ [Next]_vars => Typed'
<1> SUFFICES ASSUME Typed, [Next]_vars PROVE Typed'
  OBVIOUS
<1>t. /\ TypeOK
      /\ reported \in [Key -> Int]
      /\ run \in [Run -> RunState]
      /\ \A r \in Run : Orderly(run[r])
      /\ \A k \in Key : reported[k] \in 0 .. Len(History[k])
      /\ \A k \in Key : IF rows[k] = NoRow THEN told[k] = Unseen ELSE rows[k] \in RowsOf(k)
      /\ ahead \subseteq Key /\ overwritten \subseteq Key
  BY DEF Typed, TypeOK, RowsOf
(* A run changes its own state only. *)
<1>r. ASSUME NEW r \in Run, NEW state \in RunState, Orderly(state),
             run' = [run EXCEPT ![r] = state], UNCHANGED reported
      PROVE  run' \in [Run -> RunState] /\ \A s \in Run : Orderly(run[s])'
  <2>1. /\ run' \in [Run -> RunState] /\ run'[r] = state
        /\ \A s \in Run : s # r => run'[s] = run[s]
    BY <1>r, <1>t
  <2> QED
    BY <1>r, <1>t, <2>1 DEF Orderly
<1>f. ASSUME UNCHANGED <<reported, rows, told, overwritten>>, ahead' \subseteq Key,
             run' \in [Run -> RunState], \A s \in Run : Orderly(run[s])'
      PROVE  Typed'
  BY <1>f, <1>t DEF Typed, TypeOK
<1>1. ASSUME NEW r \in Run,
             \/ Start(r) \/ Complete(r) \/ Record(r) \/ Answer(r) \/ DeadlockVictim(r) \/ Fail(r)
      PROVE  Typed'
  <2>1. ahead' \subseteq Key
    BY <1>1, <1>t DEF Start, Complete, Record, Answer, DeadlockVictim, Fail, RecordPart
  <2> QED
    BY <1>1, <1>r, <1>f, <2>1, QuietSteps
<1>2. ASSUME NEW r \in Run, ReadPage(r) PROVE Typed'
  BY <1>2, <1>r, <1>f, <1>t, ReadPageFields
<1>3. ASSUME NEW r \in Run, WriteRow(r) PROVE Typed'
  BY <1>3, <1>r, <1>f, <1>t, WriteRowFields
<1>4. ASSUME NEW r \in Run, Commit(r) PROVE Typed'
  <2>1. /\ run' \in [Run -> RunState] /\ \A s \in Run : Orderly(run[s])'
        /\ UNCHANGED <<reported, ahead>> /\ overwritten' \subseteq Key
    BY <1>4, <1>r, CommitFields
  <2>2. ASSUME NEW k \in Key
        PROVE  IF rows'[k] = NoRow THEN told'[k] = Unseen ELSE rows'[k] \in RowsOf(k)
    <3>1. CASE k \in DOMAIN run[r].written
      <4>1. rows'[k] = run[r].written[k] /\ run[r].written[k] \in RowsOf(k)
        BY <1>4, <3>1, CommitFields
      <4> QED
        BY <4>1, RowKinds
    <3>2. CASE k \notin DOMAIN run[r].written
      <4>1. rows'[k] = rows[k] /\ told'[k] = told[k]
        BY <1>4, <3>2, CommitFields
      <4> QED
        BY <1>t, <4>1
    <3> QED
      BY <3>1, <3>2
  <2> QED
    BY <1>t, <2>1, <2>2 DEF Typed, TypeOK, RowsOf
<1>5. ASSUME NEW k \in Key, Restate(k) PROVE Typed'
  <2>1. \A r \in Run : Orderly(run[r])'
    <3> SUFFICES ASSUME NEW r \in Run PROVE Orderly(run[r])'
      OBVIOUS
    <3>1. /\ SameCall(run'[r], run[r]) /\ run'[r].pc = run[r].pc
          /\ run'[r].scheduled = run[r].scheduled /\ run'[r].unread \subseteq run[r].unread
          /\ \A j \in Key : reported[j] <= reported'[j] /\ reported'[j] \in Int
      BY <1>5, RestateFields
    <3>2. \A j \in run[r].unread : j \in Key /\ reported[j] > 0 /\ reported[j] \in Int
      BY <1>t DEF Orderly, RunState
    <3> QED
      BY <1>t, <3>1, <3>2 DEF Orderly, SameCall
  <2>2. /\ UNCHANGED <<rows, told, overwritten>> /\ ahead' \subseteq Key
        /\ reported' \in [Key -> Int] /\ run' \in [Run -> RunState]
        /\ \A j \in Key : reported'[j] \in 0 .. Len(History[j])
    BY <1>5, <1>t, RestateFields
  <2> QED
    BY <1>t, <2>1, <2>2 DEF Typed, TypeOK
<1>6. CASE Tick
  <2>1. /\ UNCHANGED <<reported, ahead, told, overwritten>> /\ run' \in [Run -> RunState]
    BY <1>6, TickFields
  <2>2. \A r \in Run : Orderly(run[r])'
    <3> SUFFICES ASSUME NEW r \in Run PROVE Orderly(run'[r])
      BY <2>1 DEF Orderly
    <3>1. /\ run'[r].pc = run[r].pc /\ run'[r].page = run[r].page
          /\ run'[r].shown = run[r].shown /\ run'[r].unread = run[r].unread
          /\ run'[r].scheduled = run[r].scheduled
          /\ DOMAIN run'[r].written = DOMAIN run[r].written
      BY <1>6, TickFields
    <3>2. \A k \in DOMAIN run[r].written : run'[r].written[k] \in RowsOf(k)
      BY <1>6, TickFields, CloserTyped
    <3>3. Orderly(run[r])
      BY <1>t
    <3> QED
      BY <3>1, <3>2, <3>3 DEF Orderly
  <2>3. ASSUME NEW k \in Key
        PROVE  IF rows'[k] = NoRow THEN told'[k] = Unseen ELSE rows'[k] \in RowsOf(k)
    <3>1. rows'[k] = IF rows[k] = NoRow THEN NoRow ELSE Closer(k, rows[k])
      BY <1>6, TickFields
    <3>2. CASE rows[k] = NoRow
      BY <1>t, <2>1, <3>1, <3>2
    <3>3. CASE rows[k] # NoRow
      BY <1>t, <3>1, <3>3, CloserTyped, RowKinds
    <3> QED
      BY <3>2, <3>3
  <2> QED
    BY <1>t, <2>1, <2>2, <2>3 DEF Typed, TypeOK, RowsOf
<1>7. CASE UNCHANGED vars
  <2>1. UNCHANGED <<reported, rows, ahead, told, overwritten, run>>
    BY <1>7 DEF vars
  <2> QED
    BY <1>f, <1>t, <2>1 DEF Orderly
<1> QED
  BY <1>1, <1>2, <1>3, <1>4, <1>5, <1>6, <1>7 DEF Next, RunStep

(* The variables keep their types, and a row of a source without a window  *)
(* stays provisional, whatever the sources, histories and runs.            *)
THEOREM EnvelopeTypes == Spec => []TypeOK
<1>1. Typed => TypeOK
  BY DEF Typed
<1> QED
  BY <1>1, TypedInit, TypedStep, PTL DEF Spec

-----------------------------------------------------------------------------
(* Row locks, windows and the consumer. *)

(* No two open transactions have written the same row. *)
Locks ==
  \A r, s \in Run : r # s => DOMAIN run[r].written \cap DOMAIN run[s].written = {}

(* What a transaction has written keeps the window of the row it replaces. *)
Kept ==
  \A r \in Run : \A k \in DOMAIN run[r].written :
    rows[k] # NoRow => run[r].written[k].left = rows[k].left

(* Where it leaves no event, it replaces a row by one with that figure.    *)
Judged ==
  \A r \in Run : \A k \in DOMAIN run[r].written \ run[r].shown :
    rows[k] # NoRow /\ Figure(k, rows[k]) = Figure(k, run[r].written[k])

Safe == Locks /\ Kept /\ Judged /\ ConsumerKeepsUp

(* A call that goes on without an upsert, or is rolled back, leaves the    *)
(* locks of the others alone.                                              *)
LEMMA SafeWithoutWrites ==
  ASSUME Safe, UNCHANGED <<rows, told>>,
         \A r \in Run :
           \/ DOMAIN run'[r].written = {}
           \/ run'[r].written = run[r].written /\ run'[r].shown = run[r].shown
  PROVE  Safe'
<1>1. Locks' /\ Kept'
  BY DEF Safe, Locks, Kept
<1>2. Judged'
  BY DEF Safe, Judged, Figure
<1>3. ConsumerKeepsUp'
  BY DEF Safe, ConsumerKeepsUp, Figure
<1> QED
  BY <1>1, <1>2, <1>3 DEF Safe

LEMMA SafeInit == Init => Safe
<1> SUFFICES ASSUME Init PROVE Safe
  OBVIOUS
<1>1. \A r \in Run : DOMAIN run[r].written = {}
  BY OffTyped DEF Init
<1> QED
  BY <1>1 DEF Init, Safe, Locks, Kept, Judged, ConsumerKeepsUp

LEMMA CommitSafe ==
  ASSUME Typed, Safe, NEW r \in Run, Commit(r)
  PROVE  /\ Safe'
         /\ \A k \in Key : rows[k] # NoRow => rows'[k] # NoRow /\ rows'[k].left = rows[k].left
<1> DEFINE written == run[r].written
           shown == run[r].shown
<1>1. /\ \A k \in DOMAIN written : k \in Key /\ written[k] \in RowsOf(k)
      /\ \A k \in Key :
           /\ rows'[k] = IF k \in DOMAIN written THEN written[k] ELSE rows[k]
           /\ told'[k] = IF k \in shown THEN Figure(k, written[k]) ELSE told[k]
      /\ shown \subseteq DOMAIN written
  BY CommitFields
<1>2. /\ DOMAIN run'[r].written = {}
      /\ \A s \in Run : s # r => run'[s] = run[s]
  <2>1. PICK state \in RunState : run' = [run EXCEPT ![r] = state] /\ Still(state)
    BY CommitFields
  <2> QED
    BY <2>1, RunChanges DEF Still
<1>3. \A s \in Run : \A k \in DOMAIN run'[s].written :
        s # r /\ run'[s] = run[s] /\ k \in Key /\ k \notin DOMAIN written /\ rows'[k] = rows[k]
  <2> SUFFICES ASSUME NEW s \in Run, NEW k \in DOMAIN run'[s].written
               PROVE  s # r /\ run'[s] = run[s] /\ k \in Key /\ k \notin DOMAIN written
    BY <1>1
  <2>1. s # r /\ run'[s] = run[s]
    BY <1>2
  <2>2. run[s] \in RunState
    BY DEF Typed
  <2> QED
    BY <2>1, <2>2, WrittenKeys DEF Safe, Locks
<1>4. Locks'
  BY <1>2 DEF Safe, Locks
<1>5. Kept'
  BY <1>3 DEF Safe, Kept
<1>6. Judged'
  BY <1>3 DEF Safe, Judged, Figure
<1>7. ConsumerKeepsUp'
  <2> SUFFICES ASSUME NEW k \in Key, rows'[k] # NoRow PROVE told'[k] = Figure(k, rows'[k])
    BY DEF ConsumerKeepsUp, Figure
  <2>1. CASE k \in DOMAIN written
    BY <1>1, <2>1 DEF Safe, ConsumerKeepsUp, Judged
  <2>2. CASE k \notin DOMAIN written
    BY <1>1, <2>2 DEF Safe, ConsumerKeepsUp
  <2> QED
    BY <2>1, <2>2
<1>8. ASSUME NEW k \in Key, rows[k] # NoRow
      PROVE  rows'[k] # NoRow /\ rows'[k].left = rows[k].left
  <2>1. CASE k \in DOMAIN written
    <3>1. rows'[k] = written[k] /\ written[k] \in RowsOf(k)
      BY <1>1, <2>1
    <3>2. written[k].left = rows[k].left
      BY <1>8, <2>1 DEF Safe, Kept
    <3> QED
      BY <3>1, <3>2, RowKinds
  <2>2. CASE k \notin DOMAIN written
    BY <1>1, <1>8, <2>2
  <2> QED
    BY <2>1, <2>2
<1> QED
  BY <1>4, <1>5, <1>6, <1>7, <1>8 DEF Safe

LEMMA WriteRowSafe ==
  ASSUME Typed, Safe, NEW r \in Run, WriteRow(r)
  PROVE  Safe'
<1> DEFINE k == NextKey(r)
<1>1. PICK state \in RunState, new \in RowsOf(k) :
        /\ run' = [run EXCEPT ![r] = state]
        /\ rows[k] # NoRow => new.left = rows[k].left
        /\ DOMAIN state.written = DOMAIN run[r].written \cup {k} /\ state.written[k] = new
        /\ \A j \in DOMAIN run[r].written : j # k => state.written[j] = run[r].written[j]
        /\ state.shown = IF Shows(k, rows[k], new) THEN run[r].shown \cup {k} ELSE run[r].shown
  BY WriteRowFields
<1>2. /\ UNCHANGED <<rows, told>>
      /\ \A s \in Run : s # r => k \notin DOMAIN run[s].written
  BY WriteRowFields
<1>3. run'[r] = state /\ \A s \in Run : s # r => run'[s] = run[s]
  BY <1>1, RunChanges
<1> HIDE DEF k
<1>4. Locks'
  BY <1>1, <1>2, <1>3 DEF Safe, Locks
<1>5. Kept'
  BY <1>1, <1>2, <1>3 DEF Safe, Kept
<1>6. Judged'
  <2> SUFFICES ASSUME NEW s \in Run, NEW j \in DOMAIN run'[s].written \ run'[s].shown
               PROVE  rows[j] # NoRow /\ Figure(j, rows[j]) = Figure(j, run'[s].written[j])
    BY <1>2 DEF Judged, Figure
  <2>1. CASE s = r /\ j = k
    BY <1>1, <1>3, <2>1 DEF Shows, Restated
  <2>2. CASE s = r /\ j # k
    <3>1. j \in DOMAIN run[r].written \ run[r].shown /\ run'[r].written[j] = run[r].written[j]
      BY <1>1, <1>3, <2>2
    <3> QED
      BY <2>2, <3>1 DEF Safe, Judged
  <2>3. CASE s # r
    BY <1>3, <2>3 DEF Safe, Judged
  <2> QED
    BY <2>1, <2>2, <2>3
<1>7. ConsumerKeepsUp'
  BY <1>2 DEF Safe, ConsumerKeepsUp, Figure
<1> QED
  BY <1>4, <1>5, <1>6, <1>7 DEF Safe

LEMMA TickSafe ==
  ASSUME Typed, Safe, Tick
  PROVE  Safe'
<1>1. /\ \A r \in Run :
           /\ DOMAIN run'[r].written = DOMAIN run[r].written /\ run'[r].shown = run[r].shown
           /\ \A k \in DOMAIN run[r].written :
                /\ k \in Key /\ run[r].written[k] \in RowsOf(k)
                /\ run'[r].written[k] = Closer(k, run[r].written[k])
      /\ \A k \in Key : rows'[k] = IF rows[k] = NoRow THEN NoRow ELSE Closer(k, rows[k])
      /\ told' = told
  BY TickFields
<1>2. \A k \in Key : rows[k] = NoRow \/ rows[k] \in RowsOf(k)
  BY DEF Typed, TypeOK, RowsOf
<1>3. \A k \in Key : \A row \in RowsOf(k) :
        Figure(k, Closer(k, row)) = Figure(k, row) /\ Closer(k, row) # NoRow
  BY CloserTyped, RowKinds DEF Figure
<1>4. Locks'
  BY <1>1 DEF Safe, Locks
<1>5. Kept'
  <2> SUFFICES ASSUME NEW r \in Run, NEW k \in DOMAIN run[r].written, rows'[k] # NoRow
               PROVE  run'[r].written[k].left = rows'[k].left
    BY <1>1 DEF Kept
  <2>1. k \in Key /\ run[r].written[k] \in RowsOf(k)
    BY <1>1
  <2>2. rows[k] # NoRow /\ rows[k] \in RowsOf(k) /\ rows'[k] = Closer(k, rows[k])
    BY <1>1, <1>2, <2>1
  <2>3. run[r].written[k].left = rows[k].left
    BY <2>2 DEF Safe, Kept
  <2>4. run'[r].written[k] = Closer(k, run[r].written[k])
    BY <1>1
  <2> QED
    BY <2>1, <2>2, <2>3, <2>4, CloserTyped
<1>6. Judged'
  <2> SUFFICES ASSUME NEW r \in Run, NEW k \in DOMAIN run[r].written \ run[r].shown
               PROVE  rows'[k] # NoRow /\ Figure(k, rows'[k]) = Figure(k, run'[r].written[k])
    BY <1>1 DEF Judged, Figure
  <2>1. /\ k \in Key /\ run[r].written[k] \in RowsOf(k)
        /\ run'[r].written[k] = Closer(k, run[r].written[k])
    BY <1>1
  <2>2. rows[k] # NoRow /\ Figure(k, rows[k]) = Figure(k, run[r].written[k])
    BY DEF Safe, Judged
  <2>3. rows[k] \in RowsOf(k) /\ rows'[k] = Closer(k, rows[k])
    BY <1>1, <1>2, <2>1, <2>2
  <2> QED
    BY <1>3, <2>1, <2>2, <2>3
<1>7. ConsumerKeepsUp'
  <2> SUFFICES ASSUME NEW k \in Key, rows'[k] # NoRow PROVE told'[k] = Figure(k, rows'[k])
    BY DEF ConsumerKeepsUp, Figure
  <2>1. rows[k] # NoRow /\ rows[k] \in RowsOf(k) /\ rows'[k] = Closer(k, rows[k])
    BY <1>1, <1>2
  <2> QED
    BY <1>1, <1>3, <2>1 DEF Safe, ConsumerKeepsUp
<1> QED
  BY <1>4, <1>5, <1>6, <1>7 DEF Safe

LEMMA SafeStep == Typed /\ Safe /\ [Next]_vars => Safe'
<1> SUFFICES ASSUME Typed, Safe, [Next]_vars PROVE Safe'
  OBVIOUS
<1>1. ASSUME NEW r \in Run,
             \/ Start(r) \/ Complete(r) \/ Record(r) \/ Answer(r) \/ DeadlockVictim(r) \/ Fail(r)
      PROVE  Safe'
  <2>1. PICK state \in RunState :
          /\ run' = [run EXCEPT ![r] = state]
          /\ Still(state) \/ SameCall(state, run[r])
    BY <1>1, QuietSteps
  <2>2. run'[r] = state /\ \A s \in Run : s # r => run'[s] = run[s]
    BY <2>1, RunChanges
  <2>3. UNCHANGED <<rows, told>>
    BY <1>1, QuietSteps
  <2> QED
    BY <2>1, <2>2, <2>3, SafeWithoutWrites DEF Still, SameCall
<1>2. ASSUME NEW r \in Run, ReadPage(r) PROVE Safe'
  <2>1. PICK state \in RunState :
          /\ run' = [run EXCEPT ![r] = state]
          /\ state.written = run[r].written /\ state.shown = run[r].shown
    BY <1>2, ReadPageFields
  <2>2. run'[r] = state /\ \A s \in Run : s # r => run'[s] = run[s]
    BY <2>1, RunChanges
  <2>3. UNCHANGED <<rows, told>>
    BY <1>2, ReadPageFields
  <2> QED
    BY <2>1, <2>2, <2>3, SafeWithoutWrites
<1>3. ASSUME NEW r \in Run, WriteRow(r) PROVE Safe'
  BY <1>3, WriteRowSafe
<1>4. ASSUME NEW r \in Run, Commit(r) PROVE Safe'
  BY <1>4, CommitSafe
<1>5. ASSUME NEW k \in Key, Restate(k) PROVE Safe'
  BY <1>5, RestateFields, SafeWithoutWrites DEF SameCall
<1>6. CASE Tick
  BY <1>6, TickSafe
<1>7. CASE UNCHANGED vars
  BY <1>7, SafeWithoutWrites DEF vars
<1> QED
  BY <1>1, <1>2, <1>3, <1>4, <1>5, <1>6, <1>7 DEF Next, RunStep

(* A consumer that replays the events holds the figure of every row,       *)
(* whichever runs overlap, wait for each other, are rolled back or land    *)
(* after their sender died: the event of an upsert compares the new figure *)
(* with the row it found, and no other transaction comes between that and  *)
(* the commit.                                                             *)
THEOREM ConsumerInStep == Spec => []ConsumerKeepsUp
<1>1. Safe => ConsumerKeepsUp
  BY DEF Safe
<1> QED
  BY <1>1, TypedInit, TypedStep, SafeInit, SafeStep, PTL DEF Spec

(* The restatement window of a row.  No step but the passage of time moves *)
(* it, and no step removes a row.                                          *)
WindowKept ==
  \A k \in Key : rows[k] # NoRow =>
    /\ rows'[k] # NoRow
    /\ rows'[k].left = rows[k].left \/ Tick

(* restates_until is fixed when a row is first seen, and stays fixed when  *)
(* runs overlap and upsert the row in any order: a row that is re-read     *)
(* again and again still becomes final on time.                            *)
THEOREM WindowsAreFixed == Spec => [][WindowKept]_vars
<1>1. ASSUME Typed, Safe, [Next]_vars PROVE [WindowKept]_vars
  <2>1. ASSUME NEW r \in Run, Commit(r) PROVE WindowKept
    BY <1>1, <2>1, CommitSafe DEF WindowKept
  <2>2. CASE UNCHANGED rows
    BY <2>2 DEF WindowKept
  <2>3. CASE Tick
    <3> SUFFICES ASSUME NEW k \in Key, rows[k] # NoRow PROVE rows'[k] # NoRow
      BY <2>3 DEF WindowKept
    <3>1. rows'[k] = Closer(k, rows[k]) /\ rows[k] \in RowsOf(k)
      BY <1>1, <2>3, TickFields DEF Typed, TypeOK, RowsOf
    <3> QED
      BY <3>1, CloserTyped, RowKinds
  <2> QED
    BY <1>1, <2>1, <2>2, <2>3
       DEF Next, RunStep, Start, ReadPage, WriteRow, DeadlockVictim, Complete, Record, Answer,
           Fail, Restate, vars, history
<1> QED
  BY <1>1, TypedInit, TypedStep, SafeInit, SafeStep, PTL DEF Spec

-----------------------------------------------------------------------------
(* Finality. *)

(* is_provisional says whether the figure was fetched within the window.   *)
DatedRow(k, age, row) ==
  Window[k] # Unknown => (row.provisional <=> -age < row.left)

(* That is so of what a transaction has written, until it commits.         *)
Dated ==
  \A r \in Run : \A k \in DOMAIN run[r].written :
    DatedRow(k, run[r].age, run[r].written[k])

(* No row is final while its source may still restate it.                  *)
NeverFinalEarly ==
  \A k \in Key : rows[k] # NoRow /\ ~rows[k].provisional =>
    Window[k] # Unknown /\ rows[k].left <= 0

LEMMA UpsertedDated ==
  ASSUME NEW k \in Key, NEW old, NEW version, NEW age
  PROVE  DatedRow(k, age, Upserted(k, old, version, age))
BY DEF DatedRow, Upserted, Inserted, Updated, Provisional

(* The fetch recedes as fast as the end of the window does, and does not   *)
(* recede beyond MaxRun.                                                   *)
LEMMA CloserDated ==
  ASSUME NEW k \in Key, NEW row \in RowsOf(k), NEW age \in 0 .. MaxRun - 1,
         DatedRow(k, age, row)
  PROVE  DatedRow(k, age + 1, Closer(k, row))
<1> SUFFICES ASSUME Window[k] # Unknown
             PROVE  Closer(k, row).provisional <=> -(age + 1) < Closer(k, row).left
  BY DEF DatedRow
<1>1. row.left \in -MaxRun .. Window[k] /\ Window[k] \in Nat /\ MaxRun \in Nat
  BY RowKinds DEF Left
<1>2. row \in [version : Version(k), left : Left(k), provisional : BOOLEAN]
  BY DEF RowsOf, Row
<1>3. /\ Closer(k, row).provisional = row.provisional
      /\ Closer(k, row).left = AtLeast(-MaxRun, row.left - 1)
  BY <1>2 DEF Closer
<1>4. -age < row.left <=> -(age + 1) < AtLeast(-MaxRun, row.left - 1)
  BY <1>1 DEF AtLeast
<1> QED
  BY <1>3, <1>4 DEF DatedRow

(* What is final, with a window that has been over for as long as a run    *)
(* may take, stays final.                                                  *)
FinalityKept ==
  \A k \in Key :
    rows[k] # NoRow /\ ~rows[k].provisional /\ rows[k].left = -MaxRun =>
      ~rows'[k].provisional

Final == Dated /\ NeverFinalEarly

LEMMA FinalInit == Init => Final
<1> SUFFICES ASSUME Init PROVE Final
  OBVIOUS
<1>1. \A r \in Run : DOMAIN run[r].written = {}
  BY OffTyped DEF Init
<1> QED
  BY <1>1 DEF Init, Final, Dated, NeverFinalEarly

(* A transaction that goes on without an upsert, or is rolled back.        *)
LEMMA FinalWithoutWrites ==
  ASSUME Final, UNCHANGED rows,
         \A r \in Run :
           \/ DOMAIN run'[r].written = {}
           \/ run'[r].written = run[r].written /\ run'[r].age = run[r].age
  PROVE  Final' /\ FinalityKept
BY DEF Final, Dated, NeverFinalEarly, FinalityKept, DatedRow

LEMMA CommitFinal ==
  ASSUME Typed, Safe, Final, NEW r \in Run, Commit(r)
  PROVE  Final' /\ FinalityKept
<1> DEFINE written == run[r].written
<1>1. /\ \A k \in DOMAIN written : k \in Key /\ written[k] \in RowsOf(k)
      /\ \A k \in Key : rows'[k] = IF k \in DOMAIN written THEN written[k] ELSE rows[k]
      /\ run[r].age \in 0 .. MaxRun
  BY CommitFields DEF Typed, RunState
<1>2. DOMAIN run'[r].written = {} /\ \A s \in Run : s # r => run'[s] = run[s]
  <2>1. PICK state \in RunState : run' = [run EXCEPT ![r] = state] /\ Still(state)
    BY CommitFields
  <2> QED
    BY <2>1, RunChanges DEF Still
<1>4. Dated'
  BY <1>2 DEF Final, Dated, DatedRow
<1>5. ASSUME NEW k \in DOMAIN written
      PROVE  /\ ~written[k].provisional => Window[k] # Unknown /\ written[k].left <= 0
             /\ written[k].left = -MaxRun /\ Window[k] # Unknown => ~written[k].provisional
  <2>1. DatedRow(k, run[r].age, written[k])
    BY DEF Final, Dated
  <2>2. k \in Key /\ written[k] \in RowsOf(k)
    BY <1>1
  <2>3. Window[k] # Unknown => written[k].left \in Int /\ MaxRun \in Nat
    BY <2>2, RowKinds DEF Left
  <2>4. Window[k] = Unknown => written[k].provisional
    BY <2>2 DEF RowsOf
  <2> QED
    BY <1>1, <2>1, <2>3, <2>4 DEF DatedRow
<1>6. NeverFinalEarly'
  BY <1>1, <1>5 DEF Final, NeverFinalEarly
<1>7. FinalityKept
  <2> SUFFICES ASSUME NEW k \in Key, rows[k] # NoRow, ~rows[k].provisional,
                      rows[k].left = -MaxRun
               PROVE  ~rows'[k].provisional
    BY DEF FinalityKept
  <2>1. CASE k \in DOMAIN written
    <3>1. Window[k] # Unknown
      BY DEF Final, NeverFinalEarly
    <3>2. written[k].left = -MaxRun
      BY <2>1 DEF Safe, Kept
    <3> QED
      BY <1>1, <1>5, <2>1, <3>1, <3>2
  <2>2. CASE k \notin DOMAIN written
    BY <1>1, <2>2
  <2> QED
    BY <2>1, <2>2
<1> QED
  BY <1>4, <1>6, <1>7 DEF Final

LEMMA TickFinal ==
  ASSUME Typed, Final, Tick
  PROVE  Final' /\ FinalityKept
<1>t. \A k \in Key : rows[k] = NoRow \/ rows[k] \in RowsOf(k)
  BY DEF Typed, TypeOK, RowsOf
<1>1. \A r \in Run : DOMAIN run'[r].written = DOMAIN run[r].written
  BY TickFields
<1>2. Dated'
  <2> SUFFICES ASSUME NEW r \in Run, NEW k \in DOMAIN run[r].written
               PROVE  DatedRow(k, run'[r].age, run'[r].written[k])
    BY <1>1 DEF Dated, DatedRow
  <2>1. /\ k \in Key /\ run[r].written[k] \in RowsOf(k)
        /\ run'[r].written[k] = Closer(k, run[r].written[k])
        /\ run[r].age \in 0 .. MaxRun - 1 /\ run'[r].age = run[r].age + 1
    BY TickFields
  <2>2. DatedRow(k, run[r].age, run[r].written[k])
    BY DEF Final, Dated
  <2> QED
    BY <2>1, <2>2, CloserDated
<1>3. ASSUME NEW k \in Key, rows'[k] # NoRow
      PROVE  /\ rows[k] # NoRow /\ rows'[k].provisional = rows[k].provisional
             /\ rows[k].left <= 0 /\ Window[k] # Unknown => rows'[k].left <= 0
  <2>1. rows[k] # NoRow /\ rows[k] \in RowsOf(k) /\ rows'[k] = Closer(k, rows[k])
    BY <1>t, <1>3, TickFields
  <2>2. rows[k] \in [version : Version(k), left : Left(k), provisional : BOOLEAN]
    BY <2>1 DEF RowsOf, Row
  <2>3. rows'[k].provisional = rows[k].provisional
    BY <2>1, <2>2 DEF Closer
  <2>4. Window[k] # Unknown =>
          /\ rows[k].left \in Int /\ MaxRun \in Nat
          /\ rows'[k].left = AtLeast(-MaxRun, rows[k].left - 1)
    BY <2>1, RowKinds, CloserTyped DEF Left
  <2> QED
    BY <2>1, <2>3, <2>4 DEF AtLeast
<1>4. NeverFinalEarly'
  BY <1>3 DEF Final, NeverFinalEarly
<1>5. FinalityKept
  <2> SUFFICES ASSUME NEW k \in Key, rows[k] # NoRow, ~rows[k].provisional
               PROVE  ~rows'[k].provisional
    BY DEF FinalityKept
  <2>1. rows[k] \in RowsOf(k) /\ rows'[k] = Closer(k, rows[k])
    BY <1>t, TickFields
  <2> QED
    BY <1>3, <2>1, CloserTyped, RowKinds
<1> QED
  BY <1>2, <1>4, <1>5 DEF Final

LEMMA FinalStep == Typed /\ Safe /\ Final /\ [Next]_vars => Final' /\ FinalityKept
<1> SUFFICES ASSUME Typed, Safe, Final, [Next]_vars PROVE Final' /\ FinalityKept
  OBVIOUS
<1>1. ASSUME NEW r \in Run,
             \/ Start(r) \/ Complete(r) \/ Record(r) \/ Answer(r) \/ DeadlockVictim(r) \/ Fail(r)
      PROVE  Final' /\ FinalityKept
  <2>1. PICK state \in RunState :
          /\ run' = [run EXCEPT ![r] = state]
          /\ Still(state) \/ SameCall(state, run[r])
    BY <1>1, QuietSteps
  <2>2. run'[r] = state /\ \A s \in Run : s # r => run'[s] = run[s]
    BY <2>1, RunChanges
  <2>3. UNCHANGED rows
    BY <1>1, QuietSteps
  <2> QED
    BY <2>1, <2>2, <2>3, FinalWithoutWrites DEF Still, SameCall
<1>2. ASSUME NEW r \in Run, ReadPage(r) PROVE Final' /\ FinalityKept
  <2>1. PICK state \in RunState :
          /\ run' = [run EXCEPT ![r] = state]
          /\ state.written = run[r].written /\ state.age = run[r].age
    BY <1>2, ReadPageFields
  <2>2. run'[r] = state /\ \A s \in Run : s # r => run'[s] = run[s]
    BY <2>1, RunChanges
  <2>3. UNCHANGED rows
    BY <1>2, ReadPageFields
  <2> QED
    BY <2>1, <2>2, <2>3, FinalWithoutWrites
<1>3. ASSUME NEW r \in Run, WriteRow(r) PROVE Final' /\ FinalityKept
  <2> DEFINE k == NextKey(r)
  <2>1. PICK state \in RunState, new \in RowsOf(k) :
          /\ run' = [run EXCEPT ![r] = state]
          /\ new = Upserted(k, rows[k], run[r].page[1][2], run[r].age)
          /\ state.age = run[r].age
          /\ DOMAIN state.written = DOMAIN run[r].written \cup {k} /\ state.written[k] = new
          /\ \A j \in DOMAIN run[r].written : j # k => state.written[j] = run[r].written[j]
    BY <1>3, WriteRowFields
  <2>2. k \in Key /\ UNCHANGED rows
    BY <1>3, WriteRowFields
  <2>3. DatedRow(k, run[r].age, new)
    BY <2>1, <2>2, UpsertedDated
  <2>4. run'[r] = state /\ \A s \in Run : s # r => run'[s] = run[s]
    BY <2>1, RunChanges
  <2> HIDE DEF k
  <2>5. Dated'
    BY <2>1, <2>3, <2>4 DEF Final, Dated, DatedRow
  <2>6. NeverFinalEarly' /\ FinalityKept
    BY <2>2 DEF Final, NeverFinalEarly, FinalityKept
  <2> QED
    BY <2>5, <2>6 DEF Final
<1>4. ASSUME NEW r \in Run, Commit(r) PROVE Final' /\ FinalityKept
  BY <1>4, CommitFinal
<1>5. ASSUME NEW k \in Key, Restate(k) PROVE Final' /\ FinalityKept
  BY <1>5, RestateFields, FinalWithoutWrites DEF SameCall
<1>6. CASE Tick
  BY <1>6, TickFinal
<1>7. CASE UNCHANGED vars
  BY <1>7, FinalWithoutWrites DEF vars
<1> QED
  BY <1>1, <1>2, <1>3, <1>4, <1>5, <1>6, <1>7 DEF Next, RunStep

(* Whichever runs overlap, the row a consumer sees as final is one that    *)
(* was fetched after its restatement window: is_provisional is derived     *)
(* from the run's own fetch time and the window kept from the first sight, *)
(* and both recede together until the commit.                              *)
THEOREM NoRowIsFinalEarly == Spec => []NeverFinalEarly
<1>1. Final => NeverFinalEarly
  BY DEF Final
<1> QED
  BY <1>1, TypedInit, TypedStep, SafeInit, SafeStep, FinalInit, FinalStep, PTL DEF Spec

(* A final row may turn provisional again while a run that fetched before  *)
(* the end of the window is still to land.  Once no such run can be under  *)
(* way, what is final stays final.                                         *)
THEOREM FinalityLasts == Spec => [][FinalityKept]_vars
<1>1. Typed /\ Safe /\ Final /\ [Next]_vars => [FinalityKept]_vars
  BY FinalStep
<1> QED
  BY <1>1, TypedInit, TypedStep, SafeInit, SafeStep, FinalInit, FinalStep, PTL DEF Spec

-----------------------------------------------------------------------------
(* What a run holds: a key and the version its page, or what is written of *)
(* it, has for that key.                                                   *)

Holds(state) ==
  {state.page[j] : j \in 1 .. Len(state.page)}
    \cup {<<k, state.written[k].version>> : k \in DOMAIN state.written}

LEMMA HoldsTyped ==
  ASSUME Typed, NEW r \in Run
  PROVE  /\ \A e \in Holds(run[r]) : e[1] \in Key /\ e[2] \in Nat
         /\ \A k \in DOMAIN run[r].written :
              k \in Key /\ <<k, run[r].written[k].version>> \in Holds(run[r])
         /\ run[r].pc \notin {"writing", "landing"} => Holds(run[r]) = {}
<1>1. run[r] \in RunState /\ Orderly(run[r])
  BY DEF Typed
<1>2. ASSUME NEW j \in 1 .. Len(run[r].page)
      PROVE  run[r].page[j][1] \in Key /\ run[r].page[j][2] \in Nat
  <2>1. run[r].page \in Seq(Listed)
    BY <1>1 DEF Orderly
  <2>2. run[r].page[j] \in Listed
    BY <2>1
  <2> QED
    BY <2>2 DEF Listed
<1>3. ASSUME NEW k \in DOMAIN run[r].written
      PROVE  k \in Key /\ run[r].written[k].version \in Nat
  <2>1. k \in Key /\ run[r].written[k] \in RowsOf(k)
    BY <1>1, WrittenKeys DEF Orderly
  <2> QED
    BY <2>1, RowKinds DEF Version
<1>4. run[r].pc \notin {"writing", "landing"} => Holds(run[r]) = {}
  <2>1. Len(<<>>) = 0
    OBVIOUS
  <2> QED
    BY <1>1, <2>1 DEF Orderly, Holds
<1>5. \A e \in Holds(run[r]) : e[1] \in Key /\ e[2] \in Nat
  BY <1>2, <1>3 DEF Holds
<1> QED
  BY <1>3, <1>4, <1>5 DEF Holds

LEMMA HoldsAlike ==
  ASSUME NEW old, NEW state, state.page = old.page, DOMAIN state.written = DOMAIN old.written,
         \A k \in DOMAIN old.written : state.written[k].version = old.written[k].version
  PROVE  Holds(state) = Holds(old)
<1>1. {<<k, state.written[k].version>> : k \in DOMAIN state.written}
        = {<<k, old.written[k].version>> : k \in DOMAIN old.written}
  OBVIOUS
<1> QED
  BY <1>1 DEF Holds

LEMMA StillHolds ==
  ASSUME NEW state, Still(state)
  PROVE  Holds(state) = {} /\ state.pc \notin {"writing", "landing"}
<1>1. Len(<<>>) = 0
  OBVIOUS
<1> QED
  BY <1>1 DEF Still, Holds

LEMMA SameCallHolds ==
  ASSUME NEW old, NEW state, SameCall(state, old)
  PROVE  Holds(state) = Holds(old)
BY DEF SameCall, Holds

(* A page is listed at once: it holds what the platform reports now.       *)
LEMMA ReadPageHolds ==
  ASSUME Typed, NEW r \in Run, ReadPage(r)
  PROVE  /\ \A e \in Holds(run'[r]) : e[1] \in Key /\ e[2] = reported[e[1]]
         /\ \A k \in run[r].unread : k \in run'[r].unread \/ \E e \in Holds(run'[r]) : e[1] = k
         /\ run'[r].scheduled = run[r].scheduled /\ run'[r].later = run[r].later
         /\ \A s \in Run : s # r => run'[s] = run[s]
         /\ run[r].pc = "reading"
<1>1. PICK state \in RunState :
        /\ run' = [run EXCEPT ![r] = state]
        /\ state.scheduled = run[r].scheduled /\ state.later = run[r].later
        /\ state.written = run[r].written
        /\ \A k \in run[r].unread :
             k \in state.unread \/ \E j \in 1 .. Len(state.page) : state.page[j][1] = k
        /\ \A j \in 1 .. Len(state.page) :
             state.page[j][1] \in Key /\ state.page[j][2] = reported[state.page[j][1]]
  BY ReadPageFields
<1>2. run'[r] = state /\ \A s \in Run : s # r => run'[s] = run[s]
  BY <1>1, RunChanges
<1>3. DOMAIN run[r].written = {} /\ run[r].pc = "reading"
  BY DEF ReadPage, Typed, Orderly
<1>4. Holds(state) = {state.page[j] : j \in 1 .. Len(state.page)}
  BY <1>1, <1>3 DEF Holds
<1> QED
  BY <1>1, <1>2, <1>3, <1>4

(* An upsert passes an entry on: no key and no version is made up.         *)
LEMMA WriteRowHolds ==
  ASSUME Typed, NEW r \in Run, WriteRow(r)
  PROVE  /\ Holds(run'[r]) \subseteq Holds(run[r])
         /\ \A e \in Holds(run[r]) : \E f \in Holds(run'[r]) : f[1] = e[1]
         /\ run'[r].scheduled = run[r].scheduled /\ run'[r].later = run[r].later
         /\ run'[r].unread = run[r].unread /\ run'[r].pc = run[r].pc
         /\ \A s \in Run : s # r => run'[s] = run[s]
<1> DEFINE k == NextKey(r)
<1>1. PICK state \in RunState, new \in RowsOf(k) :
        /\ run' = [run EXCEPT ![r] = state]
        /\ new.version = run[r].page[1][2]
        /\ state.pc = run[r].pc /\ state.scheduled = run[r].scheduled
        /\ state.later = run[r].later /\ state.unread = run[r].unread
        /\ Len(state.page) = Len(run[r].page) - 1
        /\ \A j \in 1 .. Len(state.page) : state.page[j] = run[r].page[j + 1]
        /\ DOMAIN state.written = DOMAIN run[r].written \cup {k} /\ state.written[k] = new
        /\ \A j \in DOMAIN run[r].written : j # k => state.written[j] = run[r].written[j]
  BY WriteRowFields
<1>2. run'[r] = state /\ \A s \in Run : s # r => run'[s] = run[s]
  BY <1>1, RunChanges
<1>3. /\ Len(run[r].page) \in Nat /\ Len(run[r].page) >= 1
      /\ run[r].page[1] = <<k, run[r].page[1][2]>>
  <2>1. /\ run[r].page \in Seq(Listed) /\ Len(run[r].page) \in Nat
        /\ Len(run[r].page) >= 1
    BY WriteRowFields DEF Typed, Orderly
  <2>2. run[r].page[1] \in Listed
    BY <2>1
  <2> QED
    BY <2>1, <2>2 DEF Listed, NextKey
<1> HIDE DEF k
<1>4. Holds(state) \subseteq Holds(run[r])
  <2> SUFFICES ASSUME NEW e \in Holds(state) PROVE e \in Holds(run[r])
    OBVIOUS
  <2>1. CASE \E j \in 1 .. Len(state.page) : e = state.page[j]
    <3>1. PICK j \in 1 .. Len(state.page) : e = state.page[j]
      BY <2>1
    <3>2. j + 1 \in 1 .. Len(run[r].page) /\ e = run[r].page[j + 1]
      BY <1>1, <1>3, <3>1
    <3> QED
      BY <3>2 DEF Holds
  <2>2. CASE e = <<k, new.version>>
    <3>1. 1 \in 1 .. Len(run[r].page)
      BY <1>3
    <3> QED
      BY <1>1, <1>3, <2>2, <3>1 DEF Holds
  <2>3. CASE \E j \in DOMAIN run[r].written \ {k} : e = <<j, run[r].written[j].version>>
    BY <2>3 DEF Holds
  <2>4. \/ \E j \in 1 .. Len(state.page) : e = state.page[j]
        \/ \E j \in DOMAIN state.written : e = <<j, state.written[j].version>>
    BY DEF Holds
  <2> QED
    BY <1>1, <2>1, <2>2, <2>3, <2>4
<1>5. \A e \in Holds(run[r]) : \E f \in Holds(state) : f[1] = e[1]
  <2> SUFFICES ASSUME NEW e \in Holds(run[r]) PROVE \E f \in Holds(state) : f[1] = e[1]
    OBVIOUS
  <2>w. ASSUME NEW j \in DOMAIN state.written PROVE <<j, state.written[j].version>> \in Holds(state)
    BY DEF Holds
  <2>1. CASE \E j \in 1 .. Len(run[r].page) : e = run[r].page[j]
    <3>1. PICK j \in 1 .. Len(run[r].page) : e = run[r].page[j]
      BY <2>1
    <3>2. CASE j = 1
      <4>1. e[1] = k /\ k \in DOMAIN state.written
        BY <1>1, <1>3, <3>1, <3>2
      <4> QED
        BY <2>w, <4>1
    <3>3. CASE j # 1
      <4>1. j - 1 \in 1 .. Len(state.page) /\ state.page[j - 1] = e
        BY <1>1, <1>3, <3>1, <3>3
      <4> QED
        BY <4>1 DEF Holds
    <3> QED
      BY <3>2, <3>3
  <2>2. CASE \E j \in DOMAIN run[r].written : e = <<j, run[r].written[j].version>>
    <3>1. PICK j \in DOMAIN run[r].written : e = <<j, run[r].written[j].version>>
      BY <2>2
    <3>2. j \in DOMAIN state.written /\ e[1] = j
      BY <1>1, <3>1
    <3> QED
      BY <2>w, <3>2
  <2> QED
    BY <2>1, <2>2 DEF Holds
<1> QED
  BY <1>1, <1>2, <1>4, <1>5

(* The other steps, and what a commit leaves of its entries.               *)
LEMMA OtherHolds ==
  ASSUME Typed
  PROVE  /\ \A k \in Key : Restate(k) =>
              \A r \in Run : Holds(run'[r]) = Holds(run[r]) /\ run'[r].pc = run[r].pc
         /\ Tick => \A r \in Run :
              /\ Holds(run'[r]) = Holds(run[r]) /\ run'[r].pc = run[r].pc
              /\ run'[r].scheduled = run[r].scheduled /\ run'[r].later = run[r].later
              /\ run'[r].unread = run[r].unread
         /\ Tick => \A k \in Key : rows'[k].version = rows[k].version
<1>1. \A k \in Key : Restate(k) =>
        \A r \in Run : Holds(run'[r]) = Holds(run[r]) /\ run'[r].pc = run[r].pc
  BY RestateFields, SameCallHolds
<1>2. ASSUME Tick, NEW r \in Run PROVE Holds(run'[r]) = Holds(run[r])
  <2>1. /\ run'[r].page = run[r].page /\ DOMAIN run'[r].written = DOMAIN run[r].written
        /\ \A k \in DOMAIN run[r].written :
             run'[r].written[k].version = run[r].written[k].version
    BY <1>2, TickFields, CloserTyped
  <2> QED
    BY <2>1, HoldsAlike
<1>3. ASSUME Tick, NEW k \in Key PROVE rows'[k].version = rows[k].version
  <2>1. rows[k] = NoRow \/ rows[k] \in RowsOf(k)
    BY DEF Typed, TypeOK, RowsOf
  <2>2. rows'[k] = IF rows[k] = NoRow THEN NoRow ELSE Closer(k, rows[k])
    BY <1>3, TickFields
  <2> QED
    BY <2>1, <2>2, CloserTyped
<1> QED
  BY <1>1, <1>2, <1>3, TickFields

LEMMA VersionsTyped ==
  ASSUME Typed
  PROVE  \A k \in Key : rows[k].version \in Nat /\ reported[k] \in Int
<1> SUFFICES ASSUME NEW k \in Key PROVE rows[k].version \in Nat /\ reported[k] \in Int
  OBVIOUS
<1>1. rows[k] = NoRow \/ rows[k] \in RowsOf(k)
  BY DEF Typed, TypeOK, RowsOf
<1>2. rows[k] = NoRow => rows[k].version = 0
  BY DEF NoRow
<1> QED
  BY <1>1, <1>2, RowKinds DEF Typed, Version

(* Nobody holds, and no row has, a version that was never reported.        *)
Past ==
  /\ \A k \in Key : rows[k].version <= reported[k]
  /\ \A r \in Run : \A e \in Holds(run[r]) : e[2] <= reported[e[1]]

LEMMA PastInit == Init => Past
<1> SUFFICES ASSUME Init PROVE Past
  OBVIOUS
<1>1. \A k \in Key : rows[k].version = 0 /\ reported[k] = 0
  BY DEF Init, NoRow
<1>2. \A r \in Run : Holds(run[r]) = {}
  BY OffOrderly, StillHolds DEF Init
<1> QED
  BY <1>1, <1>2 DEF Past

LEMMA PastStep == Typed /\ Past /\ [Next]_vars => Past'
<1> SUFFICES ASSUME Typed, Past, [Next]_vars PROVE Past'
  OBVIOUS
<1>q. ASSUME UNCHANGED <<rows, reported>>, NEW r \in Run,
             \A s \in Run : s # r => run'[s] = run[s],
             \A e \in Holds(run'[r]) : e[2] <= reported[e[1]]
      PROVE  Past'
  BY <1>q DEF Past, Holds
<1>1. ASSUME NEW r \in Run,
             \/ Start(r) \/ Complete(r) \/ Record(r) \/ Answer(r) \/ DeadlockVictim(r) \/ Fail(r)
      PROVE  Past'
  <2>1. PICK state \in RunState :
          /\ run' = [run EXCEPT ![r] = state]
          /\ Still(state) \/ SameCall(state, run[r])
    BY <1>1, QuietSteps
  <2>2. run'[r] = state /\ \A s \in Run : s # r => run'[s] = run[s]
    BY <2>1, RunChanges
  <2>3. \A e \in Holds(state) : e[2] <= reported[e[1]]
    BY <2>1, StillHolds, SameCallHolds DEF Past
  <2>4. UNCHANGED <<rows, reported>>
    BY <1>1, QuietSteps
  <2> QED
    BY <1>q, <2>2, <2>3, <2>4
<1>2. ASSUME NEW r \in Run, ReadPage(r) PROVE Past'
  <2>1. UNCHANGED <<rows, reported>>
    BY <1>2, ReadPageFields
  <2>2. \A e \in Holds(run'[r]) : e[2] <= reported[e[1]]
    BY <1>2, ReadPageHolds, VersionsTyped
  <2> QED
    BY <1>2, <1>q, <2>1, <2>2, ReadPageHolds
<1>3. ASSUME NEW r \in Run, WriteRow(r) PROVE Past'
  <2>1. UNCHANGED <<rows, reported>>
    BY <1>3, WriteRowFields
  <2> QED
    BY <1>3, <1>q, <2>1, WriteRowHolds DEF Past
<1>4. ASSUME NEW r \in Run, Commit(r) PROVE Past'
  <2>1. PICK state \in RunState : run' = [run EXCEPT ![r] = state] /\ Still(state)
    BY <1>4, CommitFields
  <2>2. Holds(run'[r]) = {} /\ \A s \in Run : s # r => run'[s] = run[s]
    BY <2>1, RunChanges, StillHolds
  <2>3. \A k \in Key : rows'[k].version <= reported[k]
    <3> SUFFICES ASSUME NEW k \in Key PROVE rows'[k].version <= reported[k]
      OBVIOUS
    <3>1. CASE k \in DOMAIN run[r].written
      <4>1. <<k, run[r].written[k].version>> \in Holds(run[r]) /\ rows'[k] = run[r].written[k]
        BY <1>4, <3>1, CommitFields, HoldsTyped
      <4> QED
        BY <4>1 DEF Past
    <3>2. CASE k \notin DOMAIN run[r].written
      <4>1. rows'[k] = rows[k]
        BY <1>4, <3>2, CommitFields
      <4> QED
        BY <4>1 DEF Past
    <3> QED
      BY <3>1, <3>2
  <2>4. reported' = reported
    BY <1>4, CommitFields
  <2> QED
    BY <2>2, <2>3, <2>4 DEF Past, Holds
<1>5. ASSUME NEW k \in Key, Restate(k) PROVE Past'
  <2>1. /\ \A j \in Key : reported[j] <= reported'[j] /\ reported'[j] \in Int
        /\ UNCHANGED rows
    BY <1>5, RestateFields
  <2>2. \A j \in Key : rows[j].version <= reported'[j]
    BY <2>1, VersionsTyped DEF Past
  <2>3. ASSUME NEW r \in Run, NEW e \in Holds(run'[r]) PROVE e[2] <= reported'[e[1]]
    <3>1. e \in Holds(run[r])
      BY <1>5, OtherHolds
    <3>2. e[1] \in Key /\ e[2] \in Nat /\ e[2] <= reported[e[1]]
      BY <3>1, HoldsTyped DEF Past
    <3> QED
      BY <2>1, <3>2, VersionsTyped
  <2> QED
    BY <2>1, <2>2, <2>3 DEF Past, Holds
<1>6. CASE Tick
  <2>1. reported' = reported
    BY <1>6, TickFields
  <2> QED
    BY <1>6, <2>1, OtherHolds DEF Past, Holds
<1>7. CASE UNCHANGED vars
  BY <1>7 DEF vars, Past, Holds
<1> QED
  BY <1>1, <1>2, <1>3, <1>4, <1>5, <1>6, <1>7 DEF Next, RunStep

-----------------------------------------------------------------------------
(* The watermark. *)

(* The row has what the platform reports, or an older page took it away.   *)
Settled(k) == rows[k].version = reported[k] \/ k \in overwritten

(* What a scheduled run holds of a key nobody modified after the end it    *)
(* pinned is the version of the platform.                                  *)
Fresh ==
  \A r \in Run : run[r].scheduled =>
    \A e \in Holds(run[r]) : e[1] \notin run[r].later => e[2] = reported[e[1]]

(* What it has still to list or holds is all that may be out of date of    *)
(* the orders modified before that end.                                    *)
Covered ==
  \A r \in Run : run[r].scheduled =>
    \A k \in Reported \ run[r].later :
      \/ k \in run[r].unread
      \/ \E e \in Holds(run[r]) : e[1] = k
      \/ Settled(k)

Marked == Past /\ Fresh /\ Covered /\ NothingStaleBehindTheMark

LEMMA MarkedInit == Init => Marked
<1> SUFFICES ASSUME Init PROVE Marked
  OBVIOUS
<1>1. \A r \in Run : Holds(run[r]) = {} /\ ~run[r].scheduled
  BY OffTyped, OffOrderly, StillHolds DEF Init
<1>2. Reported = {}
  BY DEF Init, Reported
<1> QED
  BY <1>1, <1>2, PastInit DEF Marked, Fresh, Covered, NothingStaleBehindTheMark

(* Behind the mark a settled key is all that is asked for.                 *)
LEMMA BehindTheMark ==
  NothingStaleBehindTheMark <=> \A k \in Reported : k \in ahead \/ Settled(k)
BY DEF NothingStaleBehindTheMark, Settled

(* One run changes; rows and versions stay as they are.                    *)
LEMMA MarkedRun ==
  ASSUME Typed, Marked, NEW r \in Run, UNCHANGED <<rows, reported, overwritten>>, Past',
         \A s \in Run : s # r => run'[s] = run[s],
         run'[r].scheduled =>
           /\ \A e \in Holds(run'[r]) : e[1] \notin run'[r].later => e[2] = reported[e[1]]
           /\ \A k \in Reported \ run'[r].later :
                k \in run'[r].unread \/ (\E e \in Holds(run'[r]) : e[1] = k) \/ Settled(k),
         \A k \in Reported : k \in ahead' \/ Settled(k)
  PROVE  Marked'
<1>1. Reported' = Reported /\ \A k \in Key : Settled(k)' <=> Settled(k)
  BY DEF Reported, Settled
<1>2. Fresh'
  BY DEF Marked, Fresh, Holds
<1>3. Covered'
  <2> SUFFICES ASSUME NEW s \in Run, run'[s].scheduled, NEW k \in Reported \ run'[s].later
               PROVE  k \in run'[s].unread \/ (\E e \in Holds(run'[s]) : e[1] = k) \/ Settled(k)
    BY <1>1 DEF Covered, Holds, Settled
  <2> QED
    BY DEF Marked, Covered
<1>4. NothingStaleBehindTheMark'
  BY <1>1 DEF NothingStaleBehindTheMark, Settled, Reported
<1> QED
  BY <1>2, <1>3, <1>4 DEF Marked

LEMMA StartMarked ==
  ASSUME Typed, Marked, Past', NEW r \in Run, Start(r)
  PROVE  Marked'
<1>1. PICK scheduled \in BOOLEAN, span \in SUBSET Reported :
        /\ scheduled => ahead \subseteq span
        /\ run' = [run EXCEPT ![r] = [Off EXCEPT !.pc = "reading", !.unread = span,
                                                !.scheduled = scheduled]]
  BY DEF Start
<1> DEFINE next == [Off EXCEPT !.pc = "reading", !.unread = span, !.scheduled = scheduled]
<1>2. /\ next.pc = "reading" /\ next.unread = span /\ next.page = <<>> /\ next.later = {}
      /\ next.shown = {} /\ DOMAIN next.written = {} /\ next.scheduled = scheduled
  BY OffTyped DEF RunState
<1>3. run' = [run EXCEPT ![r] = next]
  BY <1>1
<1> HIDE DEF next
<1>4. run'[r] = next /\ \A s \in Run : s # r => run'[s] = run[s]
  BY <1>3, RunChanges
<1>5. Holds(next) = {}
  BY <1>2, StillHolds DEF Still
<1>6. UNCHANGED <<rows, reported, ahead, overwritten>>
  BY DEF Start, history
<1>7. \A k \in Reported : k \in ahead \/ Settled(k)
  BY BehindTheMark DEF Marked
<1> QED
  BY <1>1, <1>2, <1>4, <1>5, <1>6, <1>7, MarkedRun

(* A chunk that is banked leaves nothing to do but what is settled.        *)
LEMMA RecordPartMarked ==
  ASSUME Typed, Marked, NEW r \in Run, RecordPart(r)
  PROVE  \A k \in Reported : k \in ahead' \/ Settled(k)
<1>0. \A k \in Reported : k \in ahead \/ Settled(k)
  BY BehindTheMark DEF Marked
<1>1. CASE run[r].scheduled
  <2>1. PICK chunks \in SUBSET Banked(r) : ahead' = ahead \ chunks
    BY <1>1 DEF RecordPart
  <2>2. ASSUME NEW k \in chunks PROVE Settled(k)
    <3>1. /\ k \in Reported \ run[r].later /\ k \notin run[r].unread
          /\ k \notin DOMAIN run[r].written
          /\ k \notin {run[r].page[j][1] : j \in DOMAIN run[r].page}
      BY DEF Banked
    <3>2. run[r].page \in Seq(Listed)
      BY DEF Typed, Orderly
    <3>3. DOMAIN run[r].page = 1 .. Len(run[r].page)
      BY <3>2
    <3>4. \A e \in Holds(run[r]) : e[1] # k
      BY <3>1, <3>3 DEF Holds
    <3> QED
      BY <1>1, <3>1, <3>4 DEF Marked, Covered
  <2> QED
    BY <1>0, <2>1, <2>2
<1>2. CASE ~run[r].scheduled
  BY <1>0, <1>2 DEF RecordPart
<1> QED
  BY <1>1, <1>2

LEMMA EndMarked ==
  ASSUME Typed, Marked, Past', NEW r \in Run,
         Complete(r) \/ Record(r) \/ Answer(r) \/ DeadlockVictim(r) \/ Fail(r)
  PROVE  Marked'
<1>t. /\ run \in [Run -> RunState] /\ run[r] \in RunState
      /\ UNCHANGED <<rows, reported, overwritten>>
      /\ \A s \in Run : s # r => run'[s] = run[s]
  BY DEF Typed, Complete, Record, Answer, DeadlockVictim, Fail, history
<1>0. \A k \in Reported : k \in ahead \/ Settled(k)
  BY BehindTheMark DEF Marked
<1>1. CASE Complete(r)
  <2> DEFINE next == [Off EXCEPT !.pc = "done", !.scheduled = TRUE, !.later = run[r].later]
  <2>1. /\ next.pc = "done" /\ next.unread = {} /\ next.page = <<>>
        /\ next.later = run[r].later /\ next.shown = {} /\ DOMAIN next.written = {}
    BY OffTyped DEF RunState
  <2>2. run'[r] = next
    BY <1>1, <1>t DEF Complete
  <2> HIDE DEF next
  <2>3. Holds(next) = {}
    BY <2>1, StillHolds DEF Still
  <2>4. run[r].scheduled /\ run[r].unread = {} /\ run[r].pc = "reading" /\ ahead' = ahead
    BY <1>1 DEF Complete
  <2>5. Holds(run[r]) = {}
    BY <2>4, HoldsTyped
  <2>6. \A k \in Reported \ next.later : Settled(k)
    BY <2>1, <2>4, <2>5 DEF Marked, Covered
  <2> QED
    BY <1>0, <1>t, <2>2, <2>3, <2>4, <2>6, MarkedRun
<1>2. CASE Record(r)
  <2>1. /\ run[r].pc = "done" /\ ahead' = ahead \cap run[r].later
        /\ ~run'[r].scheduled
    BY <1>2, <1>t, OffTyped DEF Record
  <2>2. Holds(run[r]) = {}
    BY <2>1, HoldsTyped
  <2>3. run[r].scheduled /\ run[r].unread = {} => \A k \in Reported \ run[r].later : Settled(k)
    BY <2>2 DEF Marked, Covered
  <2>4. run[r].scheduled /\ run[r].unread = {}
    BY <2>1 DEF Typed, Orderly
  <2> QED
    BY <1>0, <1>t, <2>1, <2>3, <2>4, MarkedRun
<1>3. CASE Answer(r) \/ DeadlockVictim(r) \/ Fail(r)
  <2> DEFINE landing == [run[r] EXCEPT !.pc = "landing", !.scheduled = FALSE,
                                       !.unread = {}, !.later = {}]
  <2>1. ~landing.scheduled
    BY <1>t DEF RunState
  <2>2. run'[r] \in {Off, landing}
    BY <1>3, <1>t DEF Answer, DeadlockVictim, Fail
  <2> HIDE DEF landing
  <2>3. ~run'[r].scheduled
    BY <2>1, <2>2, OffTyped
  <2>4. RecordPart(r) \/ UNCHANGED ahead
    BY <1>3 DEF Answer, DeadlockVictim, Fail
  <2>5. \A k \in Reported : k \in ahead' \/ Settled(k)
    BY <1>0, <2>4, RecordPartMarked
  <2> QED
    BY <1>t, <2>3, <2>5, MarkedRun
<1> QED
  BY <1>1, <1>2, <1>3

LEMMA CommitMarked ==
  ASSUME Typed, Marked, Past', NEW r \in Run, Commit(r)
  PROVE  Marked'
<1> DEFINE written == run[r].written
<1>1. PICK state \in RunState :
        /\ run' = [run EXCEPT ![r] = state] /\ Still(state)
        /\ \/ ~state.scheduled
           \/ /\ state.unread = run[r].unread /\ state.later = run[r].later
              /\ run[r].scheduled
  BY CommitFields
<1>2. run'[r] = state /\ Holds(state) = {} /\ \A s \in Run : s # r => run'[s] = run[s]
  BY <1>1, RunChanges, StillHolds
<1>3. /\ UNCHANGED <<reported, ahead>> /\ run[r].page = <<>>
      /\ \A k \in Key :
           /\ rows'[k] = IF k \in DOMAIN written THEN written[k] ELSE rows[k]
           /\ k \in overwritten' <=>
                /\ k \in overwritten \/ /\ k \in DOMAIN written
                                        /\ written[k].version < rows[k].version
                /\ k \in DOMAIN written => written[k].version # reported[k]
  BY CommitFields
<1>4. \A k \in DOMAIN written :
        k \in Key /\ <<k, written[k].version>> \in Holds(run[r]) /\ written[k].version \in Nat
  BY HoldsTyped
(* What was settled stays so: a commit that takes the present version away *)
(* puts an older one in its place.                                         *)
<1>5. ASSUME NEW k \in Key, Settled(k) PROVE Settled(k)'
  <2>1. CASE k \notin DOMAIN written
    BY <1>3, <1>5, <2>1 DEF Settled
  <2>2. CASE k \in DOMAIN written
    <3>1. written[k].version <= reported[k] /\ written[k].version \in Nat
      BY <1>4, <2>2 DEF Marked, Past
    <3>2. rows[k].version = reported[k] /\ written[k].version # reported[k] =>
            written[k].version < rows[k].version
      BY <3>1, VersionsTyped
    <3> QED
      BY <1>3, <1>5, <2>2, <3>2 DEF Settled
  <2> QED
    BY <2>1, <2>2
<1>6. Reported' = Reported /\ Reported \subseteq Key
  BY <1>3 DEF Reported
<1>7. Fresh'
  BY <1>2, <1>3 DEF Marked, Fresh, Holds
<1>8. Covered'
  <2> SUFFICES ASSUME NEW s \in Run, run'[s].scheduled, NEW k \in Reported \ run'[s].later
               PROVE  k \in run'[s].unread \/ (\E e \in Holds(run'[s]) : e[1] = k) \/ Settled(k)'
    BY <1>6 DEF Covered, Holds
  <2>1. CASE s # r
    BY <1>2, <1>5, <1>6, <2>1 DEF Marked, Covered
  <2>2. CASE s = r
    <3>1. /\ run[r].scheduled /\ run'[r].unread = run[r].unread
          /\ run'[r].later = run[r].later
      BY <1>1, <1>2, <2>2
    <3>2. CASE k \in run[r].unread
      BY <2>2, <3>1, <3>2
    <3>3. CASE Settled(k)
      BY <1>5, <1>6, <3>3
    <3>4. CASE \E e \in Holds(run[r]) : e[1] = k
      <4>1. PICK e \in Holds(run[r]) : e[1] = k
        BY <3>4
      <4>2. k \in DOMAIN written
        <5>1. Len(<<>>) = 0
          OBVIOUS
        <5> QED
          BY <1>3, <4>1, <5>1 DEF Holds
      <4>3. written[k].version = reported[k]
        BY <1>4, <2>2, <3>1, <4>2 DEF Marked, Fresh
      <4> QED
        BY <1>3, <1>6, <4>2, <4>3 DEF Settled
    <3> QED
      BY <2>2, <3>1, <3>2, <3>3, <3>4 DEF Marked, Covered
  <2> QED
    BY <2>1, <2>2
<1>9. NothingStaleBehindTheMark'
  <2>1. \A k \in Reported : k \in ahead' \/ Settled(k)'
    BY <1>3, <1>5, <1>6, BehindTheMark DEF Marked
  <2> QED
    BY <1>6, <2>1 DEF NothingStaleBehindTheMark, Settled
<1> QED
  BY <1>7, <1>8, <1>9 DEF Marked

LEMMA RestateMarked ==
  ASSUME Typed, Marked, Past', NEW k \in Key, Restate(k)
  PROVE  Marked'
<1>1. /\ ahead' = ahead \cup {k} /\ UNCHANGED <<rows, overwritten>>
      /\ \A j \in Key : j # k => reported'[j] = reported[j]
      /\ \A r \in Run :
           /\ run'[r].scheduled = run[r].scheduled /\ Holds(run'[r]) = Holds(run[r])
           /\ run[r].scheduled => /\ run'[r].later = run[r].later \cup {k}
                                  /\ run'[r].unread = run[r].unread \ {k}
  BY RestateFields, OtherHolds
<1>2. \A j \in Key : j # k =>
        /\ j \in Reported' <=> j \in Reported
        /\ Settled(j)' <=> Settled(j)
  BY <1>1 DEF Reported, Settled
<1>3. Reported' \subseteq Key
  BY DEF Reported
<1>4. Fresh'
  <2> SUFFICES ASSUME NEW r \in Run, run'[r].scheduled, NEW e \in Holds(run'[r]),
                      e[1] \notin run'[r].later
               PROVE  e[2] = reported'[e[1]]
    BY DEF Fresh, Holds
  <2>1. run[r].scheduled /\ e \in Holds(run[r]) /\ e[1] \notin run[r].later /\ e[1] # k
    BY <1>1
  <2> QED
    BY <1>1, <2>1, HoldsTyped DEF Marked, Fresh
<1>5. Covered'
  <2> SUFFICES ASSUME NEW r \in Run, run'[r].scheduled, NEW j \in Reported' \ run'[r].later
               PROVE  j \in run'[r].unread \/ (\E e \in Holds(run'[r]) : e[1] = j) \/ Settled(j)'
    BY DEF Covered, Holds
  <2>1. run[r].scheduled /\ j \in Key /\ j # k /\ j \in Reported \ run[r].later
    BY <1>1, <1>2, <1>3
  <2> QED
    BY <1>1, <1>2, <2>1 DEF Marked, Covered
<1>6. NothingStaleBehindTheMark'
  <2>1. \A j \in Reported' : j \in ahead' \/ Settled(j)'
    BY <1>1, <1>2, <1>3, BehindTheMark DEF Marked
  <2> QED
    BY <2>1 DEF NothingStaleBehindTheMark, Settled
<1> QED
  BY <1>4, <1>5, <1>6 DEF Marked

LEMMA MarkedStep == Typed /\ Marked /\ [Next]_vars => Marked'
<1> SUFFICES ASSUME Typed, Marked, [Next]_vars PROVE Marked'
  OBVIOUS
<1>0. Past'
  BY PastStep DEF Marked
<1>1. ASSUME NEW r \in Run, Start(r) PROVE Marked'
  BY <1>0, <1>1, StartMarked
<1>2. ASSUME NEW r \in Run,
             Complete(r) \/ Record(r) \/ Answer(r) \/ DeadlockVictim(r) \/ Fail(r)
      PROVE  Marked'
  BY <1>0, <1>2, EndMarked
<1>b. \A k \in Reported : k \in Key /\ (k \in ahead \/ Settled(k))
  BY BehindTheMark DEF Marked, Reported
<1>3. ASSUME NEW r \in Run, ReadPage(r) PROVE Marked'
  <2>1. UNCHANGED <<rows, reported, ahead, overwritten>>
    BY <1>3, ReadPageFields
  <2>2. Holds(run[r]) = {}
    BY <1>3, ReadPageHolds, HoldsTyped
  <2>3. run[r].scheduled =>
          \A k \in Reported \ run[r].later : k \in run[r].unread \/ Settled(k)
    BY <2>2 DEF Marked, Covered
  <2>4. run'[r].scheduled =>
          /\ \A e \in Holds(run'[r]) : e[1] \notin run'[r].later => e[2] = reported[e[1]]
          /\ \A k \in Reported \ run'[r].later :
               k \in run'[r].unread \/ (\E e \in Holds(run'[r]) : e[1] = k) \/ Settled(k)
    BY <1>3, <2>3, ReadPageHolds
  <2> QED
    BY <1>0, <1>3, <1>b, <2>1, <2>4, MarkedRun, ReadPageHolds
<1>4. ASSUME NEW r \in Run, WriteRow(r) PROVE Marked'
  <2>1. UNCHANGED <<rows, reported, ahead, overwritten>>
    BY <1>4, WriteRowFields
  <2>2. run'[r].scheduled =>
          /\ \A e \in Holds(run'[r]) : e[1] \notin run'[r].later => e[2] = reported[e[1]]
          /\ \A k \in Reported \ run'[r].later :
               k \in run'[r].unread \/ (\E e \in Holds(run'[r]) : e[1] = k) \/ Settled(k)
    BY <1>4, WriteRowHolds DEF Marked, Fresh, Covered
  <2> QED
    BY <1>0, <1>4, <1>b, <2>1, <2>2, MarkedRun, WriteRowHolds
<1>5. ASSUME NEW r \in Run, Commit(r) PROVE Marked'
  BY <1>0, <1>5, CommitMarked
<1>6. ASSUME NEW k \in Key, Restate(k) PROVE Marked'
  BY <1>0, <1>6, RestateMarked
<1>7. CASE Tick
  <2>1. /\ UNCHANGED <<reported, ahead, overwritten>>
        /\ \A k \in Key : rows'[k].version = rows[k].version
        /\ \A r \in Run :
             /\ Holds(run'[r]) = Holds(run[r]) /\ run'[r].unread = run[r].unread
             /\ run'[r].scheduled = run[r].scheduled /\ run'[r].later = run[r].later
    BY <1>7, TickFields, OtherHolds
  <2>2. Reported' = Reported /\ \A k \in Key : Settled(k)' <=> Settled(k)
    BY <2>1 DEF Reported, Settled
  <2>3. Fresh'
    BY <2>1 DEF Marked, Fresh, Holds
  <2>4. Covered'
    <3> SUFFICES ASSUME NEW r \in Run, run'[r].scheduled, NEW k \in Reported \ run'[r].later
                 PROVE  k \in run'[r].unread \/ (\E e \in Holds(run'[r]) : e[1] = k) \/ Settled(k)'
      BY <2>2 DEF Covered, Holds
    <3> QED
      BY <1>b, <2>1, <2>2 DEF Marked, Covered
  <2>5. NothingStaleBehindTheMark'
    BY <1>b, <2>1, <2>2 DEF NothingStaleBehindTheMark, Settled
  <2> QED
    BY <1>0, <2>3, <2>4, <2>5 DEF Marked
<1>8. CASE UNCHANGED vars
  <2>1. UNCHANGED <<reported, rows, ahead, run, overwritten>>
    BY <1>8 DEF vars
  <2> QED
    BY <1>0, <2>1
       DEF Marked, Fresh, Covered, NothingStaleBehindTheMark, Holds, Settled, Reported
<1> QED
  BY <1>1, <1>2, <1>3, <1>4, <1>5, <1>6, <1>7, <1>8 DEF Next, RunStep

(* Whatever overlaps, fails part-way, dies before it is recorded or lands  *)
(* late: behind the watermark a row is in the version the platform         *)
(* reports, or a page older than the row has overwritten it.               *)
THEOREM NothingStaleIsBehind == Spec => []NothingStaleBehindTheMark
<1>1. Marked => NothingStaleBehindTheMark
  BY DEF Marked
<1> QED
  BY <1>1, TypedInit, TypedStep, MarkedInit, MarkedStep, PTL DEF Spec

-----------------------------------------------------------------------------
(* When rows only move forward.  What a page holds is what the platform    *)
(* reported when the page was read; nothing compares it with the row.  So  *)
(* a row goes back only if another call commits between the read of a page *)
(* and its commit.                                                         *)

(* No two calls are between the read of their page and their commit, those *)
(* of dead runs that are still to land included.                           *)
OneCall == \A r, s \in Run : Writing(r) /\ Writing(s) => r = s

(* What is held is no older than the rows it is for. *)
Forward == \A r \in Run : \A e \in Holds(run[r]) : rows[e[1]].version <= e[2]

RowsAdvance ==
  \A k \in Key : rows[k] # NoRow => rows[k].version <= rows'[k].version

LEMMA ForwardRun ==
  ASSUME Typed, Forward, UNCHANGED rows, NEW r \in Run,
         \A s \in Run : s # r => run'[s] = run[s],
         \A e \in Holds(run'[r]) : rows[e[1]].version <= e[2]
  PROVE  Forward' /\ RowsAdvance
<1>1. Forward'
  BY DEF Forward, Holds
<1>2. RowsAdvance
  BY VersionsTyped DEF RowsAdvance
<1> QED
  BY <1>1, <1>2

LEMMA CommitForward ==
  ASSUME Typed, Forward, OneCall, NEW r \in Run, Commit(r)
  PROVE  Forward' /\ RowsAdvance
<1>1. PICK state \in RunState : run' = [run EXCEPT ![r] = state] /\ Still(state)
  BY CommitFields
<1>2. Holds(run'[r]) = {} /\ \A s \in Run : s # r => run'[s] = run[s]
  BY <1>1, RunChanges, StillHolds
<1>3. /\ Writing(r)
      /\ \A k \in Key :
           rows'[k] = IF k \in DOMAIN run[r].written THEN run[r].written[k] ELSE rows[k]
  BY CommitFields
<1>4. \A s \in Run : Holds(run'[s]) = {}
  <2> SUFFICES ASSUME NEW s \in Run, s # r PROVE Holds(run'[s]) = {}
    BY <1>2
  <2>1. ~Writing(s)
    BY <1>3 DEF OneCall
  <2> QED
    BY <1>2, <2>1, HoldsTyped DEF Writing
<1>5. RowsAdvance
  <2> SUFFICES ASSUME NEW k \in Key PROVE rows[k].version <= rows'[k].version
    BY DEF RowsAdvance
  <2>1. CASE k \in DOMAIN run[r].written
    <3>1. <<k, run[r].written[k].version>> \in Holds(run[r])
      BY <2>1, HoldsTyped
    <3> QED
      BY <1>3, <2>1, <3>1 DEF Forward
  <2>2. CASE k \notin DOMAIN run[r].written
    BY <1>3, <2>2, VersionsTyped
  <2> QED
    BY <2>1, <2>2
<1>6. Forward'
  BY <1>4 DEF Forward, Holds
<1> QED
  BY <1>5, <1>6

LEMMA ForwardStep ==
  Typed /\ Past /\ Forward /\ OneCall /\ [Next]_vars => Forward' /\ RowsAdvance
<1> SUFFICES ASSUME Typed, Past, Forward, OneCall, [Next]_vars PROVE Forward' /\ RowsAdvance
  OBVIOUS
<1>1. ASSUME NEW r \in Run,
             \/ Start(r) \/ Complete(r) \/ Record(r) \/ Answer(r) \/ DeadlockVictim(r) \/ Fail(r)
      PROVE  Forward' /\ RowsAdvance
  <2>1. PICK state \in RunState :
          /\ run' = [run EXCEPT ![r] = state]
          /\ Still(state) \/ SameCall(state, run[r])
    BY <1>1, QuietSteps
  <2>2. run'[r] = state /\ \A s \in Run : s # r => run'[s] = run[s]
    BY <2>1, RunChanges
  <2>3. \A e \in Holds(state) : rows[e[1]].version <= e[2]
    BY <2>1, StillHolds, SameCallHolds DEF Forward
  <2>4. UNCHANGED rows
    BY <1>1, QuietSteps
  <2> QED
    BY <2>2, <2>3, <2>4, ForwardRun
<1>2. ASSUME NEW r \in Run, ReadPage(r) PROVE Forward' /\ RowsAdvance
  <2>1. UNCHANGED rows
    BY <1>2, ReadPageFields
  <2>2. \A e \in Holds(run'[r]) : rows[e[1]].version <= e[2]
    BY <1>2, ReadPageHolds DEF Past
  <2> QED
    BY <1>2, <2>1, <2>2, ReadPageHolds, ForwardRun
<1>3. ASSUME NEW r \in Run, WriteRow(r) PROVE Forward' /\ RowsAdvance
  <2>1. UNCHANGED rows
    BY <1>3, WriteRowFields
  <2>2. \A e \in Holds(run'[r]) : rows[e[1]].version <= e[2]
    BY <1>3, WriteRowHolds DEF Forward
  <2> QED
    BY <1>3, <2>1, <2>2, WriteRowHolds, ForwardRun
<1>4. ASSUME NEW r \in Run, Commit(r) PROVE Forward' /\ RowsAdvance
  BY <1>4, CommitForward
<1>5. ASSUME UNCHANGED rows, \A r \in Run : Holds(run'[r]) = Holds(run[r])
      PROVE  Forward' /\ RowsAdvance
  <2>1. Forward'
    BY <1>5 DEF Forward, Holds
  <2> QED
    BY <1>5, <2>1, VersionsTyped DEF RowsAdvance
<1>6. ASSUME NEW k \in Key, Restate(k) PROVE Forward' /\ RowsAdvance
  BY <1>5, <1>6, RestateFields, OtherHolds
<1>7. CASE Tick
  <2>1. /\ \A k \in Key : rows'[k].version = rows[k].version
        /\ \A r \in Run : Holds(run'[r]) = Holds(run[r])
    BY <1>7, OtherHolds
  <2>2. ASSUME NEW r \in Run, NEW e \in Holds(run'[r]) PROVE rows'[e[1]].version <= e[2]
    BY <2>1, <2>2, HoldsTyped DEF Forward
  <2>3. Forward'
    BY <2>2 DEF Forward, Holds
  <2> QED
    BY <2>1, <2>3, VersionsTyped DEF RowsAdvance
<1>8. CASE UNCHANGED vars
  BY <1>5, <1>8 DEF vars
<1> QED
  BY <1>1, <1>2, <1>3, <1>4, <1>6, <1>7, <1>8 DEF Next, RunStep

(* Where calls exclude each other between the read of a page and its       *)
(* commit, no row goes back to an earlier version; runs may otherwise      *)
(* overlap, die and be rolled back.  The lease sees to that for the live   *)
(* sweeps of a connection, and nothing does for POST /v1/ingest/run or for *)
(* a call that lands late.                                                 *)
THEOREM RowsMoveForward == Spec /\ []OneCall => RowsOnlyForward
<1>1. Init => Forward
  <2> SUFFICES ASSUME Init PROVE Forward
    OBVIOUS
  <2>1. \A r \in Run : Holds(run[r]) = {}
    BY OffOrderly, StillHolds DEF Init
  <2> QED
    BY <2>1 DEF Forward
<1>2. Typed /\ Past /\ Forward /\ OneCall /\ [Next]_vars =>
        [\A k \in Key : rows[k] # NoRow => rows[k].version <= rows'[k].version]_vars
  BY ForwardStep DEF RowsAdvance
<1> QED
  BY <1>1, <1>2, TypedInit, TypedStep, PastInit, PastStep, ForwardStep, PTL
     DEF Spec, RowsOnlyForward
=============================================================================
