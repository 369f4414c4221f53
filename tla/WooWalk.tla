------------------------------- MODULE WooWalk -------------------------------
(***************************************************************************)
(* One connection's walk over a WooCommerce store, run after run.          *)
(*                                                                         *)
(* runWooBackfill cuts the span behind the watermark into chunks;          *)
(* fetchOrdersWindow reads a chunk, halving every window that costs too    *)
(* many pages; fetchOrdersPages reads a window page by page, by OFFSET,    *)
(* and refuses one it cannot prove it read whole; runIngest writes every   *)
(* page as it comes and carries the watermark home.  The merchant's store  *)
(* goes on being edited under all of it.                                   *)
(*                                                                         *)
(* Time is the store's clock in whole seconds, the only unit its date      *)
(* filters have.  Whether those filters take in their own second is not    *)
(* known to the connector, which means to be right either way.  Runs       *)
(* follow one another: IngestSweep keeps two sweeps off a connection.      *)
(***************************************************************************)
EXTENDS Integers, Sequences, FiniteSets

CONSTANTS
  Order,            \* the orders of the store
  PageSize,         \* WOO_MAX_PER_PAGE
  MaxPages,         \* WOO_MAX_PAGES_PER_WINDOW
  FloorMaxPages,    \* WOO_FLOOR_MAX_PAGES
  MaxWindows,       \* WOO_MAX_WINDOWS
  ChunkSpan,        \* WOO_BACKFILL_CHUNK_DAYS, in seconds
  Lag,              \* how far the Worker's clock is behind the store's
  MaxTime           \* bound on the clock (model checking only)

ASSUME WalkAssumption ==
  /\ IsFiniteSet(Order)
  /\ PageSize \in Nat \ {0} /\ MaxPages \in Nat \ {0} /\ MaxWindows \in Nat \ {0}
  /\ FloorMaxPages \in Nat /\ FloorMaxPages >= MaxPages
  /\ ChunkSpan \in Nat \ {0}
  /\ Lag \in Int /\ MaxTime \in Nat

Nowhen == -1      \* the stamp of an order that is not in the store

VARIABLES
  inclusive,      \* whether modified_after and modified_before take in their second
  now,            \* the store's clock
  stamp,          \* date_modified of each order
  stored,         \* the orders whose present version is in the envelope
  checkpoint,     \* connections.ingest_checkpoint
  walk,           \* the local state of the run
  doubt           \* history: seconds passed without proof that all was read

vars == <<inclusive, now, stamp, stored, checkpoint, walk, doubt>>

Second == Nat
Window == [after : Second, before : Second]

WalkState ==
  [pc : {"idle", "window", "pages", "write"},
   until : Second,              \* pinned when the run starts
   reached : Second,            \* end of the last chunk read in full
   pending : Seq(Window),       \* what is left of the chunk; its head is read now
   budget : 0 .. MaxWindows,    \* sub-windows the chunk may still visit
   page : Nat,                  \* pages of the head asked for so far
   pages : Nat, total : Nat,    \* X-WP-TotalPages and X-WP-Total of page 1
   seen : SUBSET Order,         \* ids yielded by the window
   batch : SUBSET Order,        \* orders of the page in hand, still current
   loose : BOOLEAN]             \* history: the count of page 1 proves nothing

Rest == [pc |-> "idle", until |-> 0, reached |-> 0, pending |-> <<>>, budget |-> 0,
         page |-> 0, pages |-> 0, total |-> 0, seen |-> {}, batch |-> {},
         loose |-> FALSE]

(* The types, and that the windows left tile what is left of the chunk.    *)
TypeOK ==
  /\ inclusive \in [after : BOOLEAN, before : BOOLEAN]
  /\ now \in 0 .. MaxTime
  /\ stamp \in [Order -> Second \cup {Nowhen}]
  /\ stored \subseteq Order
  /\ checkpoint \in Second
  /\ walk \in WalkState
  /\ doubt \subseteq Second
  /\ walk.pc # "idle" => walk.pending # <<>>
  /\ \A k \in 1 .. Len(walk.pending) - 1 :
       walk.pending[k + 1].after = walk.pending[k].before + 1

Init ==
  /\ inclusive \in [after : BOOLEAN, before : BOOLEAN]
  /\ now = 0
  /\ stamp = [o \in Order |-> Nowhen]
  /\ stored = {}
  /\ checkpoint = 0
  /\ walk = Rest
  /\ doubt = {}

-----------------------------------------------------------------------------
(* The store. *)

Span(w) == w.after .. w.before

(* The seconds a request for window w asks for. *)
Asked(w) ==
  {s \in Span(w) : /\ s = w.after => inclusive.after
                   /\ s = w.before => inclusive.before}

(* The orders it selects. *)
Selected(w) == {o \in Order : stamp[o] \in Asked(w)}

(* Behind a mark t: no window that begins with t asks for second s.        *)
Behind(s, t) == s < t \/ (s = t /\ ~inclusive.after)

(* What the walk has left behind it. *)
Passed(s) ==
  \/ Behind(s, checkpoint)
  \/ walk.pc # "idle" /\ (Behind(s, walk.reached) \/ s < Head(walk.pending).after)

(* What it is reading now. *)
BeingRead(s) == walk.pc \in {"pages", "write"} /\ s \in Span(Head(walk.pending))

(* An order is placed, edited, refunded or restored: every one of these    *)
(* stamps it, and makes the copy in the envelope, or in hand, an old one.  *)
(* (The history: it may be stamped in a second the walk has passed, or in  *)
(* the window being read, once that was counted.)                          *)
Modify(o) ==
  /\ stamp' = [stamp EXCEPT ![o] = now]
  /\ stored' = stored \ {o}
  /\ walk' = [walk EXCEPT !.batch = @ \ {o}, !.loose = @ \/ BeingRead(now)]
  /\ doubt' = IF Passed(now) THEN doubt \cup {now} ELSE doubt
  /\ UNCHANGED <<inclusive, now, checkpoint>>

Trash(o) ==
  /\ stamp[o] # Nowhen
  /\ stamp' = [stamp EXCEPT ![o] = Nowhen]
  /\ stored' = stored \ {o}
  /\ walk' = [walk EXCEPT !.batch = @ \ {o}]
  /\ UNCHANGED <<inclusive, now, checkpoint, doubt>>

Tick ==
  /\ now < MaxTime
  /\ now' = now + 1
  /\ UNCHANGED <<inclusive, stamp, stored, checkpoint, walk, doubt>>

AtMost(m, n) == IF m <= n THEN m ELSE n

(* What page n may hold: PageSize of the selected orders after the first   *)
(* (n - 1) * PageSize, by stamp ascending.  MySQL breaks ties as it likes, *)
(* and differently for every request.                                      *)
PageOf(w, n) ==
  {page \in SUBSET Selected(w) :
     \E skipped \in SUBSET (Selected(w) \ page) :
       LET beyond == Selected(w) \ (page \cup skipped) IN
       /\ Cardinality(skipped) = AtMost((n - 1) * PageSize, Cardinality(Selected(w)))
       /\ Cardinality(page) = AtMost(PageSize, Cardinality(page \cup beyond))
       /\ \A s \in skipped, p \in page \cup beyond : stamp[s] <= stamp[p]
       /\ \A p \in page, b \in beyond : stamp[p] <= stamp[b]}

(* X-WP-TotalPages: an empty collection has none, which reads as one. *)
PagesFor(n) == IF n = 0 THEN 1 ELSE (n + PageSize - 1) \div PageSize

-----------------------------------------------------------------------------
(* runWooBackfill: the chunks. *)

Chunk(from, until) == [after |-> from, before |-> AtMost(from + ChunkSpan, until)]

(* The walk stands before the first of these windows. *)
TurnTo(windows, budget, until, reached) ==
  walk' = [Rest EXCEPT !.pc = "window", !.until = until, !.reached = reached,
                       !.pending = windows, !.budget = budget]

(* fetchOrdersWindow starts on a chunk with a budget of its own. *)
BeginChunk(from, until) == TurnTo(<<Chunk(from, until)>>, MaxWindows, until, from)

(* `until` is the Worker's clock when the run starts, pinned once.  A span *)
(* that ends at or before it starts is refused.                            *)
StartRun ==
  /\ walk.pc = "idle" /\ checkpoint < now - Lag
  /\ BeginChunk(checkpoint, now - Lag)
  /\ UNCHANGED <<inclusive, now, stamp, stored, checkpoint, doubt>>

(* The run stops here: a failed request or write, or a window it refuses   *)
(* (budget spent, one second too large, headers missing, count short).     *)
(* The report carries the last chunk read in full.                         *)
FailRun ==
  /\ walk.pc # "idle"
  /\ checkpoint' = walk.reached
  /\ walk' = Rest
  /\ UNCHANGED <<inclusive, now, stamp, stored, doubt>>

(* The invocation is killed: nothing carries the watermark. *)
Kill ==
  /\ walk.pc # "idle"
  /\ walk' = Rest
  /\ UNCHANGED <<inclusive, now, stamp, stored, checkpoint, doubt>>

-----------------------------------------------------------------------------
(* fetchOrdersWindow: one window, or its two halves. *)

Divisible(w) == w.before > w.after

Cap(w) == IF Divisible(w) THEN MaxPages ELSE FloorMaxPages

(* Mutant: the middle second is left out of both halves. *)
HalvesApart(w) ==
  LET mid == w.after + (w.before - w.after) \div 2 IN
  << [after |-> w.after, before |-> mid - 1], [after |-> mid + 1, before |-> w.before] >>

Halves(w) ==
  LET mid == w.after + (w.before - w.after) \div 2 IN
  << [after |-> w.after, before |-> mid], [after |-> mid + 1, before |-> w.before] >>

TooLarge(w) == PagesFor(Cardinality(Selected(w))) > Cap(w)

(* window_too_large, and something left to split: page 1 was asked for and *)
(* thrown away.                                                            *)
Split ==
  LET w == Head(walk.pending) IN
  /\ walk.pc = "window" /\ walk.budget > 0
  /\ TooLarge(w) /\ Divisible(w)
  /\ TurnTo(Halves(w) \o Tail(walk.pending), walk.budget - 1, walk.until, walk.reached)
  /\ UNCHANGED <<inclusive, now, stamp, stored, checkpoint, doubt>>

-----------------------------------------------------------------------------
(* fetchOrdersPages: one window, page by page. *)

(* A page comes back.  Ids the window has yielded before are dropped; a    *)
(* page with nothing on it ends the walk.                                  *)
Receive(page, n, state) ==
  walk' = [state EXCEPT !.pc = IF page = {} THEN "pages" ELSE "write",
                        !.page = IF page = {} THEN state.pages ELSE n,
                        !.seen = @ \cup page,
                        !.batch = page \ state.seen]

(* Page 1, whose headers are the only ones that are ever read.  A proxy    *)
(* strips either of them, or both: no X-WP-TotalPages reads as one page,   *)
(* no X-WP-Total as a total of none.  One full page and no total is        *)
(* refused (pagination_headers_missing).                                   *)
FirstPage ==
  LET w == Head(walk.pending)
      n == Cardinality(Selected(w)) IN
  /\ walk.pc = "window" /\ walk.budget > 0
  /\ \E total \in {0, n}, pages \in {1, PagesFor(n)} :
       /\ pages <= Cap(w)
       /\ pages = 1 /\ total = 0 => n < PageSize
       /\ \E page \in PageOf(w, 1) :
            Receive(page, 1, [walk EXCEPT !.budget = @ - 1, !.seen = {},
                                          !.total = total, !.pages = pages,
                                          !.loose = total = 0 /\ pages > 1])
  /\ UNCHANGED <<inclusive, now, stamp, stored, checkpoint, doubt>>

(* Mutant: the same page over and over. *)
SamePage ==
  /\ walk.pc = "pages" /\ walk.page < walk.pages
  /\ \E page \in PageOf(Head(walk.pending), walk.page) :
       Receive(page, walk.page, walk)
  /\ UNCHANGED <<inclusive, now, stamp, stored, checkpoint, doubt>>

NextPage ==
  /\ walk.pc = "pages" /\ walk.page < walk.pages
  /\ \E page \in PageOf(Head(walk.pending), walk.page + 1) :
       Receive(page, walk.page + 1, walk)
  /\ UNCHANGED <<inclusive, now, stamp, stored, checkpoint, doubt>>

(* runIngest writes a page before it asks for the next.  An order edited   *)
(* in between is written in its old version.                               *)
WritePage ==
  /\ walk.pc = "write"
  /\ stored' = stored \cup walk.batch
  /\ walk' = [walk EXCEPT !.pc = "pages", !.batch = {}]
  /\ UNCHANGED <<inclusive, now, stamp, checkpoint, doubt>>

(* Mutant: the count is not checked. *)
CountUnchecked == TRUE

(* incomplete_window, unless every order page 1 counted was yielded.       *)
CountAgrees == walk.total = 0 \/ Cardinality(walk.seen) = walk.total

WindowRead == walk.pc = "pages" /\ walk.page >= walk.pages /\ CountAgrees

(* The history: closing a window shows what it asked for to have been      *)
(* read, if its count proves anything; the rest of it, save what was       *)
(* behind the walk before, is passed in doubt.                             *)
Close ==
  LET w == Head(walk.pending)
      shown == IF walk.loose THEN {} ELSE Asked(w) IN
  doubt' = (doubt \cup {s \in Span(w) : ~Behind(s, walk.reached)}) \ shown

CloseWindow ==
  /\ WindowRead /\ Len(walk.pending) > 1
  /\ Close
  /\ TurnTo(Tail(walk.pending), walk.budget, walk.until, walk.reached)
  /\ UNCHANGED <<inclusive, now, stamp, stored, checkpoint>>

(* The last window of a chunk: onChunk.  The next chunk starts where this  *)
(* one ended, on the same second.                                          *)
CloseChunk ==
  /\ WindowRead /\ Len(walk.pending) = 1
  /\ Head(walk.pending).before < walk.until
  /\ Close
  /\ BeginChunk(Head(walk.pending).before, walk.until)
  /\ UNCHANGED <<inclusive, now, stamp, stored, checkpoint>>

(* The last window of the last chunk: the run is complete. *)
CompleteRun ==
  /\ WindowRead /\ Len(walk.pending) = 1
  /\ Head(walk.pending).before = walk.until
  /\ Close
  /\ checkpoint' = walk.until
  /\ walk' = Rest
  /\ UNCHANGED <<inclusive, now, stamp, stored>>

RunStep ==
  \/ FailRun \/ CompleteRun \/ CloseChunk \/ CloseWindow
  \/ Split \/ WritePage \/ FirstPage \/ NextPage

Next ==
  \/ Tick
  \/ \E o \in Order : Modify(o) \/ Trash(o)
  \/ StartRun \/ RunStep \/ Kill

Spec == Init /\ [][Next]_vars

(* A run that is under way takes its next step; nothing makes one start.   *)
FairSpec == Spec /\ WF_vars(RunStep)

-----------------------------------------------------------------------------
(* Properties. *)

(* "A permanent hole": an order that no later run asks for is in the       *)
(* envelope in its present version, whatever is edited under the walk and  *)
(* whichever way the store reads its bounds, unless its second is in       *)
(* doubt.  A second comes into doubt only when an order is stamped within  *)
(* a window after page 1 counted it, or behind the walk; when the window   *)
(* has several pages and no X-WP-Total; or when it is an end of a window   *)
(* that the store's filters leave out.  A later window that asks for it,   *)
(* and whose count holds, takes it out of doubt again.                     *)
NothingBehindTheMark ==
  \A o \in Order :
    /\ stamp[o] # Nowhen
    /\ Behind(stamp[o], checkpoint) \/ (walk.pc # "idle" /\ Behind(stamp[o], walk.reached))
    => o \in stored \/ stamp[o] \in doubt

(* Every run comes to an end: neither the halving of windows nor the page  *)
(* loop goes on for ever, however the store is edited meanwhile.           *)
RunEnds == walk.pc # "idle" ~> walk.pc = "idle"
=============================================================================
