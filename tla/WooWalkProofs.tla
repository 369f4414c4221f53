---------------------------- MODULE WooWalkProofs ----------------------------
(***************************************************************************)
(* Theorems about WooWalk, for any finite number of orders, any size of    *)
(* page, window and chunk, any budgets, any difference of the two clocks   *)
(* and either reading of the store's bounds.                               *)
(*                                                                         *)
(* A window is read by OFFSET while its orders are edited, so a row can    *)
(* slip between two pages; what rules that out is the count of page 1.  As *)
(* long as no order enters the window, what it selects, and what it has    *)
(* yielded, stays within the set that was counted.  When as many ids were  *)
(* yielded as were counted, they are that set, and every order still in    *)
(* the window is among them.  Where that argument fails, the window is     *)
(* loose, and its seconds are in doubt from the step that closes it.       *)
(***************************************************************************)
EXTENDS WooWalk, FiniteSetTheorems, SequenceTheorems, WellFoundedInduction, TLAPS

-----------------------------------------------------------------------------
(* The invariant. *)

Known(o) == o \in stored \/ stamp[o] \in doubt

(* Everything no window that begins with t asks for is known. *)
KnownBehind(t) ==
  \A o \in Order : stamp[o] # Nowhen /\ Behind(stamp[o], t) => Known(o)

KnownBefore(t) ==
  \A o \in Order : stamp[o] # Nowhen /\ stamp[o] < t => Known(o)

(* What lies behind the watermark, and behind the window being read.       *)
Marks ==
  /\ KnownBehind(checkpoint)
  /\ walk.pc # "idle" => /\ KnownBehind(walk.reached)
                         /\ KnownBefore(Head(walk.pending).after)

(* What the window has yielded is written or in hand; what it has yielded  *)
(* and what it selects now were counted together by page 1.  No count      *)
(* means an empty window, or one page that held it all.                    *)
Counted ==
  walk.pc \in {"pages", "write"} /\ ~walk.loose =>
    LET w == Head(walk.pending) IN
    /\ Selected(w) \cap walk.seen \subseteq stored \cup walk.batch
    /\ walk.total = 0 => Selected(w) \subseteq walk.seen
    /\ walk.total # 0 =>
         \E S \in SUBSET Order : /\ Cardinality(S) = walk.total
                                /\ walk.seen \cup Selected(w) \subseteq S

(* A page in hand is being written. *)
InHand == walk.pc # "write" => walk.batch = {}

Safe == Marks /\ Counted /\ InHand

-----------------------------------------------------------------------------
(* The records a run keeps. *)

LEMMA Times ==
  /\ MaxTime \in Nat /\ Lag \in Int /\ ChunkSpan \in Nat \ {0}
  /\ PageSize \in Nat \ {0} /\ MaxWindows \in Nat \ {0} /\ IsFiniteSet(Order)
  BY WalkAssumption

LEMMA WalkFields ==
  ASSUME NEW x \in WalkState
  PROVE  /\ x.pc \in {"idle", "window", "pages", "write"}
         /\ x.until \in Nat /\ x.reached \in Nat
         /\ x.pending \in Seq(Window)
         /\ x.budget \in 0 .. MaxWindows
         /\ x.page \in Nat /\ x.pages \in Nat /\ x.total \in Nat
         /\ x.seen \in SUBSET Order /\ x.batch \in SUBSET Order
         /\ x.loose \in BOOLEAN
  BY DEF WalkState, Second

LEMMA WindowFields ==
  ASSUME NEW w \in Window
  PROVE  w.after \in Nat /\ w.before \in Nat
  BY DEF Window, Second

LEMMA RestIsState ==
  /\ Rest \in WalkState
  /\ Rest.pc = "idle" /\ Rest.pending = <<>> /\ Rest.batch = {}
  BY Times, EmptySeq DEF Rest, WalkState, Second

(* The windows that are left: the one being read, and the others. *)
LEMMA Windows ==
  ASSUME NEW s \in Seq(Window), s # <<>>
  PROVE  /\ Len(s) \in Nat \ {0} /\ DOMAIN s = 1 .. Len(s)
         /\ Head(s) = s[1] /\ Head(s) \in Window
         /\ \A k \in 1 .. Len(s) : s[k] \in Window
         /\ Tail(s) \in Seq(Window) /\ Len(Tail(s)) = Len(s) - 1
         /\ \A k \in 1 .. Len(s) - 1 : Tail(s)[k] = s[k + 1]
  <1>1. Len(s) \in Nat /\ DOMAIN s = 1 .. Len(s) /\ Len(s) # 0
    BY EmptySeq
  <1>2. Tail(s) \in Seq(Window) /\ Len(Tail(s)) = Len(s) - 1
    BY HeadTailProperties
  <1>3. \A k \in 1 .. Len(s) - 1 : Tail(s)[k] = s[k + 1]
    BY <1>1, <1>2, HeadTailProperties
  <1>4. Head(s) = s[1] /\ \A k \in 1 .. Len(s) : s[k] \in Window
    BY <1>1
  <1> QED
    BY <1>1, <1>2, <1>3, <1>4

(* Each window but the first begins where the one before it ends. *)
Tiled(s) == \A k \in 1 .. Len(s) - 1 : s[k + 1].after = s[k].before + 1

LEMMA TailTiled ==
  ASSUME NEW s \in Seq(Window), Len(s) > 1, Tiled(s)
  PROVE  /\ Tail(s) \in Seq(Window) /\ Tail(s) # <<>> /\ Tiled(Tail(s))
         /\ Head(Tail(s)).after = Head(s).before + 1
         /\ \A k \in DOMAIN Tail(s) : k + 1 \in DOMAIN s /\ Tail(s)[k] = s[k + 1]
  <1>1. s # <<>>
    BY EmptySeq
  <1>2. /\ Len(s) \in Nat /\ DOMAIN s = 1 .. Len(s)
        /\ Tail(s) \in Seq(Window) /\ Len(Tail(s)) = Len(s) - 1
        /\ \A k \in 1 .. Len(s) - 1 : Tail(s)[k] = s[k + 1]
        /\ Head(s) = s[1]
    BY <1>1, Windows
  <1>3. Tail(s) # <<>>
    <2>1. Len(Tail(s)) # 0
      BY <1>2
    <2> QED
      BY <2>1, EmptySeq
  <1>4. DOMAIN Tail(s) = 1 .. Len(s) - 1 /\ Head(Tail(s)) = Tail(s)[1]
    BY <1>2, <1>3, Windows
  <1>5. Tiled(Tail(s))
    BY <1>2 DEF Tiled
  <1>6. Head(Tail(s)).after = Head(s).before + 1
    BY <1>2, <1>4 DEF Tiled
  <1> QED
    BY <1>2, <1>3, <1>4, <1>5, <1>6

(* The halves of a window are the window, without a second left out. *)
LEMMA HalvesMeet ==
  ASSUME NEW w \in Window, Divisible(w)
  PROVE  \E mid \in Nat :
           /\ w.after <= mid /\ mid < w.before
           /\ [after |-> w.after, before |-> mid] \in Window
           /\ [after |-> mid + 1, before |-> w.before] \in Window
           /\ Halves(w) = << [after |-> w.after, before |-> mid],
                             [after |-> mid + 1, before |-> w.before] >>
  <1> DEFINE mid == w.after + (w.before - w.after) \div 2
  <1>1. /\ w.after \in Nat /\ w.before \in Nat /\ w.before > w.after
    BY WindowFields DEF Divisible
  <1>2. mid \in Nat /\ w.after <= mid /\ mid < w.before
    BY <1>1
  <1>3. Halves(w) = << [after |-> w.after, before |-> mid],
                       [after |-> mid + 1, before |-> w.before] >>
    BY DEF Halves
  <1> HIDE DEF mid
  <1>4. /\ [after |-> w.after, before |-> mid] \in Window
        /\ [after |-> mid + 1, before |-> w.before] \in Window
    BY <1>1, <1>2 DEF Window, Second
  <1> QED
    BY <1>2, <1>3, <1>4

(* A window replaced by two that meet within it. *)
LEMMA SplitTiled ==
  ASSUME NEW s \in Seq(Window), s # <<>>, Tiled(s),
         NEW a \in Window, NEW b \in Window,
         b.after = a.before + 1, b.before = Head(s).before
  PROVE  LET t == << a, b >> \o Tail(s) IN
         /\ t \in Seq(Window) /\ t # <<>> /\ Tiled(t) /\ Head(t) = a
         /\ \A k \in DOMAIN t : \/ k = 1 /\ t[k] = a
                                \/ k = 2 /\ t[k] = b
                                \/ k - 1 \in DOMAIN s /\ t[k] = s[k - 1]
  <1> DEFINE t == << a, b >> \o Tail(s)
  <1>1. /\ Len(s) \in Nat \ {0} /\ DOMAIN s = 1 .. Len(s) /\ Head(s) = s[1]
        /\ Tail(s) \in Seq(Window) /\ Len(Tail(s)) = Len(s) - 1
        /\ \A k \in 1 .. Len(s) - 1 : Tail(s)[k] = s[k + 1]
    BY Windows
  <1>2. /\ <<a, b>> \in Seq(Window) /\ Len(<<a, b>>) = 2
        /\ <<a, b>>[1] = a /\ <<a, b>>[2] = b
    OBVIOUS
  <1>3. /\ t \in Seq(Window) /\ Len(t) = Len(s) + 1
        /\ \A k \in 1 .. Len(s) + 1 :
             t[k] = IF k <= 2 THEN <<a, b>>[k] ELSE Tail(s)[k - 2]
    BY <1>1, <1>2, ConcatProperties
  <1> HIDE DEF t
  <1>4. t[1] = a /\ t[2] = b
    BY <1>1, <1>2, <1>3
  <1>5. \A k \in 3 .. Len(s) + 1 : t[k] = s[k - 1]
    BY <1>1, <1>3
  <1>6. t # <<>>
    BY <1>1, <1>3, EmptySeq
  <1>7. Tiled(t)
    <2> SUFFICES ASSUME NEW k \in 1 .. Len(s)
                 PROVE  t[k + 1].after = t[k].before + 1
      BY <1>1, <1>3 DEF Tiled
    <2>1. CASE k = 1
      BY <1>4, <2>1
    <2>2. CASE k = 2
      <3>1. t[3] = s[2] /\ s[2].after = s[1].before + 1
        BY <1>1, <1>5, <2>2 DEF Tiled
      <3> QED
        BY <1>1, <1>4, <2>2, <3>1
    <2>3. CASE k > 2
      <3>1. t[k + 1] = s[k] /\ t[k] = s[k - 1]
        BY <1>1, <1>5, <2>3
      <3>2. k - 1 \in 1 .. Len(s) - 1 /\ (k - 1) + 1 = k
        BY <1>1, <2>3
      <3>3. s[(k - 1) + 1].after = s[k - 1].before + 1
        BY <3>2 DEF Tiled
      <3> QED
        BY <3>1, <3>2, <3>3
    <2> QED
      BY <1>1, <2>1, <2>2, <2>3
  <1>8. Head(t) = t[1]
    BY <1>3
  <1>9. DOMAIN t = 1 .. Len(s) + 1
    BY <1>1, <1>3
  <1>10. /\ t \in Seq(Window) /\ t # <<>> /\ Tiled(t) /\ Head(t) = a
         /\ \A k \in DOMAIN t : \/ k = 1 /\ t[k] = a
                                \/ k = 2 /\ t[k] = b
                                \/ k - 1 \in DOMAIN s /\ t[k] = s[k - 1]
    BY <1>1, <1>3, <1>4, <1>5, <1>6, <1>7, <1>8, <1>9
  <1> QED
    BY <1>10 DEF t

-----------------------------------------------------------------------------
(* The steps of a run, as what they do to its record. *)

LEMMA TypedWalk ==
  ASSUME TypeOK
  PROVE  /\ walk \in WalkState /\ Tiled(walk.pending)
         /\ walk.pc # "idle" => /\ walk.pending # <<>>
                                /\ Head(walk.pending) \in Window
  <1>1. /\ walk \in WalkState /\ Tiled(walk.pending)
        /\ walk.pc # "idle" => walk.pending # <<>>
    BY DEF TypeOK, Tiled
  <1> QED
    BY <1>1, WalkFields, Windows

LEMMA RetypeWalk ==
  ASSUME TypeOK, UNCHANGED <<inclusive, now, stamp, checkpoint>>, doubt' \subseteq Second,
         walk' \in WalkState, Tiled(walk'.pending),
         walk'.pc # "idle" => walk'.pending # <<>>,
         stored' \subseteq Order
  PROVE  TypeOK'
  BY DEF TypeOK, Tiled

(* A request selects finitely many orders. *)
LEMMA SelectedFinite ==
  ASSUME NEW w
  PROVE  /\ Selected(w) \subseteq Order
         /\ IsFiniteSet(Selected(w)) /\ Cardinality(Selected(w)) \in Nat
  <1>1. Selected(w) \subseteq Order
    BY DEF Selected
  <1>2. IsFiniteSet(Selected(w))
    BY <1>1, Times, FS_Subset
  <1> QED
    BY <1>1, <1>2, FS_CardinalityType

LEMMA PagesForIsNat ==
  ASSUME NEW n \in Nat
  PROVE  PagesFor(n) \in Nat
  BY Times DEF PagesFor

(* Something is on page 1, or the window is one page all the same. *)
LEMMA PagesForIsPositive ==
  ASSUME NEW n \in Nat
  PROVE  PagesFor(n) \in Nat /\ PagesFor(n) >= 1
  <1>1. CASE n = 0
    BY <1>1 DEF PagesFor
  <1>2. CASE n # 0
    <2>1. n + PageSize - 1 >= PageSize /\ PageSize \in Nat \ {0}
      BY <1>2, Times
    <2>2. (n + PageSize - 1) \div PageSize >= 1
      BY <2>1
    <2> QED
      BY <1>2, <2>2, PagesForIsNat DEF PagesFor
  <1> QED
    BY <1>1, <1>2

(* What a page 1 of the whole collection holds. *)
LEMMA OnePageHoldsAll ==
  ASSUME NEW w, NEW page \in PageOf(w, 1), Cardinality(Selected(w)) < PageSize
  PROVE  page = Selected(w)
  <1>1. PICK skipped \in SUBSET (Selected(w) \ page) :
          LET beyond == Selected(w) \ (page \cup skipped) IN
          /\ Cardinality(skipped) = AtMost((1 - 1) * PageSize, Cardinality(Selected(w)))
          /\ Cardinality(page) = AtMost(PageSize, Cardinality(page \cup beyond))
    BY DEF PageOf
  <1>2. /\ IsFiniteSet(Selected(w)) /\ Cardinality(Selected(w)) \in Nat
        /\ page \in SUBSET Selected(w)
    BY SelectedFinite DEF PageOf
  <1>3. IsFiniteSet(skipped) /\ Cardinality(skipped) = 0
    <2>1. IsFiniteSet(skipped)
      BY <1>2, FS_Subset
    <2>2. (1 - 1) * PageSize = 0
      BY Times
    <2> QED
      BY <1>1, <1>2, <2>1, <2>2 DEF AtMost
  <1>4. skipped = {}
    BY <1>3, FS_EmptySet
  <1>5. page \cup (Selected(w) \ (page \cup skipped)) = Selected(w)
    BY <1>2, <1>4
  <1>6. Cardinality(page) = Cardinality(Selected(w))
    BY <1>1, <1>2, <1>5, Times DEF AtMost
  <1> QED
    BY <1>2, <1>6, FS_Subset

LEMMA TurnToDoes ==
  ASSUME NEW windows \in Seq(Window), windows # <<>>, Tiled(windows),
         NEW budget \in 0 .. MaxWindows, NEW until \in Nat, NEW reached \in Nat,
         TurnTo(windows, budget, until, reached)
  PROVE  /\ walk' \in WalkState
         /\ walk'.pc = "window" /\ walk'.until = until /\ walk'.reached = reached
         /\ walk'.batch = {} /\ walk'.budget = budget
         /\ walk'.pending = windows /\ walk'.pending # <<>> /\ Tiled(walk'.pending)
  <1>1. walk' = [Rest EXCEPT !.pc = "window", !.until = until, !.reached = reached,
                             !.pending = windows, !.budget = budget]
    BY DEF TurnTo
  <1>2. /\ walk'.pc = "window" /\ walk'.until = until /\ walk'.reached = reached
        /\ walk'.pending = windows /\ walk'.batch = {} /\ walk'.budget = budget
    BY <1>1 DEF Rest
  <1>3. walk' \in WalkState
    BY <1>1 DEF Rest, WalkState, Second
  <1> QED
    BY <1>2, <1>3

LEMMA BeginChunkDoes ==
  ASSUME NEW from \in Nat, NEW until \in Nat, from < until, BeginChunk(from, until)
  PROVE  /\ walk' \in WalkState
         /\ walk'.pc = "window" /\ walk'.until = until /\ walk'.reached = from
         /\ walk'.batch = {}
         /\ walk'.pending = << Chunk(from, until) >>
         /\ walk'.pending # <<>> /\ Tiled(walk'.pending)
         /\ Head(walk'.pending).after = from
  <1> DEFINE c == Chunk(from, until)
  <1>1. c \in Window /\ c.after = from
    BY Times DEF Chunk, AtMost, Window, Second
  <1>2. TurnTo(<<c>>, MaxWindows, until, from)
    BY DEF BeginChunk
  <1> HIDE DEF c
  <1>3. /\ <<c>> \in Seq(Window) /\ Len(<<c>>) = 1
        /\ Head(<<c>>) = c /\ <<c>> # <<>>
    BY <1>1
  <1>4. Tiled(<<c>>)
    BY <1>3 DEF Tiled
  <1>5. MaxWindows \in 0 .. MaxWindows
    BY Times
  <1>6. /\ walk' \in WalkState
        /\ walk'.pc = "window" /\ walk'.until = until /\ walk'.reached = from
        /\ walk'.batch = {} /\ walk'.pending = <<c>>
    BY <1>2, <1>3, <1>4, <1>5, TurnToDoes
  <1> QED
    BY <1>1, <1>3, <1>4, <1>6 DEF c

LEMMA SplitDoes ==
  ASSUME TypeOK, Split
  PROVE  /\ walk' \in WalkState
         /\ walk'.pc = "window" /\ walk'.until = walk.until
         /\ walk'.reached = walk.reached /\ walk'.batch = {}
         /\ walk'.budget = walk.budget - 1
         /\ walk'.pending # <<>> /\ Tiled(walk'.pending)
         /\ Head(walk'.pending).after = Head(walk.pending).after
         /\ \E a \in Window, b \in Window :
              /\ b.before = Head(walk.pending).before
              /\ walk'.pending = << a, b >> \o Tail(walk.pending)
  <1> DEFINE w == Head(walk.pending)
             t == Halves(w) \o Tail(walk.pending)
  <1>1. /\ walk.pc = "window" /\ walk.budget > 0 /\ Divisible(w)
        /\ TurnTo(t, walk.budget - 1, walk.until, walk.reached)
    BY DEF Split
  <1>2. /\ walk \in WalkState /\ walk.pending \in Seq(Window) /\ walk.pending # <<>>
        /\ Tiled(walk.pending) /\ w \in Window /\ walk.budget \in 0 .. MaxWindows
        /\ walk.until \in Nat /\ walk.reached \in Nat
    BY <1>1, TypedWalk, WalkFields
  <1>3. PICK mid \in Nat :
          /\ w.after <= mid /\ mid < w.before
          /\ [after |-> w.after, before |-> mid] \in Window
          /\ [after |-> mid + 1, before |-> w.before] \in Window
          /\ Halves(w) = << [after |-> w.after, before |-> mid],
                            [after |-> mid + 1, before |-> w.before] >>
    BY <1>1, <1>2, HalvesMeet
  <1> DEFINE a == [after |-> w.after, before |-> mid]
             b == [after |-> mid + 1, before |-> w.before]
  <1>4. /\ a \in Window /\ a.after = w.after /\ a.before = mid
        /\ b \in Window /\ b.after = mid + 1 /\ b.before = w.before
        /\ t = << a, b >> \o Tail(walk.pending)
    BY <1>3
  <1> HIDE DEF a, b, t
  <1>5. b.after = a.before + 1 /\ b.before = Head(walk.pending).before
    BY <1>4
  <1>6. t \in Seq(Window) /\ t # <<>> /\ Tiled(t) /\ Head(t) = a
    BY <1>2, <1>4, <1>5, SplitTiled
  <1>7. walk.budget - 1 \in 0 .. MaxWindows
    BY <1>1, <1>2, Times
  <1>8. /\ walk' \in WalkState
        /\ walk'.pc = "window" /\ walk'.until = walk.until /\ walk'.reached = walk.reached
        /\ walk'.batch = {} /\ walk'.budget = walk.budget - 1 /\ walk'.pending = t
    BY <1>1, <1>2, <1>6, <1>7, TurnToDoes
  <1> QED
    BY <1>4, <1>5, <1>6, <1>8

(* A page that is received belongs to the window being read.               *)
LEMMA ReceiveDoes ==
  ASSUME NEW state \in WalkState, NEW page \in SUBSET Order, NEW n \in Nat,
         Receive(page, n, state)
  PROVE  /\ walk' \in WalkState
         /\ walk'.pc \in {"pages", "write"} /\ (walk'.pc = "pages" => page = {})
         /\ walk'.until = state.until /\ walk'.reached = state.reached
         /\ walk'.pending = state.pending /\ walk'.budget = state.budget
         /\ walk'.total = state.total /\ walk'.loose = state.loose
         /\ walk'.pages = state.pages /\ walk'.page \in {state.pages, n}
         /\ walk'.seen = state.seen \cup page /\ walk'.batch = page \ state.seen
  <1> DEFINE pc == IF page = {} THEN "pages" ELSE "write"
             at == IF page = {} THEN state.pages ELSE n
  <1>1. walk' = [state EXCEPT !.pc = pc, !.page = at,
                              !.seen = state.seen \cup page,
                              !.batch = page \ state.seen]
    BY DEF Receive
  <1>2. /\ pc \in {"pages", "write"} /\ (pc = "pages" => page = {})
        /\ at \in Nat /\ at \in {state.pages, n}
    BY WalkFields
  <1> HIDE DEF pc, at
  <1>3. state.seen \cup page \in SUBSET Order /\ page \ state.seen \in SUBSET Order
    BY WalkFields
  <1>4. walk' \in WalkState
    BY <1>1, <1>2, <1>3 DEF WalkState
  <1> QED
    BY <1>1, <1>2, <1>4 DEF WalkState

(* Page 1, with its headers or without: unless the window is loose, what   *)
(* it counts is what the window selects.                                   *)
LEMMA FirstPageDoes ==
  ASSUME TypeOK, FirstPage
  PROVE  LET w == Head(walk.pending) IN
         /\ walk.pc = "window"
         /\ walk' \in WalkState /\ walk'.pc \in {"pages", "write"}
         /\ walk'.until = walk.until /\ walk'.reached = walk.reached
         /\ walk'.pending = walk.pending /\ walk'.budget = walk.budget - 1
         /\ walk'.pages \in Nat \ {0} /\ walk'.page \in {walk'.pages, 1}
         /\ walk'.seen \subseteq Selected(w) /\ walk'.batch = walk'.seen
         /\ walk'.pc = "pages" => walk'.batch = {}
         /\ ~walk'.loose =>
              /\ walk'.total # 0 => walk'.total = Cardinality(Selected(w))
              /\ walk'.total = 0 => Selected(w) \subseteq walk'.seen
  <1> DEFINE w == Head(walk.pending)
             n == Cardinality(Selected(w))
             counted(total, pages) ==
               [walk EXCEPT !.budget = @ - 1, !.seen = {}, !.total = total,
                            !.pages = pages, !.loose = total = 0 /\ pages > 1]
  <1>1. walk.pc = "window" /\ walk.budget > 0
    BY DEF FirstPage
  <1>2. walk \in WalkState /\ walk.budget \in 0 .. MaxWindows
    BY TypedWalk, WalkFields
  <1>3. walk.budget - 1 \in 0 .. MaxWindows
    BY <1>1, <1>2, Times
  <1>4. /\ Selected(w) \in SUBSET Order /\ n \in Nat
        /\ PagesFor(n) \in Nat /\ PagesFor(n) >= 1
    BY SelectedFinite, PagesForIsPositive
  <1>5. ASSUME NEW total \in Nat, NEW pages \in Nat
        PROVE  /\ counted(total, pages) \in WalkState
               /\ counted(total, pages).until = walk.until
               /\ counted(total, pages).reached = walk.reached
               /\ counted(total, pages).pending = walk.pending
               /\ counted(total, pages).budget = walk.budget - 1
               /\ counted(total, pages).pages = pages
               /\ counted(total, pages).seen = {} /\ counted(total, pages).total = total
               /\ counted(total, pages).loose = (total = 0 /\ pages > 1)
    BY <1>2, <1>3 DEF WalkState
  <1>6. PICK total \in {0, n}, pages \in {1, PagesFor(n)} :
          /\ pages = 1 /\ total = 0 => n < PageSize
          /\ \E page \in PageOf(w, 1) : Receive(page, 1, counted(total, pages))
    BY DEF FirstPage
  <1>7. PICK page \in PageOf(w, 1) : Receive(page, 1, counted(total, pages))
    BY <1>6
  <1>8. /\ total \in Nat /\ pages \in Nat \ {0} /\ (pages > 1 \/ pages = 1)
        /\ page \in SUBSET Selected(w)
    BY <1>4 DEF PageOf
  <1>9. total = 0 /\ ~(pages > 1) => page = Selected(w)
    BY <1>6, <1>8, OnePageHoldsAll
  <1> DEFINE state == counted(total, pages)
  <1>10. /\ state \in WalkState
         /\ state.until = walk.until /\ state.reached = walk.reached
         /\ state.pending = walk.pending /\ state.seen = {} /\ state.total = total
         /\ state.budget = walk.budget - 1 /\ state.pages = pages
         /\ state.loose = (total = 0 /\ pages > 1)
         /\ Receive(page, 1, state)
    <2> HIDE DEF counted
    <2> QED
      BY <1>5, <1>7, <1>8
  <1> HIDE DEF state
  <1>11. page \in SUBSET Order
    BY <1>4, <1>8
  <1>12. /\ walk' \in WalkState
         /\ walk'.pc \in {"pages", "write"} /\ (walk'.pc = "pages" => page = {})
         /\ walk'.until = walk.until /\ walk'.reached = walk.reached
         /\ walk'.pending = walk.pending /\ walk'.total = total
         /\ walk'.budget = walk.budget - 1 /\ walk'.loose = (total = 0 /\ pages > 1)
         /\ walk'.pages = pages /\ walk'.page \in {pages, 1}
         /\ walk'.seen = page /\ walk'.batch = page
    <2>1. /\ walk' \in WalkState
          /\ walk'.pc \in {"pages", "write"} /\ (walk'.pc = "pages" => page = {})
          /\ walk'.until = state.until /\ walk'.reached = state.reached
          /\ walk'.pending = state.pending /\ walk'.budget = state.budget
          /\ walk'.total = state.total /\ walk'.loose = state.loose
          /\ walk'.pages = state.pages /\ walk'.page \in {state.pages, 1}
          /\ walk'.seen = state.seen \cup page /\ walk'.batch = page \ state.seen
      BY <1>10, <1>11, ReceiveDoes
    <2>2. state.seen \cup page = page /\ page \ state.seen = page
      BY <1>10
    <2> QED
      BY <1>10, <2>1, <2>2, Zenon
  <1> QED
    BY <1>1, <1>6, <1>8, <1>9, <1>12

(* A further page holds orders the window selects at that moment.          *)
LEMMA NextPageDoes ==
  ASSUME TypeOK, NextPage
  PROVE  /\ walk.pc = "pages" /\ walk.page < walk.pages
         /\ walk' \in WalkState /\ walk'.pc \in {"pages", "write"}
         /\ walk'.until = walk.until /\ walk'.reached = walk.reached
         /\ walk'.pending = walk.pending /\ walk'.budget = walk.budget
         /\ walk'.total = walk.total /\ walk'.loose = walk.loose
         /\ walk'.pages = walk.pages /\ walk'.page \in {walk.pages, walk.page + 1}
         /\ \E page \in SUBSET Selected(Head(walk.pending)) :
              /\ walk'.seen = walk.seen \cup page /\ walk'.batch = page \ walk.seen
              /\ walk'.pc = "pages" => page = {}
  <1>1. /\ walk.pc = "pages" /\ walk.page < walk.pages
        /\ \E page \in PageOf(Head(walk.pending), walk.page + 1) :
             Receive(page, walk.page + 1, walk)
    BY DEF NextPage
  <1>2. PICK page \in PageOf(Head(walk.pending), walk.page + 1) :
          Receive(page, walk.page + 1, walk)
    BY <1>1
  <1>3. page \in SUBSET Selected(Head(walk.pending)) /\ page \in SUBSET Order
    BY SelectedFinite DEF PageOf
  <1>4. walk \in WalkState /\ walk.page + 1 \in Nat
    BY TypedWalk, WalkFields
  <1>5. /\ walk' \in WalkState
        /\ walk'.pc \in {"pages", "write"} /\ (walk'.pc = "pages" => page = {})
        /\ walk'.until = walk.until /\ walk'.reached = walk.reached
        /\ walk'.pending = walk.pending /\ walk'.budget = walk.budget
        /\ walk'.total = walk.total /\ walk'.loose = walk.loose
        /\ walk'.pages = walk.pages /\ walk'.page \in {walk.pages, walk.page + 1}
        /\ walk'.seen = walk.seen \cup page /\ walk'.batch = page \ walk.seen
    BY <1>2, <1>3, <1>4, ReceiveDoes
  <1> QED
    BY <1>1, <1>3, <1>5

LEMMA WritePageDoes ==
  ASSUME TypeOK, WritePage
  PROVE  /\ walk.pc = "write" /\ stored' = stored \cup walk.batch
         /\ walk' \in WalkState /\ walk'.pc = "pages" /\ walk'.batch = {}
         /\ walk'.until = walk.until /\ walk'.reached = walk.reached
         /\ walk'.pending = walk.pending /\ walk'.budget = walk.budget
         /\ walk'.total = walk.total /\ walk'.loose = walk.loose
         /\ walk'.pages = walk.pages /\ walk'.page = walk.page
         /\ walk'.seen = walk.seen
  <1>1. /\ walk.pc = "write" /\ stored' = stored \cup walk.batch
        /\ walk' = [walk EXCEPT !.pc = "pages", !.batch = {}]
    BY DEF WritePage
  <1>2. walk \in WalkState
    BY TypedWalk
  <1> QED
    BY <1>1, <1>2 DEF WalkState

LEMMA CloseWindowDoes ==
  ASSUME TypeOK, CloseWindow
  PROVE  /\ WindowRead /\ walk.pc = "pages" /\ Len(walk.pending) > 1
         /\ walk' \in WalkState /\ walk'.pc = "window" /\ walk'.batch = {}
         /\ walk'.until = walk.until /\ walk'.reached = walk.reached
         /\ walk'.budget = walk.budget /\ walk'.pending = Tail(walk.pending)
         /\ walk'.pending # <<>> /\ Tiled(walk'.pending)
         /\ Head(walk'.pending).after = Head(walk.pending).before + 1
  <1>1. /\ WindowRead /\ walk.pc = "pages" /\ Len(walk.pending) > 1
        /\ TurnTo(Tail(walk.pending), walk.budget, walk.until, walk.reached)
    BY DEF CloseWindow, WindowRead
  <1>2. /\ walk.pending \in Seq(Window) /\ Tiled(walk.pending)
        /\ walk.budget \in 0 .. MaxWindows /\ walk.until \in Nat /\ walk.reached \in Nat
    BY TypedWalk, WalkFields
  <1>3. /\ Tail(walk.pending) \in Seq(Window) /\ Tail(walk.pending) # <<>>
        /\ Tiled(Tail(walk.pending))
        /\ Head(Tail(walk.pending)).after = Head(walk.pending).before + 1
    BY <1>1, <1>2, TailTiled
  <1> QED
    BY <1>1, <1>2, <1>3, TurnToDoes

(* What closing a window leaves in doubt are seconds of its own.           *)
LEMMA CloseDoes ==
  ASSUME TypeOK, walk.pc # "idle", Close
  PROVE  doubt' \subseteq Nat
  <1>1. Head(walk.pending).after \in Nat /\ Head(walk.pending).before \in Nat
    BY TypedWalk, WindowFields
  <1>2. Span(Head(walk.pending)) \subseteq Nat
    BY <1>1 DEF Span
  <1>3. doubt \subseteq Nat
    BY DEF TypeOK, Second
  <1> QED
    BY <1>2, <1>3 DEF Close

-----------------------------------------------------------------------------
(* Types. *)

(* An order is edited, or trashed. *)
LEMMA ModifyTypes ==
  ASSUME TypeOK, NEW o \in Order, Modify(o) \/ Trash(o)
  PROVE  /\ TypeOK' /\ walk' \in WalkState
         /\ walk'.pc = walk.pc /\ walk'.until = walk.until
         /\ walk'.reached = walk.reached /\ walk'.pending = walk.pending
         /\ walk'.budget = walk.budget /\ walk'.page = walk.page
         /\ walk'.pages = walk.pages
         /\ walk'.total = walk.total /\ walk'.seen = walk.seen
         /\ walk'.batch = walk.batch \ {o}
         /\ stored' = stored \ {o} /\ doubt \subseteq doubt'
         /\ Modify(o) => walk'.loose = (walk.loose \/ BeingRead(now))
         /\ Trash(o) => walk'.loose = walk.loose /\ doubt' = doubt
  <1>1. walk \in WalkState /\ walk.batch \ {o} \in SUBSET Order /\ Tiled(walk.pending)
    BY TypedWalk, WalkFields
  <1>2. now \in Nat /\ doubt \subseteq Nat
    BY Times DEF TypeOK, Second
  <1>3. CASE Modify(o)
    <2>1. /\ stamp' = [stamp EXCEPT ![o] = now] /\ stored' = stored \ {o}
          /\ walk' = [walk EXCEPT !.batch = @ \ {o}, !.loose = @ \/ BeingRead(now)]
          /\ doubt \subseteq doubt' /\ doubt' \subseteq doubt \cup {now}
          /\ UNCHANGED <<inclusive, now, checkpoint>>
      BY <1>3 DEF Modify
    <2>2. (walk.loose \/ BeingRead(now)) \in BOOLEAN
      BY DEF BeingRead
    <2>3. /\ walk' \in WalkState
          /\ walk'.pc = walk.pc /\ walk'.until = walk.until
          /\ walk'.reached = walk.reached /\ walk'.pending = walk.pending
          /\ walk'.budget = walk.budget /\ walk'.page = walk.page
          /\ walk'.pages = walk.pages
          /\ walk'.total = walk.total /\ walk'.seen = walk.seen
          /\ walk'.batch = walk.batch \ {o}
          /\ walk'.loose = (walk.loose \/ BeingRead(now))
      BY <1>1, <2>1, <2>2 DEF WalkState
    <2>4. stamp' \in [Order -> Nat \cup {Nowhen}]
      BY <1>2, <2>1 DEF TypeOK, Second
    <2>5. TypeOK'
      BY <1>2, <2>1, <2>3, <2>4 DEF TypeOK, Second
    <2>6. Trash(o) => walk'.loose = walk.loose /\ doubt' = doubt
      <3>1. ASSUME Trash(o) PROVE FALSE
        <4>1. stamp' = [stamp EXCEPT ![o] = Nowhen]
          BY <3>1 DEF Trash
        <4>2. now # Nowhen
          BY <1>2 DEF Nowhen
        <4> QED
          BY <2>1, <4>1, <4>2 DEF TypeOK
      <3> QED
        BY <3>1
    <2> QED
      BY <2>1, <2>3, <2>5, <2>6
  <1>4. CASE Trash(o) /\ ~Modify(o)
    <2>1. /\ stamp' = [stamp EXCEPT ![o] = Nowhen] /\ stored' = stored \ {o}
          /\ walk' = [walk EXCEPT !.batch = @ \ {o}]
          /\ UNCHANGED <<inclusive, now, checkpoint, doubt>>
      BY <1>4 DEF Trash
    <2>2. /\ walk' \in WalkState
          /\ walk'.pc = walk.pc /\ walk'.until = walk.until
          /\ walk'.reached = walk.reached /\ walk'.pending = walk.pending
          /\ walk'.budget = walk.budget /\ walk'.page = walk.page
          /\ walk'.pages = walk.pages
          /\ walk'.total = walk.total /\ walk'.seen = walk.seen
          /\ walk'.batch = walk.batch \ {o} /\ walk'.loose = walk.loose
      BY <1>1, <2>1 DEF WalkState
    <2>3. stamp' \in [Order -> Nat \cup {Nowhen}]
      BY <2>1 DEF TypeOK, Second
    <2>4. TypeOK'
      BY <2>1, <2>2, <2>3 DEF TypeOK, Second
    <2> QED
      BY <1>4, <2>1, <2>2, <2>4
  <1> QED
    BY <1>3, <1>4

LEMMA TypesKept == TypeOK /\ [Next]_vars => TypeOK'
  <1> SUFFICES ASSUME TypeOK, [Next]_vars PROVE TypeOK'
    OBVIOUS
  <1> USE DEF Second
  <1>1. CASE Tick
    <2>1. now' \in 0 .. MaxTime
      BY <1>1, Times DEF Tick, TypeOK
    <2> QED
      BY <1>1, <2>1 DEF Tick, TypeOK
  <1>2. ASSUME NEW o \in Order, Modify(o) \/ Trash(o) PROVE TypeOK'
    BY <1>2, ModifyTypes
  <1>3. CASE StartRun
    <2>1. checkpoint \in Nat /\ now - Lag \in Nat /\ checkpoint < now - Lag
      BY <1>3, Times DEF StartRun, TypeOK
    <2> QED
      BY <1>3, <2>1, BeginChunkDoes, RetypeWalk DEF StartRun, TypeOK
  <1>4. CASE Kill \/ FailRun \/ CompleteRun
    <2>1. walk.until \in Nat /\ walk.reached \in Nat
      BY TypedWalk, WalkFields
    <2>2. doubt' \subseteq Nat
      BY <1>4, CloseDoes DEF Kill, FailRun, CompleteRun, WindowRead, TypeOK
    <2>3. /\ walk' = Rest /\ UNCHANGED <<inclusive, now, stamp, stored>>
          /\ checkpoint' \in Nat
      BY <1>4, <2>1 DEF Kill, FailRun, CompleteRun, TypeOK
    <2>4. walk' \in WalkState /\ walk'.pc = "idle" /\ Tiled(walk'.pending)
      BY <2>3, RestIsState, EmptySeq DEF Tiled
    <2> QED
      BY <2>2, <2>3, <2>4 DEF TypeOK, Tiled
  <1>5. CASE Split
    BY <1>5, SplitDoes, RetypeWalk DEF Split, TypeOK
  <1>6. CASE FirstPage
    <2>1. UNCHANGED <<inclusive, now, stamp, stored, checkpoint, doubt>>
      BY <1>6 DEF FirstPage
    <2> QED
      BY <1>6, <2>1, FirstPageDoes, TypedWalk, RetypeWalk DEF TypeOK
  <1>7. CASE NextPage
    <2>1. UNCHANGED <<inclusive, now, stamp, stored, checkpoint, doubt>>
      BY <1>7 DEF NextPage
    <2> QED
      BY <1>7, <2>1, NextPageDoes, TypedWalk, RetypeWalk DEF TypeOK
  <1>8. CASE WritePage
    <2>1. /\ UNCHANGED <<inclusive, now, stamp, checkpoint, doubt>>
          /\ stored' = stored \cup walk.batch
      BY <1>8 DEF WritePage
    <2>2. stored' \subseteq Order /\ doubt' \subseteq Nat
      BY <2>1, TypedWalk, WalkFields DEF TypeOK
    <2> QED
      BY <1>8, <2>1, <2>2, WritePageDoes, TypedWalk, RetypeWalk
  <1>9. CASE CloseWindow
    <2>1. /\ UNCHANGED <<inclusive, now, stamp, stored, checkpoint>>
          /\ walk.pc # "idle" /\ Close
      BY <1>9 DEF CloseWindow, WindowRead
    <2> QED
      BY <1>9, <2>1, CloseDoes, CloseWindowDoes, RetypeWalk DEF TypeOK
  <1>10. CASE CloseChunk
    <2>1. /\ Head(walk.pending).before \in Nat /\ walk.until \in Nat
          /\ walk.pc # "idle" /\ Close
          /\ UNCHANGED <<inclusive, now, stamp, stored, checkpoint>>
      BY <1>10, TypedWalk, WalkFields, WindowFields DEF CloseChunk, WindowRead
    <2> QED
      BY <1>10, <2>1, CloseDoes, BeginChunkDoes, RetypeWalk DEF CloseChunk, TypeOK
  <1>11. CASE UNCHANGED vars
    BY <1>11 DEF vars, TypeOK
  <1> QED
    BY <1>1, <1>2, <1>3, <1>4, <1>5, <1>6, <1>7, <1>8, <1>9, <1>10, <1>11
       DEF Next, RunStep

-----------------------------------------------------------------------------
(* No hole behind the mark. *)

LEMMA StateTypes ==
  ASSUME TypeOK
  PROVE  /\ now \in Nat /\ checkpoint \in Nat /\ doubt \subseteq Nat
         /\ walk.until \in Nat /\ walk.reached \in Nat
         /\ \A o \in Order : stamp[o] \in Nat \cup {Nowhen}
         /\ walk.pc # "idle" => /\ Head(walk.pending) \in Window
                                /\ Head(walk.pending).after \in Nat
                                /\ Head(walk.pending).before \in Nat
  <1>1. walk \in WalkState /\ walk.pending \in Seq(Window)
    BY TypedWalk, WalkFields
  <1>2. walk.pc # "idle" => Head(walk.pending) \in Window
    BY TypedWalk
  <1>3. /\ now \in Nat /\ checkpoint \in Nat /\ doubt \subseteq Nat
        /\ \A o \in Order : stamp[o] \in Nat \cup {Nowhen}
    BY Times DEF TypeOK, Second
  <1> QED
    BY <1>1, <1>2, <1>3, WalkFields, WindowFields

(* What a window asks for are seconds of it, and no order without a stamp. *)
LEMMA AskedSpan ==
  ASSUME NEW w \in Window
  PROVE  /\ Asked(w) \subseteq Span(w) /\ Span(w) \subseteq Nat
         /\ Nowhen \notin Span(w)
         /\ \A s \in Nat : s \in Span(w) <=> w.after <= s /\ s <= w.before
  BY WindowFields DEF Asked, Span, Nowhen

(* Where less is stored, less was. *)
LEMMA BehindBefore ==
  ASSUME TypeOK, NEW t \in Nat, KnownBehind(t)
  PROVE  KnownBefore(t)
  BY DEF KnownBehind, KnownBefore, Behind

(* An order is edited: its new stamp is ahead of the walk, or in doubt.    *)
LEMMA ModifySafe ==
  ASSUME TypeOK, Safe, NEW o \in Order, Modify(o)
  PROVE  Safe'
  <1>1. /\ stamp' = [stamp EXCEPT ![o] = now] /\ stored' = stored \ {o}
        /\ doubt' = IF Passed(now) THEN doubt \cup {now} ELSE doubt
        /\ UNCHANGED <<inclusive, now, checkpoint>>
    BY DEF Modify
  <1>2. /\ walk'.pc = walk.pc /\ walk'.until = walk.until
        /\ walk'.reached = walk.reached /\ walk'.pending = walk.pending
        /\ walk'.total = walk.total /\ walk'.seen = walk.seen
        /\ walk'.batch = walk.batch \ {o} /\ doubt \subseteq doubt'
    BY ModifyTypes
  <1>3. stamp'[o] = now /\ \A p \in Order \ {o} : stamp'[p] = stamp[p]
    BY <1>1 DEF TypeOK
  <1>4. Passed(now) => now \in doubt'
    BY <1>1
  <1>5. \A p \in Order \ {o} : Known(p) => Known(p)'
    BY <1>1, <1>2, <1>3 DEF Known
  <1>6. ASSUME NEW t, KnownBehind(t), Behind(now, t) => Passed(now)
        PROVE  \A p \in Order : stamp'[p] # Nowhen /\ Behind(stamp'[p], t) => Known(p)'
    <2> SUFFICES ASSUME NEW p \in Order, stamp'[p] # Nowhen, Behind(stamp'[p], t)
                 PROVE  Known(p)'
      OBVIOUS
    <2>1. CASE p = o
      BY <1>3, <1>4, <1>6, <2>1 DEF Known
    <2>2. CASE p # o
      BY <1>3, <1>5, <1>6, <2>2 DEF KnownBehind
    <2> QED
      BY <2>1, <2>2
  <1>7. ASSUME NEW t, KnownBefore(t), now < t => Passed(now)
        PROVE  \A p \in Order : stamp'[p] # Nowhen /\ stamp'[p] < t => Known(p)'
    <2> SUFFICES ASSUME NEW p \in Order, stamp'[p] # Nowhen, stamp'[p] < t
                 PROVE  Known(p)'
      OBVIOUS
    <2>1. CASE p = o
      BY <1>3, <1>4, <1>7, <2>1 DEF Known
    <2>2. CASE p # o
      BY <1>3, <1>5, <1>7, <2>2 DEF KnownBefore
    <2> QED
      BY <2>1, <2>2
  <1>8. Marks'
    <2>1. KnownBehind(checkpoint)'
      BY <1>1, <1>6 DEF Safe, Marks, KnownBehind, Behind, Passed
    <2>2. ASSUME walk'.pc # "idle"
          PROVE  KnownBehind(walk.reached)' /\ KnownBefore(Head(walk.pending).after)'
      <3>1. walk.pc # "idle"
        BY <1>2, <2>2
      <3>2. \A p \in Order : stamp'[p] # Nowhen /\ Behind(stamp'[p], walk.reached) => Known(p)'
        BY <1>6, <3>1 DEF Safe, Marks, Passed
      <3>3. \A p \in Order : stamp'[p] # Nowhen /\ stamp'[p] < Head(walk.pending).after => Known(p)'
        BY <1>7, <3>1 DEF Safe, Marks, Passed
      <3> QED
        BY <1>1, <1>2, <3>2, <3>3 DEF KnownBehind, KnownBefore, Behind
    <2> QED
      BY <2>1, <2>2 DEF Marks
  <1>9. Counted'
    <2> SUFFICES ASSUME walk.pc \in {"pages", "write"}, ~walk'.loose PROVE Counted'
      BY <1>2 DEF Counted
    <2> DEFINE w == Head(walk.pending)
    <2>1. ~walk.loose /\ now \notin Span(w) /\ w \in Window
      BY ModifyTypes, StateTypes DEF BeingRead
    <2>2. Asked(w)' = Asked(w) /\ now \notin Asked(w)
      BY <1>1, <1>2, <2>1, AskedSpan DEF Asked, Span
    <2>3. Selected(w)' \subseteq Selected(w) \ {o}
      BY <1>3, <2>2 DEF Selected
    <2>4. Head(walk.pending)' = w /\ Selected(Head(walk.pending))' = Selected(w)'
      BY <1>2 DEF Selected, Asked, Span
    <2>5. Selected(w)' \cap walk'.seen \subseteq stored' \cup walk'.batch
      BY <1>1, <1>2, <2>1, <2>3 DEF Safe, Counted
    <2>6. walk'.total = 0 => Selected(w)' \subseteq walk'.seen
      BY <1>2, <2>1, <2>3 DEF Safe, Counted
    <2>7. walk'.total # 0 => \E S \in SUBSET Order : /\ Cardinality(S) = walk'.total
                                                     /\ walk'.seen \cup Selected(w)' \subseteq S
      BY <1>2, <2>1, <2>3 DEF Safe, Counted
    <2> QED
      BY <2>4, <2>5, <2>6, <2>7 DEF Counted
  <1>10. InHand'
    BY <1>2 DEF Safe, InHand
  <1> QED
    BY <1>8, <1>9, <1>10 DEF Safe

LEMMA TrashSafe ==
  ASSUME TypeOK, Safe, NEW o \in Order, Trash(o)
  PROVE  Safe'
  <1>1. /\ stamp' = [stamp EXCEPT ![o] = Nowhen] /\ stored' = stored \ {o}
        /\ UNCHANGED <<inclusive, now, checkpoint, doubt>>
    BY DEF Trash
  <1>2. /\ walk'.pc = walk.pc /\ walk'.until = walk.until
        /\ walk'.reached = walk.reached /\ walk'.pending = walk.pending
        /\ walk'.total = walk.total /\ walk'.seen = walk.seen
        /\ walk'.batch = walk.batch \ {o} /\ walk'.loose = walk.loose
    BY ModifyTypes
  <1>3. stamp'[o] = Nowhen /\ \A p \in Order \ {o} : stamp'[p] = stamp[p]
    BY <1>1 DEF TypeOK
  <1>4. Marks'
    BY <1>1, <1>2, <1>3 DEF Safe, Marks, KnownBehind, KnownBefore, Known, Behind
  <1>5. Counted'
    <2> SUFFICES ASSUME walk.pc \in {"pages", "write"}, ~walk.loose PROVE Counted'
      BY <1>2 DEF Counted
    <2>1. Nowhen \notin Asked(Head(walk.pending))
      BY StateTypes, AskedSpan
    <2>2. Asked(Head(walk.pending))' = Asked(Head(walk.pending))
      BY <1>1, <1>2 DEF Asked, Span
    <2>3. Selected(Head(walk.pending))' \subseteq Selected(Head(walk.pending)) \ {o}
      BY <1>3, <2>1, <2>2 DEF Selected
    <2> QED
      BY <1>1, <1>2, <2>3 DEF Safe, Counted
  <1>6. InHand'
    BY <1>2 DEF Safe, InHand
  <1> QED
    BY <1>4, <1>5, <1>6 DEF Safe

LEMMA TickSafe ==
  ASSUME TypeOK, Safe, Tick \/ UNCHANGED vars
  PROVE  Safe'
  <1>1. UNCHANGED <<inclusive, stamp, stored, checkpoint, walk, doubt>>
    BY DEF Tick, vars
  <1> QED
    BY <1>1 DEF Safe, Marks, KnownBehind, KnownBefore, Known, Behind, Counted,
                Selected, Asked, Span, InHand

(* A run goes on to a window: everything before it must be known.          *)
LEMMA TurnToWindow ==
  ASSUME walk'.pc = "window", walk'.batch = {},
         KnownBehind(checkpoint)', KnownBehind(walk.reached)',
         KnownBefore(Head(walk.pending).after)'
  PROVE  Safe'
  BY DEF Safe, Marks, Counted, InHand

(* A run comes to rest and leaves a mark. *)
LEMMA ComeToRest ==
  ASSUME walk' = Rest, KnownBehind(checkpoint)'
  PROVE  Safe'
  <1>1. walk'.pc = "idle" /\ walk'.batch = {}
    BY RestIsState
  <1> QED
    BY <1>1 DEF Safe, Marks, Counted, InHand

(* A window whose count agrees was read whole, whatever moved meanwhile.   *)
LEMMA ReadWhole ==
  ASSUME TypeOK, Safe, WindowRead, ~walk.loose
  PROVE  Selected(Head(walk.pending)) \subseteq stored
  <1> DEFINE w == Head(walk.pending)
  <1>1. walk.pc = "pages" /\ CountAgrees /\ walk.batch = {}
    BY DEF WindowRead, Safe, InHand
  <1>2. Selected(w) \subseteq walk.seen
    <2>1. CASE walk.total = 0
      BY <1>1, <2>1 DEF Safe, Counted
    <2>2. CASE walk.total # 0
      <3>1. PICK S \in SUBSET Order : /\ Cardinality(S) = walk.total
                                      /\ walk.seen \cup Selected(w) \subseteq S
        BY <1>1, <2>2 DEF Safe, Counted
      <3>2. Cardinality(walk.seen) = Cardinality(S)
        BY <1>1, <2>2, <3>1 DEF CountAgrees
      <3>3. IsFiniteSet(S) /\ walk.seen \in SUBSET S
        BY <3>1, Times, FS_Subset
      <3>4. walk.seen = S
        BY <3>2, <3>3, FS_Subset
      <3> QED
        BY <3>1, <3>4
    <2> QED
      BY <2>1, <2>2
  <1> QED
    BY <1>1, <1>2 DEF Safe, Counted

(* After it is closed, everything up to its end is known, and everything   *)
(* that was known before.                                                  *)
LEMMA CloseLeaves ==
  ASSUME TypeOK, Safe, WindowRead, Close, UNCHANGED <<inclusive, stamp, stored>>
  PROVE  /\ \A o \in Order : Known(o) => Known(o)'
         /\ \A o \in Order : stamp[o] # Nowhen /\ stamp[o] <= Head(walk.pending).before
              => Known(o)'
  <1> DEFINE w == Head(walk.pending)
             shown == IF walk.loose THEN {} ELSE Asked(w)
  <1>1. walk.pc # "idle" /\ w \in Window /\ w.after \in Nat /\ w.before \in Nat
    BY StateTypes DEF WindowRead
  <1>2. doubt' = (doubt \cup {s \in Span(w) : ~Behind(s, walk.reached)}) \ shown
    BY DEF Close
  <1>3. \A o \in Order : stamp[o] \in shown => o \in stored
    BY ReadWhole DEF Selected
  <1> HIDE DEF shown
  <1>4. \A o \in Order : Known(o) => Known(o)'
    BY <1>2, <1>3 DEF Known
  <1>5. ASSUME NEW o \in Order, stamp[o] # Nowhen, stamp[o] <= w.before
        PROVE  Known(o)'
    <2>1. stamp[o] \in Nat
      BY <1>5, StateTypes
    <2>2. CASE stamp[o] < w.after
      BY <1>1, <1>4, <1>5, <2>2 DEF Safe, Marks, KnownBefore
    <2>3. CASE Behind(stamp[o], walk.reached)
      BY <1>1, <1>4, <1>5, <2>3 DEF Safe, Marks, KnownBehind
    <2>4. CASE ~(stamp[o] < w.after) /\ ~Behind(stamp[o], walk.reached)
      <3>1. stamp[o] \in Span(w)
        BY <1>1, <1>5, <2>1, <2>4, AskedSpan
      <3>2. stamp[o] \in shown \/ stamp[o] \in doubt'
        BY <1>2, <2>4, <3>1
      <3> QED
        BY <1>3, <3>2 DEF Known
    <2> QED
      BY <2>2, <2>3, <2>4
  <1> QED
    BY <1>4, <1>5

(* The same, for the marks. *)
LEMMA CloseMarks ==
  ASSUME TypeOK, Safe, WindowRead, Close, UNCHANGED <<inclusive, stamp, stored>>
  PROVE  LET b == Head(walk.pending).before
             known(s) == \A o \in Order : stamp'[o] # Nowhen /\ stamp'[o] = s => Known(o)' IN
         /\ b \in Nat
         /\ \A s \in Nat : s <= b \/ Behind(s, checkpoint) \/ Behind(s, walk.reached) => known(s)
  <1> DEFINE b == Head(walk.pending).before
  <1>1. walk.pc # "idle" /\ b \in Nat
    BY StateTypes DEF WindowRead
  <1>2. /\ \A o \in Order : Known(o) => Known(o)'
        /\ \A o \in Order : stamp[o] # Nowhen /\ stamp[o] <= b => Known(o)'
    BY CloseLeaves
  <1>3. ASSUME NEW s \in Nat, s <= b \/ Behind(s, checkpoint) \/ Behind(s, walk.reached),
               NEW o \in Order, stamp'[o] # Nowhen, stamp'[o] = s
        PROVE  Known(o)'
    <2>1. stamp[o] # Nowhen /\ stamp[o] = s
      BY <1>3
    <2> QED
      BY <1>1, <1>2, <1>3, <2>1 DEF Safe, Marks, KnownBehind
  <1> QED
    BY <1>1, <1>3

LEMMA StartRunSafe ==
  ASSUME TypeOK, Safe, StartRun
  PROVE  Safe'
  <1>1. /\ checkpoint < now - Lag /\ BeginChunk(checkpoint, now - Lag)
        /\ UNCHANGED <<inclusive, now, stamp, stored, checkpoint, doubt>>
    BY DEF StartRun
  <1>2. checkpoint \in Nat /\ now - Lag \in Nat
    BY <1>1, StateTypes, Times
  <1>3. /\ walk'.pc = "window" /\ walk'.reached = checkpoint
        /\ walk'.batch = {} /\ Head(walk'.pending).after = checkpoint
    BY <1>1, <1>2, BeginChunkDoes
  <1>4. KnownBehind(checkpoint) /\ KnownBefore(checkpoint)
    BY <1>2, BehindBefore DEF Safe, Marks
  <1>5. /\ KnownBehind(checkpoint)' /\ KnownBehind(walk.reached)'
        /\ KnownBefore(Head(walk.pending).after)'
    BY <1>1, <1>3, <1>4 DEF KnownBehind, KnownBefore, Known, Behind
  <1> QED
    BY <1>3, <1>5, TurnToWindow

LEMMA SplitSafe ==
  ASSUME TypeOK, Safe, Split
  PROVE  Safe'
  <1>1. walk.pc # "idle" /\ UNCHANGED <<inclusive, now, stamp, stored, checkpoint, doubt>>
    BY DEF Split
  <1>2. /\ walk'.pc = "window" /\ walk'.reached = walk.reached /\ walk'.batch = {}
        /\ Head(walk'.pending).after = Head(walk.pending).after
    BY SplitDoes
  <1>3. /\ KnownBehind(checkpoint)' /\ KnownBehind(walk.reached)'
        /\ KnownBefore(Head(walk.pending).after)'
    BY <1>1, <1>2 DEF Safe, Marks, KnownBehind, KnownBefore, Known, Behind
  <1> QED
    BY <1>2, <1>3, TurnToWindow

LEMMA CloseWindowSafe ==
  ASSUME TypeOK, Safe, CloseWindow
  PROVE  Safe'
  <1> DEFINE b == Head(walk.pending).before
  <1>1. WindowRead /\ Close /\ UNCHANGED <<inclusive, now, stamp, stored, checkpoint>>
    BY DEF CloseWindow
  <1>2. /\ walk'.pc = "window" /\ walk'.reached = walk.reached /\ walk'.batch = {}
        /\ Head(walk'.pending).after = b + 1
    BY CloseWindowDoes
  <1>3. /\ b \in Nat
        /\ \A s \in Nat : s <= b \/ Behind(s, checkpoint) \/ Behind(s, walk.reached) =>
             \A o \in Order : stamp'[o] # Nowhen /\ stamp'[o] = s => Known(o)'
    BY <1>1, CloseMarks
  <1>4. \A o \in Order : stamp'[o] # Nowhen => stamp'[o] \in Nat
    BY <1>1, StateTypes
  <1>5. KnownBehind(checkpoint)' /\ KnownBehind(walk.reached)'
    BY <1>1, <1>2, <1>3, <1>4 DEF KnownBehind, Behind
  <1>6. KnownBefore(Head(walk.pending).after)'
    <2>1. \A s \in Nat : s < b + 1 => s <= b
      BY <1>3
    <2> QED
      BY <1>2, <1>3, <1>4, <2>1 DEF KnownBefore
  <1> QED
    BY <1>2, <1>5, <1>6, TurnToWindow

(* The walk has come to the end of a chunk. *)
LEMMA ChunkEnds ==
  ASSUME TypeOK, Safe, WindowRead, Close, UNCHANGED <<inclusive, stamp, stored>>,
         NEW t \in Nat, t = Head(walk.pending).before
  PROVE  /\ \A o \in Order : stamp'[o] # Nowhen /\ stamp'[o] <= t => Known(o)'
         /\ \A o \in Order : stamp'[o] # Nowhen => stamp'[o] \in Nat
         /\ \A o \in Order : stamp'[o] # Nowhen /\ Behind(stamp'[o], checkpoint) => Known(o)'
  <1>1. /\ \A s \in Nat : s <= t \/ Behind(s, checkpoint) \/ Behind(s, walk.reached) =>
             \A o \in Order : stamp'[o] # Nowhen /\ stamp'[o] = s => Known(o)'
    BY CloseMarks
  <1>2. \A o \in Order : stamp'[o] # Nowhen => stamp'[o] \in Nat
    BY StateTypes
  <1> QED
    BY <1>1, <1>2 DEF Behind

LEMMA CloseChunkSafe ==
  ASSUME TypeOK, Safe, CloseChunk
  PROVE  Safe'
  <1> DEFINE from == Head(walk.pending).before
  <1>1. /\ WindowRead /\ walk.pc # "idle" /\ Close
        /\ from < walk.until /\ BeginChunk(from, walk.until)
        /\ UNCHANGED <<inclusive, now, stamp, stored, checkpoint>>
    BY DEF CloseChunk, WindowRead
  <1>2. from \in Nat /\ walk.until \in Nat
    BY <1>1, StateTypes
  <1>3. /\ walk'.pc = "window" /\ walk'.reached = from
        /\ walk'.batch = {} /\ Head(walk'.pending).after = from
    BY <1>1, <1>2, BeginChunkDoes
  <1>4. /\ \A o \in Order : stamp'[o] # Nowhen /\ stamp'[o] <= from => Known(o)'
        /\ \A o \in Order : stamp'[o] # Nowhen => stamp'[o] \in Nat
        /\ \A o \in Order : stamp'[o] # Nowhen /\ Behind(stamp'[o], checkpoint) => Known(o)'
    BY <1>1, <1>2, ChunkEnds
  <1>5. /\ KnownBehind(checkpoint)' /\ KnownBehind(walk.reached)'
        /\ KnownBefore(Head(walk.pending).after)'
    BY <1>1, <1>2, <1>3, <1>4 DEF KnownBehind, KnownBefore, Behind
  <1> QED
    BY <1>3, <1>5, TurnToWindow

LEMMA RestSafe ==
  ASSUME TypeOK, Safe, Kill \/ FailRun \/ CompleteRun
  PROVE  Safe'
  <1>1. walk' = Rest
    BY DEF Kill, FailRun, CompleteRun
  <1>2. CASE Kill
    <2>1. UNCHANGED <<inclusive, stamp, stored, checkpoint, doubt>>
      BY <1>2 DEF Kill
    <2>2. KnownBehind(checkpoint)'
      BY <2>1 DEF Safe, Marks, KnownBehind, Known, Behind
    <2> QED
      BY <1>1, <2>2, ComeToRest
  <1>3. CASE FailRun
    <2>1. /\ walk.pc # "idle" /\ checkpoint' = walk.reached
          /\ UNCHANGED <<inclusive, stamp, stored, doubt>>
      BY <1>3 DEF FailRun
    <2>2. KnownBehind(checkpoint)'
      BY <2>1 DEF Safe, Marks, KnownBehind, Known, Behind
    <2> QED
      BY <1>1, <2>2, ComeToRest
  <1>4. CASE CompleteRun
    <2>1. /\ WindowRead /\ walk.pc # "idle" /\ Head(walk.pending).before = walk.until
          /\ Close /\ checkpoint' = walk.until
          /\ UNCHANGED <<inclusive, stamp, stored>>
      BY <1>4 DEF CompleteRun, WindowRead
    <2>2. walk.until \in Nat
      BY StateTypes
    <2>3. /\ \A o \in Order : stamp'[o] # Nowhen /\ stamp'[o] <= walk.until => Known(o)'
          /\ \A o \in Order : stamp'[o] # Nowhen => stamp'[o] \in Nat
      BY <2>1, <2>2, ChunkEnds
    <2>4. KnownBehind(checkpoint)'
      BY <2>1, <2>2, <2>3 DEF KnownBehind, Behind
    <2> QED
      BY <1>1, <2>4, ComeToRest
  <1> QED
    BY <1>2, <1>3, <1>4

(* The pages: what was counted is what the window selects.                 *)
LEMMA PagesKeepMarks ==
  ASSUME Safe, walk.pc # "idle",
         UNCHANGED <<inclusive, stamp, checkpoint, doubt>>, stored \subseteq stored',
         walk'.reached = walk.reached, walk'.pending = walk.pending
  PROVE  Marks' /\ Asked(Head(walk.pending))' = Asked(Head(walk.pending))
         /\ Selected(Head(walk.pending))' = Selected(Head(walk.pending))
  BY DEF Safe, Marks, KnownBehind, KnownBefore, Known, Behind, Selected, Asked, Span

LEMMA FirstPageSafe ==
  ASSUME TypeOK, Safe, FirstPage
  PROVE  Safe'
  <1> DEFINE w == Head(walk.pending)
  <1>1. UNCHANGED <<inclusive, now, stamp, stored, checkpoint, doubt>>
    BY DEF FirstPage
  <1>2. /\ walk.pc = "window"
        /\ walk'.pc \in {"pages", "write"}
        /\ walk'.reached = walk.reached /\ walk'.pending = walk.pending
        /\ walk'.seen \subseteq Selected(w) /\ walk'.batch = walk'.seen
        /\ walk'.pc = "pages" => walk'.batch = {}
        /\ ~walk'.loose =>
             /\ walk'.total # 0 => walk'.total = Cardinality(Selected(w))
             /\ walk'.total = 0 => Selected(w) \subseteq walk'.seen
    BY FirstPageDoes
  <1>3. Marks' /\ Selected(Head(walk.pending))' = Selected(w)
    BY <1>1, <1>2, PagesKeepMarks
  <1>4. InHand'
    BY <1>2 DEF InHand
  <1>5. Counted'
    <2>1. Selected(w) \in SUBSET Order
      BY SelectedFinite
    <2> QED
      BY <1>2, <1>3, <2>1 DEF Counted
  <1> QED
    BY <1>3, <1>4, <1>5 DEF Safe

LEMMA NextPageSafe ==
  ASSUME TypeOK, Safe, NextPage
  PROVE  Safe'
  <1> DEFINE w == Head(walk.pending)
  <1>1. UNCHANGED <<inclusive, now, stamp, stored, checkpoint, doubt>>
    BY DEF NextPage
  <1>2. /\ walk.pc = "pages"
        /\ walk'.pc \in {"pages", "write"}
        /\ walk'.reached = walk.reached /\ walk'.pending = walk.pending
        /\ walk'.total = walk.total /\ walk'.loose = walk.loose
    BY NextPageDoes
  <1>3. PICK page \in SUBSET Selected(w) :
          /\ walk'.seen = walk.seen \cup page /\ walk'.batch = page \ walk.seen
          /\ walk'.pc = "pages" => page = {}
    BY NextPageDoes
  <1>4. Marks' /\ Selected(Head(walk.pending))' = Selected(w)
    BY <1>1, <1>2, PagesKeepMarks
  <1>5. InHand'
    BY <1>2, <1>3 DEF InHand
  <1>6. Counted'
    <2> SUFFICES ASSUME ~walk.loose PROVE Counted'
      BY <1>2 DEF Counted
    <2>1. walk.batch = {}
      BY <1>2 DEF Safe, InHand
    <2>2. Selected(w) \cap walk'.seen \subseteq stored \cup walk'.batch
      BY <1>2, <1>3, <2>1 DEF Safe, Counted
    <2>3. walk'.total = 0 => Selected(w) \subseteq walk'.seen
      BY <1>2, <1>3 DEF Safe, Counted
    <2>4. walk'.total # 0 =>
            \E S \in SUBSET Order : /\ Cardinality(S) = walk'.total
                                    /\ walk'.seen \cup Selected(w) \subseteq S
      BY <1>2, <1>3 DEF Safe, Counted
    <2> QED
      BY <1>1, <1>4, <2>2, <2>3, <2>4 DEF Counted
  <1> QED
    BY <1>4, <1>5, <1>6 DEF Safe

LEMMA WritePageSafe ==
  ASSUME TypeOK, Safe, WritePage
  PROVE  Safe'
  <1>1. UNCHANGED <<inclusive, now, stamp, checkpoint, doubt>>
    BY DEF WritePage
  <1>2. /\ walk.pc = "write" /\ stored' = stored \cup walk.batch
        /\ walk'.pc = "pages" /\ walk'.batch = {}
        /\ walk'.reached = walk.reached /\ walk'.pending = walk.pending
        /\ walk'.total = walk.total /\ walk'.loose = walk.loose
        /\ walk'.seen = walk.seen
    BY WritePageDoes
  <1>3. Marks' /\ Selected(Head(walk.pending))' = Selected(Head(walk.pending))
    BY <1>1, <1>2, PagesKeepMarks
  <1>4. InHand' /\ Counted'
    BY <1>2, <1>3 DEF Safe, Counted, InHand
  <1> QED
    BY <1>3, <1>4 DEF Safe

-----------------------------------------------------------------------------
(* The theorems. *)

LEMMA InitSafe == Init => TypeOK /\ Safe
  <1> SUFFICES ASSUME Init PROVE TypeOK /\ Safe
    OBVIOUS
  <1>1. TypeOK
    BY Times, RestIsState, EmptySeq DEF Init, TypeOK, Second
  <1>2. Safe
    BY RestIsState DEF Init, Safe, Marks, KnownBehind, Counted, InHand
  <1> QED
    BY <1>1, <1>2

LEMMA SafeKept == TypeOK /\ Safe /\ [Next]_vars => Safe'
  <1> SUFFICES ASSUME TypeOK, Safe, [Next]_vars PROVE Safe'
    OBVIOUS
  <1>1. CASE Tick \/ UNCHANGED vars
    BY <1>1, TickSafe
  <1>2. ASSUME NEW o \in Order, Modify(o) \/ Trash(o) PROVE Safe'
    BY <1>2, ModifySafe, TrashSafe
  <1>3. CASE StartRun
    BY <1>3, StartRunSafe
  <1>4. CASE Split
    BY <1>4, SplitSafe
  <1>5. CASE FirstPage
    BY <1>5, FirstPageSafe
  <1>6. CASE NextPage \/ WritePage
    BY <1>6, NextPageSafe, WritePageSafe
  <1>7. CASE CloseWindow \/ CloseChunk
    BY <1>7, CloseWindowSafe, CloseChunkSafe
  <1>8. CASE Kill \/ FailRun \/ CompleteRun
    BY <1>8, RestSafe
  <1> QED
    BY <1>1, <1>2, <1>3, <1>4, <1>5, <1>6, <1>7, <1>8 DEF Next, RunStep

(* However a window is halved and read, what a run keeps has its type, and *)
(* the windows that are left tile what is left of the chunk.               *)
THEOREM WalkTypes == Spec => []TypeOK
  <1>1. Init => TypeOK
    BY InitSafe
  <1> QED
    BY <1>1, TypesKept, PTL DEF Spec

(* For either reading of the store's bounds, and whatever the clocks: an   *)
(* order no later run asks for is in the envelope in its present version,  *)
(* or its second is in doubt: one of an order stamped within a window that *)
(* had been counted or behind the walk, of pages read without a total, or  *)
(* of an end of a window that the store leaves out.                        *)
THEOREM NoOrderIsMissed == Spec => []NothingBehindTheMark
  <1>1. TypeOK /\ Safe => NothingBehindTheMark
    BY DEF Safe, Marks, KnownBehind, Known, NothingBehindTheMark
  <1> QED
    BY <1>1, InitSafe, TypesKept, SafeKept, PTL DEF Spec

-----------------------------------------------------------------------------
(* What a run has still to do. *)

PagesLeft(x) == IF x.pc \in {"pages", "write"} THEN x.pages - x.page ELSE 0

(* The seconds up to the pinned end, the sub-windows the chunk may still   *)
(* visit, the windows left of it, the pages left of the one being read,    *)
(* and a page in hand.                                                     *)
Measure(x) ==
  << x.until - x.reached, x.budget, Len(x.pending), PagesLeft(x),
     IF x.pc = "write" THEN 1 ELSE 0 >>

Measures == [1 .. 5 -> Nat]

(* Measures, by the first component in which they differ. *)
Less == LexProductOrdering(OpToRel(<, Nat), Nat, 5)

ChunkEnd(x) == x.pending[Len(x.pending)].before

(* The chunk being read ends after its beginning, and no page is read      *)
(* beyond those page 1 announced.                                          *)
Open(x) ==
  x.pc # "idle" =>
    /\ x.reached < x.until /\ x.reached < ChunkEnd(x)
    /\ x.pc \in {"pages", "write"} => x.page <= x.pages

(* Every step of a run that does not end it leaves less of it, and nothing *)
(* that happens to the store or the clock meanwhile adds to it.            *)
RunShrinks ==
  walk.pc # "idle" /\ walk'.pc # "idle" =>
    IF RunStep THEN <<Measure(walk'), Measure(walk)>> \in Less
    ELSE Measure(walk') = Measure(walk)

LEMMA LessAt ==
  ASSUME NEW m \in Measures, NEW n \in Measures, NEW j \in 1 .. 5,
         \A i \in 1 .. j - 1 : m[i] = n[i], m[j] < n[j]
  PROVE  <<m, n>> \in Less
  <1>1. m[j] \in Nat /\ n[j] \in Nat
    BY DEF Measures
  <1>2. <<m[j], n[j]>> \in OpToRel(<, Nat)
    BY <1>1 DEF OpToRel
  <1> QED
    BY <1>2 DEF Less, LexProductOrdering, Measures

LEMMA MeasureTyped ==
  ASSUME NEW x \in WalkState, Open(x), x.pc # "idle"
  PROVE  /\ Measure(x) \in Measures
         /\ Measure(x)[1] = x.until - x.reached /\ Measure(x)[2] = x.budget
         /\ Measure(x)[3] = Len(x.pending) /\ Measure(x)[4] = PagesLeft(x)
         /\ Measure(x)[5] = IF x.pc = "write" THEN 1 ELSE 0
  <1>1. x.until - x.reached \in Nat /\ x.budget \in Nat /\ Len(x.pending) \in Nat
    BY WalkFields, Times DEF Open
  <1>2. PagesLeft(x) \in Nat
    BY WalkFields DEF Open, PagesLeft
  <1>3. (IF x.pc = "write" THEN 1 ELSE 0) \in Nat
    OBVIOUS
  <1> QED
    BY <1>1, <1>2, <1>3 DEF Measure, Measures

(* The end of a chunk survives the halving and the closing of its windows. *)
LEMMA SplitEnd ==
  ASSUME NEW s \in Seq(Window), s # <<>>, NEW a \in Window, NEW b \in Window,
         b.before = Head(s).before
  PROVE  LET t == << a, b >> \o Tail(s) IN t[Len(t)].before = s[Len(s)].before
  <1> DEFINE t == << a, b >> \o Tail(s)
  <1>1. /\ Len(s) \in Nat \ {0} /\ Head(s) = s[1]
        /\ Tail(s) \in Seq(Window) /\ Len(Tail(s)) = Len(s) - 1
        /\ \A k \in 1 .. Len(s) - 1 : Tail(s)[k] = s[k + 1]
    BY Windows
  <1>2. /\ <<a, b>> \in Seq(Window) /\ Len(<<a, b>>) = 2 /\ <<a, b>>[2] = b
    OBVIOUS
  <1>3. /\ Len(t) = Len(s) + 1
        /\ \A k \in 1 .. Len(s) + 1 :
             t[k] = IF k <= 2 THEN <<a, b>>[k] ELSE Tail(s)[k - 2]
    BY <1>1, <1>2, ConcatProperties
  <1> HIDE DEF t
  <1>4. t[Len(t)].before = s[Len(s)].before
    <2>1. CASE Len(s) = 1
      BY <1>1, <1>2, <1>3, <2>1
    <2>2. CASE Len(s) > 1
      <3>1. t[Len(s) + 1] = Tail(s)[Len(s) - 1]
        BY <1>1, <1>3, <2>2
      <3>2. Tail(s)[Len(s) - 1] = s[Len(s)]
        BY <1>1, <2>2
      <3> QED
        BY <1>3, <3>1, <3>2
    <2> QED
      BY <1>1, <2>1, <2>2
  <1> QED
    BY <1>4 DEF t

LEMMA TailEnd ==
  ASSUME NEW s \in Seq(Window), Len(s) > 1
  PROVE  Len(Tail(s)) = Len(s) - 1 /\ Tail(s)[Len(Tail(s))] = s[Len(s)]
  <1>1. s # <<>>
    BY EmptySeq
  <1> QED
    BY <1>1, Windows

LEMMA BeginChunkOpens ==
  ASSUME NEW from \in Nat, NEW until \in Nat, from < until, BeginChunk(from, until)
  PROVE  walk' \in WalkState /\ Open(walk')
  <1> DEFINE c == Chunk(from, until)
  <1>1. from < c.before
    BY Times DEF Chunk, AtMost
  <1>2. /\ walk'.pc = "window" /\ walk'.until = until /\ walk'.reached = from
        /\ walk'.pending = <<c>>
    BY BeginChunkDoes
  <1> QED
    BY <1>1, <1>2, BeginChunkDoes DEF Open, ChunkEnd

LEMMA SplitShrinks ==
  ASSUME TypeOK, Open(walk), Split
  PROVE  Open(walk') /\ <<Measure(walk'), Measure(walk)>> \in Less
  <1>1. walk.pc = "window"
    BY DEF Split
  <1>2. /\ walk \in WalkState /\ walk.pending \in Seq(Window) /\ walk.pending # <<>>
        /\ walk.budget \in Nat
    BY <1>1, TypedWalk, WalkFields, Times
  <1>3. /\ walk' \in WalkState /\ walk'.pc = "window" /\ walk'.until = walk.until
        /\ walk'.reached = walk.reached /\ walk'.budget = walk.budget - 1
    BY SplitDoes
  <1>4. PICK a \in Window, b \in Window :
          /\ b.before = Head(walk.pending).before
          /\ walk'.pending = << a, b >> \o Tail(walk.pending)
    BY SplitDoes
  <1>5. ChunkEnd(walk') = ChunkEnd(walk)
    BY <1>2, <1>4, SplitEnd DEF ChunkEnd
  <1>6. Open(walk')
    BY <1>1, <1>3, <1>5 DEF Open
  <1>7. /\ Measure(walk) \in Measures /\ Measure(walk') \in Measures
        /\ Measure(walk)[1] = walk.until - walk.reached
        /\ Measure(walk)[2] = walk.budget
        /\ Measure(walk')[1] = walk'.until - walk'.reached
        /\ Measure(walk')[2] = walk'.budget
    <2>1. walk.pc # "idle" /\ walk'.pc # "idle"
      BY <1>1, <1>3
    <2> QED
      BY <1>2, <1>3, <1>6, <2>1, MeasureTyped
  <1>8. <<Measure(walk'), Measure(walk)>> \in Less
    BY <1>2, <1>3, <1>7, LessAt
  <1> QED
    BY <1>6, <1>8

LEMMA FirstPageShrinks ==
  ASSUME TypeOK, Open(walk), FirstPage
  PROVE  Open(walk') /\ <<Measure(walk'), Measure(walk)>> \in Less
  <1>1. walk \in WalkState /\ walk.budget \in Nat
    BY TypedWalk, WalkFields, Times
  <1>2. /\ walk.pc = "window"
        /\ walk' \in WalkState /\ walk'.pc # "idle"
        /\ walk'.until = walk.until /\ walk'.reached = walk.reached
        /\ walk'.pending = walk.pending /\ walk'.budget = walk.budget - 1
        /\ walk'.pages \in Nat \ {0} /\ walk'.page \in {walk'.pages, 1}
    BY FirstPageDoes
  <1>3. Open(walk')
    BY <1>2 DEF Open, ChunkEnd
  <1>4. /\ Measure(walk) \in Measures /\ Measure(walk') \in Measures
        /\ Measure(walk')[1] = Measure(walk)[1]
        /\ Measure(walk')[2] < Measure(walk)[2]
    BY <1>1, <1>2, <1>3, MeasureTyped
  <1>5. <<Measure(walk'), Measure(walk)>> \in Less
    BY <1>4, LessAt
  <1> QED
    BY <1>3, <1>5

LEMMA NextPageShrinks ==
  ASSUME TypeOK, Open(walk), NextPage
  PROVE  Open(walk') /\ <<Measure(walk'), Measure(walk)>> \in Less
  <1>1. walk \in WalkState /\ walk.page \in Nat /\ walk.pages \in Nat
    BY TypedWalk, WalkFields
  <1>2. walk.pc = "pages" /\ walk.page < walk.pages
    BY NextPageDoes
  <1>3. /\ walk'.until = walk.until /\ walk'.reached = walk.reached
        /\ walk'.pending = walk.pending /\ walk'.budget = walk.budget
        /\ walk'.pages = walk.pages /\ walk'.page \in {walk.pages, walk.page + 1}
    BY NextPageDoes
  <1>4. walk' \in WalkState /\ walk'.pc \in {"pages", "write"}
    BY NextPageDoes
  <1>5. Open(walk')
    BY <1>1, <1>2, <1>3 DEF Open, ChunkEnd
  <1>6. PagesLeft(walk') < PagesLeft(walk)
    BY <1>1, <1>2, <1>3, <1>4 DEF PagesLeft
  <1>7. /\ Measure(walk) \in Measures /\ Measure(walk') \in Measures
        /\ Measure(walk')[1] = Measure(walk)[1] /\ Measure(walk')[2] = Measure(walk)[2]
        /\ Measure(walk')[3] = Measure(walk)[3] /\ Measure(walk')[4] < Measure(walk)[4]
    BY <1>1, <1>2, <1>3, <1>4, <1>5, <1>6, MeasureTyped
  <1>8. <<Measure(walk'), Measure(walk)>> \in Less
    BY <1>7, LessAt
  <1> QED
    BY <1>5, <1>8

LEMMA WritePageShrinks ==
  ASSUME TypeOK, Open(walk), WritePage
  PROVE  Open(walk') /\ <<Measure(walk'), Measure(walk)>> \in Less
  <1>1. walk \in WalkState /\ walk.pc = "write"
    BY TypedWalk DEF WritePage
  <1>3. /\ walk' \in WalkState /\ walk'.pc = "pages"
        /\ walk'.until = walk.until /\ walk'.reached = walk.reached
        /\ walk'.pending = walk.pending /\ walk'.budget = walk.budget
        /\ walk'.pages = walk.pages /\ walk'.page = walk.page
    BY WritePageDoes
  <1>4. Open(walk') /\ PagesLeft(walk') = PagesLeft(walk)
    BY <1>1, <1>3 DEF Open, ChunkEnd, PagesLeft
  <1>5. /\ Measure(walk) \in Measures /\ Measure(walk') \in Measures
        /\ Measure(walk')[1] = Measure(walk)[1] /\ Measure(walk')[2] = Measure(walk)[2]
        /\ Measure(walk')[3] = Measure(walk)[3] /\ Measure(walk')[4] = Measure(walk)[4]
        /\ Measure(walk')[5] < Measure(walk)[5]
    BY <1>1, <1>3, <1>4, MeasureTyped
  <1>6. <<Measure(walk'), Measure(walk)>> \in Less
    BY <1>5, LessAt
  <1> QED
    BY <1>4, <1>6

LEMMA CloseWindowShrinks ==
  ASSUME TypeOK, Open(walk), CloseWindow
  PROVE  Open(walk') /\ <<Measure(walk'), Measure(walk)>> \in Less
  <1> DEFINE t == Tail(walk.pending)
  <1>1. /\ walk \in WalkState /\ walk.pending \in Seq(Window) /\ walk.pc = "pages"
        /\ Len(walk.pending) > 1
    BY TypedWalk, WalkFields DEF CloseWindow, WindowRead
  <1>3. Len(t) = Len(walk.pending) - 1 /\ t[Len(t)] = walk.pending[Len(walk.pending)]
    BY <1>1, TailEnd
  <1>4. /\ walk' \in WalkState /\ walk'.pc = "window"
        /\ walk'.until = walk.until /\ walk'.reached = walk.reached
        /\ walk'.pending = t /\ walk'.budget = walk.budget
    BY CloseWindowDoes
  <1> HIDE DEF t
  <1>5. Open(walk')
    BY <1>1, <1>3, <1>4 DEF Open, ChunkEnd
  <1>6. /\ Measure(walk) \in Measures /\ Measure(walk') \in Measures
        /\ Measure(walk')[1] = Measure(walk)[1] /\ Measure(walk')[2] = Measure(walk)[2]
        /\ Measure(walk')[3] < Measure(walk)[3]
    BY <1>1, <1>3, <1>4, <1>5, MeasureTyped
  <1>7. <<Measure(walk'), Measure(walk)>> \in Less
    BY <1>6, LessAt
  <1> QED
    BY <1>5, <1>7

LEMMA CloseChunkShrinks ==
  ASSUME TypeOK, Open(walk), CloseChunk
  PROVE  Open(walk') /\ <<Measure(walk'), Measure(walk)>> \in Less
  <1> DEFINE from == Head(walk.pending).before
  <1>1. /\ walk \in WalkState /\ walk.pc = "pages" /\ Len(walk.pending) = 1
        /\ from < walk.until /\ BeginChunk(from, walk.until)
    BY TypedWalk DEF CloseChunk, WindowRead
  <1>2. from = ChunkEnd(walk) /\ from \in Nat /\ walk.until \in Nat /\ walk.reached \in Nat
    BY <1>1, StateTypes DEF ChunkEnd
  <1>3. walk.reached < from
    BY <1>1, <1>2 DEF Open
  <1> HIDE DEF from
  <1>4. /\ walk' \in WalkState /\ Open(walk') /\ walk'.pc = "window"
        /\ walk'.until = walk.until /\ walk'.reached = from
    BY <1>1, <1>2, BeginChunkDoes, BeginChunkOpens
  <1>5. /\ Measure(walk) \in Measures /\ Measure(walk') \in Measures
        /\ Measure(walk')[1] < Measure(walk)[1]
    BY <1>1, <1>2, <1>3, <1>4, MeasureTyped
  <1>6. <<Measure(walk'), Measure(walk)>> \in Less
    BY <1>5, LessAt
  <1> QED
    BY <1>4, <1>6

(* The store and the clock leave a run what it has still to do.            *)
LEMMA WorldLeavesRun ==
  ASSUME TypeOK, Open(walk),
         Tick \/ (\E o \in Order : Modify(o) \/ Trash(o)) \/ UNCHANGED vars
  PROVE  Open(walk') /\ Measure(walk') = Measure(walk)
  <1>1. CASE UNCHANGED walk
    BY <1>1
  <1>2. ASSUME NEW o \in Order, Modify(o) \/ Trash(o)
        PROVE  Open(walk') /\ Measure(walk') = Measure(walk)
    <2>1. /\ walk'.pc = walk.pc /\ walk'.until = walk.until
          /\ walk'.reached = walk.reached /\ walk'.pending = walk.pending
          /\ walk'.budget = walk.budget /\ walk'.page = walk.page
          /\ walk'.pages = walk.pages
      BY <1>2, ModifyTypes
    <2> QED
      BY <2>1 DEF Open, ChunkEnd, Measure, PagesLeft
  <1> QED
    BY <1>1, <1>2 DEF Tick, vars

LEMMA ShrinksStep == TypeOK /\ Open(walk) /\ [Next]_vars => Open(walk)' /\ RunShrinks
  <1> SUFFICES ASSUME TypeOK, Open(walk), [Next]_vars PROVE Open(walk') /\ RunShrinks
    OBVIOUS
  <1>1. ASSUME RunStep, Open(walk'),
               walk'.pc # "idle" => <<Measure(walk'), Measure(walk)>> \in Less
        PROVE  Open(walk') /\ RunShrinks
    BY <1>1 DEF RunShrinks
  <1>2. CASE Split \/ FirstPage \/ NextPage
    BY <1>1, <1>2, SplitShrinks, FirstPageShrinks, NextPageShrinks DEF RunStep
  <1>3. CASE WritePage \/ CloseWindow \/ CloseChunk
    BY <1>1, <1>3, WritePageShrinks, CloseWindowShrinks, CloseChunkShrinks DEF RunStep
  <1>4. CASE CompleteRun \/ FailRun \/ Kill
    <2>1. walk'.pc = "idle"
      BY <1>4, RestIsState DEF CompleteRun, FailRun, Kill
    <2> QED
      BY <2>1 DEF Open, RunShrinks
  <1>5. CASE StartRun
    <2>1. checkpoint \in Nat /\ now - Lag \in Nat /\ checkpoint < now - Lag
      BY <1>5, Times, StateTypes DEF StartRun
    <2>2. walk.pc = "idle" /\ BeginChunk(checkpoint, now - Lag)
      BY <1>5 DEF StartRun
    <2> QED
      BY <2>1, <2>2, BeginChunkOpens DEF RunShrinks
  <1>6. CASE Tick \/ (\E o \in Order : Modify(o) \/ Trash(o)) \/ UNCHANGED vars
    <2>1. Open(walk') /\ Measure(walk') = Measure(walk)
      BY <1>6, WorldLeavesRun
    <2>2. CASE ~RunStep
      BY <2>1, <2>2 DEF RunShrinks
    <2>3. CASE RunStep
      BY <1>2, <1>3, <1>4, <2>3 DEF RunStep
    <2> QED
      BY <2>2, <2>3
  <1> QED
    BY <1>2, <1>3, <1>4, <1>5, <1>6 DEF Next, RunStep

(* There is no infinite descent from a measure.                            *)
THEOREM MeasuresEnd == IsWellFoundedOn(Less, Measures)
  BY NatLessThanWellFounded, WFLexProductOrdering DEF Less, Measures

(* Neither the halving of windows nor the page loop can go on for ever,    *)
(* however the store is edited meanwhile: for any store, any clock and any *)
(* budgets, each step of a run that does not end it is a descent.          *)
THEOREM RunsShrink == Spec => [][RunShrinks]_vars
  <1>1. Init => TypeOK /\ Open(walk)
    BY InitSafe, RestIsState DEF Init, Open
  <1>2. TypeOK /\ Open(walk) /\ [Next]_vars => [RunShrinks]_vars
    BY ShrinksStep
  <1> QED
    BY <1>1, <1>2, TypesKept, ShrinksStep, PTL DEF Spec
=============================================================================
