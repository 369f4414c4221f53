------------------------ MODULE MCPerformanceRead ------------------------
(* PerformanceRead over rows that tie in every column of the order.        *)
EXTENDS PerformanceRead, TLC

Row(date, account, entity, window) ==
  [date |-> date, account |-> account, entity |-> entity, window |-> window]

(* One day with two accounts whose entities interleave, labelled and not,  *)
(* the day before, and a day outside the span.                             *)
SomeRows ==
  {Row(3, 1, 1, Null), Row(3, 1, 1, 1), Row(3, 1, 1, 2), Row(3, 1, 2, Null),
   Row(3, 2, 1, 1), Row(2, 1, 1, Null), Row(1, 1, 1, Null)}
=============================================================================
