--------------------------- MODULE MCEnvelopeRows ---------------------------
(* EnvelopeRows at a size TLC can exhaust: one row of a source with a      *)
(* restatement window and one of a source that never closes.               *)
EXTENDS EnvelopeRows, TLC

CONSTANTS k1, k2

OneWindow == k1 :> 1 @@ k2 :> Unknown

(* One figure disappears; the other is never restated. *)
Disappearing == k1 :> <<"high", Absent>> @@ k2 :> <<"low">>
=============================================================================
