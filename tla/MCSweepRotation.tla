-------------------------- MODULE MCSweepRotation --------------------------
(* SweepRotation at a size TLC can exhaust.                                *)
EXTENDS SweepRotation, TLC

(* Every connection was sealed one chunk behind the present. *)
JustSealed == [c \in Connection |-> 1]

(* Connection 1 was sealed further back than one invocation reads. *)
LongHistory == [c \in Connection |-> IF c = 1 THEN MaxBehind ELSE 1]
=============================================================================
