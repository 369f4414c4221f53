--------------------------- MODULE MCIngestSweep ---------------------------
(* Small instances of IngestSweep for TLC: the sweeps are interchangeable. *)
EXTENDS IngestSweep, TLC

Interchangeable == Permutations(Instance)
=============================================================================
