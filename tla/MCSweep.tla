------------------------------ MODULE MCSweep ------------------------------
(***************************************************************************)
(* SweepBatch for TLC.                                                     *)
(***************************************************************************)
EXTENDS SweepBatch
=============================================================================
