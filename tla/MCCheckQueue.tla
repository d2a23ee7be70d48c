---------------------------- MODULE MCCheckQueue ----------------------------
(* CheckQueue for TLC: threads and checks are model values, given by the   *)
(* configuration.  No symmetry, as the run has a liveness property.        *)
EXTENDS CheckQueue
=============================================================================
