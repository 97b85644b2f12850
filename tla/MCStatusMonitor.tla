--------------------------- MODULE MCStatusMonitor ---------------------------
(* Model values for TLC's runs of StatusMonitor. *)
EXTENDS StatusMonitorProps

CONSTANTS t1, t2, t3, i1, i2, m1, m2

ThreadSymmetry == Permutations(Threads)
=============================================================================
