-------------------------- MODULE MCSessionManager --------------------------
(* Model values for TLC's runs of SessionManager. *)
EXTENDS SessionManagerProps, TLC

CONSTANTS c1, c2, w1, w2

Symmetry == Permutations({w1, w2})
=============================================================================
