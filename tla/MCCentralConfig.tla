--------------------------- MODULE MCCentralConfig ---------------------------
(* Model values for TLC's runs of CentralConfig. *)
EXTENDS CentralConfigProps

CONSTANTS d1, d2, bad, e1, u1, u2
=============================================================================
