----------------------------- MODULE MCBootCache -----------------------------
(* Model values for TLC's runs of BootCache. *)
EXTENDS BootCacheProps

CONSTANTS lite, full, h1, h2, p1, p2
=============================================================================
