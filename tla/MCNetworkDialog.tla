-------------------------- MODULE MCNetworkDialog ----------------------------
(* Model values for TLC's runs of NetworkDialog. *)
EXTENDS NetworkDialogProps, TLC

CONSTANTS dhcp, static, cafe, off

All == [k \in Keys |-> TRUE]

\* The static address reaches the server's port but finds no names and the wrong service.
MCReach ==
  (dhcp :> All) @@ (static :> [All EXCEPT !["dns"] = FALSE, !["protocol"] = FALSE]) @@
  (off :> [k \in Keys |-> FALSE])

Plain == [valid |-> TRUE, literal |-> FALSE, gateway |-> FALSE]
MCTargets == {Plain, [Plain EXCEPT !.valid = FALSE],
              [Plain EXCEPT !.literal = TRUE, !.gateway = TRUE]}
=============================================================================
