-------------------------- MODULE SessionLifecycle --------------------------
(***************************************************************************)
(* What the connection manager promises its user about sessions: one at a  *)
(* time, each started from the connection list and followed by a return to *)
(* it, never while its client still runs; settings change only at the      *)
(* list, or while the manager is down.  It may die at any point, with      *)
(* whatever session it has, and comes back at the list.                    *)
(***************************************************************************)
EXTENDS Naturals

VARIABLES up,        \* the manager process exists
          mode,      \* "list", "starting" (progress dialog), "running"
          clientUp,  \* the client of the current session runs
          applied    \* version of the configuration in use

vars == <<up, mode, clientUp, applied>>

Init == up = FALSE /\ mode = "list" /\ clientUp = FALSE /\ applied = 0

Begin == up /\ mode = "list" /\ mode' = "starting" /\ UNCHANGED <<up, clientUp, applied>>

ClientStarts ==
  /\ up /\ mode = "starting" /\ ~clientUp
  /\ clientUp' = TRUE
  /\ UNCHANGED <<up, mode, applied>>

Show == up /\ mode = "starting" /\ mode' = "running" /\ UNCHANGED <<up, clientUp, applied>>

ClientEnds == clientUp /\ clientUp' = FALSE /\ UNCHANGED <<up, mode, applied>>

\* Back at the list, with the settings that arrived during the session.
End ==
  /\ up /\ mode # "list" /\ ~clientUp
  /\ mode' = "list" /\ applied' \in Nat /\ applied' >= applied
  /\ UNCHANGED <<up, clientUp>>

Reload ==
  /\ up /\ mode = "list"
  /\ applied' \in Nat /\ applied' >= applied
  /\ UNCHANGED <<up, mode, clientUp>>

\* A client that outlives the manager belongs to no session any more.
Die == up /\ up' = FALSE /\ mode' = "list" /\ clientUp' = FALSE /\ UNCHANGED applied

Restart ==
  /\ ~up /\ up' = TRUE
  /\ applied' \in Nat /\ applied' >= applied
  /\ UNCHANGED <<mode, clientUp>>

Next == Begin \/ ClientStarts \/ Show \/ ClientEnds \/ End \/ Reload \/ Die \/ Restart

Spec == Init /\ [][Next]_vars
=============================================================================
