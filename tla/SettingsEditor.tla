--------------------------- MODULE SettingsEditor ---------------------------
(***************************************************************************)
(* What the Settings window promises an administrator: a private draft of  *)
(* the connections, edited one field of the chosen row at a time, that     *)
(* replaces the configuration only when it is saved, and then all of it.   *)
(***************************************************************************)
EXTENDS Naturals, Sequences, SequencesExt

NoId == <<>>

VARIABLES cfg,     \* [conns, auto]: the configuration the manager uses
          open,    \* the window is open
          conns,   \* the draft's rows [id, data]
          auto,    \* the row the draft connects to at start-up, NoId: none
          chosen   \* the row being edited, NoId: none

vars == <<cfg, open, conns, auto, chosen>>

Ids(cs) == {cs[i].id : i \in DOMAIN cs}

First(cs) == IF cs = <<>> THEN NoId ELSE cs[1].id

Valid(d) == d.name = "given" /\ d.host = "ok" /\ (d.protocol = "rdp" => d.gateway # "bad")

Closed == open = FALSE /\ conns = <<>> /\ auto = NoId /\ chosen = NoId

Init == Closed /\ cfg.auto \in Ids(cfg.conns) \cup {NoId}

Begin ==
  /\ ~open /\ open' = TRUE
  /\ conns' = cfg.conns /\ auto' = cfg.auto /\ chosen' = First(cfg.conns)
  /\ UNCHANGED cfg

Choose ==
  /\ open /\ chosen' \in Ids(conns) \cup {NoId}
  /\ UNCHANGED <<cfg, open, conns, auto>>

\* One field, or the protocol together with the port that is its default.
Edited(d, e) ==
  \/ e = [d EXCEPT !.name = e.name]
  \/ e = [d EXCEPT !.host = e.host]
  \/ e = [d EXCEPT !.gateway = e.gateway]
  \/ e = [d EXCEPT !.port = e.port]
  \/ e = [d EXCEPT !.rest = e.rest]
  \/ /\ e = [d EXCEPT !.protocol = e.protocol, !.port = e.port]
     /\ e.port # d.port => <<d.port, e.port>> \in {<<3389, 5900>>, <<5900, 3389>>}

Edit ==
  /\ open /\ DOMAIN conns' = DOMAIN conns
  /\ \A i \in DOMAIN conns :
       IF conns[i].id = chosen
         THEN conns'[i].id = chosen /\ Edited(conns[i].data, conns'[i].data)
         ELSE conns'[i] = conns[i]
  /\ UNCHANGED <<cfg, open, auto, chosen>>

\* A row of its own at the end of the list, chosen for editing.
Appended ==
  LET row == conns'[Len(conns')]
  IN  /\ open
      /\ conns' # <<>> /\ conns' = Append(conns, row)
      /\ row.id \notin Ids(conns) \cup {NoId}
      /\ chosen' = row.id
      /\ UNCHANGED <<cfg, open, auto>>

\* A new row still has to be filled in.
Add == Appended /\ ~Valid(conns'[Len(conns')].data)

Copy ==
  /\ Appended
  /\ \E i \in DOMAIN conns :
       /\ conns[i].id = chosen
       /\ conns'[Len(conns')].data = [conns[i].data EXCEPT !.name = "given"]

RemoveRow ==
  /\ open
  /\ \E i \in DOMAIN conns : conns[i].id = chosen /\ conns' = RemoveAt(conns, i)
  /\ auto' = IF auto = chosen THEN NoId ELSE auto
  /\ chosen' = First(conns')
  /\ UNCHANGED <<cfg, open>>

ChooseAuto ==
  /\ open /\ auto' \in Ids(conns) \cup {NoId}
  /\ UNCHANGED <<cfg, open, conns, chosen>>

End == Closed'

Save ==
  /\ open /\ \A i \in DOMAIN conns : Valid(conns[i].data)
  /\ cfg' = [conns |-> conns, auto |-> auto]
  /\ End

Cancel == open /\ End /\ UNCHANGED cfg

\* The manager loads another configuration; the draft does not notice.
Reload ==
  /\ cfg'.auto \in Ids(cfg'.conns) \cup {NoId}
  /\ UNCHANGED <<open, conns, auto, chosen>>

Next ==
  \/ Begin \/ Choose \/ Edit \/ Add \/ Copy \/ RemoveRow \/ ChooseAuto
  \/ Save \/ Cancel \/ Reload

Spec == Init /\ [][Next]_vars
=============================================================================
