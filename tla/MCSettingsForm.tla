--------------------------- MODULE MCSettingsForm ----------------------------
(* Model values for TLC's runs of SettingsForm. *)
EXTENDS SettingsFormProps

CONSTANTS a, plain, custom

Good == [New EXCEPT !.host = "ok"]

\* No list; a row that must be named, before one that holds "conn1" already and a
\* second of that name; a VNC row on RDP's port and one whose gateway cannot be.
MCRawLists ==
  {<<>>,
   <<[id |-> NoId, data |-> Good],
     [id |-> Named(NoId, 1), data |-> [Good EXCEPT !.gateway = "bad"]]>>,
   <<[id |-> a, data |-> [Good EXCEPT !.protocol = "vnc", !.rest = custom]],
     [id |-> a, data |-> [New EXCEPT !.protocol = "vnc", !.gateway = "bad"]]>>}

\* Every list of up to four rows, named, unnamed or named alike.
ASSUME WellAssignedAssumption ==
  LET names == {NoId, a, Named(NoId, 1), Named(NoId, 2), Named(a, 1)}
  IN  \A n \in 0..4 : \A ids \in [1..n -> names] :
        WellAssigned([i \in 1..n |-> [id |-> ids[i], data |-> Good]])
=============================================================================
