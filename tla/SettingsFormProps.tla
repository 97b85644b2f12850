-------------------------- MODULE SettingsFormProps --------------------------
(* What the Settings window must guarantee about the administrator's draft. *)
EXTENDS SettingsForm

\* Rows with an identity of their own.
IsList(cs) == cs \in Seq([id : Ids(cs), data : Data])

Distinct(cs) ==
  /\ NoId \notin Ids(cs)
  /\ \A i, j \in DOMAIN cs : cs[i].id = cs[j].id => i = j

\* "Keep the first explicit ID": loading renames exactly the rows that bring none or
\* one that an earlier row has, and gives them names that no row of the file brings.
WellAssigned(raw) ==
  LET got == Assigned(raw)
  IN  /\ Distinct(got) /\ DOMAIN got = DOMAIN raw
      /\ \A i \in DOMAIN raw :
           IF raw[i].id \in {NoId} \cup {raw[j].id : j \in 1..(i - 1)}
             THEN got[i].data = raw[i].data /\ got[i].id \notin Ids(raw)
             ELSE got[i] = raw[i]

\* Widgets, rows and bounds stay in their domains.
TypeOK ==
  /\ {open, sensitive, saveable} \subseteq BOOLEAN
  /\ IsList(conns) /\ Len(conns) <= MaxRows
  /\ current \in Ids(conns) \cup {NoId} /\ form \in Data
  /\ edits \in 0..MaxEdits

\* Every row has an identity of its own, whatever was loaded, added, copied and
\* removed, and the start-up choice of the draft and of the configuration is one
\* of their rows or none ("_refresh_auto_connect").
RowsAreSound ==
  /\ Distinct(conns) /\ auto \in Ids(conns) \cup {NoId}
  /\ Distinct(cfg.conns) /\ cfg.auto \in Ids(cfg.conns) \cup {NoId}

\* Save can be pressed exactly when every row, the one in the form with what the
\* form holds, could be connected to; whichever row is shown.
SaveTellsTruth == open => (saveable <=> \A i \in DOMAIN conns : Valid(Stored[i].data))

\* The draft an administrator sees: the row in the form counts as the form shows it.
Editor == INSTANCE SettingsEditor WITH conns <- Stored, chosen <- current

\* Each step changes one field of the chosen row and of no other, whichever
\* widgets emitted signals; Save hands over what was shown, Cancel nothing.
ImplementsEditor == Editor!Spec

=============================================================================
