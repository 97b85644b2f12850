---------------------------- MODULE SettingsForm -----------------------------
(***************************************************************************)
(* The Settings window (settings.SettingsDialog).  One set of widgets, the *)
(* form, shows one row of the list at a time; what it holds is written back *)
(* into the row whose identity is "current" whenever a checked field       *)
(* changes, another row is selected, or a row is added or copied.  GTK     *)
(* emits the same signals for values the program sets as for the user's.   *)
(* Texts are abstracted to whether they are acceptable.                    *)
(***************************************************************************)
EXTENDS Naturals, Sequences, FiniteSets, SequencesExt

CONSTANTS RawLists,  \* the lists a configuration file may contain
          Rests,     \* contents of the fields that are not validated
          MaxRows,   \* bound: rows of the list
          MaxEdits   \* bound: edits, additions, copies, choices and reloads

ASSUME RestsAssumption == Rests # {}

NoId == <<>>        \* the empty identity

Hosts == {"ok", "bad"}
Gateways == {"none", "ok", "bad"}
Protocols == {"rdp", "vnc"}
Ports == {3389, 5900}

Data == [name : {"given", "blank"}, host : Hosts, gateway : Gateways,
         protocol : Protocols, port : Ports, rest : Rests]

VARIABLES cfg,        \* [conns, auto]: ThinClient.cfg
          open,       \* a SettingsDialog exists
          conns,      \* result["connections"]: a sequence of [id, data]
          current,    \* identity of the row the form writes to
          form,       \* contents of the widgets
          sensitive,  \* the form accepts input
          saveable,   \* the Save button accepts input
          auto,       \* the "At start-up" box
          edits       \* bound: changes so far

vars == <<cfg, open, conns, current, form, sensitive, saveable, auto, edits>>

-----------------------------------------------------------------------------
\* "conn<n>" for base NoId, "<base>-copy<n>" otherwise.
Named(base, n) == <<base, n>>

Ids(cs) == {cs[i].id : i \in DOMAIN cs}

ASSUME RawAssumption == \A raw \in RawLists : raw \in Seq([id : Ids(raw), data : Data])

\* The first name of the base that is not taken, counting from "from".
FreshNumber(base, from, taken) ==
  CHOOSE n \in from..(from + Cardinality(taken)) :
    /\ Named(base, n) \notin taken
    /\ \A m \in from..(n - 1) : Named(base, m) \in taken

CountedBug(base, taken) == Named(base, Cardinality(taken) + 1)
Fresh(base, taken) == Named(base, FreshNumber(base, 1, taken))

\* Loading a list keeps the first row of every identity and renames the others.
Keep(acc, row) == [acc EXCEPT !.rows = Append(@, row), !.used = @ \cup {row.id}]

Rename(acc, row, reserved) ==
  LET n == FreshNumber(NoId, acc.next, reserved \cup acc.used)
  IN  [Keep(acc, [row EXCEPT !.id = Named(NoId, n)]) EXCEPT !.next = n + 1]

Take(acc, row, reserved) ==
  IF row.id # NoId /\ row.id \notin acc.used THEN Keep(acc, row) ELSE Rename(acc, row, reserved)

\* What the loop has made of the first n rows.
ReadTo(raw, n) ==
  LET read[k \in 0..n] ==
        IF k = 0 THEN [rows |-> <<>>, used |-> {}, next |-> 1]
        ELSE Take(read[k - 1], raw[k], Ids(raw) \ {NoId})
  IN  read[n]

Assigned(raw) == ReadTo(raw, Len(raw)).rows

\* The configurations load() returns: a start-up row that is missing is forgotten.
Loaded ==
  {c \in [conns : {Assigned(raw) : raw \in RawLists},
          auto : UNION {Ids(Assigned(raw)) : raw \in RawLists} \cup {NoId}] :
     c.auto \in Ids(c.conns) \cup {NoId}}

-----------------------------------------------------------------------------
\* _connection_error: a gateway only counts for RDP.
Valid(d) == d.name = "given" /\ d.host = "ok" /\ (d.protocol = "rdp" => d.gateway # "bad")

FirstRowBug(cs) == cs = <<>> \/ Valid(cs[1].data)

AllValid(cs) == \A i \in DOMAIN cs : Valid(cs[i].data)

New == [name |-> "given", host |-> "bad", gateway |-> "none",
        protocol |-> "rdp", port |-> 3389, rest |-> CHOOSE r \in Rests : TRUE]

Index(cs, id) == CHOOSE i \in DOMAIN cs : cs[i].id = id

DataOf(cs, id) == cs[Index(cs, id)].data

First(cs) == IF cs = <<>> THEN NoId ELSE cs[1].id

\* _store_form: the widgets' contents f go into the current row.
StoredWith(f) ==
  [i \in DOMAIN conns |->
     IF conns[i].id = current THEN [conns[i] EXCEPT !.data = f] ELSE conns[i]]

Stored == StoredWith(form)

\* A switch of protocol takes the port along when it is the default of the other.
PortFor(protocol, port) ==
  CASE protocol = "vnc" /\ port = 3389 -> 5900
    [] protocol = "rdp" /\ port = 5900 -> 3389
    [] OTHER -> port

\* _load_form under the _loading_form flag: the signals the widgets emit while
\* they are filled neither store them nor touch the port.
SignalsBug(old, d) ==
  IF old.protocol # d.protocol THEN [d EXCEPT !.port = PortFor(d.protocol, @)] ELSE d

Populated(old, d) == d

\* The list cs with row id selected, or none.  A form without a row is greyed.
Show(cs, id) ==
  /\ conns' = cs
  /\ current' = id
  /\ sensitive' = (id # NoId)
  /\ form' = IF id = NoId THEN form ELSE Populated(form, DataOf(cs, id))
  /\ saveable' = AllValid(cs)

Counted == edits < MaxEdits /\ edits' = edits + 1

Closed ==
  /\ open = FALSE /\ conns = <<>> /\ current = NoId /\ form = New
  /\ sensitive = FALSE /\ saveable = FALSE /\ auto = NoId

Close ==
  /\ open' = FALSE /\ conns' = <<>> /\ current' = NoId /\ form' = New
  /\ sensitive' = FALSE /\ saveable' = FALSE /\ auto' = NoId

Init == Closed /\ cfg \in Loaded /\ edits = 0

\* The window works on a copy.  An empty list leaves the form open for input.
OpenSettings ==
  /\ ~open /\ open' = TRUE
  /\ conns' = cfg.conns /\ current' = First(cfg.conns)
  /\ sensitive' = TRUE
  /\ form' = IF cfg.conns = <<>> THEN New ELSE Populated(New, cfg.conns[1].data)
  /\ saveable' = AllValid(cfg.conns)
  /\ auto' = cfg.auto
  /\ UNCHANGED <<cfg, edits>>

\* A click on a row, or a Ctrl-click on the selected one.
SelectRow(id) ==
  /\ open /\ id # current
  /\ Show(Stored, id)
  /\ UNCHANGED <<cfg, open, auto, edits>>

\* A change of a widget whose signal stores and validates.
Changed(f) ==
  /\ open /\ sensitive /\ f # form /\ Counted
  /\ form' = f
  /\ conns' = StoredWith(f)
  /\ saveable' = AllValid(conns')
  /\ UNCHANGED <<cfg, open, current, sensitive, auto>>

EditChecked ==
  \/ \E n \in {"given", "blank"} : Changed([form EXCEPT !.name = n])
  \/ \E h \in Hosts : Changed([form EXCEPT !.host = h])
  \/ \E p \in Ports : Changed([form EXCEPT !.port = p])
  \/ form.protocol = "rdp" /\ \E g \in Gateways : Changed([form EXCEPT !.gateway = g])

\* The other fields stay in the form until something stores it.
EditOther(r) ==
  /\ open /\ sensitive /\ r # form.rest /\ Counted
  /\ form' = [form EXCEPT !.rest = r]
  /\ UNCHANGED <<cfg, open, conns, current, sensitive, saveable, auto>>

ChooseProtocol(p) ==
  /\ p # form.protocol
  /\ Changed([form EXCEPT !.protocol = p, !.port = PortFor(p, form.port)])

AddShown(row) ==
  /\ open /\ Len(conns) < MaxRows /\ Counted
  /\ Show(Append(Stored, row), row.id)
  /\ UNCHANGED <<cfg, open, auto>>

AddRow == AddShown([id |-> Fresh(NoId, Ids(conns)), data |-> New])

\* The copy's display name gets a suffix, so it is never blank.
CopyRow ==
  /\ current # NoId
  /\ AddShown([id |-> Fresh(current, Ids(conns)), data |-> [form EXCEPT !.name = "given"]])

\* The row goes with whatever the form holds; the first one left is shown.
RemoveRow ==
  /\ open /\ current # NoId /\ Counted
  /\ LET left == RemoveAt(conns, Index(conns, current))
     IN  Show(left, First(left))
  /\ auto' = IF auto = current THEN NoId ELSE auto
  /\ UNCHANGED <<cfg, open>>

ChooseAuto(id) ==
  /\ open /\ id # auto /\ Counted
  /\ auto' = id
  /\ UNCHANGED <<cfg, open, conns, current, form, sensitive, saveable>>

\* Save: the window's result becomes the manager's configuration.
Accept ==
  /\ open /\ saveable
  /\ cfg' = [conns |-> Stored, auto |-> auto]
  /\ Close
  /\ UNCHANGED edits

Cancel == open /\ Close /\ UNCHANGED <<cfg, edits>>

\* The manager loads another configuration, below the window or without it.
Reload(c) ==
  /\ c # cfg /\ Counted
  /\ cfg' = c
  /\ UNCHANGED <<open, conns, current, form, sensitive, saveable, auto>>

Next ==
  \/ OpenSettings \/ Accept \/ Cancel
  \/ \E id \in Ids(conns) \cup {NoId} : SelectRow(id) \/ ChooseAuto(id)
  \/ EditChecked
  \/ \E r \in Rests : EditOther(r)
  \/ \E p \in Protocols : ChooseProtocol(p)
  \/ AddRow \/ CopyRow \/ RemoveRow
  \/ \E c \in Loaded : Reload(c)

Spec == Init /\ [][Next]_vars
=============================================================================
