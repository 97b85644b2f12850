------------------------- MODULE NetworkDialogProps --------------------------
(* What the Network window tells its reader, and that it answers. *)
EXTENDS NetworkDialog

\* Jobs, workers and the network stay in their domains.
TypeOK ==
  /\ profile \in Settings /\ active \in Settings \cup {Off} /\ wifi \in Networks \cup {Off}
  /\ {open, device, testing} \subseteq BOOLEAN /\ window \in 0..MaxWindows
  /\ \A w \in Windows :
       /\ job[w].want \in Settings \cup Networks \cup {Off} /\ job[w].before \in Settings \cup {Off}
       /\ test[w].at \in Steps \cup {"idle", "answer"} /\ test[w].seen \subseteq Settings \cup {Off}

\* Unless another worker or a pulled cable changed the network since the job began,
\* the sentence under it is true: settings said to be applied are stored and in use,
\* those said to be saved are stored, and a refusal left the profile as it was.
MessageTellsTruth ==
  open /\ ~Busy(window) /\ window \notin disturbed =>
    LET j == job[window]
    IN  /\ message = "applied" => profile = j.want /\ active = j.want
        /\ message = "saved" => profile = j.want
        /\ message \in {"refused", "unconnected", "unbound"} => profile = j.before
        /\ message = "joined" => wifi = j.want

Holds(k, t, c) == c[k] \/ (k = "dns" /\ t.literal)

\* Only a target that was looked at has a route line.
LookedAt(report) == report.rows["route"] # "skipped"

\* Every row shown is true of a network that was in use while the test ran, also if
\* it changed meanwhile: PASS of what was tried, FAILED of what does not work, hangs on
\* a name that was not found, or could not be looked at because the row's own command or
\* socket failed; and nothing is tried beyond what failed.
ReportIsTrue ==
  open /\ shown # Nothing =>
    LET r == shown.rows
        Saw(k, b) == \E n \in shown.seen : Holds(k, shown.target, Reach[n]) = b
    IN  /\ \A k \in DOMAIN r : r[k] = "ok" => Saw(k, TRUE)
        /\ LookedAt(shown) => \A k \in DOMAIN r : r[k] = "failed" =>
             Saw(k, FALSE) \/ k \in shown.unable \/ (k \in {"route", "tcp"} /\ r["dns"] = "failed")
        /\ "ok" \in {r["route"], r["tcp"]} => r["dns"] = "ok"
        /\ r["protocol"] \in {"ok", "failed"} => r["tcp"] = "ok" /\ ~shown.target.gateway

\* "Fail visibly, never freeze UI": a test that was asked for ends.
TestAnswered == testing ~> (~testing \/ ~open)
=============================================================================
