--------------------------- MODULE NetworkReport -----------------------------
(***************************************************************************)
(* The network test's report (networkdiag.run_preflight) and the rows the  *)
(* window makes of it (uxstate.parse_network_report).  A target is what the *)
(* test is told of a connection, a condition what is true of the network   *)
(* for it, a report maps the keys of its lines to what they say. A check    *)
(* finds what is true, or nothing: its command fails, hangs or prints what *)
(* cannot be read, or a socket times out.  The ping is informational and    *)
(* no row depends on it: it is left out.                                   *)
(***************************************************************************)
EXTENDS Naturals, FiniteSets

Target == [valid : BOOLEAN, literal : BOOLEAN, gateway : BOOLEAN]

Keys == {"local", "gateway", "dns", "route", "tcp", "protocol"}

\* There is an address, a gateway, the name; and, for the addresses the target resolves
\* to, or is, and its port: a route, who answers, and the service that is expected.
Condition == [Keys -> BOOLEAN]

\* What a check is told of the network, which is nothing if it fails.
Told(c, fails) == [k \in Keys |-> c[k] /\ ~fails]

Verdict(ok) == IF ok THEN "OK" ELSE "FAILED"

\* check_local_network: both lines at once, a value or the words that there is none.
Local(c, found) == [found EXCEPT !["local"] = IF c["local"] THEN "value" ELSE "none",
                                 !["gateway"] = IF c["gateway"] THEN "value" ELSE "none"]

\* check_dns: an address needs no lookup.
Dns(t, c, found) == [found EXCEPT !["dns"] = Verdict(t.literal \/ c["dns"])]

\* check_route, check_tcp: what was not resolved is reported as failed.
Route(c, found) == [found EXCEPT !["route"] = Verdict(found["dns"] = "OK" /\ c["route"])]

UnresolvedBug(c, found) == [found EXCEPT !["tcp"] = Verdict(c["tcp"])]
Tcp(c, found) == [found EXCEPT !["tcp"] = Verdict(found["dns"] = "OK" /\ c["tcp"])]

\* check_protocol: behind an RD Gateway the private service is not tried.
Protocol(t, c, found) ==
  [found EXCEPT !["protocol"] = IF found["tcp"] # "OK" \/ t.gateway THEN "SKIPPED"
                                ELSE Verdict(c["protocol"])]

Unknown == [k \in Keys |-> "absent"]

\* A target that does not normalise: nothing is looked at, and neither the route nor
\* the protocol has a line.
InvalidReport ==
  [Unknown EXCEPT !["local"] = "none", !["gateway"] = "none", !["dns"] = "FAILED",
                  !["tcp"] = "FAILED"]

Steps == {"local", "dns", "route", "tcp", "protocol"}

Following == [local |-> "dns", dns |-> "route", route |-> "tcp", tcp |-> "protocol",
              protocol |-> "answer"]

\* The lines a check writes: parse_local_network needs both of its commands for either.
Lines(step) == IF step = "local" THEN {"local", "gateway"} ELSE {step}

\* One check, with what it is told and what was found before it.
Look(step, t, c, found) ==
  CASE step = "local"    -> Local(c, found)
    [] step = "dns"      -> Dns(t, c, found)
    [] step = "route"    -> Route(c, found)
    [] step = "tcp"      -> Tcp(c, found)
    [] step = "protocol" -> Protocol(t, c, found)

-----------------------------------------------------------------------------
\* _outcome: what a line's first word means to the reader.
Outcome(word) == CASE word = "OK" -> "ok" [] word = "FAILED" -> "failed"
                   [] word = "SKIPPED" -> "skipped" [] OTHER -> "info"

\* A line that is missing: the network row fails, a check was skipped, and there is
\* no row of a handshake.
Row(k, word) ==
  CASE k \in {"local", "gateway"} -> IF word = "value" THEN "ok" ELSE "failed"
    [] k = "protocol" /\ word = "absent" -> "none"
    [] OTHER -> IF word = "absent" THEN "skipped" ELSE Outcome(word)

Rows(report) == [k \in Keys |-> Row(k, report[k])]
=============================================================================
