--------------------------- MODULE NetworkDialog -----------------------------
(***************************************************************************)
(* The Network window (settings.NetworkDialog): one background job at a     *)
(* time reads the devices, applies wired settings or joins Wi-Fi, a second  *)
(* worker tests a connection.  Closing the window stops neither: a window   *)
(* opened later works beside the jobs of the one before.  NetworkManager is *)
(* one wired device with one profile and one Wi-Fi device.                  *)
(***************************************************************************)
EXTENDS NetworkReport

CONSTANTS
  Settings,     \* what the wired page can ask for, and NetworkManager can refuse
  Networks,     \* names of Wi-Fi networks
  Off,          \* a device that is not connected
  Reach,        \* what is true of the first connection's server on a wired network
  Targets,      \* the connections that can be tested
  MaxWindows, MaxPresses, MaxFaults

ASSUME BoundAssumption == MaxWindows \in Nat
ASSUME OffAssumption == Off \notin Settings \cup Networks
ASSUME ReachAssumption == Reach \in [Settings \cup {Off} -> Condition] /\ Targets \subseteq Target

VARIABLES
  profile, active, wifi,                         \* NetworkManager
  open, window, page, device, message, job,      \* the window and its device job
  testing, test, shown,                          \* its network test
  disturbed, presses, faults                     \* history and bounds

network == <<profile, active, wifi>>
dialog  == <<open, window, page, device>>
tester  == <<testing, test, shown>>
vars == <<network, dialog, message, job, tester, disturbed, presses, faults>>

Windows == 1..MaxWindows

Idle == [kind |-> "none", at |-> "idle", want |-> Off, before |-> Off, result |-> "none"]
Untested == [at |-> "idle", target |-> CHOOSE t \in Target : TRUE, found |-> Unknown, seen |-> {},
             unable |-> {}]
Nothing == [rows |-> Rows(Unknown), target |-> Untested.target, seen |-> {}, unable |-> {}]

Init ==
  /\ profile \in Settings /\ active \in {profile, Off} /\ wifi = Off
  /\ open = FALSE /\ window = 0 /\ page = "none" /\ device = FALSE /\ message = "none"
  /\ job = [w \in Windows |-> Idle]
  /\ testing = FALSE /\ test = [w \in Windows |-> Untested] /\ shown = Nothing
  /\ disturbed = {} /\ presses = 0 /\ faults = 0

-----------------------------------------------------------------------------
\* The window's one job (uijobs.BackgroundJob through _network_operation).
Busy(w) == job[w].at # "idle"

First == [read |-> "read", apply |-> "show", scan |-> "scan", join |-> "join"]

\* Refused while one runs; a thread that cannot start is reported at once.
Start(w, kind, want) ==
  /\ \/ /\ job' = [job EXCEPT ![w] = [kind |-> kind, at |-> First[kind], want |-> want,
                                      before |-> profile, result |-> "none"]]
        /\ message' = "working" /\ disturbed' = disturbed \ {w} /\ UNCHANGED faults
     \/ /\ faults < MaxFaults /\ faults' = faults + 1
        /\ message' = "notStarted" /\ UNCHANGED <<job, disturbed>>

\* The network stays as it is, the work goes on or ends with a result.
GoOn(w, at) == job' = [job EXCEPT ![w].at = at] /\ UNCHANGED <<network, disturbed>>
Answer(w, result) == job' = [job EXCEPT ![w].at = "answer", ![w].result = result]
Say(w, result) == Answer(w, result) /\ UNCHANGED <<network, disturbed>>

\* A command of this window changed the network under every other worker.
Changed(w) ==
  /\ disturbed' = IF network' = network THEN disturbed ELSE disturbed \cup (Windows \ {w})
  /\ test' = [v \in Windows |->
                IF test[v].at = "idle" THEN test[v] ELSE [test[v] EXCEPT !.seen = @ \cup {active'}]]

\* A raised command (no time left, no process) has had this effect or none.
MayRaise(w, effect) ==
  /\ faults < MaxFaults /\ faults' = faults + 1
  /\ \E n \in {network, effect} : profile' = n[1] /\ active' = n[2] /\ wifi' = n[3]
  /\ Answer(w, "error")

Run(w, at) == job[w].at = at /\ UNCHANGED <<dialog, message, testing, shown, presses>>

\* _read_devices: a failure is a result like another, with no devices.
ReadDevices(w) ==
  /\ Run(w, "read") /\ UNCHANGED <<test, faults>>
  /\ Say(w, "refreshed") \/ Say(w, "unreadable")

\* No profile is named, because there is none or because nmcli fails: only what it
\* prints is looked at.
Unnamed == IF active = Off THEN UNCHANGED faults ELSE faults < MaxFaults /\ faults' = faults + 1
Named   == active # Off /\ UNCHANGED faults

\* _configure_wired asks for the profile of the device, and connects it if there is none.
ShowProfile(w) ==
  /\ Run(w, "show")
  /\ \/ Named /\ GoOn(w, "modify") /\ UNCHANGED test
     \/ Unnamed /\ GoOn(w, "connect") /\ UNCHANGED test
     \/ MayRaise(w, network) /\ Changed(w)

\* A device that is connected already may be left down by it.
ConnectDevice(w) ==
  /\ Run(w, "connect") /\ UNCHANGED <<profile, wifi>>
  /\ \/ active' = profile /\ job' = [job EXCEPT ![w].at = "showAgain"] /\ UNCHANGED faults
     \/ active' \in {active, Off} /\ Answer(w, "unconnected") /\ UNCHANGED faults
     \/ \E a \in {profile, Off} : MayRaise(w, <<profile, a, wifi>>)
  /\ Changed(w)

ShowAgain(w) ==
  /\ Run(w, "showAgain")
  /\ \/ Named /\ GoOn(w, "modify") /\ UNCHANGED test
     \/ Unnamed /\ Say(w, "unbound") /\ UNCHANGED test
     \/ MayRaise(w, network) /\ Changed(w)

ModifyProfile(w) ==
  /\ Run(w, "modify") /\ UNCHANGED <<active, wifi>>
  /\ \/ profile' = job[w].want /\ job' = [job EXCEPT ![w].at = "up"] /\ UNCHANGED faults
     \/ profile' = profile /\ Answer(w, "refused") /\ UNCHANGED faults
     \/ MayRaise(w, <<job[w].want, active, wifi>>)
  /\ Changed(w)

UncheckedBug(w, code) == "applied"
Activated(w, code) == IF code = 0 THEN "applied" ELSE "saved"

\* Activation fails before it starts, or takes the device down.
ActivateProfile(w) ==
  /\ Run(w, "up") /\ UNCHANGED <<profile, wifi>>
  /\ \/ active' = profile /\ Answer(w, Activated(w, 0)) /\ UNCHANGED faults
     \/ active' \in {active, Off} /\ Answer(w, Activated(w, 1)) /\ UNCHANGED faults
     \/ \E a \in {profile, Off} : MayRaise(w, <<profile, a, wifi>>)
  /\ Changed(w)

ScanWifi(w) ==
  /\ Run(w, "scan") /\ UNCHANGED <<test, faults>>
  /\ Say(w, "found") \/ Say(w, "error")

JoinNetwork(w) ==
  /\ Run(w, "join") /\ UNCHANGED <<profile, active>>
  /\ \/ wifi' = job[w].want /\ Answer(w, "joined") /\ UNCHANGED faults
     \/ wifi' \in {wifi, Off} /\ Answer(w, "unjoined") /\ UNCHANGED faults
     \/ \E n \in {job[w].want, Off} : MayRaise(w, <<profile, active, n>>)
  /\ Changed(w)

\* The list of devices is the one just read, empty if it could not be.
Listed(result) ==
  CASE result = "refreshed" -> {page = "all", FALSE}
    [] result = "unreadable" -> {FALSE}
    [] OTHER -> {device}

\* The GTK thread takes the answer; a closed window's is dropped.
Finish(w) ==
  /\ job[w].at = "answer"
  /\ IF open /\ w = window
     THEN /\ message' = job[w].result /\ device' \in Listed(job[w].result)
          /\ job' = [job EXCEPT ![w].at = "idle"]
     ELSE job' = [job EXCEPT ![w] = Idle] /\ UNCHANGED <<message, device>>
  /\ UNCHANGED <<network, open, window, page, tester, disturbed, presses, faults>>

-----------------------------------------------------------------------------
\* The network test, a thread of its own.
Watch(w) == UNCHANGED <<network, dialog, message, job, disturbed>>

\* _run_network_test: the button is off from the click to the answer, also when the
\* thread could not start.
RunTest ==
  /\ open /\ ~testing /\ presses < MaxPresses /\ presses' = presses + 1
  /\ testing' = TRUE
  /\ \/ /\ \E t \in Targets :
             test' = [test EXCEPT ![window] = [at |-> "local", target |-> t, found |-> Unknown,
                                               seen |-> {active}, unable |-> {}]]
        /\ UNCHANGED faults
     \/ faults < MaxFaults /\ faults' = faults + 1 /\ Targets # {} /\ UNCHANGED test
  /\ Watch(window) /\ UNCHANGED shown

\* The report is whole, of a target that does not normalise, or of an exception. A
\* check that fails counts as a fault.
Check(w) ==
  /\ test[w].at \in Steps
  /\ LET t == test[w].target
         c == Reach[active]
         Ends(report) == test' = [test EXCEPT ![w].at = "answer", ![w].found = report]
         Looks(fails, unable) ==
           test' = [test EXCEPT ![w].at = Following[@],
                                ![w].found = Look(test[w].at, t, Told(c, fails), @),
                                ![w].unable = @ \cup unable]
     IN  \/ t.valid /\ Looks(FALSE, {}) /\ UNCHANGED faults
         \/ t.valid /\ Looks(TRUE, Lines(test[w].at)) /\ faults < MaxFaults /\ faults' = faults + 1
         \/ ~t.valid /\ Ends(InvalidReport) /\ UNCHANGED faults
         \/ faults < MaxFaults /\ faults' = faults + 1 /\ Ends(Unknown)
  /\ Watch(w) /\ UNCHANGED <<testing, shown, presses>>

\* _finish_network_test: a closed window's report is dropped.
FinishTest(w) ==
  /\ test[w].at = "answer" /\ test' = [test EXCEPT ![w] = Untested]
  /\ IF open /\ w = window
     THEN /\ testing' = FALSE
          /\ shown' = [rows |-> Rows(test[w].found), target |-> test[w].target,
                       seen |-> test[w].seen, unable |-> test[w].unable]
     ELSE UNCHANGED <<testing, shown>>
  /\ Watch(w) /\ UNCHANGED <<presses, faults>>

-----------------------------------------------------------------------------
\* The administrator.  The whole window, or the test page alone for everyone; it
\* reads the devices at once.
Open ==
  /\ ~open /\ window < MaxWindows /\ open' = TRUE /\ window' = window + 1
  /\ page' \in {"all", "test"}
  /\ Start(window + 1, "read", Off)
  /\ UNCHANGED <<network, device, tester, presses>>

Press(kind, want) ==
  /\ open /\ ~Busy(window) /\ Start(window, kind, want)
  /\ presses < MaxPresses /\ presses' = presses + 1
  /\ UNCHANGED <<network, dialog, tester>>

Refresh    == page = "all" /\ Press("read", Off)
ApplyWired == page = "all" /\ device /\ \E s \in Settings : Press("apply", s)
Scan       == page = "all" /\ Press("scan", Off)
Join       == page = "all" /\ \E n \in Networks : Press("join", n)

\* The last report can be copied while a job runs.
CopyReport ==
  /\ open /\ ~testing /\ shown # Nothing /\ message' = "copied"
  /\ UNCHANGED <<network, dialog, job, tester, disturbed, presses, faults>>

Close ==
  /\ open /\ open' = FALSE /\ device' = FALSE /\ testing' = FALSE /\ message' = "none"
  /\ shown' = Nothing
  /\ job' = IF Busy(window) THEN job ELSE [job EXCEPT ![window] = Idle]
  /\ UNCHANGED <<network, window, page, test, disturbed, presses, faults>>

\* A cable that is pulled.
Unplug ==
  /\ faults < MaxFaults /\ faults' = faults + 1
  /\ active' = Off /\ UNCHANGED <<profile, wifi>> /\ Changed(0)
  /\ UNCHANGED <<dialog, message, job, testing, shown, presses>>

-----------------------------------------------------------------------------
Worker(w) ==
  \/ ReadDevices(w) \/ ShowProfile(w) \/ ConnectDevice(w) \/ ShowAgain(w)
  \/ ModifyProfile(w) \/ ActivateProfile(w) \/ ScanWifi(w) \/ JoinNetwork(w) \/ Finish(w)

Tester(w) == Check(w) \/ FinishTest(w)

Next ==
  \/ Open \/ Refresh \/ ApplyWired \/ Scan \/ Join \/ RunTest \/ CopyReport \/ Close \/ Unplug
  \/ \E w \in Windows : Worker(w) \/ Tester(w)

\* Commands have a time limit, and the GTK thread takes what is dispatched to it.
Fairness == \A w \in Windows : WF_vars(Worker(w)) /\ WF_vars(Tester(w))

Spec == Init /\ [][Next]_vars /\ Fairness
=============================================================================
