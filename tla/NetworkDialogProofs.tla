------------------------ MODULE NetworkDialogProofs --------------------------
(***************************************************************************)
(* TLAPS proofs about NetworkDialog, for every value of its constants.      *)
(***************************************************************************)
EXTENDS NetworkDialogProps, TLAPS

(***************************************************************************)
(* The inductive invariant of the device jobs. A job that nothing disturbed *)
(* knows what its own commands have made of the network, and the window    *)
(* only ever repeats what the job it has finished says.                    *)
(***************************************************************************)
Applying == {"show", "connect", "showAgain", "modify", "up"}
Stages == Applying \cup {"idle", "answer", "read", "scan", "join"}
Claims == {"applied", "saved", "refused", "unconnected", "unbound", "joined"}
Results == Claims \cup {"none", "refreshed", "unreadable", "error", "found", "unjoined"}
Messages == Results \cup {"working", "notStarted", "copied"}
Wanted == Settings \cup Networks \cup {Off}

JobTypes ==
  /\ profile \in Settings /\ active \in Settings \cup {Off} /\ wifi \in Networks \cup {Off}
  /\ window \in 0..MaxWindows /\ (open => window \in Windows) /\ message \in Messages
  /\ {open, device, testing} \subseteq BOOLEAN
  /\ job \in [Windows -> [kind : {"none", "read", "apply", "scan", "join"}, at : Stages,
                          want : Wanted, before : Settings \cup {Off}, result : Results]]
  /\ \A w \in Windows : /\ job[w].at \in Applying => job[w].want \in Settings
                        /\ job[w].at = "join" => job[w].want \in Networks

JobKnows(w) ==
  LET j == job[w]
  IN  /\ j.at \in {"show", "connect", "showAgain", "modify"} => profile = j.before
      /\ j.at = "up" => profile = j.want
      /\ j.at \in {"answer", "idle"} =>
           /\ j.result = "applied" => profile = j.want /\ active = j.want
           /\ j.result = "saved" => profile = j.want
           /\ j.result \in {"refused", "unconnected", "unbound"} => profile = j.before
           /\ j.result = "joined" => wifi = j.want

WindowRepeats ==
  open /\ message \in Claims => ~Busy(window) /\ message = job[window].result

JobInv ==
  /\ JobTypes /\ WindowRepeats
  /\ \A w \in Windows : w \notin disturbed => JobKnows(w)
-----------------------------------------------------------------------------
LEMMA JobInit == Init => JobInv
<1>1. SUFFICES ASSUME Init PROVE JobInv
  OBVIOUS
<1>2. JobTypes
  <2>1. /\ profile \in Settings /\ active \in Settings \cup {Off} /\ wifi \in Networks \cup {Off}
        /\ open = FALSE /\ device = FALSE /\ testing = FALSE /\ message \in Messages
    BY <1>1 DEF Init, Messages, Results
  <2>2. window \in 0..MaxWindows
    BY <1>1, BoundAssumption DEF Init
  <2>3. Idle \in [kind : {"none", "read", "apply", "scan", "join"}, at : Stages,
                  want : Wanted, before : Settings \cup {Off}, result : Results]
    BY DEF Idle, Stages, Wanted, Results
  <2>4. job = [w \in Windows |-> Idle] /\ Idle.at = "idle"
    BY <1>1 DEF Init, Idle
  <2>5. QED
    BY <2>1, <2>2, <2>3, <2>4 DEF JobTypes, Applying
<1>3. WindowRepeats /\ \A w \in Windows : JobKnows(w)
  BY <1>1 DEF Init, WindowRepeats, JobKnows, Idle
<1>4. QED
  BY <1>2, <1>3 DEF JobInv

\* A job that does not move still knows, or was disturbed.
LEMMA OthersKnow ==
  ASSUME JobInv, NEW w, NEW v \in Windows \ {w}, job'[v] = job[v],
         UNCHANGED <<network, disturbed>> \/ Changed(w), v \notin disturbed'
  PROVE  JobKnows(v)'
<1>1. network' = network /\ v \notin disturbed
  BY DEF Changed
<1>2. JobKnows(v) /\ UNCHANGED <<profile, active, wifi>>
  BY <1>1 DEF JobInv, network
<1>3. QED
  BY <1>2 DEF JobKnows

\* A command of a worker: it stays with its window's job and says nothing itself.
LEMMA CommandsKnow ==
  ASSUME JobInv, NEW w \in Windows, NEW j,
         job[w].at \notin {"idle", "answer"}, job' = [job EXCEPT ![w] = j],
         j \in [kind : {"none", "read", "apply", "scan", "join"}, at : Stages \ {"idle"},
                want : Wanted, before : Settings \cup {Off}, result : Results],
         j.at \in Applying => j.want \in Settings, j.at = "join" => j.want \in Networks,
         UNCHANGED <<dialog, message, testing>>,
         UNCHANGED <<network, disturbed>> \/ Changed(w),
         profile' \in Settings, active' \in Settings \cup {Off}, wifi' \in Networks \cup {Off},
         w \notin disturbed' => JobKnows(w)'
  PROVE  JobInv'
<1>1. JobTypes /\ job'[w] = j /\ \A v \in Windows \ {w} : job'[v] = job[v]
  BY DEF JobInv, JobTypes
<1>2. UNCHANGED <<open, window, message, device, testing>>
  BY DEF dialog
<1>3. JobTypes'
  BY <1>1, <1>2 DEF JobTypes
<1>4. \A v \in Windows \ {w} : v \notin disturbed' => JobKnows(v)'
  BY <1>1, OthersKnow
<1>5. WindowRepeats'
  BY <1>1, <1>2 DEF JobInv, JobTypes, WindowRepeats, Busy
<1>6. QED
  BY <1>3, <1>4, <1>5 DEF JobInv

\* A command that raised had its effect or none.
LEMMA RaiseLeaves ==
  ASSUME NEW w, NEW p, NEW a, NEW f, MayRaise(w, <<p, a, f>>)
  PROVE  /\ profile' \in {profile, p} /\ active' \in {active, a} /\ wifi' \in {wifi, f}
         /\ Answer(w, "error")
<1>1. PICK n \in {network, <<p, a, f>>} : profile' = n[1] /\ active' = n[2] /\ wifi' = n[3]
  BY DEF MayRaise
<1>2. network[1] = profile /\ network[2] = active /\ network[3] = wifi
  BY DEF network
<1>3. <<p, a, f>>[1] = p /\ <<p, a, f>>[2] = a /\ <<p, a, f>>[3] = f
  OBVIOUS
<1>4. QED
  BY <1>1, <1>2, <1>3 DEF MayRaise

LEMMA WorkersKnow ==
  ASSUME JobInv, NEW w \in Windows,
         \/ ReadDevices(w) \/ ShowProfile(w) \/ ConnectDevice(w) \/ ShowAgain(w)
         \/ ModifyProfile(w) \/ ActivateProfile(w) \/ ScanWifi(w) \/ JoinNetwork(w)
  PROVE  JobInv'
<1> DEFINE Job == [kind : {"none", "read", "apply", "scan", "join"}, at : Stages \ {"idle"},
                   want : Wanted, before : Settings \cup {Off}, result : Results]
           Goes(at) == [job[w] EXCEPT !.at = at]
           Says(result) == [job[w] EXCEPT !.at = "answer", !.result = result]
<1>1. /\ job \in [Windows -> [kind : {"none", "read", "apply", "scan", "join"}, at : Stages,
                          want : Wanted, before : Settings \cup {Off}, result : Results]]
      /\ profile \in Settings /\ active \in Settings \cup {Off} /\ wifi \in Networks \cup {Off}
      /\ job[w].at \in Applying => job[w].want \in Settings
      /\ job[w].at = "join" => job[w].want \in Networks
      /\ w \notin disturbed => JobKnows(w)
  BY DEF JobInv, JobTypes
<1>2. \A at \in Stages \ {"idle"} : Goes(at) \in Job
  BY <1>1
<1>3. \A result \in Results : Says(result) \in Job /\ Says(result).at = "answer"
  BY <1>1 DEF Stages
<1>4. CASE ReadDevices(w) \/ ScanWifi(w)
  <2>1. PICK result \in {"refreshed", "unreadable", "found", "error"} : Say(w, result)
    BY <1>4 DEF ReadDevices, ScanWifi
  <2>2. /\ job' = [job EXCEPT ![w] = Says(result)] /\ UNCHANGED <<network, disturbed>>
        /\ UNCHANGED <<profile, active, wifi>>
    BY <1>1, <2>1 DEF Say, Answer, network
  <2>3. JobKnows(w)'
    BY <1>1, <2>2 DEF JobKnows
  <2>4. /\ job[w].at \notin {"idle", "answer"} /\ UNCHANGED <<dialog, message, testing>>
    BY <1>4 DEF ReadDevices, ScanWifi, Run
  <2>5. Says(result) \in Job /\ Says(result).at = "answer"
    BY <1>3 DEF Results
  <2>6. QED
    BY <1>1, <2>2, <2>3, <2>4, <2>5, CommandsKnow DEF Applying
<1>5. ASSUME job' = [job EXCEPT ![w] = Says("error")], job[w].at \notin {"idle", "answer"},
             UNCHANGED <<dialog, message, testing>>, Changed(w),
             profile' \in Settings, active' \in Settings \cup {Off}, wifi' \in Networks \cup {Off}
      PROVE  JobInv'
  <2>1. Says("error") \in Job /\ Says("error").at = "answer"
    BY <1>3 DEF Results
  <2>2. JobKnows(w)'
    BY <1>1, <1>5 DEF JobKnows
  <2>3. QED
    BY <1>5, <2>1, <2>2, CommandsKnow DEF Applying
<1>6. CASE ShowProfile(w)
  <2>1. /\ job[w].at = "show" /\ UNCHANGED <<dialog, message, testing>>
        /\ profile = job[w].before \/ w \in disturbed
    BY <1>1, <1>6 DEF ShowProfile, Run, JobKnows
  <2>2. CASE \E at \in {"connect", "modify"} : GoOn(w, at)
    <3>1. PICK at \in {"connect", "modify"} : GoOn(w, at)
      BY <2>2
    <3>2. /\ job' = [job EXCEPT ![w] = Goes(at)] /\ UNCHANGED <<network, disturbed>>
          /\ UNCHANGED <<profile, active, wifi>>
      BY <1>1, <3>1 DEF GoOn, network
    <3>3. Goes(at) \in Job /\ Goes(at).at = at /\ Goes(at).want \in Settings
      BY <1>1, <1>2, <2>1 DEF Stages, Applying
    <3>4. w \notin disturbed => JobKnows(w)'
      BY <1>1, <2>1, <3>2, <3>3 DEF JobKnows
    <3>5. QED
      BY <1>1, <2>1, <3>2, <3>3, <3>4, CommandsKnow DEF Applying
  <2>3. CASE MayRaise(w, network) /\ Changed(w)
    <3>1. /\ UNCHANGED <<profile, active, wifi>> /\ Answer(w, "error")
      BY <2>3, RaiseLeaves DEF network
    <3>2. job' = [job EXCEPT ![w] = Says("error")]
      BY <1>1, <3>1 DEF Answer
    <3>3. QED
      BY <1>1, <1>5, <2>1, <2>3, <3>1, <3>2
  <2>4. QED
    BY <1>6, <2>2, <2>3 DEF ShowProfile
<1>7. CASE ConnectDevice(w)
  <2>1. /\ job[w].at = "connect" /\ UNCHANGED <<dialog, message, testing, profile, wifi>> /\ Changed(w)
        /\ job[w].want \in Settings /\ (profile = job[w].before \/ w \in disturbed)
    BY <1>1, <1>7 DEF ConnectDevice, Run, JobKnows, Applying
  <2>2. /\ active' \in Settings \cup {Off}
        /\ \/ job' = [job EXCEPT ![w] = Goes("showAgain")] \/ job' = [job EXCEPT ![w] = Says("unconnected")]
           \/ job' = [job EXCEPT ![w] = Says("error")]
    <3>1. ASSUME NEW a \in {profile, Off}, MayRaise(w, <<profile, a, wifi>>)
          PROVE  active' \in Settings \cup {Off} /\ job' = [job EXCEPT ![w] = Says("error")]
      <4>1. active' \in {active, a} /\ Answer(w, "error")
        BY <3>1, RaiseLeaves
      <4>2. job' = [job EXCEPT ![w] = Says("error")]
        BY <1>1, <4>1 DEF Answer
      <4>3. QED
        BY <1>1, <4>1, <4>2
    <3>2. CASE ~\E a \in {profile, Off} : MayRaise(w, <<profile, a, wifi>>)
      BY <1>1, <1>7, <3>2 DEF ConnectDevice, Answer
    <3>3. QED
      BY <3>1, <3>2
  <2>3. CASE job' = [job EXCEPT ![w] = Goes("showAgain")]
    <3>1. Goes("showAgain") \in Job /\ Goes("showAgain").at = "showAgain" /\ Goes("showAgain").want \in Settings
      BY <1>1, <1>2, <2>1 DEF Stages, Applying
    <3>2. w \notin disturbed => JobKnows(w)'
      BY <1>1, <2>1, <2>3, <3>1 DEF JobKnows
    <3>3. w \notin disturbed' => JobKnows(w)'
      BY <2>1, <3>2 DEF Changed
    <3>4. QED
      BY <1>1, <2>1, <2>2, <2>3, <3>1, <3>3, CommandsKnow DEF Applying
  <2>4. CASE job' = [job EXCEPT ![w] = Says("unconnected")]
    <3>1. Says("unconnected") \in Job /\ Says("unconnected").at = "answer"
      BY <1>3 DEF Results, Claims
    <3>2. w \notin disturbed => JobKnows(w)'
      BY <1>1, <2>1, <2>4, <3>1 DEF JobKnows
    <3>3. w \notin disturbed' => JobKnows(w)'
      BY <2>1, <3>2 DEF Changed
    <3>4. QED
      BY <1>1, <2>1, <2>2, <2>4, <3>1, <3>3, CommandsKnow DEF Applying
  <2>5. CASE job' = [job EXCEPT ![w] = Says("error")]
    BY <1>1, <1>5, <2>1, <2>2, <2>5
  <2>6. QED
    BY <2>2, <2>3, <2>4, <2>5
<1>8. CASE ShowAgain(w)
  <2>1. /\ job[w].at = "showAgain" /\ UNCHANGED <<dialog, message, testing>>
        /\ job[w].want \in Settings /\ (profile = job[w].before \/ w \in disturbed)
    BY <1>1, <1>8 DEF ShowAgain, Run, JobKnows, Applying
  <2>2. CASE Say(w, "unbound")
    <3>1. /\ job' = [job EXCEPT ![w] = Says("unbound")] /\ UNCHANGED <<network, disturbed>>
          /\ UNCHANGED <<profile, active, wifi>>
      BY <1>1, <2>2 DEF Say, Answer, network
    <3>2. Says("unbound") \in Job /\ Says("unbound").at = "answer"
      BY <1>3 DEF Results, Claims
    <3>3. w \notin disturbed => JobKnows(w)'
      BY <1>1, <2>1, <3>1 DEF JobKnows
    <3>4. QED
      BY <1>1, <2>1, <3>1, <3>2, <3>3, CommandsKnow DEF Applying
  <2>3. CASE GoOn(w, "modify")
    <3>1. /\ job' = [job EXCEPT ![w] = Goes("modify")] /\ UNCHANGED <<network, disturbed>>
          /\ UNCHANGED <<profile, active, wifi>>
      BY <1>1, <2>3 DEF GoOn, network
    <3>2. Goes("modify") \in Job /\ Goes("modify").at = "modify" /\ Goes("modify").want \in Settings
      BY <1>1, <1>2, <2>1 DEF Stages, Applying
    <3>3. w \notin disturbed => JobKnows(w)'
      BY <1>1, <2>1, <3>1, <3>2 DEF JobKnows
    <3>4. QED
      BY <1>1, <2>1, <3>1, <3>2, <3>3, CommandsKnow DEF Applying
  <2>4. CASE MayRaise(w, network) /\ Changed(w)
    <3>1. /\ UNCHANGED <<profile, active, wifi>> /\ Answer(w, "error")
      BY <2>4, RaiseLeaves DEF network
    <3>2. job' = [job EXCEPT ![w] = Says("error")]
      BY <1>1, <3>1 DEF Answer
    <3>3. QED
      BY <1>1, <1>5, <2>1, <2>4, <3>1, <3>2
  <2>5. QED
    BY <1>8, <2>2, <2>3, <2>4 DEF ShowAgain
<1>9. CASE ModifyProfile(w)
  <2>1. /\ job[w].at = "modify" /\ UNCHANGED <<dialog, message, testing, active, wifi>> /\ Changed(w)
        /\ job[w].want \in Settings /\ (profile = job[w].before \/ w \in disturbed)
    BY <1>1, <1>9 DEF ModifyProfile, Run, JobKnows, Applying
  <2>2. /\ profile' \in Settings /\ active' \in Settings \cup {Off} /\ wifi' \in Networks \cup {Off}
        /\ \/ job' = [job EXCEPT ![w] = Says("error")]
           \/ job' = [job EXCEPT ![w] = Goes("up")] /\ profile' = job[w].want
           \/ job' = [job EXCEPT ![w] = Says("refused")] /\ profile' = profile
    <3>1. CASE MayRaise(w, <<job[w].want, active, wifi>>)
      <4>1. /\ profile' \in {profile, job[w].want} /\ active' \in {active, active}
            /\ wifi' \in {wifi, wifi} /\ Answer(w, "error")
        BY <3>1, RaiseLeaves
      <4>2. job' = [job EXCEPT ![w] = Says("error")]
        BY <1>1, <4>1 DEF Answer
      <4>3. QED
        BY <1>1, <2>1, <4>1, <4>2
    <3>2. CASE ~MayRaise(w, <<job[w].want, active, wifi>>)
      BY <1>1, <1>9, <2>1, <3>2 DEF ModifyProfile, Answer
    <3>3. QED
      BY <3>1, <3>2
  <2>3. CASE job' = [job EXCEPT ![w] = Goes("up")] /\ profile' = job[w].want
    <3>1. Goes("up") \in Job /\ Goes("up").at = "up" /\ Goes("up").want \in Settings
      BY <1>1, <1>2, <2>1 DEF Stages, Applying
    <3>2. w \notin disturbed => JobKnows(w)'
      BY <1>1, <2>1, <2>3, <3>1 DEF JobKnows
    <3>3. w \notin disturbed' => JobKnows(w)'
      BY <2>1, <3>2 DEF Changed
    <3>4. QED
      BY <1>1, <2>1, <2>2, <2>3, <3>1, <3>3, CommandsKnow DEF Applying
  <2>4. CASE job' = [job EXCEPT ![w] = Says("refused")] /\ profile' = profile
    <3>1. Says("refused") \in Job /\ Says("refused").at = "answer" /\ Says("refused").result = "refused"
      BY <1>3 DEF Results, Claims
    <3>2. w \notin disturbed => JobKnows(w)'
      BY <1>1, <2>1, <2>4, <3>1 DEF JobKnows
    <3>3. w \notin disturbed' => JobKnows(w)'
      BY <2>1, <3>2 DEF Changed
    <3>4. QED
      BY <1>1, <2>1, <2>2, <2>4, <3>1, <3>3, CommandsKnow DEF Applying
  <2>5. CASE job' = [job EXCEPT ![w] = Says("error")]
    BY <1>1, <1>5, <2>1, <2>2, <2>5
  <2>6. QED
    BY <2>2, <2>3, <2>4, <2>5
<1>10. CASE ActivateProfile(w)
  <2>1. /\ job[w].at = "up" /\ UNCHANGED <<dialog, message, testing, profile, wifi>> /\ Changed(w)
        /\ (profile = job[w].want \/ w \in disturbed)
    BY <1>1, <1>10 DEF ActivateProfile, Run, JobKnows, Applying
  <2>2. /\ profile' \in Settings /\ active' \in Settings \cup {Off} /\ wifi' \in Networks \cup {Off}
        /\ \/ job' = [job EXCEPT ![w] = Says("error")]
           \/ job' = [job EXCEPT ![w] = Says("applied")] /\ active' = profile
           \/ job' = [job EXCEPT ![w] = Says("saved")]
    <3>1. ASSUME NEW a \in {profile, Off}, MayRaise(w, <<profile, a, wifi>>)
          PROVE  /\ profile' \in Settings /\ active' \in Settings \cup {Off} /\ wifi' \in Networks \cup {Off}
                 /\ job' = [job EXCEPT ![w] = Says("error")]
      <4>1. /\ profile' \in {profile, profile} /\ active' \in {active, a}
            /\ wifi' \in {wifi, wifi} /\ Answer(w, "error")
        BY <3>1, RaiseLeaves
      <4>2. job' = [job EXCEPT ![w] = Says("error")]
        BY <1>1, <4>1 DEF Answer
      <4>3. QED
        BY <1>1, <2>1, <4>1, <4>2
    <3>2. CASE ~\E a \in {profile, Off} : MayRaise(w, <<profile, a, wifi>>)
      <4>1. Activated(w, 0) = "applied" /\ Activated(w, 1) = "saved"
        BY DEF Activated
      <4>2. (active' = profile /\ Answer(w, "applied")) \/ (active' \in {active, Off} /\ Answer(w, "saved"))
        BY <1>10, <3>2, <4>1 DEF ActivateProfile
      <4>3. QED
        BY <1>1, <2>1, <4>2 DEF Answer
    <3>3. QED
      BY <3>1, <3>2
  <2>3. CASE job' = [job EXCEPT ![w] = Says("applied")] /\ active' = profile
    <3>1. Says("applied") \in Job /\ Says("applied").at = "answer" /\ Says("applied").result = "applied"
      BY <1>3 DEF Results, Claims
    <3>2. w \notin disturbed => JobKnows(w)'
      BY <1>1, <2>1, <2>3, <3>1 DEF JobKnows
    <3>3. w \notin disturbed' => JobKnows(w)'
      BY <2>1, <3>2 DEF Changed
    <3>4. QED
      BY <1>1, <2>1, <2>2, <2>3, <3>1, <3>3, CommandsKnow DEF Applying
  <2>4. CASE job' = [job EXCEPT ![w] = Says("saved")]
    <3>1. Says("saved") \in Job /\ Says("saved").at = "answer" /\ Says("saved").result = "saved"
      BY <1>3 DEF Results, Claims
    <3>2. w \notin disturbed => JobKnows(w)'
      BY <1>1, <2>1, <2>4, <3>1 DEF JobKnows
    <3>3. w \notin disturbed' => JobKnows(w)'
      BY <2>1, <3>2 DEF Changed
    <3>4. QED
      BY <1>1, <2>1, <2>2, <2>4, <3>1, <3>3, CommandsKnow DEF Applying
  <2>5. CASE job' = [job EXCEPT ![w] = Says("error")]
    BY <1>1, <1>5, <2>1, <2>2, <2>5
  <2>6. QED
    BY <2>2, <2>3, <2>4, <2>5
<1>11. CASE JoinNetwork(w)
  <2>1. /\ job[w].at = "join" /\ UNCHANGED <<dialog, message, testing, profile, active>> /\ Changed(w)
        /\ job[w].want \in Networks
    BY <1>1, <1>11 DEF JoinNetwork, Run, JobKnows, Applying
  <2>2. /\ profile' \in Settings /\ active' \in Settings \cup {Off} /\ wifi' \in Networks \cup {Off}
        /\ \/ job' = [job EXCEPT ![w] = Says("error")]
           \/ job' = [job EXCEPT ![w] = Says("joined")] /\ wifi' = job[w].want
           \/ job' = [job EXCEPT ![w] = Says("unjoined")]
    <3>1. ASSUME NEW n \in {job[w].want, Off}, MayRaise(w, <<profile, active, n>>)
          PROVE  /\ profile' \in Settings /\ active' \in Settings \cup {Off} /\ wifi' \in Networks \cup {Off}
                 /\ job' = [job EXCEPT ![w] = Says("error")]
      <4>1. /\ profile' \in {profile, profile} /\ active' \in {active, active}
            /\ wifi' \in {wifi, n} /\ Answer(w, "error")
        BY <3>1, RaiseLeaves
      <4>2. job' = [job EXCEPT ![w] = Says("error")]
        BY <1>1, <4>1 DEF Answer
      <4>3. QED
        BY <1>1, <2>1, <4>1, <4>2
    <3>2. CASE ~\E n \in {job[w].want, Off} : MayRaise(w, <<profile, active, n>>)
      BY <1>1, <1>11, <2>1, <3>2 DEF JoinNetwork, Answer
    <3>3. QED
      BY <3>1, <3>2
  <2>3. CASE job' = [job EXCEPT ![w] = Says("joined")] /\ wifi' = job[w].want
    <3>1. Says("joined") \in Job /\ Says("joined").at = "answer" /\ Says("joined").result = "joined"
      BY <1>3 DEF Results, Claims
    <3>2. w \notin disturbed => JobKnows(w)'
      BY <1>1, <2>1, <2>3, <3>1 DEF JobKnows
    <3>3. w \notin disturbed' => JobKnows(w)'
      BY <2>1, <3>2 DEF Changed
    <3>4. QED
      BY <1>1, <2>1, <2>2, <2>3, <3>1, <3>3, CommandsKnow DEF Applying
  <2>4. CASE job' = [job EXCEPT ![w] = Says("unjoined")]
    <3>1. Says("unjoined") \in Job /\ Says("unjoined").at = "answer" /\ Says("unjoined").result = "unjoined"
      BY <1>3 DEF Results, Claims
    <3>2. w \notin disturbed => JobKnows(w)'
      BY <1>1, <2>1, <2>4, <3>1 DEF JobKnows
    <3>3. w \notin disturbed' => JobKnows(w)'
      BY <2>1, <3>2 DEF Changed
    <3>4. QED
      BY <1>1, <2>1, <2>2, <2>4, <3>1, <3>3, CommandsKnow DEF Applying
  <2>5. CASE job' = [job EXCEPT ![w] = Says("error")]
    BY <1>1, <1>5, <2>1, <2>2, <2>5
  <2>6. QED
    BY <2>2, <2>3, <2>4, <2>5
<1>12. QED
  BY <1>4, <1>6, <1>7, <1>8, <1>9, <1>10, <1>11

\* A button of the window starts a job that knows the profile it found.
LEMMA StartKnows ==
  ASSUME JobInv, NEW w \in Windows, NEW kind \in {"read", "apply", "scan", "join"}, NEW want \in Wanted,
         kind = "apply" => want \in Settings, kind = "join" => want \in Networks,
         Start(w, kind, want), UNCHANGED network, open' = TRUE, window' = w, window' \in 0..MaxWindows,
         {device', testing'} \subseteq BOOLEAN
  PROVE  JobInv'
<1> DEFINE Jobs == [kind : {"none", "read", "apply", "scan", "join"}, at : Stages,
                    want : Wanted, before : Settings \cup {Off}, result : Results]
           new == [kind |-> kind, at |-> First[kind], want |-> want, before |-> profile, result |-> "none"]
<1>1. /\ profile \in Settings /\ active \in Settings \cup {Off} /\ wifi \in Networks \cup {Off}
      /\ job \in [Windows -> Jobs] /\ UNCHANGED <<profile, active, wifi>>
      /\ \A v \in Windows : /\ job[v].at \in Applying => job[v].want \in Settings
                            /\ job[v].at = "join" => job[v].want \in Networks
                            /\ v \notin disturbed => JobKnows(v)
  BY DEF JobInv, JobTypes, network
<1>2. CASE job' = [job EXCEPT ![w] = new] /\ message' = "working" /\ disturbed' = disturbed \ {w}
  <2>1. /\ First[kind] \in {"read", "show", "scan", "join"}
        /\ First[kind] = "show" => kind = "apply"
        /\ First[kind] = "join" => kind = "join"
    BY DEF First
  <2>2. new \in Jobs
    BY <1>1, <2>1 DEF Stages, Applying, Results
  <2>3. job' \in [Windows -> Jobs] /\ job'[w] = new /\ \A v \in Windows \ {w} : job'[v] = job[v]
    BY <1>1, <1>2, <2>2
  <2>4. \A v \in Windows : /\ job'[v].at \in Applying => job'[v].want \in Settings
                           /\ job'[v].at = "join" => job'[v].want \in Networks
    <3>1. new.at = First[kind] /\ new.want = want
      OBVIOUS
    <3>2. QED
      BY <1>1, <2>1, <2>3, <3>1 DEF Applying
  <2>5. JobTypes'
    BY <1>1, <1>2, <2>3, <2>4 DEF JobTypes, Messages
  <2>6. WindowRepeats'
    BY <1>2 DEF WindowRepeats, Claims
  <2>7. JobKnows(w)'
    BY <1>1, <2>1, <2>3 DEF JobKnows
  <2>8. \A v \in Windows \ {w} : v \notin disturbed' => JobKnows(v)'
    BY <1>1, <1>2, <2>3 DEF JobKnows
  <2>9. QED
    BY <2>5, <2>6, <2>7, <2>8 DEF JobInv
<1>3. CASE job' = job /\ disturbed' = disturbed /\ message' = "notStarted"
  <2>1. JobTypes'
    BY <1>1, <1>3 DEF JobTypes, Messages
  <2>2. WindowRepeats'
    BY <1>3 DEF WindowRepeats, Claims, Results
  <2>3. \A v \in Windows : v \notin disturbed' => JobKnows(v)'
    BY <1>1, <1>3 DEF JobKnows
  <2>4. QED
    BY <2>1, <2>2, <2>3 DEF JobInv
<1>4. QED
  BY <1>2, <1>3 DEF Start

LEMMA ButtonsKnow ==
  ASSUME JobInv, Open \/ Refresh \/ ApplyWired \/ Scan \/ Join
  PROVE  JobInv'
<1>1. /\ {device, testing} \subseteq BOOLEAN /\ window \in 0..MaxWindows /\ (open => window \in Windows)
      /\ MaxWindows \in Nat
  BY BoundAssumption DEF JobInv, JobTypes
<1>2. CASE Open
  <2>1. window + 1 \in Windows /\ window + 1 \in 0..MaxWindows
    BY <1>1, <1>2 DEF Open, Windows
  <2>2. Off \in Wanted
    BY DEF Wanted
  <2>3. /\ Start(window + 1, "read", Off) /\ UNCHANGED network /\ open' = TRUE /\ window' = window + 1
        /\ device' = device /\ testing' = testing
    BY <1>2 DEF Open, tester
  <2>4. QED
    BY <1>1, <2>1, <2>2, <2>3, StartKnows
<1>3. CASE Refresh \/ ApplyWired \/ Scan \/ Join
  <2>1. PICK kind \in {"read", "apply", "scan", "join"}, want \in Wanted :
          /\ Press(kind, want)
          /\ kind = "apply" => want \in Settings
          /\ kind = "join" => want \in Networks
    BY <1>3 DEF Refresh, ApplyWired, Scan, Join, Wanted
  <2>2. /\ Start(window, kind, want) /\ UNCHANGED network /\ open' = TRUE /\ window' = window
        /\ device' = device /\ testing' = testing /\ window \in Windows
    BY <1>1, <2>1 DEF Press, dialog, tester, JobInv, JobTypes
  <2>3. QED
    BY <1>1, <2>1, <2>2, StartKnows
<1>4. QED
  BY <1>2, <1>3

LEMMA AnswersKnow ==
  ASSUME JobInv, NEW w \in Windows, Finish(w)
  PROVE  JobInv'
<1> DEFINE Jobs == [kind : {"none", "read", "apply", "scan", "join"}, at : Stages,
                    want : Wanted, before : Settings \cup {Off}, result : Results]
<1>1. /\ JobTypes /\ job \in [Windows -> Jobs] /\ job[w].at = "answer"
      /\ UNCHANGED <<profile, active, wifi, open, window, testing, disturbed>>
  BY DEF Finish, JobInv, JobTypes, network, tester
<1>2. CASE open /\ w = window
  <2>1. /\ message' = job[w].result /\ device' \in BOOLEAN /\ job' = [job EXCEPT ![w].at = "idle"]
    BY <1>1, <1>2 DEF Finish, Listed, JobTypes
  <2>2. /\ job' \in [Windows -> Jobs] /\ job'[w] = [job[w] EXCEPT !.at = "idle"]
        /\ \A v \in Windows \ {w} : job'[v] = job[v]
    BY <1>1, <2>1 DEF Stages
  <2>3. JobTypes'
    BY <1>1, <2>1, <2>2 DEF JobTypes, Messages, Applying
  <2>4. WindowRepeats'
    BY <1>1, <1>2, <2>1, <2>2 DEF WindowRepeats, Busy
  <2>5. \A v \in Windows : v \notin disturbed' => JobKnows(v)'
    BY <1>1, <2>2 DEF JobInv, JobKnows
  <2>6. QED
    BY <2>3, <2>4, <2>5 DEF JobInv
<1>3. CASE ~(open /\ w = window)
  <2>1. job' = [job EXCEPT ![w] = Idle] /\ UNCHANGED <<message, device>>
    BY <1>3 DEF Finish
  <2>2. Idle \in Jobs /\ Idle.at = "idle" /\ Idle.result = "none"
    BY DEF Idle, Stages, Wanted, Results
  <2>3. /\ job' \in [Windows -> Jobs] /\ job'[w] = Idle
        /\ \A v \in Windows \ {w} : job'[v] = job[v]
    BY <1>1, <2>1, <2>2
  <2>4. JobTypes'
    BY <1>1, <2>1, <2>2, <2>3 DEF JobTypes, Applying
  <2>5. WindowRepeats'
    BY <1>1, <1>3, <2>1, <2>3 DEF JobInv, JobTypes, WindowRepeats, Busy
  <2>6. \A v \in Windows : v \notin disturbed' => JobKnows(v)'
    BY <1>1, <2>2, <2>3 DEF JobInv, JobKnows
  <2>7. QED
    BY <2>4, <2>5, <2>6 DEF JobInv
<1>4. QED
  BY <1>2, <1>3

\* What else happens to the window and to the network.
LEMMA RestKnows ==
  ASSUME JobInv, \/ CopyReport \/ Close \/ Unplug \/ RunTest
                 \/ \E w \in Windows : Check(w) \/ FinishTest(w)
  PROVE  JobInv'
<1> DEFINE Jobs == [kind : {"none", "read", "apply", "scan", "join"}, at : Stages,
                    want : Wanted, before : Settings \cup {Off}, result : Results]
<1>1. /\ JobTypes /\ job \in [Windows -> Jobs] /\ WindowRepeats
      /\ \A v \in Windows : v \notin disturbed => JobKnows(v)
  BY DEF JobInv, JobTypes
<1>2. CASE CopyReport \/ RunTest \/ \E w \in Windows : Check(w) \/ FinishTest(w)
  <2>1. /\ UNCHANGED <<profile, active, wifi, open, window, device, job, disturbed>>
        /\ message' \in {message, "copied"} /\ testing' \in BOOLEAN
    BY <1>1, <1>2
    DEF CopyReport, RunTest, Check, FinishTest, Watch, network, dialog, tester, JobTypes
  <2>2. JobTypes'
    BY <1>1, <2>1 DEF JobTypes, Messages
  <2>3. WindowRepeats'
    BY <1>1, <2>1 DEF WindowRepeats, Busy, Claims
  <2>4. \A v \in Windows : v \notin disturbed' => JobKnows(v)'
    BY <1>1, <2>1 DEF JobKnows
  <2>5. QED
    BY <2>2, <2>3, <2>4 DEF JobInv
<1>3. CASE Close
  <2>1. /\ UNCHANGED <<profile, active, wifi, window, disturbed>> /\ window \in Windows
        /\ open' = FALSE /\ device' = FALSE /\ testing' = FALSE /\ message' = "none"
        /\ job' \in {job, [job EXCEPT ![window] = Idle]}
    BY <1>1, <1>3 DEF Close, network, JobTypes
  <2>2. Idle \in Jobs /\ Idle.at = "idle" /\ Idle.result = "none"
    BY DEF Idle, Stages, Wanted, Results
  <2>3. job' \in [Windows -> Jobs] /\ \A v \in Windows : job'[v] \in {job[v], Idle}
    BY <1>1, <2>1, <2>2
  <2>4. JobTypes'
    BY <1>1, <2>1, <2>2, <2>3 DEF JobTypes, Applying, Messages, Results
  <2>5. WindowRepeats'
    BY <2>1 DEF WindowRepeats
  <2>6. \A v \in Windows : v \notin disturbed' => JobKnows(v)'
    BY <1>1, <2>1, <2>2, <2>3 DEF JobKnows
  <2>7. QED
    BY <2>4, <2>5, <2>6 DEF JobInv
<1>4. CASE Unplug
  <2>1. /\ UNCHANGED <<profile, wifi, open, window, device, job, message, testing>>
        /\ active' = Off /\ Changed(0)
    BY <1>4 DEF Unplug, dialog
  <2>2. JobTypes'
    BY <1>1, <2>1 DEF JobTypes
  <2>3. WindowRepeats'
    BY <1>1, <2>1 DEF WindowRepeats, Busy
  <2>4. \A v \in Windows \ {0} : v \notin disturbed' => JobKnows(v)'
    BY <2>1, OthersKnow
  <2>5. 0 \notin Windows
    BY BoundAssumption DEF Windows
  <2>6. QED
    BY <2>2, <2>3, <2>4, <2>5 DEF JobInv
<1>5. QED
  BY <1>2, <1>3, <1>4

THEOREM JobsInductive == Spec => []JobInv
<1>1. JobInv /\ [Next]_vars => JobInv'
  <2>1. SUFFICES ASSUME JobInv, [Next]_vars PROVE JobInv'
    OBVIOUS
  <2>2. CASE Next
    BY <2>1, <2>2, WorkersKnow, ButtonsKnow, AnswersKnow, RestKnows DEF Next, Worker, Tester
  <2>3. CASE UNCHANGED vars
    <3>1. UNCHANGED <<profile, active, wifi, open, window, device, message, job, testing, disturbed>>
      BY <2>3 DEF vars, network, dialog, tester
    <3>2. JobTypes' /\ WindowRepeats'
      BY <2>1, <3>1 DEF JobInv, JobTypes, WindowRepeats, Busy
    <3>3. \A v \in Windows : v \notin disturbed' => JobKnows(v)'
      BY <2>1, <3>1 DEF JobInv, JobKnows
    <3>4. QED
      BY <3>2, <3>3 DEF JobInv
  <2>4. QED
    BY <2>1, <2>2, <2>3
<1>2. QED
  BY <1>1, JobInit, PTL DEF Spec

\* Unless another worker or a pulled cable changed the network, the sentence is true.
THEOREM MessageTrue == Spec => []MessageTellsTruth
<1>1. JobInv => MessageTellsTruth
  <2>1. SUFFICES ASSUME JobInv, open, ~Busy(window), window \notin disturbed
        PROVE  LET j == job[window]
               IN  /\ message = "applied" => profile = j.want /\ active = j.want
                   /\ message = "saved" => profile = j.want
                   /\ message \in {"refused", "unconnected", "unbound"} => profile = j.before
                   /\ message = "joined" => wifi = j.want
    BY DEF MessageTellsTruth
  <2>2. /\ window \in Windows /\ job[window].at = "idle" /\ JobKnows(window)
        /\ message \in Claims => message = job[window].result
    BY <2>1 DEF JobInv, JobTypes, WindowRepeats, Busy
  <2>3. QED
    BY <2>2 DEF JobKnows, Claims
<1>2. QED
  BY <1>1, JobsInductive, PTL
-----------------------------------------------------------------------------
(***************************************************************************)
(* The inductive invariant of the network test: what is found so far is    *)
(* true of a network that was seen, in the order of the checks.            *)
(***************************************************************************)
Words == {"absent", "value", "none", "OK", "FAILED", "SKIPPED"}
Seen == SUBSET (Settings \cup {Off})
TestState == [at : Steps \cup {"idle", "answer"}, target : Target, found : [Keys -> Words], seen : Seen,
              unable : SUBSET Keys]
Shown == [rows : [Keys -> {"ok", "failed", "skipped", "info", "none"}], target : Target, seen : Seen,
          unable : SUBSET Keys]

TestTypes == test \in [Windows -> TestState] /\ shown \in Shown

Works(k, t, seen) == \E n \in seen : Holds(k, t, Reach[n])
Fails(k, t, seen, unable) == k \in unable \/ \E n \in seen : ~Holds(k, t, Reach[n])

Sound(f, t, seen, unable) ==
  /\ \A k \in {"local", "gateway"} : f[k] \in {"absent", "value", "none"}
  /\ \A k \in {"dns", "route", "tcp"} : f[k] \in {"absent", "OK", "FAILED"}
  /\ f["protocol"] \in {"absent", "OK", "FAILED", "SKIPPED"}
  /\ \A k \in Keys : f[k] \in {"value", "OK"} => Works(k, t, seen)
  /\ \A k \in Keys : f[k] \in {"none", "FAILED"} =>
       Fails(k, t, seen, unable) \/ (k \in {"route", "tcp"} /\ f["dns"] = "FAILED")
  /\ \A k \in {"route", "tcp"} : f[k] = "OK" => f["dns"] = "OK"
  /\ f["protocol"] \in {"OK", "FAILED"} => f["tcp"] = "OK" /\ ~t.gateway
  /\ f["route"] # "absent" => f["local"] # "absent" /\ f["gateway"] # "absent"

\* What the checks up to a step have found, and those after it have not.
InOrder(at, f) ==
  /\ at # "local" => f["local"] # "absent" /\ f["gateway"] # "absent"
  /\ at \in {"local", "dns", "route"} => f["route"] = "absent" /\ f["tcp"] = "absent"
  /\ at # "answer" => f["protocol"] = "absent"
  /\ at \in {"route", "tcp", "protocol"} => f["dns"] # "absent"

TestKnows(w) ==
  LET x == test[w]
  IN  /\ x.at \in Steps => /\ active \in x.seen /\ InOrder(x.at, x.found)
                          /\ Sound(x.found, x.target, x.seen, x.unable)
      /\ x.at = "answer" => x.found \in {Unknown, InvalidReport} \/ Sound(x.found, x.target, x.seen, x.unable)

ShownTrue ==
  LET r == shown.rows
  IN  /\ \A k \in Keys : r[k] = "ok" => Works(k, shown.target, shown.seen)
      /\ r["route"] # "skipped" => \A k \in Keys : r[k] = "failed" =>
           \/ Fails(k, shown.target, shown.seen, shown.unable)
           \/ (k \in {"route", "tcp"} /\ r["dns"] = "failed")
      /\ "ok" \in {r["route"], r["tcp"]} => r["dns"] = "ok"
      /\ r["protocol"] \in {"ok", "failed"} => r["tcp"] = "ok" /\ ~shown.target.gateway

TestInv == TestTypes /\ ShownTrue /\ \A w \in Windows : TestKnows(w)
-----------------------------------------------------------------------------
LEMMA SomeTarget == Untested.target \in Target /\ Nothing.target \in Target
<1>1. [valid |-> TRUE, literal |-> TRUE, gateway |-> TRUE] \in Target
  BY DEF Target
<1>2. (CHOOSE t \in Target : TRUE) \in Target
  BY <1>1
<1>3. QED
  BY <1>2 DEF Untested, Nothing

LEMMA UnknownRows ==
  /\ Unknown \in [Keys -> Words] /\ InvalidReport \in [Keys -> Words]
  /\ \A f \in [Keys -> Words] : Rows(f) \in [Keys -> {"ok", "failed", "skipped", "info", "none"}]
  /\ \A f \in {Unknown, InvalidReport} :
       /\ \A k \in Keys : Rows(f)[k] # "ok"
       /\ Rows(f)["route"] = "skipped" /\ Rows(f)["protocol"] = "none"
<1>1. Unknown \in [Keys -> Words] /\ \A k \in Keys : Unknown[k] = "absent"
  BY DEF Unknown, Words
<1>2. InvalidReport \in [Keys -> Words]
  BY <1>1 DEF InvalidReport, Words
<1>3. /\ \A k \in Keys : InvalidReport[k] \in {"absent", "none", "FAILED"}
      /\ InvalidReport["route"] = "absent" /\ InvalidReport["protocol"] = "absent"
  BY <1>1 DEF InvalidReport, Keys
<1>4. \A k \in Keys, word \in Words : Row(k, word) \in {"ok", "failed", "skipped", "info", "none"}
  BY DEF Row, Outcome, Words
<1>5. \A k \in Keys, word \in {"absent", "none", "FAILED"} : Row(k, word) # "ok"
  BY DEF Row, Outcome
<1>6. Row("route", "absent") = "skipped" /\ Row("protocol", "absent") = "none"
  BY DEF Row
<1>7. "route" \in Keys /\ "protocol" \in Keys
  BY DEF Keys
<1>8. QED
  BY <1>1, <1>2, <1>3, <1>4, <1>5, <1>6, <1>7 DEF Rows

LEMMA TestInit == Init => TestInv
<1>1. SUFFICES ASSUME Init PROVE TestInv
  OBVIOUS
<1>2. test = [w \in Windows |-> Untested] /\ shown = Nothing
  BY <1>1 DEF Init
<1>3. Untested \in TestState /\ Untested.at = "idle" /\ Nothing \in Shown
  BY SomeTarget, UnknownRows DEF Untested, Nothing, TestState, Shown, Seen
<1>4. Nothing.rows = Rows(Unknown)
  BY DEF Nothing
<1>5. ShownTrue
  BY <1>2, <1>4, UnknownRows DEF ShownTrue, Keys
<1>6. QED
  BY <1>2, <1>3, <1>5 DEF TestInv, TestTypes, TestKnows, Steps

\* Seeing more networks, or more checks that fail, leaves what is true.
LEMMA SeenMore ==
  ASSUME NEW f, NEW t, NEW seen, NEW more, NEW unable, NEW much,
         Sound(f, t, seen, unable), seen \subseteq more, unable \subseteq much
  PROVE  Sound(f, t, more, much)
<1>1. \A k \in Keys : /\ Works(k, t, seen) => Works(k, t, more)
                      /\ Fails(k, t, seen, unable) => Fails(k, t, more, much)
  BY DEF Works, Fails
<1>2. QED
  BY <1>1 DEF Sound

LEMMA NetworkKeepsTest ==
  ASSUME TestInv, JobTypes, JobTypes', shown' = shown,
         UNCHANGED <<test, active>> \/ (\E w : Changed(w))
  PROVE  TestInv'
<1> USE DEF JobTypes
<1>1. CASE UNCHANGED <<test, active>>
  BY <1>1 DEF TestInv, TestTypes, TestKnows, ShownTrue
<1>2. CASE \E w : Changed(w)
  <2>1. test' = [v \in Windows |->
                  IF test[v].at = "idle" THEN test[v] ELSE [test[v] EXCEPT !.seen = @ \cup {active'}]]
    BY <1>2 DEF Changed
  <2>2. TestTypes'
    <3>1. test \in [Windows -> TestState] /\ shown' \in Shown /\ active' \in Settings \cup {Off}
      BY DEF TestInv, TestTypes
    <3>2. ASSUME NEW v \in Windows PROVE [test[v] EXCEPT !.seen = @ \cup {active'}] \in TestState
      <4>1. test[v] \in TestState
        BY <3>1
      <4>2. test[v].seen \cup {active'} \in Seen
        BY <3>1, <4>1 DEF TestState, Seen
      <4>3. QED
        BY <4>1, <4>2 DEF TestState
    <3>3. test' \in [Windows -> TestState]
      BY <2>1, <3>1, <3>2
    <3>4. QED
      BY <3>1, <3>3 DEF TestTypes
  <2>3. ShownTrue'
    BY DEF TestInv, ShownTrue
  <2>4. ASSUME NEW v \in Windows PROVE TestKnows(v)'
    <3>1. TestKnows(v) /\ test[v] \in TestState
      BY DEF TestInv, TestTypes
    <3>2. CASE test[v].at = "idle"
      BY <2>1, <3>2 DEF TestKnows, Steps
    <3>3. CASE test[v].at # "idle"
      <4>1. /\ test'[v].at = test[v].at /\ test'[v].found = test[v].found
            /\ test'[v].target = test[v].target /\ test'[v].seen = test[v].seen \cup {active'}
            /\ test'[v].unable = test[v].unable
        BY <2>1, <3>1, <3>3 DEF TestState
      <4>2. Sound(test[v].found, test[v].target, test[v].seen, test[v].unable) =>
              Sound(test[v].found, test[v].target, test[v].seen \cup {active'}, test[v].unable)
        BY SeenMore
      <4>3. QED
        BY <3>1, <4>1, <4>2 DEF TestKnows
    <3>4. QED
      BY <3>2, <3>3
  <2>5. QED
    BY <2>2, <2>3, <2>4 DEF TestInv
<1>3. QED
  BY <1>1, <1>2

\* Each check says what is true of the network it looks at, in its turn.
LEMMA LookSound ==
  ASSUME NEW step \in Steps, NEW t \in Target, NEW seen, NEW n \in seen, Reach[n] \in Condition,
         NEW before, NEW unable, before \subseteq unable,
         NEW fails \in BOOLEAN, fails => Lines(step) \subseteq unable,
         NEW f \in [Keys -> Words], Sound(f, t, seen, before), InOrder(step, f)
  PROVE  LET g == Look(step, t, Told(Reach[n], fails), f)
         IN  g \in [Keys -> Words] /\ Sound(g, t, seen, unable) /\ InOrder(Following[step], g)
<1> DEFINE c == Told(Reach[n], fails)
<1>1. Sound(f, t, seen, unable)
  BY SeenMore
<1>2. c \in [Keys -> BOOLEAN] /\ t.literal \in BOOLEAN /\ t.gateway \in BOOLEAN
  BY DEF Told, Condition, Target
<1>3. ASSUME NEW k \in Keys
      PROVE  /\ c[k] \/ (k = "dns" /\ t.literal) => Works(k, t, seen)
             /\ k \in Lines(step) /\ ~c[k] /\ ~(k = "dns" /\ t.literal) => Fails(k, t, seen, unable)
  <2>1. c[k] = (Reach[n][k] /\ ~fails)
    BY DEF Told
  <2>2. QED
    BY <2>1 DEF Works, Fails, Holds
<1>4. CASE step = "local"
  <2>1. Look(step, t, c, f) = Local(c, f) /\ Following[step] = "dns"
    BY <1>4 DEF Look, Following
  <2> DEFINE g == Local(c, f)
  <2>2. /\ g \in [Keys -> Words] /\ \A k \in Keys \ {"local", "gateway"} : g[k] = f[k]
        /\ g["local"] = (IF c["local"] THEN "value" ELSE "none")
        /\ g["gateway"] = (IF c["gateway"] THEN "value" ELSE "none")
    BY DEF Local, Keys, Words
  <2>3. Sound(g, t, seen, unable)
    BY <1>1, <1>2, <1>3, <1>4, <2>2 DEF Sound, InOrder, Keys, Lines
  <2>4. InOrder("dns", g)
    BY <1>4, <2>2 DEF InOrder, Keys
  <2>5. QED
    BY <2>1, <2>2, <2>3, <2>4
<1>5. CASE step = "dns"
  <2>1. Look(step, t, c, f) = Dns(t, c, f) /\ Following[step] = "route"
    BY <1>5 DEF Look, Following
  <2> DEFINE g == Dns(t, c, f)
  <2>2. /\ g \in [Keys -> Words] /\ \A k \in Keys \ {"dns"} : g[k] = f[k]
        /\ g["dns"] = (IF t.literal \/ c["dns"] THEN "OK" ELSE "FAILED")
    BY DEF Dns, Verdict, Keys, Words
  <2>3. Sound(g, t, seen, unable)
    BY <1>1, <1>2, <1>3, <1>5, <2>2 DEF Sound, InOrder, Keys, Lines
  <2>4. InOrder("route", g)
    BY <1>5, <2>2 DEF InOrder, Keys
  <2>5. QED
    BY <2>1, <2>2, <2>3, <2>4
<1>6. CASE step = "route"
  <2>1. Look(step, t, c, f) = Route(c, f) /\ Following[step] = "tcp"
    BY <1>6 DEF Look, Following
  <2> DEFINE g == Route(c, f)
  <2>2. /\ g \in [Keys -> Words] /\ \A k \in Keys \ {"route"} : g[k] = f[k]
        /\ g["route"] = (IF f["dns"] = "OK" /\ c["route"] THEN "OK" ELSE "FAILED")
    BY DEF Route, Verdict, Keys, Words
  <2>3. f["dns"] \in {"OK", "FAILED"}
    BY <1>6 DEF Sound, InOrder
  <2>4. Sound(g, t, seen, unable)
    BY <1>1, <1>2, <1>3, <1>6, <2>2, <2>3 DEF Sound, InOrder, Keys, Lines
  <2>5. InOrder("tcp", g)
    BY <1>6, <2>2 DEF InOrder, Keys
  <2>6. QED
    BY <2>1, <2>2, <2>4, <2>5
<1>7. CASE step = "tcp"
  <2>1. Look(step, t, c, f) = Tcp(c, f) /\ Following[step] = "protocol"
    BY <1>7 DEF Look, Following
  <2> DEFINE g == Tcp(c, f)
  <2>2. /\ g \in [Keys -> Words] /\ \A k \in Keys \ {"tcp"} : g[k] = f[k]
        /\ g["tcp"] = (IF f["dns"] = "OK" /\ c["tcp"] THEN "OK" ELSE "FAILED")
    BY DEF Tcp, Verdict, Keys, Words
  <2>3. f["dns"] \in {"OK", "FAILED"}
    BY <1>7 DEF Sound, InOrder
  <2>4. Sound(g, t, seen, unable)
    BY <1>1, <1>2, <1>3, <1>7, <2>2, <2>3 DEF Sound, InOrder, Keys, Lines
  <2>5. InOrder("protocol", g)
    BY <1>7, <2>2 DEF InOrder, Keys
  <2>6. QED
    BY <2>1, <2>2, <2>4, <2>5
<1>8. CASE step = "protocol"
  <2>1. Look(step, t, c, f) = Protocol(t, c, f) /\ Following[step] = "answer"
    BY <1>8 DEF Look, Following
  <2> DEFINE g == Protocol(t, c, f)
  <2>2. /\ g \in [Keys -> Words] /\ \A k \in Keys \ {"protocol"} : g[k] = f[k]
        /\ g["protocol"] = (IF f["tcp"] # "OK" \/ t.gateway THEN "SKIPPED"
                            ELSE IF c["protocol"] THEN "OK" ELSE "FAILED")
    BY DEF Protocol, Verdict, Keys, Words
  <2>3. Sound(g, t, seen, unable)
    BY <1>1, <1>2, <1>3, <1>8, <2>2 DEF Sound, InOrder, Keys, Lines
  <2>4. InOrder("answer", g)
    BY <1>8, <2>2 DEF InOrder, Keys
  <2>5. QED
    BY <2>1, <2>2, <2>3, <2>4
<1>9. QED
  BY <1>4, <1>5, <1>6, <1>7, <1>8 DEF Steps

\* What the rows of a report say is what its lines do.
LEMMA RowsSay ==
  ASSUME NEW f \in [Keys -> Words], NEW t, NEW seen, NEW unable, Sound(f, t, seen, unable)
  PROVE  LET r == Rows(f)
         IN  /\ \A k \in Keys : r[k] = "ok" => Works(k, t, seen)
             /\ r["route"] # "skipped" => \A k \in Keys : r[k] = "failed" =>
                  Fails(k, t, seen, unable) \/ (k \in {"route", "tcp"} /\ r["dns"] = "failed")
             /\ "ok" \in {r["route"], r["tcp"]} => r["dns"] = "ok"
             /\ r["protocol"] \in {"ok", "failed"} => r["tcp"] = "ok" /\ ~t.gateway
<1> DEFINE r == Rows(f)
<1>1. \A k \in {"local", "gateway"} : r[k] = (IF f[k] = "value" THEN "ok" ELSE "failed")
  BY DEF Rows, Row, Keys
<1>2. \A k \in {"dns", "route", "tcp"} :
        /\ f[k] = "OK" => r[k] = "ok"
        /\ f[k] = "FAILED" => r[k] = "failed"
        /\ f[k] = "absent" => r[k] = "skipped"
  BY DEF Rows, Row, Outcome, Keys
<1>3. /\ f["protocol"] = "OK" => r["protocol"] = "ok"
      /\ f["protocol"] = "FAILED" => r["protocol"] = "failed"
      /\ f["protocol"] = "absent" => r["protocol"] = "none"
      /\ f["protocol"] = "SKIPPED" => r["protocol"] = "skipped"
  BY DEF Rows, Row, Outcome, Keys
<1>4. /\ \A k \in Keys : r[k] = "ok" => f[k] \in {"value", "OK"}
      /\ r["route"] # "skipped" => f["route"] # "absent"
      /\ \A k \in {"dns", "route", "tcp", "protocol"} :
           /\ r[k] = "ok" <=> f[k] = "OK"
           /\ r[k] = "failed" <=> f[k] = "FAILED"
  BY <1>1, <1>2, <1>3 DEF Sound, Keys
<1>5. \A k \in Keys : r[k] = "failed" /\ f["route"] # "absent" => f[k] \in {"none", "FAILED"}
  BY <1>1, <1>4 DEF Sound, Keys
<1>6. QED
  BY <1>4, <1>5 DEF Sound, Keys

\* A test that starts has found nothing, one that checks goes by the order, and a window
\* shows only what a test has found.
LEMMA RunsTrue ==
  ASSUME TestInv, JobTypes, RunTest
  PROVE  TestInv'
<1>1. shown' = shown /\ active' = active /\ window' = window /\ window \in Windows
  BY DEF RunTest, Watch, network, dialog, JobTypes
<1>2. CASE test' = test
  BY <1>1, <1>2 DEF TestInv, TestTypes, TestKnows, ShownTrue
<1>3. CASE test' # test
  <2> DEFINE new(t) == [at |-> "local", target |-> t, found |-> Unknown, seen |-> {active},
                      unable |-> {}]
  <2>1. PICK t \in Targets : test' = [test EXCEPT ![window] = new(t)]
    BY <1>3 DEF RunTest
  <2>2. new(t) \in TestState
    BY <2>1, ReachAssumption, UnknownRows DEF JobTypes, TestState, Seen, Steps
  <2>3. TestTypes'
    BY <1>1, <2>1, <2>2 DEF TestInv, TestTypes
  <2>4. \A k \in Keys : Unknown[k] = "absent"
    BY DEF Unknown
  <2>5. Sound(Unknown, t, {active}, {}) /\ InOrder("local", Unknown)
    BY <2>4 DEF Sound, InOrder, Keys
  <2>6. test'[window] = new(t) /\ \A v \in Windows \ {window} : test'[v] = test[v]
    BY <1>1, <2>1 DEF TestInv, TestTypes
  <2>7. TestKnows(window)'
    BY <1>1, <2>5, <2>6 DEF TestKnows, Steps
  <2>8. \A v \in Windows \ {window} : TestKnows(v)'
    BY <1>1, <2>6 DEF TestInv, TestKnows
  <2>9. ShownTrue'
    BY <1>1 DEF TestInv, ShownTrue
  <2>10. QED
    BY <1>1, <2>3, <2>7, <2>8, <2>9 DEF TestInv
<1>4. QED
  BY <1>2, <1>3

LEMMA ChecksTrue ==
  ASSUME TestInv, JobTypes, NEW w \in Windows, Check(w)
  PROVE  TestInv'
<1> DEFINE x == test[w]
           looked(fails) == Look(x.at, x.target, Told(Reach[active], fails), x.found)
           next(fails, more) == [x EXCEPT !.at = Following[@], !.found = looked(fails), !.unable = @ \cup more]
           failed(fails) == IF fails THEN Lines(x.at) ELSE {}
           ends(report) == [x EXCEPT !.at = "answer", !.found = report]
<1>1. /\ shown' = shown /\ active' = active /\ x \in TestState /\ x.at \in Steps /\ TestKnows(w)
      /\ test \in [Windows -> TestState] /\ active \in Settings \cup {Off}
  BY DEF Check, Watch, network, TestInv, TestTypes, JobTypes
<1>2. \/ \E fails \in BOOLEAN : test' = [test EXCEPT ![w] = next(fails, failed(fails))]
      \/ test' = [test EXCEPT ![w] = ends(InvalidReport)]
      \/ test' = [test EXCEPT ![w] = ends(Unknown)]
  BY <1>1 DEF Check, TestState
<1>3. ASSUME NEW y \in TestState, test' = [test EXCEPT ![w] = y],
             y.at \in Steps => active \in y.seen /\ InOrder(y.at, y.found) /\ Sound(y.found, y.target, y.seen, y.unable),
             y.at = "answer" => y.found \in {Unknown, InvalidReport} \/ Sound(y.found, y.target, y.seen, y.unable)
      PROVE  TestInv'
  <2>1. test'[w] = y /\ \A v \in Windows \ {w} : test'[v] = test[v]
    BY <1>1, <1>3
  <2>2. TestTypes'
    BY <1>1, <1>3 DEF TestInv, TestTypes
  <2>3. ShownTrue'
    BY <1>1 DEF TestInv, ShownTrue
  <2>4. TestKnows(w)'
    BY <1>1, <1>3, <2>1 DEF TestKnows
  <2>5. \A v \in Windows \ {w} : TestKnows(v)'
    BY <1>1, <2>1 DEF TestInv, TestKnows
  <2>6. QED
    BY <2>2, <2>3, <2>4, <2>5 DEF TestInv
<1>4. \A report \in {InvalidReport, Unknown} : ends(report) \in TestState
  BY <1>1, UnknownRows DEF TestState
<1>5. CASE test' = [test EXCEPT ![w] = ends(InvalidReport)]
  BY <1>1, <1>3, <1>4, <1>5 DEF TestState, Steps
<1>6. CASE test' = [test EXCEPT ![w] = ends(Unknown)]
  BY <1>1, <1>3, <1>4, <1>6 DEF TestState, Steps
<1>7. ASSUME NEW fails \in BOOLEAN, test' = [test EXCEPT ![w] = next(fails, failed(fails))] PROVE TestInv'
  <2> DEFINE unable == x.unable \cup failed(fails)
  <2>1. /\ active \in x.seen /\ InOrder(x.at, x.found) /\ Sound(x.found, x.target, x.seen, x.unable)
        /\ x.target \in Target /\ x.found \in [Keys -> Words] /\ Reach[active] \in Condition
    BY <1>1, ReachAssumption DEF TestKnows, TestState
  <2>2. /\ looked(fails) \in [Keys -> Words] /\ Sound(looked(fails), x.target, x.seen, unable)
        /\ InOrder(Following[x.at], looked(fails))
    <3>1. x.unable \subseteq unable /\ (fails => Lines(x.at) \subseteq unable)
      OBVIOUS
    <3> HIDE DEF unable
    <3>2. QED
      BY <1>1, <2>1, <3>1, LookSound
  <2>3. Following[x.at] \in Steps \cup {"answer"}
    BY <1>1 DEF Following, Steps
  <2> DEFINE new == next(fails, failed(fails))
  <2>4. /\ new \in TestState /\ new.at = Following[x.at] /\ new.found = looked(fails)
        /\ new.target = x.target /\ new.seen = x.seen /\ new.unable = unable
    <3>1. unable \in SUBSET Keys
      BY <1>1 DEF TestState, Lines, Steps, Keys
    <3>2. QED
      BY <1>1, <2>2, <2>3, <3>1 DEF TestState
  <2>5. QED
    BY <1>3, <1>7, <2>1, <2>2, <2>4
<1>8. QED
  BY <1>2, <1>5, <1>6, <1>7

LEMMA ShowsTrue ==
  ASSUME TestInv, JobTypes, NEW w \in Windows, FinishTest(w)
  PROVE  TestInv'
<1> DEFINE x == test[w]
           new == [rows |-> Rows(x.found), target |-> x.target, seen |-> x.seen,
                  unable |-> x.unable]
<1>1. /\ active' = active /\ x \in TestState /\ x.at = "answer" /\ TestKnows(w)
      /\ test \in [Windows -> TestState] /\ test' = [test EXCEPT ![w] = Untested]
      /\ shown' \in {shown, new}
  BY DEF FinishTest, Watch, network, TestInv, TestTypes
<1>2. Untested \in TestState /\ Untested.at = "idle"
  BY SomeTarget, UnknownRows DEF Untested, TestState, Seen
<1>3. new \in Shown
  BY <1>1, UnknownRows DEF TestState, Shown
<1>4. TestTypes'
  BY <1>1, <1>2, <1>3 DEF TestInv, TestTypes
<1>5. \A v \in Windows : TestKnows(v)'
  <2>1. test'[w] = Untested /\ \A v \in Windows \ {w} : test'[v] = test[v]
    BY <1>1
  <2>2. TestKnows(w)'
    BY <1>2, <2>1 DEF TestKnows, Steps
  <2>3. \A v \in Windows \ {w} : TestKnows(v)'
    BY <1>1, <2>1 DEF TestInv, TestKnows
  <2>4. QED
    BY <2>2, <2>3
<1>6. ShownTrue'
  <2>1. CASE shown' = shown
    BY <2>1 DEF TestInv, ShownTrue
  <2>2. CASE shown' = new
    <3>1. x.found \in [Keys -> Words]
      BY <1>1 DEF TestState
    <3>2. new.rows = Rows(x.found) /\ new.target = x.target /\ new.seen = x.seen
          /\ new.unable = x.unable
      OBVIOUS
    <3>3. CASE x.found \in {Unknown, InvalidReport}
      <4>1. /\ \A k \in Keys : new.rows[k] # "ok"
            /\ new.rows["route"] = "skipped" /\ new.rows["protocol"] = "none"
        BY <3>2, <3>3, UnknownRows
      <4>2. QED
        BY <2>2, <4>1 DEF ShownTrue, Keys
    <3>4. CASE Sound(x.found, x.target, x.seen, x.unable)
      BY <2>2, <3>1, <3>2, <3>4, RowsSay DEF ShownTrue
    <3>5. QED
      BY <1>1, <3>3, <3>4 DEF TestKnows
  <2>3. QED
    BY <1>1, <2>1, <2>2
<1>7. QED
  BY <1>4, <1>5, <1>6 DEF TestInv

LEMMA ClosesTrue ==
  ASSUME TestInv, Close
  PROVE  TestInv'
<1>1. shown' = Nothing /\ active' = active /\ test' = test
  BY DEF Close, network
<1>2. Nothing \in Shown /\ Nothing.rows = Rows(Unknown)
  BY SomeTarget, UnknownRows DEF Nothing, Shown, Seen
<1>3. ShownTrue'
  BY <1>1, <1>2, UnknownRows DEF ShownTrue, Keys
<1>4. QED
  BY <1>1, <1>2, <1>3 DEF TestInv, TestTypes, TestKnows

THEOREM TestsInductive == Spec => []TestInv
<1>1. JobInv /\ JobInv' /\ TestInv /\ [Next]_vars => TestInv'
  <2>1. SUFFICES ASSUME JobInv, JobInv', TestInv, [Next]_vars PROVE TestInv'
    OBVIOUS
  <2>2. JobTypes /\ JobTypes'
    BY <2>1 DEF JobInv
  <2>3. CASE RunTest \/ Close \/ \E w \in Windows : Tester(w)
    BY <2>1, <2>2, <2>3, RunsTrue, ClosesTrue, ChecksTrue, ShowsTrue DEF Tester
  <2>4. CASE Open \/ Refresh \/ ApplyWired \/ Scan \/ Join \/ CopyReport \/ UNCHANGED vars
    <3>1. UNCHANGED <<test, active, shown>>
      BY <2>4
      DEF Open, Refresh, ApplyWired, Scan, Join, Press, CopyReport, vars, network, tester
    <3>2. QED
      BY <2>1, <2>2, <3>1, NetworkKeepsTest
  <2>5. CASE Unplug \/ \E w \in Windows : Worker(w)
    <3>1. shown' = shown
      BY <2>5
      DEF Unplug, Worker, ReadDevices, ShowProfile, ConnectDevice, ShowAgain, ModifyProfile,
          ActivateProfile, ScanWifi, JoinNetwork, Finish, Run, tester
    <3>2. UNCHANGED <<test, active>> \/ \E w : Changed(w)
      BY <2>5
      DEF Unplug, Worker, ReadDevices, ShowProfile, ConnectDevice, ShowAgain, ModifyProfile,
          ActivateProfile, ScanWifi, JoinNetwork, Finish, Say, GoOn, tester, network
    <3>3. QED
      BY <2>1, <2>2, <3>1, <3>2, NetworkKeepsTest
  <2>6. QED
    BY <2>1, <2>3, <2>4, <2>5 DEF Next
<1>2. QED
  BY <1>1, JobsInductive, TestInit, PTL DEF Spec

\* Every row shown is true of a network that was in use while the test ran.
THEOREM ReportTrue == Spec => []ReportIsTrue
<1>1. TestInv => ReportIsTrue
  <2>1. SUFFICES ASSUME TestInv PROVE ReportIsTrue
    OBVIOUS
  <2> DEFINE t == shown.target
             Saw(k, b) == \E n \in shown.seen : Holds(k, t, Reach[n]) = b
  <2>2. DOMAIN shown.rows = Keys /\ t \in Target /\ shown.seen \subseteq Settings \cup {Off}
    BY <2>1 DEF TestInv, TestTypes, Shown, Seen
  <2>3. \A n \in shown.seen : Reach[n] \in Condition
    BY <2>2, ReachAssumption
  <2>4. \A k \in Keys, n \in shown.seen : Holds(k, t, Reach[n]) \in BOOLEAN
    BY <2>2, <2>3 DEF Holds, Keys, Condition, Target
  <2>5. \A k \in Keys : /\ Works(k, t, shown.seen) => Saw(k, TRUE)
                        /\ Fails(k, t, shown.seen, shown.unable) => Saw(k, FALSE) \/ k \in shown.unable
    BY <2>4 DEF Works, Fails
  <2>6. ShownTrue
    BY <2>1 DEF TestInv
  <2>7. QED
    BY <2>2, <2>5, <2>6 DEF ReportIsTrue, ShownTrue, LookedAt
<1>2. QED
  BY <1>1, TestsInductive, PTL

\* Jobs, workers, tests and the network stay in their domains.
THEOREM DialogTypes == Spec => []TypeOK
<1>1. JobInv /\ TestInv => TypeOK
  <2>1. SUFFICES ASSUME JobInv, TestInv PROVE TypeOK
    OBVIOUS
  <2>2. JobTypes /\ TestTypes
    BY <2>1 DEF JobInv, TestInv
  <2>3. QED
    BY <2>2 DEF JobTypes, TestTypes, TypeOK, TestState, Seen, Wanted
<1>2. QED
  BY <1>1, JobsInductive, TestsInductive, PTL
=============================================================================
