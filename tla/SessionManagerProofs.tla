------------------------ MODULE SessionManagerProofs ------------------------
(***************************************************************************)
(* TLAPS proofs about SessionManager, for every value of its constants.    *)
(***************************************************************************)
EXTENDS SessionManagerProps, SequenceTheorems, TLAPS

(***************************************************************************)
(* Types.                                                                  *)
(***************************************************************************)
\* What the dialog operations do to the stack of suspended frames.
LEMMA FrameSteps ==
  ASSUME TypeOK, ManagerAssumption
  PROVE  /\ CountdownAnswered \in Seq(Frame)
         /\ Len(CountdownAnswered) = Len(frames)
         /\ frames # <<>> => /\ Top \in Frame
                             /\ Rest \in Seq(Frame)
                             /\ Len(Rest) = Len(frames) - 1
                             /\ \A i \in 1..Len(Rest) : Rest[i] = frames[i]
         /\ \A c \in Connection, r \in BOOLEAN, k \in {"cred", "error", "countdown"} :
              DialogFrame(k, c, r) \in Frame
         /\ \A id \in Conns \cup {NoConn} : Find(id) \in Connection
<1>1. frames \in Seq(Frame) /\ cfg \in Versions
  BY DEF TypeOK, DialogTypes, CfgTypes
<1>2. \A f \in Frame : [f EXCEPT !.forced = @ \/ f.kind = "countdown"] \in Frame
  BY DEF Frame
<1>3. CountdownAnswered \in Seq(Frame) /\ Len(CountdownAnswered) = Len(frames)
  BY <1>1, <1>2 DEF CountdownAnswered
<1>4. ASSUME frames # <<>>
      PROVE  /\ Top \in Frame
             /\ Rest \in Seq(Frame)
             /\ Len(Rest) = Len(frames) - 1
             /\ \A i \in 1..Len(Rest) : Rest[i] = frames[i]
  <2>1. Len(frames) \in Nat /\ Len(frames) # 0
    BY <1>1, <1>4, EmptySeq, LenProperties
  <2>2. \A i \in 1..Len(frames) : frames[i] \in Frame
    BY <1>1, ElementOfSeq
  <2>3. Top \in Frame
    BY <2>1, <2>2 DEF Top
  <2>4. \A i \in 1..(Len(frames) - 1) : frames[i] \in Frame
    BY <2>1, <2>2
  <2>5. /\ Rest \in Seq(Frame)
        /\ Len(Rest) = IF 1 <= Len(frames) - 1 THEN Len(frames) - 1 - 1 + 1 ELSE 0
        /\ \A i \in 1..(Len(frames) - 1 - 1 + 1) : Rest[i] = frames[1 + i - 1]
    BY <2>1, <2>4, SubSeqProperties DEF Rest
  <2>6. Len(Rest) = Len(frames) - 1
    <3>1. \A n \in Nat : n # 0 => (IF 1 <= n - 1 THEN n - 1 - 1 + 1 ELSE 0) = n - 1
      OBVIOUS
    <3>2. QED
      BY <2>1, <2>5, <3>1
  <2>7. \A i \in 1..(Len(frames) - 1) : Rest[i] = frames[i]
    <3> SUFFICES ASSUME NEW i \in 1..(Len(frames) - 1)
                 PROVE  Rest[i] = frames[i]
      OBVIOUS
    <3>1. 1 + i - 1 = i /\ i \in 1..(Len(frames) - 1 - 1 + 1)
      BY <2>1
    <3>2. QED
      BY <2>5, <3>1
  <2>8. QED
    BY <2>3, <2>5, <2>6, <2>7
<1>5. \A c \in Connection, r \in BOOLEAN, k \in {"cred", "error", "countdown"} :
        DialogFrame(k, c, r) \in Frame
  BY <1>1 DEF DialogFrame, Frame
<1>6. \A id \in Conns \cup {NoConn} : Find(id) \in Connection
  BY <1>1 DEF Find, Connection
<1>7. QED
  BY <1>3, <1>4, <1>5, <1>6

\* start_session keeps the domains of everything it may assign.
LEMMA StartTypes ==
  ASSUME TypeOK, ManagerAssumption, NEW c \in Connection, NEW rest \in Seq(Frame)
  PROVE  /\ Launch(c) => SessionTypes' /\ WorkTypes'
         /\ StartSession(c, rest) =>
              /\ SessionTypes' /\ WorkTypes' /\ frames' \in Seq(Frame)
              /\ auto' \in [stage : AutoStage, conn : Connection]
<1> USE DEF TypeOK, SessionTypes, WorkTypes
<1>1. ASSUME NEW d \in Connection, Launch(d)
      PROVE  SessionTypes' /\ WorkTypes'
  <2>1. PICK w \in Workers :
          /\ sessionActive' = TRUE /\ cancelReconnect' = FALSE
          /\ sessionCancelled' = FALSE /\ sessionProc' = NoWorker /\ progress' = w
          /\ pc' \in {[pc EXCEPT ![w] = "preflight"], [pc EXCEPT ![w] = "unstarted"]}
          /\ conn' = [conn EXCEPT ![w] = d]
          /\ client' = [client EXCEPT ![w] = "none"]
          /\ bar' = [bar EXCEPT ![w] = "none"]
          /\ UNCHANGED <<result, launchPosted>>
    BY <1>1 DEF Launch
  <2>2. SessionTypes'
    BY <2>1
  <2>3. WorkTypes'
    BY <2>1 DEF Step
  <2>4. QED
    BY <2>2, <2>3
<1>2. NoAuto \in [stage : AutoStage, conn : Connection]
  BY ManagerAssumption DEF NoAuto, NoTarget, AutoStage, Connection, Versions
<1>3. Filled(c) \in Connection
  BY DEF Filled, Connection
<1>4. DialogFrame("cred", c, FALSE) \in Frame
  BY FrameSteps
<1>5. Append(rest, DialogFrame("cred", c, FALSE)) \in Seq(Frame)
  BY <1>4, AppendProperties
<1>6. ASSUME StartSession(c, rest)
      PROVE  /\ SessionTypes' /\ WorkTypes' /\ frames' \in Seq(Frame)
             /\ auto' \in [stage : AutoStage, conn : Connection]
  <2>1. CASE Busy /\ frames' = rest /\ UNCHANGED <<auto, sessionVars, workVars>>
    BY <2>1 DEF sessionVars, workVars, DialogTypes
  <2>2. CASE ~Busy /\ auto' = NoAuto /\ frames' = rest /\ UNCHANGED <<sessionVars, workVars>>
    BY <2>2, <1>2 DEF sessionVars, workVars
  <2>3. CASE /\ ~Busy /\ auto' = NoAuto /\ UNCHANGED <<sessionVars, workVars>>
             /\ frames' = Append(rest, DialogFrame("cred", c, FALSE))
    BY <2>3, <1>2, <1>5 DEF sessionVars, workVars
  <2>4. CASE ~Busy /\ auto' = NoAuto /\ frames' = rest /\ Launch(Filled(c))
    BY <2>4, <1>1, <1>2, <1>3
  <2>5. QED
    BY <1>6, <2>1, <2>2, <2>3, <2>4 DEF StartSession
<1>7. QED
  BY <1>1, <1>6

LEMMA NoAutoType ==
  ASSUME ManagerAssumption
  PROVE  /\ NoAuto \in [stage : AutoStage, conn : Connection]
         /\ NoTarget \in Connection
         /\ \A a, k \in BOOLEAN : ScheduleAutoConnect(a, k) => auto' \in [stage : AutoStage, conn : Connection]
<1>1. NoTarget \in Connection
  BY DEF NoTarget, Connection, Versions, ManagerAssumption
<1>2. NoAuto \in [stage : AutoStage, conn : Connection]
  BY <1>1 DEF NoAuto, AutoStage
<1>3. [NoAuto EXCEPT !.stage = "delay"] \in [stage : AutoStage, conn : Connection]
  BY <1>1 DEF NoAuto, AutoStage
<1>4. QED
  BY <1>1, <1>2, <1>3 DEF ScheduleAutoConnect

\* reload_config keeps the domains of everything it may assign.
LEMMA ReloadTypes ==
  ASSUME TypeOK, ManagerAssumption, ReloadConfig
  PROVE  CfgTypes' /\ DialogTypes' /\ SessionTypes'
<1> USE DEF TypeOK, CfgTypes, DialogTypes, SessionTypes, EnvTypes
<1>1. CASE sessionActive /\ reloadPending' = TRUE
           /\ UNCHANGED <<cfg, remembered, dialogVars, sessionVars>>
  BY <1>1 DEF dialogVars, sessionVars
<1>2. CASE UNCHANGED <<reloadPending, sessionVars>> /\ ApplyReload
  BY <1>2, FrameSteps, NoAutoType DEF ApplyReload, sessionVars
<1>3. QED
  BY <1>1, <1>2 DEF ReloadConfig

\* A worker past Popen has a client; one past proc.wait() knows how it ended.
ClientKnown ==
  \A w \in Workers :
    /\ pc[w] \in {"publish", "recheck", "wait"} => client[w] # "none"
    /\ pc[w] = "marker" => client[w] \in Outcome

TypeInv == TypeOK /\ ClientKnown

\* A session that starts has no client yet, and touches no other worker's.
LEMMA StartClients ==
  ASSUME TypeInv, NEW c \in Connection, NEW rest
  PROVE  /\ Launch(c) => ClientKnown'
         /\ StartSession(c, rest) => ClientKnown'
<1>1. \A d : Launch(d) => ClientKnown'
  BY DEF Launch, TypeInv, TypeOK, WorkTypes, ClientKnown
<1>2. QED
  BY <1>1 DEF StartSession, TypeInv, ClientKnown, sessionVars, workVars

LEMMA TypeInvStep ==
  ASSUME ManagerAssumption, TypeInv, [Next]_vars
  PROVE  TypeInv'
<1> USE DEF TypeInv
<1> USE DEF sessionVars, workVars, cfgVars, dialogVars, envVars
<1>1. ASSUME NEW id \in Conns, ClickConnect(id) PROVE TypeInv'
  <2>1. Find(id) \in Connection
    BY FrameSteps
  <2>2. frames \in Seq(Frame)
    BY DEF TypeOK, DialogTypes
  <2>3. StartSession(Find(id), frames)
    BY <1>1 DEF ClickConnect
  <2>4. QED
    BY <1>1, <2>1, <2>2, <2>3, StartTypes, StartClients DEF ClickConnect, TypeOK, CfgTypes,
       DialogTypes, EnvTypes, ProcessTypes
<1>2. CASE RetryChosen
  <2>1. Top \in Frame /\ Top.conn \in Connection /\ Rest \in Seq(Frame)
    BY <1>2, FrameSteps DEF RetryChosen, Answerable, Frame
  <2>2. StartSession(Top.conn, Rest)
    BY <1>2 DEF RetryChosen
  <2>3. QED
    BY <1>2, <2>1, <2>2, StartTypes, StartClients DEF RetryChosen, TypeOK, CfgTypes,
       DialogTypes, EnvTypes, ProcessTypes
<1>3. CASE CountdownElapsed
  <2>1. Top \in Frame /\ Top.conn \in Connection /\ Rest \in Seq(Frame)
    BY <1>3, FrameSteps DEF CountdownElapsed, Answerable, Frame
  <2>2. StartSession(Top.conn, Rest)
    BY <1>3 DEF CountdownElapsed
  <2>3. QED
    BY <1>3, <2>1, <2>2, StartTypes, StartClients DEF CountdownElapsed, TypeOK, CfgTypes,
       DialogTypes, EnvTypes, ProcessTypes
<1>4. CASE ConnectAutoNow
  <2>1. auto.conn \in Connection /\ frames \in Seq(Frame)
    BY DEF TypeOK, DialogTypes
  <2>2. CASE sessionActive
    BY <1>4, <2>2, NoAutoType DEF ConnectAutoNow, TypeOK, CfgTypes, DialogTypes, EnvTypes,
       ProcessTypes, SessionTypes, WorkTypes, ClientKnown
  <2>3. CASE StartSession(auto.conn, frames)
    BY <1>4, <2>1, <2>3, StartTypes, StartClients DEF ConnectAutoNow, TypeOK, CfgTypes,
       DialogTypes, EnvTypes, ProcessTypes
  <2>4. QED
    BY <1>4, <2>2, <2>3 DEF ConnectAutoNow
<1>5. CASE CredentialsEntered
  <2>1. Top \in Frame /\ Rest \in Seq(Frame) /\ [Top.conn EXCEPT !.creds = TRUE] \in Connection
    BY <1>5, FrameSteps DEF CredentialsEntered, Answerable, Frame, Connection
  <2>2. Launch([Top.conn EXCEPT !.creds = TRUE])
    BY <1>5 DEF CredentialsEntered
  <2>3. SessionTypes' /\ WorkTypes' /\ ClientKnown'
    BY <2>1, <2>2, StartTypes, StartClients
  <2>4. remembered' \subseteq Conns \cup {NoConn}
    <3>1. Top.conn.id \in Conns \cup {NoConn}
      BY <2>1 DEF Frame, Connection
    <3>2. QED
      BY <1>5, <3>1 DEF CredentialsEntered, TypeOK, CfgTypes
  <2>5. QED
    BY <1>5, <2>1, <2>3, <2>4 DEF CredentialsEntered, TypeOK, CfgTypes, DialogTypes, EnvTypes,
       ProcessTypes
<1>6. CASE HandleHup
  <2>1. CfgTypes' /\ DialogTypes' /\ SessionTypes'
    BY <1>6, ReloadTypes DEF HandleHup
  <2>2. QED
    BY <1>6, <2>1 DEF HandleHup, ClientKnown, TypeOK, EnvTypes, ProcessTypes, WorkTypes
<1>7. CASE PressF5
  <2>1. CfgTypes' /\ DialogTypes' /\ SessionTypes'
    BY <1>7, ReloadTypes DEF PressF5
  <2>2. QED
    BY <1>7, <2>1 DEF PressF5, ClientKnown, TypeOK, EnvTypes, ProcessTypes, WorkTypes
<1>8. CASE AutoDelayFires
  <2>1. auto' \in [stage : AutoStage, conn : Connection]
    BY <1>8, FrameSteps, NoAutoType, ManagerAssumption DEF AutoDelayFires, AutoStage
  <2>2. QED
    BY <1>8, <2>1 DEF AutoDelayFires, ClientKnown, TypeOK, CfgTypes, DialogTypes, EnvTypes,
       ProcessTypes, SessionTypes, WorkTypes
<1>9. CASE CancelAutoConnect
  BY <1>9, NoAutoType DEF CancelAutoConnect, ClientKnown, TypeOK, CfgTypes, DialogTypes, EnvTypes,
       ProcessTypes, SessionTypes, WorkTypes
<1>10. CASE DialogDismissed
  BY <1>10, FrameSteps DEF DialogDismissed, Answerable, ClientKnown, TypeOK, CfgTypes, DialogTypes, EnvTypes,
       ProcessTypes, SessionTypes, WorkTypes
<1>11. CASE CountdownCancelled
  <2>1. frames' \in Seq(Frame)
    BY <1>11, FrameSteps DEF CountdownCancelled, Answerable
  <2>2. SessionTypes' /\ CfgTypes' /\ EnvTypes' /\ ProcessTypes' /\ DialogTypes'
    <3>1. SessionTypes' /\ ProcessTypes'
      BY <1>11 DEF CountdownCancelled, TypeOK, ProcessTypes, SessionTypes
    <3>2. CfgTypes' /\ EnvTypes'
      BY <1>11 DEF CountdownCancelled, TypeOK, CfgTypes, EnvTypes
    <3>3. DialogTypes'
      BY <1>11, <2>1 DEF CountdownCancelled, TypeOK, DialogTypes
    <3>4. QED
      BY <3>1, <3>2, <3>3
  <2>3. WorkTypes' /\ ClientKnown'
    BY <1>11 DEF CountdownCancelled, TypeOK, ClientKnown, WorkTypes
  <2>4. QED
    BY <2>2, <2>3 DEF TypeOK
<1>12. CASE CancelSessionStart
  BY <1>12 DEF CancelSessionStart, Terminated, Alive, Outcome, ClientKnown, TypeOK, CfgTypes, DialogTypes, EnvTypes,
       ProcessTypes, SessionTypes, WorkTypes
<1>13. ASSUME NEW w \in Workers, SessionLaunched(w) PROVE TypeInv'
  <2>1. WorkTypes'
    BY <1>13 DEF SessionLaunched, Step, TypeOK, WorkTypes
  <2>2. SessionTypes' /\ ProcessTypes'
    BY <1>13 DEF SessionLaunched, TypeOK, SessionTypes, ProcessTypes
  <2>3. CfgTypes' /\ DialogTypes' /\ EnvTypes'
    BY <1>13 DEF SessionLaunched, TypeOK, CfgTypes, DialogTypes, EnvTypes
  <2>4. ClientKnown'
    BY <1>13 DEF SessionLaunched, TypeOK, WorkTypes, ClientKnown
  <2>5. QED
    BY <2>1, <2>2, <2>3, <2>4 DEF TypeOK
<1>14. ASSUME NEW w \in Workers, SessionDone(w) PROVE TypeInv'
  <2>1. WorkTypes' /\ ClientKnown'
    BY <1>14, NoAutoType DEF SessionDone, TypeOK, WorkTypes, ClientKnown, Step
  <2>2. SessionTypes' /\ ProcessTypes' /\ EnvTypes'
    BY <1>14 DEF SessionDone, TypeOK, SessionTypes, ProcessTypes, EnvTypes
  <2>3. ASSUME NEW below \in Seq(Frame), Announce(w, below)
        PROVE  frames' \in Seq(Frame)
    <3>1. Announcement(w) \in {"none", "countdown", "error"} /\ conn[w] \in Connection
      BY DEF Announcement, TypeOK, WorkTypes
    <3>2. CASE Announcement(w) = "none"
      BY <2>3, <3>2 DEF Announce
    <3>3. CASE Announcement(w) # "none"
      <4>1. DialogFrame(Announcement(w), conn[w], result[w] # "refused") \in Frame
        BY <3>1, <3>3, FrameSteps
      <4>2. QED
        BY <2>3, <3>3, <4>1, AppendProperties DEF Announce
    <3>4. QED
      BY <3>2, <3>3
  <2>4. CfgTypes' /\ DialogTypes'
    <3>1. CASE reloadPending
      BY <1>14, <2>3, <3>1, FrameSteps, NoAutoType
         DEF SessionDone, TypeOK, CfgTypes, DialogTypes, EnvTypes
    <3>2. CASE ~reloadPending
      BY <1>14, <2>3, <3>2 DEF SessionDone, Forget, TypeOK, CfgTypes, DialogTypes
    <3>3. QED
      BY <3>1, <3>2
  <2>5. QED
    BY <2>1, <2>2, <2>4 DEF TypeOK
<1>15. ASSUME NEW w \in Workers, Preflight(w) PROVE TypeInv'
  BY <1>15 DEF Preflight, Finish, WorkerOnly, Step, ClientKnown, TypeOK, CfgTypes, DialogTypes, EnvTypes,
       ProcessTypes, SessionTypes, WorkTypes
<1>16. ASSUME NEW w \in Workers, BuildCommand(w) PROVE TypeInv'
  BY <1>16 DEF BuildCommand, Finish, WorkerOnly, Step, ClientKnown, TypeOK, CfgTypes, DialogTypes, EnvTypes,
       ProcessTypes, SessionTypes, WorkTypes
<1>17. ASSUME NEW w \in Workers, Popen(w) PROVE TypeInv'
  <2>1. WorkTypes'
    BY <1>17 DEF Popen, Finish, WorkerOnly, Step, TypeOK, WorkTypes
  <2>2. SessionTypes' /\ ProcessTypes'
    BY <1>17 DEF Popen, Finish, WorkerOnly, TypeOK, SessionTypes, ProcessTypes
  <2>3. CfgTypes' /\ DialogTypes' /\ EnvTypes'
    BY <1>17 DEF Popen, Finish, WorkerOnly, TypeOK, CfgTypes, DialogTypes, EnvTypes
  <2>4. ClientKnown'
    BY <1>17 DEF Popen, Finish, WorkerOnly, TypeOK, WorkTypes, ClientKnown
  <2>5. QED
    BY <2>1, <2>2, <2>3, <2>4 DEF TypeOK
<1>18. ASSUME NEW w \in Workers, Publish(w) PROVE TypeInv'
  BY <1>18 DEF Publish, WorkerOnly, Step, ClientKnown, TypeOK, CfgTypes, DialogTypes, EnvTypes,
       ProcessTypes, SessionTypes, WorkTypes
<1>19. ASSUME NEW w \in Workers, Recheck(w) PROVE TypeInv'
  <2>1. pc' \in [Workers -> Step] /\ launchPosted' \in [Workers -> BOOLEAN]
    BY <1>19 DEF Recheck, TypeOK, WorkTypes, Step
  <2>2. client' \in [Workers -> {"none", "running", "term"} \cup Outcome]
    BY <1>19 DEF Recheck, Terminated, TypeOK, WorkTypes
  <2>3. bar' \in [Workers -> {"none", "up", "marked", "unmarked", "used", "gone"}]
    BY <1>19 DEF Recheck, TypeOK, WorkTypes
  <2>4. ClientKnown'
    BY <1>19 DEF Recheck, Terminated, TypeOK, WorkTypes, ClientKnown
  <2>5. QED
    BY <1>19, <2>1, <2>2, <2>3, <2>4 DEF Recheck, WorkerOnly, TypeOK, CfgTypes, DialogTypes,
       EnvTypes, ProcessTypes, SessionTypes, WorkTypes
<1>20. ASSUME NEW w \in Workers, WaitReturns(w) PROVE TypeInv'
  BY <1>20 DEF WaitReturns, WorkerOnly, Step, ClientGone, Alive, Outcome, ClientKnown, TypeOK, CfgTypes, DialogTypes, EnvTypes,
       ProcessTypes, SessionTypes, WorkTypes
<1>21. ASSUME NEW w \in Workers, CheckMarker(w) PROVE TypeInv'
  <2>1. ExitCode(w) \in Outcome
    BY <1>21 DEF CheckMarker, ExitCode, Outcome, ClientKnown
  <2>2. pc' \in [Workers -> Step]
    BY <1>21 DEF CheckMarker, Finish, TypeOK, WorkTypes, Step
  <2>3. result' \in [Workers -> {"none", "cancelled", "error"} \cup Outcome]
    BY <1>21, <2>1 DEF CheckMarker, Finish, TypeOK, WorkTypes
  <2>4. ClientKnown'
    BY <1>21 DEF CheckMarker, Finish, TypeOK, WorkTypes, ClientKnown
  <2>5. WorkTypes'
    BY <1>21, <2>2, <2>3 DEF CheckMarker, WorkerOnly, TypeOK, WorkTypes
  <2>6. CfgTypes' /\ DialogTypes' /\ EnvTypes'
    BY <1>21 DEF CheckMarker, WorkerOnly, TypeOK, CfgTypes, DialogTypes, EnvTypes
  <2>7. SessionTypes' /\ ProcessTypes'
    BY <1>21 DEF CheckMarker, WorkerOnly, TypeOK, SessionTypes, ProcessTypes
  <2>8. QED
    BY <2>4, <2>5, <2>6, <2>7 DEF TypeOK
<1>22. ASSUME NEW w \in Workers, ClientExits(w) PROVE TypeInv'
  BY <1>22 DEF ClientExits, EnvironmentOnly, Outcome, ClientKnown, TypeOK, CfgTypes, DialogTypes, EnvTypes,
       ProcessTypes, SessionTypes, WorkTypes
<1>23. ASSUME NEW w \in Workers, BarWritesMarker(w) PROVE TypeInv'
  <2>1. bar' \in [Workers -> {"none", "up", "marked", "unmarked", "used", "gone"}]
    BY <1>23 DEF BarWritesMarker, TypeOK, WorkTypes
  <2>2. marker' \in BOOLEAN
    BY <1>23 DEF BarWritesMarker, TypeOK, ProcessTypes
  <2>3. QED
    BY <1>23, <2>1, <2>2 DEF BarWritesMarker, EnvironmentOnly, ClientKnown, TypeOK, CfgTypes,
       DialogTypes, EnvTypes, ProcessTypes, SessionTypes, WorkTypes
<1>24. ASSUME NEW w \in Workers, BarKillsClient(w) PROVE TypeInv'
  BY <1>24 DEF BarKillsClient, EnvironmentOnly, Terminated, Outcome, ClientKnown, TypeOK, CfgTypes, DialogTypes, EnvTypes,
       ProcessTypes, SessionTypes, WorkTypes
<1>25. ASSUME NEW w \in Workers, BarCheckSession(w) PROVE TypeInv'
  BY <1>25 DEF BarCheckSession, EnvironmentOnly, ClientKnown, TypeOK, CfgTypes, DialogTypes, EnvTypes,
       ProcessTypes, SessionTypes, WorkTypes
<1>26. CASE CentralUpdate
  BY <1>26, ManagerAssumption DEF CentralUpdate, EnvironmentOnly, Versions, ClientKnown, TypeOK, CfgTypes, DialogTypes, EnvTypes,
       ProcessTypes, SessionTypes, WorkTypes
<1>27. ASSUME ManagerDies, EnvTypes' PROVE TypeInv'
  <2>1. WorkTypes' /\ ClientKnown'
    BY <1>27, NoAutoType DEF ManagerDies, TypeOK, WorkTypes, ClientKnown, Step
  <2>2. <<>> \in Seq(Frame)
    BY EmptySeq
  <2>3. CfgTypes' /\ DialogTypes' /\ SessionTypes' /\ ProcessTypes'
    BY <1>27, <2>2, NoAutoType DEF ManagerDies, TypeOK, CfgTypes, DialogTypes, SessionTypes, ProcessTypes
  <2>4. QED
    BY <1>27, <2>1, <2>3 DEF TypeOK
<1>28. CASE Signal
  <2>1. EnvTypes'
    BY <1>28 DEF Signal, ManagerDies, TypeOK, EnvTypes
  <2>2. CASE ManagerDies
    BY <1>27, <2>1, <2>2
  <2>3. CASE UNCHANGED <<phase, visible, marker, sessionVars, workVars, cfgVars, dialogVars>>
    BY <2>1, <2>3 DEF ClientKnown, TypeOK, CfgTypes, DialogTypes, EnvTypes,
       ProcessTypes, SessionTypes, WorkTypes
  <2>4. QED
    BY <1>28, <2>2, <2>3 DEF Signal
<1>29. CASE Crash
  <2>1. crashes' \in 0..MaxCrashes
    <3>1. crashes' = crashes + 1 /\ crashes < MaxCrashes
      BY <1>29 DEF Crash
    <3>2. crashes \in 0..MaxCrashes /\ MaxCrashes \in Nat
      BY ManagerAssumption DEF TypeOK, EnvTypes
    <3>3. QED
      BY <3>1, <3>2
  <2>2. hup' = FALSE /\ UNCHANGED <<central, notify>>
    BY <1>29 DEF Crash, ManagerDies
  <2>3. EnvTypes'
    BY <2>1, <2>2 DEF TypeOK, EnvTypes, Versions
  <2>4. QED
    BY <1>29, <1>27, <2>3 DEF Crash
<1>30. CASE ManagerStarts
  BY <1>30 DEF ManagerStarts, ClientKnown, TypeOK, CfgTypes, DialogTypes, EnvTypes,
       ProcessTypes, SessionTypes, WorkTypes
<1>31. CASE ManagerReady
  BY <1>31, NoAutoType DEF ManagerReady, ClientKnown, TypeOK, CfgTypes, DialogTypes, EnvTypes,
       ProcessTypes, SessionTypes, WorkTypes
<1>32. CASE UNCHANGED vars
  BY <1>32 DEF vars, ClientKnown, TypeOK, CfgTypes, DialogTypes, EnvTypes,
       ProcessTypes, SessionTypes, WorkTypes
<1>33. QED
  BY <1>1, <1>2, <1>3, <1>4, <1>5, <1>6, <1>7, <1>8, <1>9, <1>10, <1>11, <1>12, <1>13, <1>14,
     <1>15, <1>16, <1>17, <1>18, <1>19, <1>20, <1>21, <1>22, <1>23, <1>24, <1>25, <1>26, <1>27,
     <1>28, <1>29, <1>30, <1>31, <1>32
     DEF Next, UserActs, MainLoopActs, WorkerActs, OutsideActs

LEMMA TypeInvKept == Spec => []TypeInv
<1>1. Init => TypeInv
  <2> SUFFICES ASSUME Init PROVE TypeInv
    OBVIOUS
  <2>1. NoTarget \in Connection /\ NoAuto \in [stage : AutoStage, conn : Connection]
    BY ManagerAssumption, NoAutoType
  <2>2. <<>> \in Seq(Frame)
    BY EmptySeq
  <2>3. 0 \in Versions /\ 0 \in 0..MaxCrashes
    BY ManagerAssumption DEF Versions
  <2>4. WorkTypes /\ ClientKnown
    BY <2>1 DEF Init, WorkTypes, ClientKnown, Step
  <2>5. CfgTypes /\ DialogTypes /\ EnvTypes /\ ProcessTypes /\ SessionTypes
    BY <2>1, <2>2, <2>3 DEF Init, CfgTypes, DialogTypes, EnvTypes, ProcessTypes, SessionTypes
  <2>6. QED
    BY <2>4, <2>5 DEF TypeInv, TypeOK
<1>2. TypeInv /\ [Next]_vars => TypeInv'
  BY ManagerAssumption, TypeInvStep
<1>3. QED
  BY <1>1, <1>2, PTL DEF Spec

\* Every variable stays in its domain, for every value of the constants.
THEOREM TypeCorrect == Spec => []TypeOK
<1>1. TypeInv => TypeOK
  BY DEF TypeInv
<1>2. QED
  BY <1>1, TypeInvKept, PTL

(***************************************************************************)
(* Nothing is forgotten: a configuration that waits to be loaded, and a    *)
(* window that waits to be shown again, always have somebody to do it.     *)
(***************************************************************************)
WorkerBusy      == \E w \in Workers : pc[w] # "idle"
Launched        == {"wait", "marker", "posted"}
\* _session_launched is queued only by a worker that has yet to wait.
LaunchIsOfWorker == \A w \in Workers : launchPosted[w] => pc[w] \in Launched
HiddenHasWorker == ~visible => \E w \in Workers : pc[w] \in Launched /\ ~launchPosted[w]
ActiveHasWorker == sessionActive \/ progress # NoWorker => WorkerBusy

ReloadComing    == cfg # central => \/ notify \/ hup \/ phase = "down"
                                    \/ reloadPending /\ sessionActive /\ WorkerBusy

PromiseInv == LaunchIsOfWorker /\ HiddenHasWorker /\ ActiveHasWorker /\ ReloadComing

\* What the promises read, apart from the state of the workers.
announced == <<phase, visible, cfg, reloadPending, central, notify, hup>>

\* Starting a session, or not starting it, leaves every promise kept.
LEMMA StartKeepsPromises ==
  ASSUME TypeOK, PromiseInv, NEW c, NEW rest, UNCHANGED announced,
         Launch(c) \/ StartSession(c, rest)
  PROVE  PromiseInv'
<1> USE DEF PromiseInv, announced, TypeOK
<1>1. CASE UNCHANGED <<sessionVars, workVars>>
  BY <1>1 DEF sessionVars, workVars, LaunchIsOfWorker, HiddenHasWorker, ActiveHasWorker,
     WorkerBusy, ReloadComing
<1>2. ASSUME NEW d, Launch(d) PROVE PromiseInv'
  <2>1. PICK w \in Workers, s \in {"preflight", "unstarted"} :
          /\ pc[w] = "idle" /\ pc' = [pc EXCEPT ![w] = s]
          /\ sessionActive' = TRUE /\ UNCHANGED launchPosted
    BY <1>2 DEF Launch, FreeSlot
  <2>2. pc'[w] = s /\ s # "idle" /\ \A v \in Workers : v # w => pc'[v] = pc[v]
    BY <2>1 DEF WorkTypes
  <2>3. ~launchPosted[w]
    BY <2>1 DEF LaunchIsOfWorker, Launched
  <2>4. LaunchIsOfWorker'
    BY <2>1, <2>2, <2>3 DEF LaunchIsOfWorker
  <2>5. HiddenHasWorker'
    BY <2>1, <2>2 DEF HiddenHasWorker, Launched
  <2>6. WorkerBusy'
    BY <2>2 DEF WorkerBusy
  <2>7. QED
    BY <2>1, <2>4, <2>5, <2>6 DEF ActiveHasWorker, ReloadComing, WorkerBusy
<1>3. QED
  BY <1>1, <1>2 DEF StartSession

\* A worker that goes on to a step that is not "idle".
LEMMA WorkerKeepsPromises ==
  ASSUME TypeOK, PromiseInv, UNCHANGED <<announced, sessionActive, progress>>,
         NEW w \in Workers, NEW s \in Step \ {"idle"}, pc[w] # "idle",
         pc[w] \in Launched => s \in Launched,
         pc' = [pc EXCEPT ![w] = s],
         \/ UNCHANGED launchPosted
         \/ pc[w] \notin Launched /\ s \in Launched
            /\ launchPosted' = [launchPosted EXCEPT ![w] = TRUE]
  PROVE  PromiseInv'
<1> USE DEF PromiseInv, announced
<1>1. pc'[w] = s /\ \A v \in Workers : v # w => pc'[v] = pc[v]
  BY DEF TypeOK, WorkTypes
<1>2. \A v \in Workers : v # w => launchPosted'[v] = launchPosted[v]
  BY DEF TypeOK, WorkTypes
<1>3. LaunchIsOfWorker'
  BY <1>1, <1>2 DEF LaunchIsOfWorker
<1>4. HiddenHasWorker'
  BY <1>1, <1>2 DEF HiddenHasWorker
<1>5. WorkerBusy'
  BY <1>1 DEF WorkerBusy
<1>6. QED
  BY <1>3, <1>4, <1>5 DEF ActiveHasWorker, ReloadComing, WorkerBusy

\* reload_config loads the configuration on disk, or remembers to.
LEMMA ReloadKeepsPromises ==
  ASSUME PromiseInv, ReloadConfig,
         UNCHANGED <<phase, visible, central, notify, workVars>>
  PROVE  PromiseInv'
<1>1. UNCHANGED sessionVars
  BY DEF ReloadConfig
<1>2. LaunchIsOfWorker' /\ HiddenHasWorker' /\ ActiveHasWorker'
  BY <1>1 DEF sessionVars, workVars, PromiseInv, LaunchIsOfWorker, HiddenHasWorker,
     ActiveHasWorker, WorkerBusy
<1>3. cfg' = central' \/ (reloadPending' /\ sessionActive' /\ WorkerBusy')
  BY <1>1 DEF ReloadConfig, ApplyReload, sessionVars, workVars, PromiseInv, ActiveHasWorker,
     WorkerBusy
<1>4. QED
  BY <1>2, <1>3 DEF PromiseInv, ReloadComing, WorkerBusy

\* A manager that is gone has no promise left but to load the configuration.
LEMMA DeathKeepsPromises == ManagerDies => PromiseInv'
BY DEF ManagerDies, PromiseInv, LaunchIsOfWorker, HiddenHasWorker, ActiveHasWorker,
   ReloadComing

LEMMA PromiseStep ==
  ASSUME TypeOK, PromiseInv, [Next]_vars
  PROVE  PromiseInv'
<1> USE DEF sessionVars, workVars, cfgVars, dialogVars, envVars, announced
<1>1. CASE UNCHANGED <<announced, sessionActive, progress, pc, launchPosted>>
  BY <1>1 DEF PromiseInv, LaunchIsOfWorker, HiddenHasWorker, ActiveHasWorker, WorkerBusy,
     ReloadComing
<1>2. ASSUME NEW id \in Conns, ClickConnect(id) PROVE PromiseInv'
  BY <1>2, StartKeepsPromises DEF ClickConnect
<1>3. CASE RetryChosen
  BY <1>3, StartKeepsPromises DEF RetryChosen
<1>4. CASE CountdownElapsed
  BY <1>4, StartKeepsPromises DEF CountdownElapsed
<1>5. CASE ConnectAutoNow
  BY <1>1, <1>5, StartKeepsPromises DEF ConnectAutoNow
<1>6. CASE CredentialsEntered
  BY <1>6, StartKeepsPromises DEF CredentialsEntered
<1>7. CASE HandleHup
  BY <1>7, ReloadKeepsPromises DEF HandleHup
<1>8. CASE PressF5
  BY <1>8, ReloadKeepsPromises DEF PressF5
<1>9. CASE AutoDelayFires \/ CancelAutoConnect \/ DialogDismissed \/ CountdownCancelled
  BY <1>1, <1>9 DEF AutoDelayFires, CancelAutoConnect, DialogDismissed, CountdownCancelled
<1>10. CASE CancelSessionStart
  BY <1>1, <1>10 DEF CancelSessionStart
<1>11. ASSUME NEW w \in Workers, SessionLaunched(w) PROVE PromiseInv'
  <2>1. pc[w] \in Launched
    BY <1>11 DEF SessionLaunched, PromiseInv, LaunchIsOfWorker
  <2>2. /\ launchPosted'[w] = FALSE
        /\ \A v \in Workers : v # w => launchPosted'[v] = launchPosted[v]
    BY <1>11 DEF SessionLaunched, TypeOK, WorkTypes
  <2>3. LaunchIsOfWorker'
    BY <1>11, <2>2 DEF SessionLaunched, PromiseInv, LaunchIsOfWorker
  <2>4. HiddenHasWorker'
    BY <1>11, <2>1, <2>2 DEF SessionLaunched, HiddenHasWorker
  <2>5. WorkerBusy'
    BY <1>11, <2>1 DEF SessionLaunched, WorkerBusy, Launched
  <2>6. QED
    BY <1>11, <2>3, <2>4, <2>5 DEF SessionLaunched, PromiseInv, ActiveHasWorker,
       ReloadComing, WorkerBusy
<1>12. ASSUME NEW w \in Workers, SessionDone(w) PROVE PromiseInv'
  <2>1. pc'[w] = "idle" /\ \A v \in Workers : v # w => pc'[v] = pc[v]
    BY <1>12 DEF SessionDone, TypeOK, WorkTypes
  <2>2. LaunchIsOfWorker'
    BY <1>12, <2>1 DEF SessionDone, PromiseInv, LaunchIsOfWorker
  <2>3. HiddenHasWorker' /\ ActiveHasWorker'
    BY <1>12 DEF SessionDone, HiddenHasWorker, ActiveHasWorker
  <2>4. ReloadComing'
    BY <1>12 DEF SessionDone, PromiseInv, ReloadComing
  <2>5. QED
    BY <2>2, <2>3, <2>4 DEF PromiseInv
<1>13. ASSUME NEW w \in Workers, WorkerActs(w) PROVE PromiseInv'
  <2> USE DEF Step, Launched, WorkerOnly
  <2>1. CASE Preflight(w)
    BY <2>1, WorkerKeepsPromises DEF Preflight, Finish
  <2>2. CASE BuildCommand(w)
    BY <2>2, WorkerKeepsPromises DEF BuildCommand, Finish
  <2>3. CASE Popen(w)
    BY <2>3, WorkerKeepsPromises DEF Popen, Finish
  <2>4. CASE Publish(w)
    BY <2>4, WorkerKeepsPromises DEF Publish
  <2>5. CASE Recheck(w)
    BY <2>5, WorkerKeepsPromises DEF Recheck
  <2>6. CASE WaitReturns(w)
    BY <2>6, WorkerKeepsPromises DEF WaitReturns
  <2>7. CASE CheckMarker(w)
    BY <2>7, WorkerKeepsPromises DEF CheckMarker, Finish
  <2>8. QED
    BY <1>13, <2>1, <2>2, <2>3, <2>4, <2>5, <2>6, <2>7 DEF WorkerActs
<1>14. ASSUME NEW w \in Workers, ClientExits(w) \/ BarWritesMarker(w) \/ BarKillsClient(w)
                                  \/ BarCheckSession(w)
       PROVE  PromiseInv'
  BY <1>1, <1>14 DEF ClientExits, BarWritesMarker, BarKillsClient, BarCheckSession,
     EnvironmentOnly
<1>15. CASE CentralUpdate
  BY <1>15 DEF CentralUpdate, EnvironmentOnly, PromiseInv, LaunchIsOfWorker, HiddenHasWorker,
     ActiveHasWorker, WorkerBusy, ReloadComing
<1>16. CASE Signal
  <2>1. CASE ManagerDies
    BY <2>1, DeathKeepsPromises
  <2>2. CASE /\ UNCHANGED <<phase, visible, marker, sessionVars, workVars, cfgVars, dialogVars>>
             /\ phase = "down" \/ hup'
    BY <1>16, <2>2 DEF Signal, PromiseInv, LaunchIsOfWorker, HiddenHasWorker,
       ActiveHasWorker, WorkerBusy, ReloadComing
  <2>3. QED
    BY <1>16, <2>1, <2>2 DEF Signal
<1>17. CASE Crash
  BY <1>17, DeathKeepsPromises DEF Crash
<1>18. CASE ManagerStarts
  BY <1>18 DEF ManagerStarts, PromiseInv, LaunchIsOfWorker, HiddenHasWorker, ActiveHasWorker,
     WorkerBusy, ReloadComing
<1>19. CASE ManagerReady
  BY <1>19 DEF ManagerReady, PromiseInv, LaunchIsOfWorker, HiddenHasWorker, ActiveHasWorker,
     WorkerBusy, ReloadComing
<1>20. CASE UNCHANGED vars
  BY <1>1, <1>20 DEF vars
<1>21. QED
  BY <1>2, <1>3, <1>4, <1>5, <1>6, <1>7, <1>8, <1>9, <1>10, <1>11, <1>12, <1>13, <1>14, <1>15,
     <1>16, <1>17, <1>18, <1>19, <1>20 DEF Next, UserActs, MainLoopActs, OutsideActs

LEMMA PromisesKept == Spec => []PromiseInv
<1>1. Init => PromiseInv
  BY DEF Init, PromiseInv, LaunchIsOfWorker, HiddenHasWorker, ActiveHasWorker,
     ReloadComing
<1>2. TypeOK /\ PromiseInv /\ [Next]_vars => PromiseInv'
  BY PromiseStep
<1>3. QED
  BY <1>1, <1>2, TypeCorrect, PTL DEF Spec

\* A notified configuration is never forgotten: whatever sessions, dialogs,
\* crashes and restarts the signal meets, somebody will still load it.
THEOREM UpdateKept == Spec => []UpdateNotForgotten
<1>1. PromiseInv => UpdateNotForgotten
  BY DEF PromiseInv, ReloadComing, WorkerBusy, UpdateNotForgotten
<1>2. QED
  BY <1>1, PromisesKept, PTL

\* The window never stays hidden, nor Connect disabled, without a worker whose
\* _session_done is still to come - the button, unless a thread failed to start.
THEOREM WindowKept == Spec => []WindowWillReturn
<1>1. PromiseInv => WindowWillReturn
  BY DEF PromiseInv, HiddenHasWorker, ActiveHasWorker, WorkerBusy, WindowWillReturn, Launched
<1>2. QED
  BY <1>1, PromisesKept, PTL
=============================================================================
