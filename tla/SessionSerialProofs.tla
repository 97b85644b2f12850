------------------------ MODULE SessionSerialProofs -------------------------
(***************************************************************************)
(* TLAPS proofs about a SessionManager whose sessions cannot overlap.      *)
(***************************************************************************)
EXTENDS SessionManagerProofs

\* The one way to overlap is an automatic connection below the credential
\* dialog of another: it takes a connection that asks and one that starts by
\* itself.
Serial == Prompting = {} \/ AutoConn = NoConn

(***************************************************************************)
(* The stack of suspended dialogs.                                         *)
(***************************************************************************)
LEMMA AnsweredFrames ==
  ASSUME TypeOK, ManagerAssumption
  PROVE  /\ DOMAIN frames = 1..Len(frames) /\ DOMAIN CountdownAnswered = 1..Len(frames)
         /\ \A i \in 1..Len(frames) :
              /\ frames[i] \in Frame
              /\ CountdownAnswered[i].kind = frames[i].kind
              /\ CountdownAnswered[i].conn = frames[i].conn
              /\ CountdownAnswered[i].retryable = frames[i].retryable
              /\ CountdownAnswered[i].shown = frames[i].shown
              /\ CountdownAnswered[i].forced = (frames[i].forced \/ frames[i].kind = "countdown")
<1>1. frames \in Seq(Frame) /\ DOMAIN frames = 1..Len(frames)
  BY DEF TypeOK, DialogTypes
<1>2. \A i \in 1..Len(frames) : frames[i] \in Frame
  BY <1>1, ElementOfSeq
<1>3. DOMAIN CountdownAnswered = 1..Len(frames)
  BY <1>1 DEF CountdownAnswered
<1>4. ASSUME NEW i \in 1..Len(frames)
      PROVE  CountdownAnswered[i] =
               [frames[i] EXCEPT !.forced = @ \/ frames[i].kind = "countdown"]
  BY <1>1 DEF CountdownAnswered
<1>5. QED
  BY <1>1, <1>2, <1>3, <1>4 DEF Frame

\* A stack after a dialog has closed, and after one has opened on top.
LEMMA PoppedFrames ==
  ASSUME TypeOK, ManagerAssumption, frames # <<>>
  PROVE  /\ Rest \in Seq(Frame) /\ DOMAIN Rest = 1..Len(Rest)
         /\ Len(Rest) = Len(frames) - 1 /\ Len(frames) \in Nat \ {0} /\ Len(Rest) \in Nat
         /\ Top \in Frame /\ Top = frames[Len(frames)]
         /\ \A i \in 1..Len(Rest) : i \in 1..Len(frames) /\ Rest[i] = frames[i]
<1>1. frames \in Seq(Frame) /\ Len(frames) \in Nat /\ Len(frames) # 0
  BY EmptySeq, LenProperties DEF TypeOK, DialogTypes
<1>2. /\ Top \in Frame /\ Rest \in Seq(Frame) /\ Len(Rest) = Len(frames) - 1
      /\ \A i \in 1..Len(Rest) : Rest[i] = frames[i]
  BY FrameSteps
<1>3. DOMAIN Rest = 1..Len(Rest)
  BY <1>2
<1>4. QED
  BY <1>1, <1>2, <1>3 DEF Top

LEMMA PushedFrames ==
  ASSUME NEW s \in Seq(Frame), NEW f \in Frame
  PROVE  /\ Append(s, f) \in Seq(Frame) /\ Len(Append(s, f)) = Len(s) + 1
         /\ DOMAIN Append(s, f) = 1..(Len(s) + 1)
         /\ Append(s, f)[Len(s) + 1] = f
         /\ \A i \in 1..Len(s) : Append(s, f)[i] = s[i]
BY AppendProperties

\* The dialog _session_done opens, if any.
LEMMA AnnouncedFrame ==
  ASSUME TypeOK, ManagerAssumption, NEW w \in Workers, NEW below, Announce(w, below)
  PROVE  \/ frames' = below
         \/ \E f \in Frame :
              /\ frames' = Append(below, f)
              /\ f.kind = Announcement(w) /\ f.kind \in {"error", "countdown"}
              /\ ~f.forced /\ f.shown = cfg
              /\ f.conn = conn[w] /\ f.retryable = (result[w] # "refused")
<1> DEFINE f == DialogFrame(Announcement(w), conn[w], result[w] # "refused")
<1>1. /\ conn[w] \in Connection /\ (result[w] # "refused") \in BOOLEAN
      /\ Announcement(w) \in {"none", "error", "countdown"}
  BY DEF Announcement, TypeOK, WorkTypes
<1>2. CASE Announcement(w) = "none"
  BY <1>2 DEF Announce
<1>3. CASE Announcement(w) # "none"
  <2>1. \A c \in Connection, r \in BOOLEAN, k \in {"cred", "error", "countdown"} :
          DialogFrame(k, c, r) \in Frame
    BY FrameSteps
  <2>2. f \in Frame
    BY <1>1, <1>3, <2>1
  <2>3. /\ f.kind = Announcement(w) /\ f.kind \in {"error", "countdown"} /\ ~f.forced
        /\ f.shown = cfg /\ f.conn = conn[w] /\ f.retryable = (result[w] # "refused")
    BY <1>1, <1>3 DEF DialogFrame
  <2>4. frames' = Append(below, f)
    BY <1>3 DEF Announce
  <2> QED
    BY <2>2, <2>3, <2>4
<1>4. QED
  BY <1>2, <1>3

(***************************************************************************)
(* One session at a time.                                                  *)
(***************************************************************************)
\* A manager that does not run its main loop has no session and no dialog.
Stopped == phase # "running" => ~sessionActive /\ frames = <<>>

\* A session ends the automatic connection that waits.
AutoYields == sessionActive => auto.stage = "idle"

\* Nobody asks; or nothing connects by itself, and then a dialog stands alone
\* and never beside a session.
NobodyAsks  == \A i \in 1..Len(frames) : frames[i].kind # "cred"
DialogAlone == auto.stage = "idle" /\ (frames = <<>> \/ (~sessionActive /\ Len(frames) = 1))
DialogsSerial == \/ Prompting = {} /\ NobodyAsks
                 \/ AutoConn = NoConn /\ DialogAlone

SerialInv == OneSession /\ Stopped /\ AutoYields /\ DialogsSerial

\* A session starts where there was none.
LEMMA LaunchSerial ==
  ASSUME TypeOK, OneSession, ~sessionActive, NEW c, Launch(c)
  PROVE  OneSession' /\ sessionActive'
<1>1. PICK w \in Workers, s \in {"preflight", "unstarted"} :
        sessionActive' = TRUE /\ pc' = [pc EXCEPT ![w] = s]
  BY DEF Launch
<1>2. \A v \in Workers : v # w => pc'[v] = "idle"
  BY <1>1 DEF OneSession, TypeOK, WorkTypes
<1>3. QED
  BY <1>1, <1>2 DEF OneSession

\* start_session from a callback that leaves the frames "rest".
LEMMA StartSerial ==
  ASSUME TypeOK, SerialInv, NEW c, NEW rest, StartSession(c, rest),
         phase = "running", phase' = phase,
         Prompting = {} /\ NobodyAsks => \A i \in 1..Len(rest) : rest[i].kind # "cred",
         AutoConn = NoConn /\ DialogAlone => rest = <<>>
  PROVE  SerialInv'
<1> USE DEF SerialInv
<1>1. CASE Busy /\ frames' = rest /\ UNCHANGED <<auto, sessionVars, workVars>>
  BY <1>1 DEF Busy, sessionVars, workVars, OneSession, Stopped, AutoYields, DialogsSerial,
     NobodyAsks, DialogAlone
<1>2. CASE ~Busy /\ auto' = NoAuto /\ frames' = rest /\ UNCHANGED <<sessionVars, workVars>>
  BY <1>2 DEF Busy, sessionVars, workVars, OneSession, Stopped, AutoYields, DialogsSerial,
     NobodyAsks, DialogAlone, NoAuto
<1>3. CASE /\ ~Busy /\ auto' = NoAuto /\ NeedsPrompt(c) /\ UNCHANGED <<sessionVars, workVars>>
           /\ frames' = Append(rest, DialogFrame("cred", c, FALSE))
  <2>1. AutoConn = NoConn /\ DialogAlone /\ rest = <<>>
    BY <1>3 DEF NeedsPrompt, DialogsSerial
  <2>2. Len(frames') = 1
    BY <1>3, <2>1
  <2>3. QED
    BY <1>3, <2>1, <2>2 DEF Busy, sessionVars, workVars, OneSession, Stopped, AutoYields,
       DialogsSerial, DialogAlone, NoAuto
<1>4. CASE ~Busy /\ auto' = NoAuto /\ frames' = rest /\ Launch(Filled(c))
  <2>1. OneSession' /\ sessionActive'
    BY <1>4, LaunchSerial DEF Busy
  <2>2. QED
    BY <1>4, <2>1 DEF Stopped, AutoYields, DialogsSerial, NobodyAsks, DialogAlone, NoAuto
<1>5. QED
  BY <1>1, <1>2, <1>3, <1>4 DEF StartSession

\* reload_config: dialogs are answered but stay open.
LEMMA ReloadSerial ==
  ASSUME TypeOK, ManagerAssumption, SerialInv, ReloadConfig,
         phase = "running", UNCHANGED <<phase, workVars>>
  PROVE  SerialInv'
<1> USE DEF SerialInv, workVars
<1>1. UNCHANGED sessionActive /\ OneSession'
  BY DEF ReloadConfig, sessionVars, OneSession
<1>2. CASE sessionActive
  BY <1>1, <1>2 DEF ReloadConfig, dialogVars, Stopped, AutoYields, DialogsSerial, NobodyAsks,
     DialogAlone
<1>3. CASE ~sessionActive
  <2>1. frames' = CountdownAnswered /\ (AutoConn = NoConn => auto' = NoAuto)
    BY <1>3 DEF ReloadConfig, ApplyReload, ScheduleAutoConnect
  <2>2. Len(frames') = Len(frames) /\ (frames = <<>> => frames' = <<>>)
    <3>1. Len(CountdownAnswered) = Len(frames) /\ CountdownAnswered \in Seq(Frame)
      BY FrameSteps
    <3>2. frames = <<>> => Len(CountdownAnswered) = 0
      BY <3>1, EmptySeq
    <3>3. QED
      BY <2>1, <3>1, <3>2, EmptySeq
  <2>3. NobodyAsks => NobodyAsks'
    BY <2>1, <2>2, AnsweredFrames DEF NobodyAsks
  <2>4. DialogsSerial'
    BY <1>1, <1>3, <2>1, <2>2, <2>3 DEF DialogsSerial, DialogAlone, NoAuto
  <2>5. QED
    BY <1>1, <1>3, <2>4 DEF Stopped, AutoYields
<1>4. QED
  BY <1>2, <1>3

\* A dialog closes and nothing starts.
LEMMA CloseSerial ==
  ASSUME TypeOK, ManagerAssumption, SerialInv, frames # <<>>, frames' = Rest,
         UNCHANGED <<phase, sessionActive, auto, pc>>
  PROVE  SerialInv'
<1> USE DEF SerialInv
<1>1. NobodyAsks => NobodyAsks'
  BY PoppedFrames DEF NobodyAsks
<1>2. Len(frames) = 1 => frames' = <<>>
  BY PoppedFrames, EmptySeq
<1>3. QED
  BY <1>1, <1>2 DEF OneSession, Stopped, AutoYields, DialogsSerial, DialogAlone

\* A session ends: it was the only one, so no other worker is left, and a
\* dialog about it opens on an empty stack or where nobody asks.
LEMMA DoneSerial ==
  ASSUME TypeOK, ManagerAssumption, SerialInv, NEW w \in Workers, SessionDone(w)
  PROVE  SerialInv'
<1> USE DEF SerialInv
<1>1. pc[w] # "idle" /\ sessionActive /\ phase = "running" /\ phase' = phase /\ ~sessionActive'
  BY DEF SessionDone, Running, OneSession
<1>2. OneSession'
  BY <1>1 DEF SessionDone, OneSession, TypeOK, WorkTypes
<1>3. PICK below \in Seq(Frame) :
        /\ below \in {frames, CountdownAnswered} /\ Announce(w, below)
  BY FrameSteps DEF SessionDone, TypeOK, DialogTypes
<1>4. /\ Len(below) = Len(frames) /\ (frames = <<>> => below = <<>>)
      /\ NobodyAsks => \A i \in 1..Len(below) : below[i].kind # "cred"
  <2>1. Len(CountdownAnswered) = Len(frames) /\ CountdownAnswered \in Seq(Frame)
    BY FrameSteps
  <2>2. frames = <<>> => CountdownAnswered = <<>>
    BY <2>1, EmptySeq
  <2>3. QED
    BY <1>3, <2>1, <2>2, AnsweredFrames DEF NobodyAsks
<1>5. \/ frames' = below
      \/ \E f \in Frame : f.kind # "cred" /\ frames' = Append(below, f)
  BY <1>3, AnnouncedFrame
<1>6. NobodyAsks => NobodyAsks'
  <2> SUFFICES ASSUME NobodyAsks PROVE NobodyAsks'
    OBVIOUS
  <2>1. CASE frames' = below
    BY <1>4, <2>1 DEF NobodyAsks
  <2>2. ASSUME NEW f \in Frame, f.kind # "cred", frames' = Append(below, f)
        PROVE  NobodyAsks'
    <3>1. Len(below) \in Nat
      BY LenProperties
    <3>2. /\ Len(frames') = Len(below) + 1 /\ frames'[Len(below) + 1] = f
          /\ \A i \in 1..Len(below) : frames'[i] = below[i]
      BY <2>2, PushedFrames
    <3>3. QED
      BY <1>4, <2>2, <3>1, <3>2 DEF NobodyAsks
  <2>3. QED
    BY <1>5, <2>1, <2>2
<1>7. AutoConn = NoConn /\ DialogAlone => DialogAlone'
  <2> SUFFICES ASSUME AutoConn = NoConn, DialogAlone PROVE DialogAlone'
    OBVIOUS
  <2>1. below = <<>>
    BY <1>1, <1>4 DEF DialogAlone
  <2>2. frames' = <<>> \/ Len(frames') = 1
    BY <1>5, <2>1
  <2>3. auto'.stage = "idle"
    BY DEF SessionDone, ScheduleAutoConnect, NoAuto, DialogAlone
  <2>4. QED
    BY <1>1, <2>2, <2>3 DEF DialogAlone
<1>8. QED
  BY <1>1, <1>2, <1>6, <1>7 DEF Stopped, AutoYields, DialogsSerial

\* A worker goes on: it was busy and stays busy.
LEMMA WorkerSerial ==
  ASSUME TypeOK, SerialInv, NEW w \in Workers, WorkerActs(w)
  PROVE  SerialInv'
<1>1. /\ pc[w] # "idle" /\ UNCHANGED <<phase, sessionActive, auto, frames>>
      /\ \E s \in Step \ {"idle"} : pc' = [pc EXCEPT ![w] = s]
  BY DEF WorkerActs, Preflight, BuildCommand, Popen, Publish, Recheck, WaitReturns, CheckMarker,
     Finish, WorkerOnly, dialogVars, Step
<1>2. \A v \in Workers : pc'[v] # "idle" => pc[v] # "idle"
  BY <1>1 DEF TypeOK, WorkTypes
<1>3. QED
  BY <1>1, <1>2 DEF SerialInv, OneSession, Stopped, AutoYields, DialogsSerial, NobodyAsks,
     DialogAlone

LEMMA SerialStep ==
  ASSUME ManagerAssumption, TypeInv, SerialInv, [Next]_vars
  PROVE  SerialInv'
<1> USE DEF TypeInv
<1>1. CASE UNCHANGED <<phase, sessionActive, auto, frames, pc>>
  BY <1>1 DEF SerialInv, OneSession, Stopped, AutoYields, DialogsSerial, NobodyAsks, DialogAlone
<1>2. ASSUME NEW id \in Conns, ClickConnect(id) PROVE SerialInv'
  <2>1. phase = "running" /\ frames = <<>> /\ StartSession(Find(id), frames) /\ phase' = phase
    BY <1>2 DEF ClickConnect, MainWindowReachable, Running
  <2>2. QED
    BY <2>1, StartSerial DEF NobodyAsks
<1>3. ASSUME Answerable, phase' = phase, StartSession(Top.conn, Rest) PROVE SerialInv'
  <2>1. frames # <<>> /\ phase = "running"
    BY <1>3 DEF Answerable, Running
  <2>2. /\ NobodyAsks => \A i \in 1..Len(Rest) : Rest[i].kind # "cred"
        /\ DialogAlone => Rest = <<>>
    BY <2>1, PoppedFrames, EmptySeq DEF NobodyAsks, DialogAlone
  <2>3. QED
    BY <1>3, <2>1, <2>2, StartSerial
<1>4. CASE RetryChosen \/ CountdownElapsed
  BY <1>3, <1>4 DEF RetryChosen, CountdownElapsed
<1>5. CASE ConnectAutoNow
  <2>1. phase = "running" /\ phase' = phase /\ auto.stage # "idle"
    BY <1>5 DEF ConnectAutoNow, Running
  <2>2. ~DialogAlone /\ ~sessionActive
    BY <2>1 DEF DialogAlone, SerialInv, AutoYields
  <2>3. StartSession(auto.conn, frames)
    BY <1>5, <2>2 DEF ConnectAutoNow
  <2>4. QED
    BY <2>1, <2>2, <2>3, StartSerial DEF NobodyAsks
<1>6. CASE CredentialsEntered
  <2>1. /\ frames # <<>> /\ Top.kind = "cred" /\ phase = "running" /\ phase' = phase
        /\ frames' = Rest /\ UNCHANGED auto /\ Launch([Top.conn EXCEPT !.creds = TRUE])
    BY <1>6 DEF CredentialsEntered, Answerable, Running
  <2>2. ~NobodyAsks
    BY <2>1, PoppedFrames DEF NobodyAsks
  <2>3. AutoConn = NoConn /\ auto.stage = "idle" /\ ~sessionActive /\ Len(frames) = 1
    BY <2>1, <2>2 DEF SerialInv, DialogsSerial, DialogAlone
  <2>4. Rest = <<>>
    BY <2>1, <2>3, PoppedFrames, EmptySeq
  <2>5. OneSession' /\ sessionActive'
    BY <2>1, <2>3, LaunchSerial DEF SerialInv
  <2>6. QED
    BY <2>1, <2>3, <2>4, <2>5 DEF SerialInv, Stopped, AutoYields, DialogsSerial, DialogAlone
<1>7. CASE HandleHup \/ PressF5
  BY <1>7, ReloadSerial DEF HandleHup, PressF5, MainWindowReachable, Running
<1>8. CASE AutoDelayFires \/ CancelAutoConnect
  <2>1. /\ auto.stage # "idle" /\ (sessionActive => auto' = NoAuto)
        /\ UNCHANGED <<phase, sessionActive, frames, pc>>
    BY <1>8 DEF AutoDelayFires, CancelAutoConnect, sessionVars, workVars
  <2>2. QED
    BY <2>1 DEF SerialInv, OneSession, Stopped, AutoYields, DialogsSerial, NobodyAsks,
       DialogAlone, NoAuto
<1>9. CASE DialogDismissed \/ CountdownCancelled
  BY <1>9, CloseSerial DEF DialogDismissed, CountdownCancelled, Answerable, sessionVars, workVars
<1>10. ASSUME NEW w \in Workers, SessionLaunched(w) PROVE SerialInv'
  BY <1>1, <1>10 DEF SessionLaunched, dialogVars
<1>11. ASSUME NEW w \in Workers, SessionDone(w) PROVE SerialInv'
  BY <1>11, DoneSerial
<1>12. ASSUME NEW w \in Workers, WorkerActs(w) PROVE SerialInv'
  BY <1>12, WorkerSerial
<1>13. CASE CancelSessionStart
  BY <1>1, <1>13 DEF CancelSessionStart, dialogVars
<1>14. ASSUME NEW w \in Workers, ClientExits(w) \/ BarWritesMarker(w) \/ BarKillsClient(w)
                                  \/ BarCheckSession(w)
       PROVE  SerialInv'
  BY <1>1, <1>14 DEF ClientExits, BarWritesMarker, BarKillsClient, BarCheckSession,
     EnvironmentOnly, sessionVars, dialogVars
<1>15. CASE CentralUpdate
  BY <1>1, <1>15 DEF CentralUpdate, EnvironmentOnly, sessionVars, dialogVars
<1>16. CASE ManagerDies
  <2>1. OneSession' /\ ~sessionActive' /\ auto' = NoAuto /\ frames' = <<>>
    BY <1>16 DEF ManagerDies, OneSession
  <2>2. QED
    BY <2>1 DEF SerialInv, Stopped, AutoYields, DialogsSerial, NobodyAsks, DialogAlone, NoAuto
<1>17. CASE Signal \/ Crash
  BY <1>1, <1>16, <1>17 DEF Signal, Crash, sessionVars, workVars, dialogVars
<1>18. CASE ManagerStarts
  BY <1>18 DEF ManagerStarts, sessionVars, workVars, dialogVars, SerialInv, OneSession, Stopped,
     AutoYields, DialogsSerial, NobodyAsks, DialogAlone
<1>19. CASE ManagerReady
  <2>1. /\ UNCHANGED <<sessionActive, frames, pc>> /\ phase # "running"
        /\ AutoConn = NoConn => auto' = NoAuto
    BY <1>19 DEF ManagerReady, ScheduleAutoConnect, sessionVars, workVars
  <2>2. ~sessionActive /\ frames = <<>>
    BY <2>1 DEF SerialInv, Stopped
  <2>3. QED
    BY <2>1, <2>2 DEF SerialInv, OneSession, Stopped, AutoYields, DialogsSerial, NobodyAsks,
       DialogAlone, NoAuto
<1>20. CASE UNCHANGED vars
  BY <1>1, <1>20 DEF vars, sessionVars, workVars, dialogVars
<1>21. QED
  BY <1>2, <1>4, <1>5, <1>6, <1>7, <1>8, <1>9, <1>10, <1>11, <1>12, <1>13, <1>14, <1>15, <1>17,
     <1>18, <1>19, <1>20 DEF Next, UserActs, MainLoopActs, OutsideActs

\* Where nobody asks or nothing connects by itself.
LEMMA SerialKept ==
  ASSUME Serial
  PROVE  Spec => []SerialInv
<1>1. Init => SerialInv
  BY DEF Serial, Init, SerialInv, OneSession, Stopped, AutoYields, DialogsSerial, NobodyAsks,
     DialogAlone, NoAuto
<1>2. TypeInv /\ SerialInv /\ [Next]_vars => SerialInv'
  BY ManagerAssumption, SerialStep
<1>3. QED
  BY <1>1, <1>2, TypeInvKept, PTL DEF Spec

\* The start of a session is never doubled where no automatic connection can
\* meet an open credential dialog, for any connections, workers and crashes.
THEOREM NeverDoubled ==
  ASSUME Serial
  PROVE  Spec => []OneSession
<1>1. SerialInv => OneSession
  BY DEF SerialInv
<1>2. QED
  BY <1>1, SerialKept, PTL

(***************************************************************************)
(* The reconnect countdown. This holds with overlapping sessions too.      *)
(***************************************************************************)
\* A countdown that can still elapse.
Counting(f) == f.kind = "countdown" /\ ~f.forced

\* Only the topmost countdown of a stack can elapse, and only while
\* _countdown_id is set and the configuration it was opened under is in use.
StackGood(s, version, on) ==
  /\ \A i \in 1..Len(s) : Counting(s[i]) => s[i].shown = version /\ on
  /\ \A i, j \in 1..Len(s) : i < j /\ s[j].kind = "countdown" => ~Counting(s[i])

CountInv == /\ phase # "running" => frames = <<>>
            /\ StackGood(frames, cfg, countdown)

\* Closing a countdown leaves none that could elapse.
LEMMA PopGood ==
  ASSUME TypeOK, ManagerAssumption, frames # <<>>, StackGood(frames, cfg, countdown)
  PROVE  /\ StackGood(Rest, cfg, countdown)
         /\ Top.kind = "countdown" => \A on : StackGood(Rest, cfg, on)
<1>1. /\ \A i \in 1..Len(Rest) : i \in 1..Len(frames) /\ Rest[i] = frames[i] /\ i < Len(frames)
      /\ Top = frames[Len(frames)] /\ Len(frames) \in 1..Len(frames)
  BY PoppedFrames
<1>2. StackGood(Rest, cfg, countdown)
  BY <1>1 DEF StackGood
<1>3. ASSUME Top.kind = "countdown"
      PROVE  \A i \in 1..Len(Rest) : ~Counting(Rest[i])
  BY <1>1, <1>3 DEF StackGood
<1>4. QED
  BY <1>2, <1>3 DEF StackGood

\* Another dialog may open above; a countdown only where none can elapse.
LEMMA PushGood ==
  ASSUME NEW s \in Seq(Frame), NEW f \in Frame, NEW version, NEW on,
         StackGood(s, version, on),
         f.kind = "countdown" =>
           f.shown = version /\ on /\ \A i \in 1..Len(s) : ~Counting(s[i])
  PROVE  StackGood(Append(s, f), version, on)
<1> DEFINE t == Append(s, f)
<1>1. Len(s) \in Nat /\ Len(t) = Len(s) + 1 /\ t[Len(s) + 1] = f
  BY PushedFrames, LenProperties
<1>2. \A i \in 1..Len(s) : t[i] = s[i]
  BY PushedFrames
<1> HIDE DEF t
<1>3. \A i \in 1..Len(t) : i \in 1..Len(s) \/ i = Len(s) + 1
  BY <1>1
<1>4. ASSUME NEW i \in 1..Len(t), Counting(t[i])
      PROVE  t[i].shown = version /\ on
  <2>1. CASE i \in 1..Len(s)
    BY <1>2, <1>4, <2>1 DEF StackGood
  <2>2. CASE i = Len(s) + 1
    BY <1>1, <1>4, <2>2 DEF Counting
  <2>3. QED
    BY <1>3, <2>1, <2>2
<1>5. ASSUME NEW i \in 1..Len(t), NEW j \in 1..Len(t), i < j, t[j].kind = "countdown"
      PROVE  ~Counting(t[i])
  <2>1. i \in 1..Len(s)
    BY <1>1, <1>5
  <2>2. CASE j \in 1..Len(s)
    BY <1>2, <1>5, <2>1, <2>2 DEF StackGood
  <2>3. CASE j = Len(s) + 1
    BY <1>1, <1>2, <1>5, <2>1, <2>3
  <2>4. QED
    BY <1>3, <2>2, <2>3
<1>6. QED
  BY <1>4, <1>5 DEF StackGood, t

\* Once reload_config has answered, nothing counts any more.
LEMMA AnsweredGood ==
  ASSUME TypeOK, ManagerAssumption
  PROVE  /\ \A i \in 1..Len(CountdownAnswered) : ~Counting(CountdownAnswered[i])
         /\ \A version, on : StackGood(CountdownAnswered, version, on)
<1>1. Len(CountdownAnswered) = Len(frames)
  BY FrameSteps
<1>2. \A i \in 1..Len(CountdownAnswered) : ~Counting(CountdownAnswered[i])
  BY <1>1, AnsweredFrames DEF Counting
<1>3. QED
  BY <1>2 DEF StackGood

\* start_session opens a credential dialog, or none.
LEMMA StartGood ==
  ASSUME TypeOK, ManagerAssumption, NEW c \in Connection, NEW rest \in Seq(Frame),
         StartSession(c, rest), NEW version, NEW on, StackGood(rest, version, on)
  PROVE  StackGood(frames', version, on)
<1>1. DialogFrame("cred", c, FALSE) \in Frame /\ DialogFrame("cred", c, FALSE).kind = "cred"
  BY FrameSteps DEF DialogFrame
<1>2. StackGood(Append(rest, DialogFrame("cred", c, FALSE)), version, on)
  BY <1>1, PushGood
<1>3. QED
  BY <1>2 DEF StartSession

\* The end of a session opens a countdown only where none is under way.
LEMMA DoneCounts ==
  ASSUME TypeOK, ManagerAssumption, CountInv, NEW w \in Workers, SessionDone(w)
  PROVE  CountInv'
<1>1. phase = "running" /\ phase' = phase
  BY DEF SessionDone, Running
<1>2. CASE reloadPending
  <2>1. Announcement(w) # "countdown" /\ Announce(w, CountdownAnswered)
    BY <1>2 DEF SessionDone, Announcement
  <2>2. CountdownAnswered \in Seq(Frame) /\ StackGood(CountdownAnswered, cfg', countdown')
    BY FrameSteps, AnsweredGood
  <2>3. CASE frames' = CountdownAnswered
    BY <1>1, <2>2, <2>3 DEF CountInv
  <2>4. CASE \E f \in Frame : f.kind # "countdown" /\ frames' = Append(CountdownAnswered, f)
    <3>1. StackGood(frames', cfg', countdown')
      BY <2>2, <2>4, PushGood
    <3>2. QED
      BY <1>1, <3>1 DEF CountInv
  <2>5. QED
    BY <2>1, <2>3, <2>4, AnnouncedFrame
<1>3. CASE ~reloadPending
  <2>1. /\ UNCHANGED cfg /\ Announce(w, frames) /\ frames \in Seq(Frame)
        /\ countdown' = (countdown \/ Announcement(w) = "countdown")
        /\ Announcement(w) = "countdown" => ~countdown
    BY <1>3 DEF SessionDone, Announcement, TypeOK, DialogTypes
  <2>2. StackGood(frames, cfg, countdown')
    BY <2>1 DEF CountInv, StackGood
  <2>3. ~countdown => \A i \in 1..Len(frames) : ~Counting(frames[i])
    BY DEF CountInv, StackGood
  <2>4. CASE frames' = frames
    BY <1>1, <2>1, <2>2, <2>4 DEF CountInv
  <2>5. ASSUME NEW f \in Frame, frames' = Append(frames, f), f.kind = Announcement(w), f.shown = cfg
        PROVE  CountInv'
    <3>1. f.kind = "countdown" =>
            f.shown = cfg /\ countdown' /\ \A i \in 1..Len(frames) : ~Counting(frames[i])
      BY <2>1, <2>3, <2>5
    <3>2. StackGood(Append(frames, f), cfg, countdown')
      BY <2>1, <2>2, <3>1, PushGood
    <3>3. QED
      BY <1>1, <2>1, <2>5, <3>2 DEF CountInv
  <2>6. QED
    BY <2>1, <2>4, <2>5, AnnouncedFrame
<1>4. QED
  BY <1>2, <1>3

LEMMA CountStep ==
  ASSUME ManagerAssumption, TypeInv, CountInv, [Next]_vars
  PROVE  CountInv'
<1> USE DEF TypeInv
<1>1. CASE UNCHANGED <<phase, cfg, frames, countdown>>
  BY <1>1 DEF CountInv, StackGood
<1>2. ASSUME NEW id \in Conns, ClickConnect(id) PROVE CountInv'
  <2>1. Find(id) \in Connection /\ frames \in Seq(Frame)
    BY FrameSteps DEF TypeOK, DialogTypes
  <2>2. /\ StartSession(Find(id), frames) /\ UNCHANGED <<phase, cfg, countdown>>
        /\ phase = "running"
    BY <1>2 DEF ClickConnect, MainWindowReachable, Running, cfgVars
  <2>3. StackGood(frames', cfg, countdown)
    BY <2>1, <2>2, StartGood DEF CountInv
  <2>4. QED
    BY <2>2, <2>3 DEF CountInv
<1>3. CASE ConnectAutoNow
  <2>1. auto.conn \in Connection /\ frames \in Seq(Frame)
    BY DEF TypeOK, DialogTypes
  <2>2. UNCHANGED <<phase, cfg, countdown>> /\ phase = "running"
    BY <1>3 DEF ConnectAutoNow, Running, cfgVars
  <2>3. CASE StartSession(auto.conn, frames)
    <3>1. StackGood(frames', cfg, countdown)
      BY <2>1, <2>3, StartGood DEF CountInv
    <3>2. QED
      BY <2>2, <3>1 DEF CountInv
  <2>4. QED
    BY <1>1, <1>3, <2>2, <2>3 DEF ConnectAutoNow
<1>4. ASSUME Answerable, StartSession(Top.conn, Rest), UNCHANGED <<phase, cfg>>,
             countdown' = countdown \/ Top.kind = "countdown"
      PROVE  CountInv'
  <2>1. frames # <<>> /\ phase = "running"
    BY <1>4 DEF Answerable, Running
  <2>2. Top.conn \in Connection /\ Rest \in Seq(Frame)
    BY <2>1, PoppedFrames DEF Frame
  <2>3. StackGood(Rest, cfg, countdown')
    BY <1>4, <2>1, PopGood DEF CountInv
  <2>4. StackGood(frames', cfg, countdown')
    BY <1>4, <2>2, <2>3, StartGood
  <2>5. QED
    BY <1>4, <2>1, <2>4 DEF CountInv
<1>5. CASE RetryChosen \/ CountdownElapsed
  BY <1>4, <1>5 DEF RetryChosen, CountdownElapsed, cfgVars
<1>6. CASE CredentialsEntered \/ DialogDismissed \/ CountdownCancelled
  <2>1. /\ frames # <<>> /\ phase = "running" /\ frames' = Rest /\ UNCHANGED <<phase, cfg>>
        /\ countdown' = countdown \/ Top.kind = "countdown"
    BY <1>6 DEF CredentialsEntered, DialogDismissed, CountdownCancelled, Answerable, Running, cfgVars
  <2>2. StackGood(Rest, cfg, countdown')
    BY <2>1, PopGood DEF CountInv
  <2>3. QED
    BY <2>1, <2>2 DEF CountInv
<1>7. CASE HandleHup \/ PressF5
  <2>1. ReloadConfig /\ phase = "running" /\ phase' = phase
    BY <1>7 DEF HandleHup, PressF5, MainWindowReachable, Running
  <2>2. CASE frames' = CountdownAnswered
    BY <2>1, <2>2, AnsweredGood DEF CountInv
  <2>3. CASE UNCHANGED <<cfg, frames, countdown>>
    BY <1>1, <2>1, <2>3
  <2>4. QED
    BY <2>1, <2>2, <2>3 DEF ReloadConfig, ApplyReload, dialogVars
<1>8. CASE AutoDelayFires \/ CancelAutoConnect
  BY <1>1, <1>8 DEF AutoDelayFires, CancelAutoConnect, cfgVars
<1>9. ASSUME NEW w \in Workers, SessionLaunched(w) PROVE CountInv'
  BY <1>1, <1>9 DEF SessionLaunched, cfgVars, dialogVars
<1>10. ASSUME NEW w \in Workers, SessionDone(w) PROVE CountInv'
  BY <1>10, DoneCounts
<1>11. ASSUME NEW w \in Workers, WorkerActs(w) PROVE CountInv'
  BY <1>1, <1>11 DEF WorkerActs, Preflight, BuildCommand, Popen, Publish, Recheck, WaitReturns,
     CheckMarker, WorkerOnly, cfgVars, dialogVars
<1>12. CASE CancelSessionStart
  BY <1>1, <1>12 DEF CancelSessionStart, cfgVars, dialogVars
<1>13. ASSUME NEW w \in Workers, ClientExits(w) \/ BarWritesMarker(w) \/ BarKillsClient(w)
                                  \/ BarCheckSession(w)
       PROVE  CountInv'
  BY <1>1, <1>13 DEF ClientExits, BarWritesMarker, BarKillsClient, BarCheckSession,
     EnvironmentOnly, cfgVars, dialogVars
<1>14. CASE CentralUpdate
  BY <1>1, <1>14 DEF CentralUpdate, EnvironmentOnly, cfgVars, dialogVars
<1>15. CASE ManagerDies
  <2>1. frames' = <<>> /\ Len(frames') = 0
    BY <1>15, EmptySeq DEF ManagerDies
  <2>2. QED
    BY <2>1 DEF CountInv, StackGood
<1>16. CASE Signal \/ Crash
  BY <1>1, <1>15, <1>16 DEF Signal, Crash, cfgVars, dialogVars
<1>17. CASE ManagerStarts
  <2>1. frames' = frames /\ frames = <<>> /\ Len(frames') = 0
    BY <1>17, EmptySeq DEF ManagerStarts, CountInv, dialogVars
  <2>2. QED
    BY <2>1 DEF CountInv, StackGood
<1>18. CASE ManagerReady
  BY <1>18 DEF ManagerReady, cfgVars, CountInv, StackGood
<1>19. CASE UNCHANGED vars
  BY <1>1, <1>19 DEF vars, cfgVars, dialogVars
<1>20. QED
  BY <1>2, <1>3, <1>5, <1>6, <1>7, <1>8, <1>9, <1>10, <1>11, <1>12, <1>13, <1>14, <1>16, <1>17,
     <1>18, <1>19 DEF Next, UserActs, MainLoopActs, OutsideActs

\* A reload ends the reconnect countdown it arrives in, however deep the
\* dialogs are nested, with overlapping sessions too.
THEOREM CountdownCurrent == Spec => []CountdownDiesWithReload
<1>1. Init => CountInv
  <2> SUFFICES ASSUME Init PROVE CountInv
    OBVIOUS
  <2>1. frames = <<>> /\ Len(frames) = 0
    BY EmptySeq DEF Init
  <2>2. QED
    BY <2>1 DEF CountInv, StackGood
<1>2. TypeInv /\ CountInv /\ [Next]_vars => CountInv'
  BY ManagerAssumption, CountStep
<1>3. TypeInv /\ CountInv => CountdownDiesWithReload
  <2> SUFFICES ASSUME TypeInv, CountInv PROVE CountdownDiesWithReload
    OBVIOUS
  <2>1. DOMAIN frames = 1..Len(frames)
    BY DEF TypeInv, TypeOK, DialogTypes
  <2>2. QED
    BY <2>1 DEF CountInv, StackGood, Counting, CountdownDiesWithReload
<1>4. QED
  BY <1>1, <1>2, <1>3, TypeInvKept, PTL DEF Spec

\* The two ways to connect without the user are never armed together: where
\* sessions cannot overlap, an automatic connection never waits beside the
\* session that will count down.
THEOREM OneWay ==
  ASSUME Serial
  PROVE  Spec => []OneAutomaticPath
<1>1. Init => OneAutomaticPath
  BY DEF Init, OneAutomaticPath
<1>2. TypeInv /\ SerialInv /\ OneAutomaticPath /\ [Next]_vars => OneAutomaticPath'
  <2> SUFFICES ASSUME TypeInv, SerialInv, OneAutomaticPath, [Next]_vars
               PROVE  OneAutomaticPath'
    OBVIOUS
  <2> USE DEF OneAutomaticPath
  <2>1. CASE UNCHANGED <<auto, countdown>>
    BY <2>1
  <2>2. CASE auto'.stage = "idle" \/ countdown' = FALSE
    BY <2>2
  <2>3. ASSUME NEW c, NEW rest, StartSession(c, rest), countdown' => countdown
         PROVE  OneAutomaticPath'
    <3>1. auto' \in {auto, NoAuto}
      BY <2>3 DEF StartSession
    <3>2. auto' = auto \/ auto'.stage = "idle"
      BY <3>1 DEF NoAuto
    <3>3. QED
      BY <2>3, <3>2
  <2>4. ASSUME NEW id \in Conns, ClickConnect(id) PROVE OneAutomaticPath'
    BY <2>4, <2>3 DEF ClickConnect
  <2>5. CASE RetryChosen \/ CountdownElapsed \/ ConnectAutoNow
    BY <2>3, <2>5 DEF RetryChosen, CountdownElapsed, ConnectAutoNow, NoAuto
  <2>6. CASE CredentialsEntered \/ DialogDismissed \/ CountdownCancelled
    BY <2>1, <2>6 DEF CredentialsEntered, DialogDismissed, CountdownCancelled
  <2>7. CASE HandleHup \/ PressF5
    BY <2>1, <2>7 DEF HandleHup, PressF5, ReloadConfig, ApplyReload, dialogVars
  <2>8. CASE AutoDelayFires \/ CancelAutoConnect
    BY <2>8 DEF AutoDelayFires, CancelAutoConnect, NoAuto
  <2>9. ASSUME NEW w \in Workers, SessionLaunched(w) PROVE OneAutomaticPath'
    BY <2>1, <2>9 DEF SessionLaunched, dialogVars
  <2>10. ASSUME NEW w \in Workers, SessionDone(w) PROVE OneAutomaticPath'
    <3>1. auto.stage = "idle"
      BY <2>10 DEF SessionDone, SerialInv, OneSession, AutoYields
    <3>2. CASE reloadPending
      <4>1. countdown' = FALSE
        BY <2>10, <3>2 DEF SessionDone, Announcement
      <4>2. QED
        BY <4>1
    <3>3. CASE ~reloadPending
      BY <2>10, <3>1, <3>3 DEF SessionDone
    <3>4. QED
      BY <3>2, <3>3
  <2>11. ASSUME NEW w \in Workers, WorkerActs(w) PROVE OneAutomaticPath'
    BY <2>1, <2>11 DEF WorkerActs, Preflight, BuildCommand, Popen, Publish, Recheck, WaitReturns,
       CheckMarker, WorkerOnly, dialogVars
  <2>12. CASE CancelSessionStart
    BY <2>1, <2>12 DEF CancelSessionStart, dialogVars
  <2>13. ASSUME NEW w \in Workers, ClientExits(w) \/ BarWritesMarker(w) \/ BarKillsClient(w)
                                    \/ BarCheckSession(w)
         PROVE  OneAutomaticPath'
    BY <2>1, <2>13 DEF ClientExits, BarWritesMarker, BarKillsClient, BarCheckSession,
       EnvironmentOnly, dialogVars
  <2>14. CASE CentralUpdate
    BY <2>1, <2>14 DEF CentralUpdate, EnvironmentOnly, dialogVars
  <2>15. CASE Signal \/ Crash
    BY <2>1, <2>15 DEF Signal, Crash, ManagerDies, dialogVars
  <2>16. CASE ManagerStarts
    BY <2>1, <2>16 DEF ManagerStarts, dialogVars
  <2>17. CASE ManagerReady
    BY <2>17 DEF ManagerReady, ScheduleAutoConnect, NoAuto, TypeInv, TypeOK, DialogTypes
  <2>18. CASE UNCHANGED vars
    BY <2>1, <2>18 DEF vars, dialogVars
  <2>19. QED
    BY <2>4, <2>5, <2>6, <2>7, <2>8, <2>9, <2>10, <2>11, <2>12, <2>13, <2>14, <2>15,
       <2>16, <2>17, <2>18 DEF Next, UserActs, MainLoopActs, OutsideActs
<1>3. QED
  BY <1>1, <1>2, TypeInvKept, SerialKept, PTL DEF Spec

(***************************************************************************)
(* The worker, its client and the bar above it.                            *)
(***************************************************************************)
Early == {"preflight", "build", "popen"}

WorkerOf(w) ==
  /\ pc[w] \in Early => client[w] = "none"
  /\ pc[w] \in Early \cup {"publish", "recheck"} => bar[w] = "none"
  /\ pc[w] \in {"recheck", "wait"} => sessionProc = w
  /\ pc[w] = "wait" /\ sessionCancelled => client[w] # "running"
  /\ pc[w] \in {"wait", "marker"} /\ bar[w] \in {"marked", "used"} => marker
  /\ pc[w] \in {"marker", "posted"} => ~Alive(w) /\ bar[w] \notin {"up", "marked", "unmarked"}
  /\ pc[w] = "posted" /\ bar[w] = "used" => result[w] = "clean"

\* A worker past its launch is the one Cancel reaches; a Disconnect through its
\* bar stays known, by the marker until it is consumed, then by the outcome.
WorkInv == \A w \in Workers : WorkerOf(w)

\* Where all others are idle, a step of one worker says it all.
LEMMA AloneWorks ==
  ASSUME NEW w \in Workers, WorkerOf(w)', \A v \in Workers \ {w} : pc'[v] = "idle"
  PROVE  WorkInv'
BY DEF WorkInv, WorkerOf, Early

LEMMA LaunchWorks ==
  ASSUME TypeOK, OneSession, ~sessionActive, NEW c, Launch(c)
  PROVE  WorkInv'
<1>1. PICK w \in Workers, s \in {"preflight", "unstarted"} :
        /\ pc' = [pc EXCEPT ![w] = s]
        /\ client' = [client EXCEPT ![w] = "none"]
        /\ bar' = [bar EXCEPT ![w] = "none"]
  BY DEF Launch
<1>2. pc'[w] \in {"preflight", "unstarted"} /\ client'[w] = "none" /\ bar'[w] = "none"
  BY <1>1 DEF TypeOK, WorkTypes
<1>3. \A v \in Workers \ {w} : pc'[v] = "idle"
  BY <1>1 DEF OneSession, TypeOK, WorkTypes
<1>4. WorkerOf(w)'
  BY <1>2 DEF WorkerOf, Early
<1>5. QED
  BY <1>3, <1>4, AloneWorks

LEMMA StartWorks ==
  ASSUME TypeOK, SerialInv, WorkInv, NEW c, NEW rest, StartSession(c, rest), UNCHANGED marker
  PROVE  WorkInv'
<1>1. CASE UNCHANGED <<sessionVars, workVars>>
  BY <1>1 DEF sessionVars, workVars, WorkInv, WorkerOf, Alive
<1>2. CASE ~Busy /\ Launch(Filled(c))
  BY <1>2, LaunchWorks DEF Busy, SerialInv
<1>3. QED
  BY <1>1, <1>2 DEF StartSession

\* One step of the only worker.
LEMMA WorkerWorks ==
  ASSUME TypeInv, SerialInv, WorkInv, NEW w \in Workers, WorkerActs(w)
  PROVE  WorkInv'
<1> USE DEF TypeInv, TypeOK, WorkTypes
<1>1. pc[w] # "idle" /\ \A v \in Workers \ {w} : pc'[v] = pc[v]
  BY DEF WorkerActs, Preflight, BuildCommand, Popen, Publish, Recheck, WaitReturns, CheckMarker,
     Finish
<1>2. \A v \in Workers \ {w} : pc'[v] = "idle"
  BY <1>1 DEF SerialInv, OneSession
<1>3. WorkerOf(w)
  BY DEF WorkInv
<1>4. ASSUME Preflight(w) \/ BuildCommand(w)
      PROVE  WorkerOf(w)'
  BY <1>3, <1>4 DEF Preflight, BuildCommand, Finish, WorkerOnly, WorkerOf, Early, Alive
<1>5. ASSUME Popen(w)
      PROVE  WorkerOf(w)'
  BY <1>3, <1>5 DEF Popen, Finish, WorkerOnly, WorkerOf, Early, Alive
<1>6. ASSUME Publish(w)
      PROVE  WorkerOf(w)'
  BY <1>3, <1>6 DEF Publish, WorkerOnly, WorkerOf, Early, Alive
<1>7. ASSUME Recheck(w)
      PROVE  WorkerOf(w)'
  <2>1. /\ pc'[w] = "wait" /\ sessionProc' = w /\ UNCHANGED <<sessionCancelled, marker, result>>
        /\ bar'[w] \in {"none", "up"}
    BY <1>3, <1>7 DEF Recheck, WorkerOnly, WorkerOf
  <2>2. sessionCancelled => client'[w] # "running"
    BY <1>7 DEF Recheck, CancelledAfterLaunch, Terminated
  <2>3. QED
    BY <2>1, <2>2 DEF WorkerOf, Early
<1>8. ASSUME WaitReturns(w)
      PROVE  WorkerOf(w)'
  <2>1. /\ pc'[w] = "marker" /\ client' = client /\ ~Alive(w) /\ marker' = marker
        /\ bar'[w] = CASE bar[w] = "up" -> "gone" [] bar[w] = "marked" -> "used"
                        [] bar[w] = "unmarked" -> "gone" [] OTHER -> bar[w]
    BY <1>8 DEF WaitReturns, ClientGone
  <2>2. bar'[w] \notin {"up", "marked", "unmarked"} /\ (bar'[w] = "used" => bar[w] \in {"marked", "used"})
    BY <2>1
  <2>3. bar[w] \in {"marked", "used"} => marker
    BY <1>3, <1>8 DEF WaitReturns, WorkerOf
  <2>4. QED
    BY <2>1, <2>2, <2>3 DEF WorkerOf, Early, Alive
<1>9. ASSUME CheckMarker(w)
      PROVE  WorkerOf(w)'
  <2>1. /\ pc'[w] = "posted" /\ UNCHANGED <<client, bar>>
        /\ result'[w] = IF marker THEN "clean" ELSE client[w]
    BY <1>9 DEF CheckMarker, Finish, ExitCode
  <2>2. ~Alive(w) /\ bar[w] \notin {"up", "marked", "unmarked"} /\ (bar[w] = "used" => marker)
    BY <1>3, <1>9 DEF CheckMarker, WorkerOf
  <2>3. QED
    BY <2>1, <2>2 DEF WorkerOf, Early, Alive
<1>10. QED
  BY <1>2, <1>4, <1>5, <1>6, <1>7, <1>8, <1>9, AloneWorks DEF WorkerActs

\* What happens to a client or a bar, of this manager or an earlier one.
LEMMA OutsideWorks ==
  ASSUME TypeOK, WorkInv, NEW w \in Workers,
         ClientExits(w) \/ BarWritesMarker(w) \/ BarKillsClient(w) \/ BarCheckSession(w)
  PROVE  WorkInv'
<1> USE DEF TypeOK, WorkTypes
<1>1. /\ UNCHANGED <<sessionProc, sessionCancelled, pc, result>> /\ (marker => marker')
      /\ \A v \in Workers \ {w} : client'[v] = client[v] /\ bar'[v] = bar[v]
  BY DEF ClientExits, BarWritesMarker, BarKillsClient, BarCheckSession, EnvironmentOnly, sessionVars
<1>2. ASSUME NEW v \in Workers \ {w} PROVE WorkerOf(v)'
  BY <1>1 DEF WorkInv, WorkerOf, Alive
<1>3. WorkerOf(w)
  BY DEF WorkInv
<1>4. ASSUME ClientExits(w) PROVE WorkerOf(w)'
  BY <1>1, <1>3, <1>4 DEF ClientExits, WorkerOf, Alive, Early, Outcome
<1>5. ASSUME BarWritesMarker(w) PROVE WorkerOf(w)'
  BY <1>1, <1>3, <1>5 DEF BarWritesMarker, WorkerOf, Alive, Early
<1>6. ASSUME BarKillsClient(w) PROVE WorkerOf(w)'
  BY <1>1, <1>3, <1>6 DEF BarKillsClient, Terminated, WorkerOf, Alive, Early
<1>7. ASSUME BarCheckSession(w) PROVE WorkerOf(w)'
  BY <1>1, <1>3, <1>7 DEF BarCheckSession, WorkerOf, Alive, Early
<1>8. QED
  BY <1>2, <1>4, <1>5, <1>6, <1>7 DEF WorkInv

LEMMA WorkStep ==
  ASSUME ManagerAssumption, TypeInv, SerialInv, WorkInv, [Next]_vars
  PROVE  WorkInv'
<1> USE DEF TypeInv
<1>1. CASE UNCHANGED <<sessionProc, sessionCancelled, marker, pc, client, bar, result>>
  BY <1>1 DEF WorkInv, WorkerOf, Alive
<1>2. ASSUME NEW id \in Conns, ClickConnect(id) PROVE WorkInv'
  BY <1>2, StartWorks DEF ClickConnect
<1>3. CASE RetryChosen \/ CountdownElapsed
  BY <1>3, StartWorks DEF RetryChosen, CountdownElapsed
<1>4. CASE ConnectAutoNow
  BY <1>1, <1>4, StartWorks DEF ConnectAutoNow, sessionVars, workVars
<1>5. CASE CredentialsEntered
  <2>1. /\ frames # <<>> /\ Top.kind = "cred" /\ Launch([Top.conn EXCEPT !.creds = TRUE])
    BY <1>5 DEF CredentialsEntered, Answerable
  <2>2. ~sessionActive
    BY <2>1, PoppedFrames DEF SerialInv, DialogsSerial, NobodyAsks, DialogAlone
  <2>3. QED
    BY <2>1, <2>2, LaunchWorks DEF SerialInv
<1>6. CASE HandleHup \/ PressF5
  BY <1>1, <1>6 DEF HandleHup, PressF5, ReloadConfig, sessionVars, workVars
<1>7. CASE AutoDelayFires \/ CancelAutoConnect \/ DialogDismissed \/ CountdownCancelled
  BY <1>1, <1>7 DEF AutoDelayFires, CancelAutoConnect, DialogDismissed, CountdownCancelled,
     sessionVars, workVars
<1>8. ASSUME NEW w \in Workers, SessionLaunched(w) PROVE WorkInv'
  BY <1>1, <1>8 DEF SessionLaunched
<1>9. ASSUME NEW w \in Workers, SessionDone(w) PROVE WorkInv'
  <2>1. SerialInv' /\ ~sessionActive'
    BY <1>9, DoneSerial DEF SessionDone
  <2>2. \A v \in Workers : pc'[v] = "idle"
    BY <2>1 DEF SerialInv, OneSession
  <2>3. QED
    BY <2>2 DEF WorkInv, WorkerOf, Early
<1>10. ASSUME NEW w \in Workers, WorkerActs(w) PROVE WorkInv'
  BY <1>10, WorkerWorks
<1>11. CASE CancelSessionStart
  <2> SUFFICES ASSUME NEW w \in Workers PROVE WorkerOf(w)'
    BY DEF WorkInv
  <2>1. /\ UNCHANGED <<sessionProc, marker, pc, bar, result>>
        /\ client'[w] = IF w = sessionProc THEN Terminated(w) ELSE client[w]
    BY <1>11 DEF CancelSessionStart
  <2>2. WorkerOf(w)
    BY DEF WorkInv
  <2>3. QED
    BY <2>1, <2>2 DEF WorkerOf, Terminated, Alive, Early
<1>12. ASSUME NEW w \in Workers, ClientExits(w) \/ BarWritesMarker(w) \/ BarKillsClient(w)
                                  \/ BarCheckSession(w)
       PROVE  WorkInv'
  BY <1>12, OutsideWorks
<1>13. CASE CentralUpdate
  BY <1>1, <1>13 DEF CentralUpdate, EnvironmentOnly, sessionVars
<1>14. CASE ManagerDies
  <2>1. \A w \in Workers : pc'[w] = "idle"
    BY <1>14 DEF ManagerDies
  <2>2. QED
    BY <2>1 DEF WorkInv, WorkerOf, Early
<1>15. CASE Signal \/ Crash
  BY <1>1, <1>14, <1>15 DEF Signal, Crash, sessionVars, workVars
<1>16. CASE ManagerStarts \/ ManagerReady
  BY <1>1, <1>16 DEF ManagerStarts, ManagerReady, sessionVars, workVars
<1>17. CASE UNCHANGED vars
  BY <1>1, <1>17 DEF vars, sessionVars, workVars
<1>18. QED
  BY <1>2, <1>3, <1>4, <1>5, <1>6, <1>7, <1>8, <1>9, <1>10, <1>11, <1>12, <1>13, <1>15, <1>16,
     <1>17 DEF Next, UserActs, MainLoopActs, OutsideActs

LEMMA WorkKept ==
  ASSUME Serial
  PROVE  Spec => []WorkInv
<1>1. Init => WorkInv
  BY DEF Init, WorkInv, WorkerOf, Early
<1>2. TypeInv /\ SerialInv /\ WorkInv /\ [Next]_vars => WorkInv'
  BY ManagerAssumption, WorkStep
<1>3. QED
  BY <1>1, <1>2, TypeInvKept, SerialKept, PTL DEF Spec

\* Cancel cannot leave an invisible client running, whichever of the worker and
\* the button comes first at each of the looks they take at each other.
THEOREM CancelReaches ==
  ASSUME Serial
  PROVE  Spec => []CancelReachesClient
<1>1. WorkInv => CancelReachesClient
  BY DEF WorkInv, WorkerOf, CancelReachesClient
<1>2. QED
  BY <1>1, WorkKept, PTL

\* Only _session_done, or the death of the manager, takes a reported end away.
LEMMA EndIsReported ==
  ASSUME TypeOK, NEW w \in Workers, pc[w] = "posted", pc'[w] = "idle", [Next]_vars, Running'
  PROVE  SessionDone(w)
<1> USE DEF TypeOK, WorkTypes
<1>1. pc' # pc
  OBVIOUS
<1>2. ASSUME NEW c, Launch(c) PROVE FALSE
  BY <1>2 DEF Launch, FreeSlot
<1>3. ASSUME NEW c, NEW rest, StartSession(c, rest) PROVE FALSE
  BY <1>1, <1>2, <1>3 DEF StartSession, workVars
<1>4. ASSUME NEW v \in Workers, SessionDone(v), v # w PROVE FALSE
  BY <1>4 DEF SessionDone
<1>5. ASSUME NEW v \in Workers, WorkerActs(v) PROVE FALSE
  BY <1>5 DEF WorkerActs, Preflight, BuildCommand, Popen, Publish, Recheck, WaitReturns,
     CheckMarker, Finish
<1>6. ~ManagerDies
  BY DEF ManagerDies, Running
<1>7. ~HandleHup /\ ~PressF5
  BY <1>1 DEF HandleHup, PressF5, workVars
<1>8. ~UserActs
  BY <1>1, <1>2, <1>3, <1>7 DEF UserActs, ClickConnect, CancelAutoConnect, CancelSessionStart,
     CredentialsEntered, DialogDismissed, RetryChosen, workVars
<1>9. ~OutsideActs
  BY <1>1, <1>6 DEF OutsideActs, ClientExits, BarWritesMarker, BarKillsClient, BarCheckSession,
     EnvironmentOnly, CentralUpdate, Signal, Crash, ManagerStarts, ManagerReady, workVars
<1>10. ~AutoDelayFires /\ ~ConnectAutoNow /\ ~CountdownElapsed /\ ~CountdownCancelled
  BY <1>1, <1>3 DEF AutoDelayFires, ConnectAutoNow, CountdownElapsed, CountdownCancelled, workVars
<1>11. \A v \in Workers : ~SessionLaunched(v)
  BY <1>1 DEF SessionLaunched
<1>12. ~UNCHANGED vars
  BY <1>1 DEF vars, workVars
<1>13. QED
  BY <1>4, <1>5, <1>7, <1>8, <1>9, <1>10, <1>11, <1>12 DEF Next, MainLoopActs

\* Leaving through the session bar is final, whatever the client's exit code,
\* a crash before it and the bars of earlier managers leave behind.
THEOREM LeavingIsFinal ==
  ASSUME Serial
  PROVE  Spec => DisconnectIsFinal
<1>1. ASSUME TypeInv, WorkInv, [Next]_vars
      PROVE  [\A w \in Workers :
                pc[w] = "posted" /\ pc'[w] = "idle" /\ bar[w] = "used" /\ Running'
                  => Len(frames') <= Len(frames)]_vars
  <2> SUFFICES ASSUME NEW w \in Workers, pc[w] = "posted", pc'[w] = "idle", bar[w] = "used",
                      Running'
               PROVE  Len(frames') <= Len(frames)
    OBVIOUS
  <2>1. SessionDone(w)
    BY <1>1, EndIsReported DEF TypeInv
  <2>2. result[w] = "clean"
    BY <1>1 DEF WorkInv, WorkerOf
  <2>3. Announcement(w) = "none"
    BY <2>2 DEF Announcement
  <2>4. frames' \in {frames, CountdownAnswered}
    BY <2>1, <2>3 DEF SessionDone, Announce
  <2>5. Len(CountdownAnswered) = Len(frames) /\ Len(frames) \in Nat
    BY <1>1, ManagerAssumption, FrameSteps, LenProperties DEF TypeInv, TypeOK, DialogTypes
  <2>6. QED
    BY <2>4, <2>5
<1>2. QED
  BY <1>1, TypeInvKept, WorkKept, PTL DEF Spec, DisconnectIsFinal

(***************************************************************************)
(* Refused credentials.                                                    *)
(***************************************************************************)
\* No dialog of the stack reports a refusal of what is remembered.
StackForgets(s, known) ==
  \A i \in 1..Len(s) : s[i].kind = "error" /\ ~s[i].retryable => s[i].conn.id \notin known

ForgetInv == StackForgets(frames, remembered)

LEMMA PushForgets ==
  ASSUME NEW s \in Seq(Frame), NEW f \in Frame, NEW known, StackForgets(s, known),
         f.kind = "error" /\ ~f.retryable => f.conn.id \notin known
  PROVE  StackForgets(Append(s, f), known)
<1> DEFINE t == Append(s, f)
<1>1. /\ Len(s) \in Nat /\ Len(t) = Len(s) + 1 /\ t[Len(s) + 1] = f
      /\ \A i \in 1..Len(s) : t[i] = s[i]
  BY PushedFrames, LenProperties
<1> HIDE DEF t
<1>2. \A i \in 1..Len(t) : i \in 1..Len(s) \/ i = Len(s) + 1
  BY <1>1
<1>3. StackForgets(t, known)
  BY <1>1, <1>2 DEF StackForgets
<1>4. QED
  BY <1>3 DEF t

LEMMA PopForgets ==
  ASSUME TypeOK, ManagerAssumption, frames # <<>>, ForgetInv
  PROVE  StackForgets(Rest, remembered)
BY PoppedFrames DEF ForgetInv, StackForgets

LEMMA StartForgets ==
  ASSUME TypeOK, ManagerAssumption, NEW c \in Connection, NEW rest \in Seq(Frame),
         StartSession(c, rest), StackForgets(rest, remembered), UNCHANGED remembered
  PROVE  ForgetInv'
<1>1. DialogFrame("cred", c, FALSE) \in Frame /\ DialogFrame("cred", c, FALSE).kind = "cred"
  BY FrameSteps DEF DialogFrame
<1>2. StackForgets(Append(rest, DialogFrame("cred", c, FALSE)), remembered)
  BY <1>1, PushForgets
<1>3. frames' \in {rest, Append(rest, DialogFrame("cred", c, FALSE))}
  BY DEF StartSession
<1>4. QED
  BY <1>2, <1>3 DEF ForgetInv

\* _session_done forgets before it reports, and a reload forgets everything.
LEMMA DoneForgets ==
  ASSUME TypeOK, ManagerAssumption, ForgetInv, NEW w \in Workers, SessionDone(w)
  PROVE  ForgetInv'
<1>1. PICK below \in Seq(Frame) :
        /\ Announce(w, below) /\ StackForgets(below, remembered')
        /\ reloadPending => remembered' = {}
        /\ ~reloadPending => remembered' = Forget(w)
  <2>1. CASE reloadPending
    <3>1. CountdownAnswered \in Seq(Frame)
      BY FrameSteps
    <3>2. Announce(w, CountdownAnswered) /\ remembered' = {}
      BY <2>1 DEF SessionDone
    <3>3. QED
      BY <2>1, <3>1, <3>2 DEF StackForgets
  <2>2. CASE ~reloadPending
    <3>1. Announce(w, frames) /\ remembered' = Forget(w) /\ frames \in Seq(Frame)
      BY <2>2 DEF SessionDone, TypeOK, DialogTypes
    <3>2. remembered' \subseteq remembered
      BY <3>1 DEF Forget
    <3>3. QED
      BY <2>2, <3>1, <3>2 DEF ForgetInv, StackForgets
  <2>3. QED
    BY <2>1, <2>2
<1>2. CASE frames' = below
  BY <1>1, <1>2 DEF ForgetInv
<1>3. ASSUME NEW f \in Frame, frames' = Append(below, f), f.kind = Announcement(w),
             f.kind = "error" \/ f.kind = "countdown",
             f.conn = conn[w], f.retryable = (result[w] # "refused")
      PROVE  ForgetInv'
  <2>1. ASSUME f.kind = "error", ~f.retryable PROVE f.conn.id \notin remembered'
    <3>1. result[w] = "refused"
      BY <1>3, <2>1
    <3>2. CASE reloadPending
      BY <1>1, <3>2
    <3>3. CASE ~reloadPending
      <4>1. ~sessionCancelled
        BY <1>3, <2>1 DEF Announcement
      <4>2. remembered' = remembered \ {conn[w].id}
        BY <1>1, <3>1, <3>3, <4>1 DEF Forget
      <4>3. QED
        BY <1>3, <4>2
    <3>4. QED
      BY <3>2, <3>3
  <2>2. QED
    BY <1>1, <1>3, <2>1, PushForgets DEF ForgetInv
<1>4. QED
  BY <1>1, <1>2, <1>3, AnnouncedFrame

LEMMA ForgetStep ==
  ASSUME ManagerAssumption, TypeInv, SerialInv, ForgetInv, [Next]_vars
  PROVE  ForgetInv'
<1> USE DEF TypeInv
<1>1. CASE UNCHANGED <<frames, remembered>>
  BY <1>1 DEF ForgetInv, StackForgets
<1>2. CASE remembered' = {}
  BY <1>2 DEF ForgetInv, StackForgets
<1>3. ASSUME NEW id \in Conns, ClickConnect(id) PROVE ForgetInv'
  <2>1. Find(id) \in Connection /\ frames \in Seq(Frame)
    BY FrameSteps DEF TypeOK, DialogTypes
  <2>2. StartSession(Find(id), frames) /\ UNCHANGED remembered
    BY <1>3 DEF ClickConnect, cfgVars
  <2>3. QED
    BY <2>1, <2>2, StartForgets DEF ForgetInv
<1>4. CASE ConnectAutoNow
  <2>1. auto.conn \in Connection /\ frames \in Seq(Frame) /\ UNCHANGED remembered
    BY <1>4 DEF ConnectAutoNow, cfgVars, TypeOK, DialogTypes
  <2>2. CASE StartSession(auto.conn, frames)
    BY <2>1, <2>2, StartForgets DEF ForgetInv
  <2>3. QED
    BY <1>1, <1>4, <2>1, <2>2 DEF ConnectAutoNow
<1>5. CASE RetryChosen \/ CountdownElapsed
  <2>1. frames # <<>> /\ StartSession(Top.conn, Rest) /\ UNCHANGED remembered
    BY <1>5 DEF RetryChosen, CountdownElapsed, Answerable, cfgVars
  <2>2. Top.conn \in Connection /\ Rest \in Seq(Frame)
    BY <2>1, PoppedFrames DEF Frame
  <2>3. QED
    BY <2>1, <2>2, PopForgets, StartForgets
<1>6. CASE DialogDismissed \/ CountdownCancelled
  BY <1>6, PopForgets DEF DialogDismissed, CountdownCancelled, Answerable, cfgVars, ForgetInv
<1>7. CASE CredentialsEntered
  <2>1. frames # <<>> /\ Top.kind = "cred" /\ frames' = Rest
    BY <1>7 DEF CredentialsEntered, Answerable
  <2>2. Len(frames) = 1
    BY <2>1, PoppedFrames DEF SerialInv, DialogsSerial, NobodyAsks, DialogAlone
  <2>3. Len(frames') = 0
    BY <2>1, <2>2, PoppedFrames
  <2>4. QED
    BY <2>3 DEF ForgetInv, StackForgets
<1>8. CASE HandleHup \/ PressF5
  BY <1>1, <1>2, <1>8 DEF HandleHup, PressF5, ReloadConfig, ApplyReload, dialogVars
<1>9. CASE AutoDelayFires \/ CancelAutoConnect
  BY <1>1, <1>9 DEF AutoDelayFires, CancelAutoConnect, cfgVars
<1>10. ASSUME NEW w \in Workers, SessionLaunched(w) PROVE ForgetInv'
  BY <1>1, <1>10 DEF SessionLaunched, cfgVars, dialogVars
<1>11. ASSUME NEW w \in Workers, SessionDone(w) PROVE ForgetInv'
  BY <1>11, DoneForgets
<1>12. ASSUME NEW w \in Workers, WorkerActs(w) PROVE ForgetInv'
  BY <1>1, <1>12 DEF WorkerActs, Preflight, BuildCommand, Popen, Publish, Recheck, WaitReturns,
     CheckMarker, WorkerOnly, cfgVars, dialogVars
<1>13. CASE CancelSessionStart
  BY <1>1, <1>13 DEF CancelSessionStart, cfgVars, dialogVars
<1>14. ASSUME NEW w \in Workers, ClientExits(w) \/ BarWritesMarker(w) \/ BarKillsClient(w)
                                  \/ BarCheckSession(w)
       PROVE  ForgetInv'
  BY <1>1, <1>14 DEF ClientExits, BarWritesMarker, BarKillsClient, BarCheckSession,
     EnvironmentOnly, cfgVars, dialogVars
<1>15. CASE CentralUpdate
  BY <1>1, <1>15 DEF CentralUpdate, EnvironmentOnly, cfgVars, dialogVars
<1>16. CASE Signal \/ Crash
  BY <1>1, <1>2, <1>16 DEF Signal, Crash, ManagerDies, cfgVars, dialogVars
<1>17. CASE ManagerStarts \/ ManagerReady
  BY <1>1, <1>17 DEF ManagerStarts, ManagerReady, cfgVars, dialogVars
<1>18. CASE UNCHANGED vars
  BY <1>1, <1>18 DEF vars, cfgVars, dialogVars
<1>19. QED
  BY <1>3, <1>4, <1>5, <1>6, <1>7, <1>8, <1>9, <1>10, <1>11, <1>12, <1>13, <1>14, <1>15, <1>16,
     <1>17, <1>18 DEF Next, UserActs, MainLoopActs, OutsideActs

\* A remembered typo never waits behind the dialog that reports it, whatever
\* was remembered, reloaded, cancelled or retried before.
THEOREM RefusedForgotten ==
  ASSUME Serial
  PROVE  Spec => []RefusalForgetsCredentials
<1>1. Init => ForgetInv
  BY EmptySeq DEF Init, ForgetInv, StackForgets
<1>2. TypeInv /\ SerialInv /\ ForgetInv /\ [Next]_vars => ForgetInv'
  BY ManagerAssumption, ForgetStep
<1>3. TypeInv /\ ForgetInv => RefusalForgetsCredentials
  <2> SUFFICES ASSUME TypeInv, ForgetInv PROVE RefusalForgetsCredentials
    OBVIOUS
  <2>1. DOMAIN frames = 1..Len(frames)
    BY DEF TypeInv, TypeOK, DialogTypes
  <2>2. QED
    BY <2>1 DEF ForgetInv, StackForgets, RefusalForgetsCredentials
<1>4. QED
  BY <1>1, <1>2, <1>3, TypeInvKept, SerialKept, PTL DEF Spec

(***************************************************************************)
(* The refinement of SessionLifecycle.                                     *)
(***************************************************************************)
Mode == IF ~sessionActive THEN "list" ELSE IF visible THEN "starting" ELSE "running"
Up   == \E w \in Workers : pc[w] # "idle" /\ Alive(w)

\* The configuration in use is never newer than the one on disk.
NewsOrder == cfg <= central

LEMMA NewsStep ==
  ASSUME ManagerAssumption, TypeOK, NewsOrder, [Next]_vars
  PROVE  NewsOrder'
<1>1. cfg \in Nat /\ central \in Nat
  BY ManagerAssumption DEF TypeOK, CfgTypes, EnvTypes, Versions
<1>2. \/ cfg' \in {cfg, central} /\ central' = central
      \/ cfg' = cfg /\ central' = central + 1
  <2> USE DEF cfgVars, envVars
  <2>1. ASSUME ReloadConfig PROVE cfg' \in {cfg, central}
    BY <2>1 DEF ReloadConfig, ApplyReload
  <2>2. CASE UserActs
    BY <2>1, <2>2 DEF UserActs, ClickConnect, PressF5, CancelAutoConnect, CancelSessionStart,
       CredentialsEntered, DialogDismissed, RetryChosen
  <2>3. CASE MainLoopActs
    BY <2>1, <2>3 DEF MainLoopActs, HandleHup, AutoDelayFires, ConnectAutoNow, CountdownElapsed,
       CountdownCancelled, SessionLaunched, SessionDone
  <2>4. ASSUME NEW w \in Workers, WorkerActs(w)
        PROVE  cfg' = cfg /\ central' = central
    BY <2>4 DEF WorkerActs, Preflight, BuildCommand, Popen, Publish, Recheck, WaitReturns,
       CheckMarker, WorkerOnly
  <2>5. CASE OutsideActs
    BY <2>5 DEF OutsideActs, ClientExits, BarWritesMarker, BarKillsClient, BarCheckSession,
       EnvironmentOnly, CentralUpdate, Signal, Crash, ManagerDies, ManagerStarts, ManagerReady
  <2>6. CASE UNCHANGED vars
    BY <2>6 DEF vars
  <2>7. QED
    BY <2>2, <2>3, <2>4, <2>5, <2>6 DEF Next
<1>3. QED
  BY <1>1, <1>2 DEF NewsOrder

\* What the invariants say of the abstract state: a session that is not active
\* is over and the list is shown; an active one has one worker, and shows the
\* list until that worker waits.
LEMMA AbstractState ==
  ASSUME OneSession, HiddenHasWorker
  PROVE  /\ ~sessionActive => visible /\ Mode = "list" /\ ~Up
         /\ \A w \in Workers : pc[w] # "idle" =>
              /\ sessionActive /\ Mode # "list" /\ (Up <=> Alive(w))
              /\ pc[w] \notin Launched => Mode = "starting"
BY DEF OneSession, HiddenHasWorker, Mode, Up, Launched

\* A step that changes none of what the user was promised.
LEMMA Stutters ==
  ASSUME (phase' # "down") <=> (phase # "down"), UNCHANGED <<sessionActive, visible, cfg>>,
         \A w \in Workers : (pc'[w] # "idle" /\ Alive(w)') <=> (pc[w] # "idle" /\ Alive(w))
  PROVE  UNCHANGED Lifecycle!vars
BY DEF Lifecycle!vars

LEMMA LaunchBegins ==
  ASSUME TypeOK, OneSession, HiddenHasWorker, ~sessionActive, NEW c, Launch(c), Running,
         UNCHANGED <<phase, visible, cfg>>
  PROVE  Lifecycle!Begin
<1>1. PICK w \in Workers, s \in {"preflight", "unstarted"} :
        /\ pc' = [pc EXCEPT ![w] = s]
        /\ client' = [client EXCEPT ![w] = "none"] /\ sessionActive' = TRUE
  BY DEF Launch
<1>2. \A v \in Workers : (pc'[v] = "idle" \/ client'[v] = "none") /\ pc[v] = "idle"
  BY <1>1 DEF TypeOK, WorkTypes, OneSession
<1>3. visible /\ visible' /\ ~Up /\ ~Up'
  BY <1>2, AbstractState DEF Up, Alive
<1>4. QED
  BY <1>1, <1>3 DEF Lifecycle!Begin, Up, Running

LEMMA StartBegins ==
  ASSUME TypeOK, OneSession, HiddenHasWorker, NEW c, NEW rest, StartSession(c, rest),
         Running, UNCHANGED <<phase, visible, cfg>>
  PROVE  Lifecycle!Begin \/ UNCHANGED Lifecycle!vars
<1>1. CASE UNCHANGED <<sessionVars, workVars>>
  BY <1>1, Stutters DEF sessionVars, workVars, Alive
<1>2. CASE ~Busy /\ Launch(Filled(c))
  BY <1>2, LaunchBegins DEF Busy
<1>3. QED
  BY <1>1, <1>2 DEF StartSession

LEMMA ReloadReloads ==
  ASSUME ManagerAssumption, TypeOK, NewsOrder, ReloadConfig, Running,
         UNCHANGED <<phase, visible, workVars>>
  PROVE  Lifecycle!Reload \/ UNCHANGED Lifecycle!vars
<1>1. UNCHANGED <<sessionActive, pc, client>>
  BY DEF ReloadConfig, sessionVars, workVars
<1>2. CASE sessionActive
  BY <1>1, <1>2, Stutters DEF ReloadConfig, Alive
<1>3. CASE ~sessionActive
  <2>1. cfg' = central
    BY <1>3 DEF ReloadConfig, ApplyReload
  <2>2. central \in Nat /\ central >= cfg /\ cfg \in Nat
    BY ManagerAssumption DEF TypeOK, CfgTypes, EnvTypes, Versions, NewsOrder
  <2>3. QED
    BY <1>1, <1>3, <2>1, <2>2 DEF Lifecycle!Reload, Alive, Running
<1>4. QED
  BY <1>2, <1>3

LEMMA DoneEnds ==
  ASSUME ManagerAssumption, TypeInv, PromiseInv, SerialInv, WorkInv, NewsOrder,
         NEW w \in Workers, SessionDone(w)
  PROVE  Lifecycle!End
<1>1. Mode # "list" /\ ~Up
  <2>1. pc[w] = "posted" /\ ~Alive(w)
    BY DEF SessionDone, WorkInv, WorkerOf
  <2>2. QED
    BY <2>1, AbstractState DEF SerialInv, PromiseInv
<1>2. ~sessionActive' /\ ~Up'
  <2>1. SerialInv' /\ ~sessionActive'
    BY DoneSerial DEF TypeInv, SessionDone
  <2>2. QED
    BY <2>1 DEF SerialInv, OneSession, Up
<1>3. cfg' \in Nat /\ cfg' >= cfg
  <2>1. cfg \in Nat /\ central \in Nat /\ central >= cfg
    BY ManagerAssumption DEF TypeInv, TypeOK, CfgTypes, EnvTypes, Versions, NewsOrder
  <2>2. cfg' \in {cfg, central}
    BY DEF SessionDone
  <2>3. QED
    BY <2>1, <2>2
<1>4. QED
  BY <1>1, <1>2, <1>3 DEF Lifecycle!End, Mode, Up, SessionDone, Running

\* Only Popen starts a client, and it does so for a session that is starting.
LEMMA WorkerRefines ==
  ASSUME TypeInv, PromiseInv, SerialInv, WorkInv, NEW w \in Workers, WorkerActs(w)
  PROVE  Lifecycle!ClientStarts \/ UNCHANGED Lifecycle!vars
<1> USE DEF TypeInv, TypeOK, WorkTypes
<1>1. /\ pc[w] # "idle" /\ pc'[w] # "idle" /\ UNCHANGED <<phase, sessionActive, visible, cfg>>
      /\ \A v \in Workers \ {w} : pc'[v] = pc[v] /\ client'[v] = client[v]
  BY DEF WorkerActs, Preflight, BuildCommand, Popen, Publish, Recheck, WaitReturns, CheckMarker,
     Finish, WorkerOnly, cfgVars
<1>2. CASE Alive(w)' <=> Alive(w)
  BY <1>1, <1>2, Stutters DEF Alive
<1>3. CASE ~(Alive(w)' <=> Alive(w))
  <2>1. Popen(w) /\ Alive(w)'
    BY <1>3 DEF WorkerActs, Preflight, BuildCommand, Popen, Publish, Recheck, WaitReturns,
       CheckMarker, Terminated, Alive
  <2>2. pc[w] = "popen" /\ client[w] = "none"
    BY <2>1 DEF Popen, WorkInv, WorkerOf, Early
  <2>3. Mode = "starting" /\ ~Up
    BY <2>2, AbstractState DEF SerialInv, PromiseInv, Launched, Alive
  <2>4. Up'
    BY <1>1, <2>1 DEF Up
  <2>5. phase = "running"
    BY <1>1 DEF SerialInv, OneSession, Stopped
  <2>6. QED
    BY <1>1, <2>3, <2>4, <2>5 DEF Lifecycle!ClientStarts, Mode, Up
<1>4. QED
  BY <1>2, <1>3

LEMMA LifecycleStep ==
  ASSUME ManagerAssumption, TypeInv, PromiseInv, SerialInv, WorkInv, NewsOrder, [Next]_vars
  PROVE  [Lifecycle!Next]_(Lifecycle!vars)
<1> USE DEF TypeInv
<1> DEFINE Refined == Lifecycle!Next \/ UNCHANGED Lifecycle!vars
<1> SUFFICES Refined
  OBVIOUS
<1>a. OneSession /\ HiddenHasWorker
  BY DEF SerialInv, PromiseInv
<1>1. CASE /\ (phase' # "down") <=> (phase # "down")
           /\ UNCHANGED <<sessionActive, visible, cfg, pc, client>>
  BY <1>1, Stutters DEF Alive
<1>2. ASSUME NEW c, NEW rest, StartSession(c, rest), Running, UNCHANGED <<phase, visible, cfg>>
      PROVE  Refined
  BY <1>2, <1>a, StartBegins DEF Lifecycle!Next
<1>3. ASSUME NEW id \in Conns, ClickConnect(id) PROVE Refined
  BY <1>2, <1>3 DEF ClickConnect, MainWindowReachable, cfgVars
<1>4. CASE RetryChosen \/ CountdownElapsed
  BY <1>2, <1>4 DEF RetryChosen, CountdownElapsed, Answerable, cfgVars
<1>5. CASE ConnectAutoNow
  BY <1>1, <1>2, <1>5 DEF ConnectAutoNow, sessionVars, workVars, cfgVars
<1>6. CASE CredentialsEntered
  <2>1. /\ frames # <<>> /\ Top.kind = "cred" /\ Launch([Top.conn EXCEPT !.creds = TRUE])
        /\ Running /\ UNCHANGED <<phase, visible, cfg>>
    BY <1>6 DEF CredentialsEntered, Answerable
  <2>2. ~sessionActive
    BY <2>1, PoppedFrames DEF SerialInv, DialogsSerial, NobodyAsks, DialogAlone
  <2>3. QED
    BY <1>a, <2>1, <2>2, LaunchBegins DEF Lifecycle!Next
<1>7. CASE HandleHup \/ PressF5
  BY <1>7, ReloadReloads DEF HandleHup, PressF5, MainWindowReachable, Lifecycle!Next
<1>8. CASE AutoDelayFires \/ CancelAutoConnect \/ DialogDismissed \/ CountdownCancelled
  BY <1>1, <1>8 DEF AutoDelayFires, CancelAutoConnect, DialogDismissed, CountdownCancelled,
     sessionVars, workVars, cfgVars
<1>9. ASSUME NEW w \in Workers, SessionLaunched(w) PROVE Refined
  <2>1. /\ Running /\ UNCHANGED <<phase, sessionActive, cfg, pc, client>>
        /\ visible' \in {visible, FALSE}
    BY <1>9 DEF SessionLaunched, cfgVars
  <2>2. sessionActive
    <3>1. pc[w] \in Launched
      BY <1>9 DEF SessionLaunched, PromiseInv, LaunchIsOfWorker
    <3>2. QED
      BY <1>a, <3>1 DEF OneSession, Launched
  <2>3. CASE visible /\ ~visible'
    BY <2>1, <2>2, <2>3 DEF Lifecycle!Show, Lifecycle!Next, Alive, Running
  <2>4. CASE visible' = visible
    BY <1>1, <2>1, <2>4
  <2>5. visible \in BOOLEAN
    BY DEF TypeOK, ProcessTypes
  <2>6. QED
    BY <2>1, <2>3, <2>4, <2>5
<1>10. ASSUME NEW w \in Workers, SessionDone(w) PROVE Refined
  BY <1>10, DoneEnds DEF Lifecycle!Next
<1>11. ASSUME NEW w \in Workers, WorkerActs(w) PROVE Refined
  BY <1>11, WorkerRefines DEF Lifecycle!Next
<1>12. CASE CancelSessionStart
  BY <1>12, Stutters DEF CancelSessionStart, Terminated, Alive, cfgVars
<1>13. ASSUME NEW w \in Workers, ClientExits(w) PROVE Refined
  <2>1. /\ UNCHANGED <<phase, sessionActive, visible, cfg, pc>> /\ Alive(w)
        /\ \A v \in Workers \ {w} : client'[v] = client[v]
    BY <1>13 DEF ClientExits, EnvironmentOnly, sessionVars, cfgVars, Alive, TypeOK, WorkTypes
  <2>2. CASE pc[w] = "idle"
    BY <2>1, <2>2, Stutters DEF Alive
  <2>3. CASE pc[w] # "idle" /\ Alive(w)'
    BY <2>1, <2>3, Stutters DEF Alive
  <2>4. CASE pc[w] # "idle" /\ ~Alive(w)'
    <3>1. Up /\ ~Up'
      BY <1>a, <2>1, <2>4 DEF Up, OneSession
    <3>2. QED
      BY <2>1, <3>1 DEF Lifecycle!ClientEnds, Lifecycle!Next, Up
  <2>5. QED
    BY <2>2, <2>3, <2>4
<1>14. ASSUME NEW w \in Workers, BarWritesMarker(w) \/ BarKillsClient(w) \/ BarCheckSession(w)
       PROVE  Refined
  <2>1. UNCHANGED <<phase, sessionActive, visible, cfg, pc>>
    BY <1>14 DEF BarWritesMarker, BarKillsClient, BarCheckSession, EnvironmentOnly, sessionVars,
       cfgVars
  <2>2. \A v \in Workers : Alive(v)' <=> Alive(v)
    BY <1>14 DEF BarWritesMarker, BarKillsClient, BarCheckSession, Terminated, Alive, TypeOK,
       WorkTypes
  <2>3. QED
    BY <2>1, <2>2, Stutters
<1>15. CASE CentralUpdate
  BY <1>1, <1>15 DEF CentralUpdate, EnvironmentOnly, sessionVars, cfgVars
<1>16. CASE ManagerDies /\ phase # "down"
  <2>1. ~sessionActive' /\ phase' = "down" /\ cfg' = cfg /\ \A w \in Workers : pc'[w] = "idle"
    BY <1>16 DEF ManagerDies
  <2>2. QED
    BY <1>16, <2>1 DEF Lifecycle!Die, Lifecycle!Next
<1>17. CASE Signal \/ Crash
  BY <1>1, <1>16, <1>17 DEF Signal, Crash, sessionVars, workVars, cfgVars
<1>18. CASE ManagerStarts
  <2>1. /\ phase = "down" /\ phase' # "down" /\ cfg' = central
        /\ UNCHANGED <<sessionActive, visible, pc, client>>
    BY <1>18 DEF ManagerStarts, sessionVars, workVars
  <2>2. central \in Nat /\ central >= cfg
    BY ManagerAssumption DEF TypeOK, CfgTypes, EnvTypes, Versions, NewsOrder
  <2>3. QED
    BY <2>1, <2>2 DEF Lifecycle!Restart, Lifecycle!Next, Alive
<1>19. CASE ManagerReady
  BY <1>1, <1>19 DEF ManagerReady, sessionVars, workVars, cfgVars
<1>20. CASE UNCHANGED vars
  BY <1>1, <1>20 DEF vars, sessionVars, workVars, cfgVars
<1>21. QED
  BY <1>3, <1>4, <1>5, <1>6, <1>7, <1>8, <1>9, <1>10, <1>11, <1>12, <1>13, <1>14, <1>15, <1>17,
     <1>18, <1>19, <1>20 DEF Next, UserActs, MainLoopActs, OutsideActs

\* The manager implements SessionLifecycle: one session at a time, over only
\* when its client is unless the manager dies, and settings that change only at
\* the list or at a start.
THEOREM LifecycleImplemented ==
  ASSUME Serial
  PROVE  Spec => ImplementsLifecycle
<1>1. Init => NewsOrder /\ Lifecycle!Init
  BY DEF Init, NewsOrder, Lifecycle!Init
<1>2. TypeInv /\ NewsOrder /\ [Next]_vars => NewsOrder'
  BY ManagerAssumption, NewsStep DEF TypeInv
<1>3. TypeInv /\ PromiseInv /\ SerialInv /\ WorkInv /\ NewsOrder /\ [Next]_vars
        => [Lifecycle!Next]_(Lifecycle!vars)
  BY ManagerAssumption, LifecycleStep
<1>4. QED
  BY <1>1, <1>2, <1>3, TypeInvKept, PromisesKept, SerialKept, WorkKept, PTL
     DEF Spec, ImplementsLifecycle, Lifecycle!Spec
=============================================================================
