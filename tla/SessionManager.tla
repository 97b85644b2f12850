--------------------------- MODULE SessionManager ---------------------------
(***************************************************************************)
(* The connection manager's session lifecycle (manager.py) with everything *)
(* that runs beside its GTK main loop: the worker thread of a session, the *)
(* FreeRDP client it waits for, the session bar floating above the client, *)
(* the NetworkManager dispatcher that announces a new central              *)
(* configuration with SIGHUP, and tc-session restarting a dead manager.    *)
(*                                                                         *)
(* Main-loop callbacks are atomic, except that every Gtk.Dialog.run() is a *)
(* nested main loop: "frames" is the stack of callbacks suspended in one.  *)
(* Timers, signals and idle callbacks keep running below an open dialog.   *)
(***************************************************************************)
EXTENDS Naturals, Sequences, FiniteSets

CONSTANTS Conns,         \* connection ids of the configuration
          NoConn,        \* "no connection"
          AutoConn,      \* device.auto_connect, an id or NoConn
          Prompting,     \* ids without stored credentials: a dialog asks
          Incomplete,    \* ids start_session refuses: no host, no credentials
          Reconnecting,  \* ids with auto_reconnect
          HasBar,        \* device.session_bar
          Workers,       \* slots for sessions, orphans of a crash included
          NoWorker,
          MaxVersion,    \* bound: announcements of a central configuration
          MaxCrashes     \* bound: crashes of the manager process

ASSUME ManagerAssumption ==
  /\ AutoConn \in Conns \cup {NoConn} /\ NoConn \notin Conns
  /\ Prompting \subseteq Conns /\ Incomplete \subseteq Conns
  /\ Reconnecting \subseteq Conns /\ HasBar \in BOOLEAN
  /\ NoWorker \notin Workers
  /\ MaxVersion \in Nat /\ MaxCrashes \in Nat

VARIABLES
  phase,            \* the manager process: "down", "starting", "running"
  cfg,              \* version of the configuration in self.cfg
  reloadPending, sessionActive, cancelReconnect, sessionCancelled,
  sessionProc,      \* worker whose client self.session_proc refers to
  progress,         \* worker the open progress dialog was made for
  visible,          \* the main window is shown
  remembered,       \* ids in session_credentials
  auto,             \* automatic connection: stage of its timers, its target
  countdown,        \* _countdown_id is set
  frames,           \* suspended dialogs, the innermost last
  pc, conn, result, \* per worker: where its thread is, what it runs, outcome
  launchPosted,     \* per worker: _session_launched waits in the main loop
  client, bar,      \* per worker: its FreeRDP process and its session bar
  marker,           \* DISCONNECT_MARKER exists
  central,          \* version of the configuration on disk
  notify, hup,      \* dispatcher about to signal; SIGHUP caught, not handled
  crashes

sessionVars == <<sessionActive, cancelReconnect, sessionCancelled, sessionProc, progress>>
workVars    == <<pc, conn, result, launchPosted, client, bar>>
cfgVars     == <<cfg, reloadPending, remembered>>
dialogVars  == <<auto, countdown, frames>>
envVars     == <<central, notify, hup, crashes>>
vars == <<phase, visible, marker, sessionVars, workVars, cfgVars, dialogVars, envVars>>

-----------------------------------------------------------------------------
Versions   == 0..MaxVersion
Connection == [id : Conns \cup {NoConn}, ver : Versions, creds : BOOLEAN]
Frame      == [kind : {"cred", "error", "countdown"}, conn : Connection,
               retryable : BOOLEAN, forced : BOOLEAN, shown : Versions]
Outcome    == {"clean", "dropped", "refused"}
AutoStage  == {"idle", "delay", "counting"}
Step       == {"idle", "unstarted", "preflight", "build", "popen", "publish", "recheck",
               "wait", "marker", "posted"}

NoTarget == [id |-> NoConn, ver |-> 0, creds |-> FALSE]
NoAuto   == [stage |-> "idle", conn |-> NoTarget]

\* tcconfig.find(self.cfg, id): the server object of the loaded configuration.
Find(id) == [id |-> id, ver |-> cfg, creds |-> FALSE]

Alive(w) == client[w] \in {"running", "term"}
Running  == phase = "running"
\* The window takes input: no dialog is modal above it.
MainWindowReachable == Running /\ visible /\ frames = <<>> /\ progress = NoWorker
FreeSlot(w) == pc[w] = "idle" /\ ~Alive(w) /\ bar[w] \notin {"up", "marked", "unmarked"}

\* "shown" is the configuration the dialog was opened under.
DialogFrame(kind, c, retryable) ==
  [kind |-> kind, conn |-> c, retryable |-> retryable, forced |-> FALSE, shown |-> cfg]
Top  == frames[Len(frames)]
Rest == SubSeq(frames, 1, Len(frames) - 1)

Init ==
  /\ phase = "down" /\ cfg = 0 /\ visible = TRUE /\ marker = FALSE
  /\ sessionActive = FALSE /\ cancelReconnect = FALSE
  /\ sessionCancelled = FALSE /\ sessionProc = NoWorker /\ progress = NoWorker
  /\ reloadPending = FALSE /\ remembered = {}
  /\ auto = NoAuto /\ countdown = FALSE /\ frames = <<>>
  /\ pc = [w \in Workers |-> "idle"]
  /\ conn = [w \in Workers |-> NoTarget]
  /\ result = [w \in Workers |-> "none"]
  /\ launchPosted = [w \in Workers |-> FALSE]
  /\ client = [w \in Workers |-> "none"]
  /\ bar = [w \in Workers |-> "none"]
  /\ central = 0 /\ notify = FALSE /\ hup = FALSE /\ crashes = 0

-----------------------------------------------------------------------------
(* Configuration: reload_config and the automatic connection it arms.      *)

\* schedule_auto_connect, with a session active or a reconnect counting or not:
\* the timers it leaves.
ScheduleAutoConnect(active, counting) ==
  auto' = IF AutoConn = NoConn \/ active \/ counting
          THEN NoAuto ELSE [NoAuto EXCEPT !.stage = "delay"]

\* response(CANCEL) on the countdown dialog: its nested loop will return.
CountdownKeptBug == frames
CountdownAnswered ==
  [i \in DOMAIN frames |-> [frames[i] EXCEPT !.forced = @ \/ frames[i].kind = "countdown"]]

\* What reload_config does when no session is active: end the reconnect
\* countdown, then load every layer and arm the automatic connection again.
ApplyReload ==
  /\ countdown' = FALSE
  /\ frames' = CountdownAnswered
  /\ cfg' = central
  /\ remembered' = {}
  /\ ScheduleAutoConnect(sessionActive, FALSE)

ReloadDroppedBug ==
  IF sessionActive
  THEN UNCHANGED <<cfgVars, dialogVars, sessionVars>>
  ELSE UNCHANGED <<reloadPending, sessionVars>> /\ ApplyReload
ReloadConfig ==
  IF sessionActive
  THEN reloadPending' = TRUE /\ UNCHANGED <<cfg, remembered, dialogVars, sessionVars>>
  ELSE UNCHANGED <<reloadPending, sessionVars>> /\ ApplyReload

\* The GLib SIGHUP source, and F5 in the main window.
HandleHup ==
  /\ Running /\ hup
  /\ hup' = FALSE
  /\ ReloadConfig
  /\ UNCHANGED <<phase, visible, marker, workVars, central, notify, crashes>>

PressF5 ==
  /\ MainWindowReachable
  /\ ReloadConfig
  /\ UNCHANGED <<phase, visible, marker, workVars, envVars>>

-----------------------------------------------------------------------------
(* start_session                                                           *)

NeedsPrompt(c) == c.id \in Prompting /\ ~c.creds /\ c.id \notin remembered
Filled(c) == [c EXCEPT !.creds = @ \/ c.id \in remembered]

\* The tail of start_session: publish the session and spawn its worker. If the
\* thread cannot be started the exception leaves everything else as published.
Launch(c) ==
  \E w \in Workers, first \in {"preflight", "unstarted"} :
    /\ FreeSlot(w)
    /\ sessionActive' = TRUE /\ cancelReconnect' = FALSE
    /\ sessionCancelled' = FALSE /\ sessionProc' = NoWorker /\ progress' = w
    /\ pc' = [pc EXCEPT ![w] = first]
    /\ conn' = [conn EXCEPT ![w] = c]
    /\ client' = [client EXCEPT ![w] = "none"]
    /\ bar' = [bar EXCEPT ![w] = "none"]
    /\ UNCHANGED <<result, launchPosted>>

\* The early return of start_session.
NeverBusyBug == FALSE
Busy == sessionActive

\* start_session(c) from a callback that leaves the frames "rest" suspended.
\* The credential dialog suspends it before session_active is set.
StartSession(c, rest) ==
  \/ /\ Busy
     /\ frames' = rest
     /\ UNCHANGED <<auto, sessionVars, workVars>>
  \/ /\ ~Busy
     /\ auto' = NoAuto
     /\ \/ /\ c.id \in Incomplete
           /\ frames' = rest
           /\ UNCHANGED <<sessionVars, workVars>>
        \/ /\ c.id \notin Incomplete /\ NeedsPrompt(c)
           /\ frames' = Append(rest, DialogFrame("cred", c, FALSE))
           /\ UNCHANGED <<sessionVars, workVars>>
        \/ /\ c.id \notin Incomplete /\ ~NeedsPrompt(c)
           /\ frames' = rest
           /\ Launch(Filled(c))

\* A click on a workspace card, the Connect button, or Enter on the list.
ClickConnect(id) ==
  /\ MainWindowReachable /\ ~sessionActive
  /\ StartSession(Find(id), frames)
  /\ UNCHANGED <<phase, visible, marker, countdown, cfgVars, envVars>>

\* launch() of schedule_auto_connect, which starts the visible countdown.
AutoDelayFires ==
  /\ Running /\ auto.stage = "delay"
  /\ auto' = IF sessionActive THEN NoAuto
             ELSE [stage |-> "counting", conn |-> Find(AutoConn)]
  /\ UNCHANGED <<phase, visible, marker, sessionVars, workVars, cfgVars,
                 countdown, frames, envVars>>

\* The countdown reaches zero, or "Connect now" is pressed.
ConnectAutoNow ==
  /\ Running /\ auto.stage = "counting"
  /\ IF sessionActive
     THEN auto' = NoAuto /\ UNCHANGED <<frames, sessionVars, workVars>>
     ELSE StartSession(auto.conn, frames)
  /\ UNCHANGED <<phase, visible, marker, countdown, cfgVars, envVars>>

CancelAutoConnect ==
  /\ MainWindowReachable /\ auto.stage = "counting"
  /\ auto' = NoAuto
  /\ UNCHANGED <<phase, visible, marker, sessionVars, workVars, cfgVars,
                 countdown, frames, envVars>>

-----------------------------------------------------------------------------
(* Dialogs returning to the callback that opened them.                     *)

\* The user can answer the innermost dialog unless the progress dialog, which
\* was shown after it, is modal above it; reload_config answers for the user.
Answerable == Running /\ frames # <<>> /\ (Top.forced \/ progress = NoWorker)

\* CredentialDialog.run() returned: start_session goes on where it was.
CredentialsEntered ==
  /\ Answerable /\ Top.kind = "cred"
  /\ frames' = Rest
  /\ \E remember \in BOOLEAN :
       remembered' = IF remember THEN remembered \cup {Top.conn.id} ELSE remembered
  /\ Launch([Top.conn EXCEPT !.creds = TRUE])
  /\ UNCHANGED <<phase, visible, marker, cfg, reloadPending, auto, countdown, envVars>>

\* "Cancel" in the credential dialog, "Choose another" in the error dialog.
DialogDismissed ==
  /\ Answerable /\ Top.kind \in {"cred", "error"}
  /\ frames' = Rest
  /\ UNCHANGED <<phase, visible, marker, sessionVars, workVars, cfgVars,
                 auto, countdown, envVars>>

\* "Try again" in show_connection_error.
RetryChosen ==
  /\ Answerable /\ Top.kind = "error" /\ Top.retryable
  /\ StartSession(Top.conn, Rest)
  /\ UNCHANGED <<phase, visible, marker, countdown, cfgVars, envVars>>

\* _reconnect_countdown answered OK, by its timer or by "Reconnect now".
CountdownElapsed ==
  /\ Answerable /\ Top.kind = "countdown" /\ ~Top.forced
  /\ countdown' = FALSE
  /\ StartSession(Top.conn, Rest)
  /\ UNCHANGED <<phase, visible, marker, cfgVars, envVars>>

\* _reconnect_countdown answered Cancel, by the user or by reload_config.
CountdownCancelled ==
  /\ Answerable /\ Top.kind = "countdown"
  /\ countdown' = FALSE /\ cancelReconnect' = TRUE
  /\ frames' = Rest
  /\ UNCHANGED <<phase, visible, marker, sessionActive, sessionCancelled, sessionProc,
                 progress, workVars, cfgVars, auto, envVars>>

-----------------------------------------------------------------------------
(* The worker thread: _session_worker and _run_session.                    *)

\* The thread ends: _session_done is queued with the outcome.
ThreadDiesBug(w, outcome) ==
  /\ pc' = [pc EXCEPT ![w] = "idle"]
  /\ UNCHANGED result
Finish(w, outcome) ==
  /\ pc' = [pc EXCEPT ![w] = "posted"]
  /\ result' = [result EXCEPT ![w] = outcome]

WorkerOnly == UNCHANGED <<phase, visible, cfgVars, dialogVars, envVars, conn,
                          sessionActive, cancelReconnect, sessionCancelled, progress>>

\* connection_preflight returned (or raised), then session_cancelled is read.
Preflight(w) ==
  /\ pc[w] = "preflight"
  /\ \/ sessionCancelled /\ Finish(w, "cancelled")
     \/ Finish(w, "error")
     \/ ~sessionCancelled /\ pc' = [pc EXCEPT ![w] = "build"] /\ UNCHANGED result
  /\ WorkerOnly /\ UNCHANGED <<marker, sessionProc, launchPosted, client, bar>>

\* build_command may raise; then the last look at session_cancelled before Popen.
BuildCommand(w) ==
  /\ pc[w] = "build"
  /\ \/ Finish(w, "error")
     \/ sessionCancelled /\ Finish(w, "cancelled")
     \/ ~sessionCancelled /\ pc' = [pc EXCEPT ![w] = "popen"] /\ UNCHANGED result
  /\ WorkerOnly /\ UNCHANGED <<marker, sessionProc, launchPosted, client, bar>>

Popen(w) ==
  /\ pc[w] = "popen"
  /\ \/ Finish(w, "error") /\ UNCHANGED client
     \/ /\ client' = [client EXCEPT ![w] = "running"]
        /\ pc' = [pc EXCEPT ![w] = "publish"] /\ UNCHANGED result
  /\ WorkerOnly /\ UNCHANGED <<marker, sessionProc, launchPosted, bar>>

Publish(w) ==
  /\ pc[w] = "publish"
  /\ sessionProc' = w
  /\ pc' = [pc EXCEPT ![w] = "recheck"]
  /\ WorkerOnly /\ UNCHANGED <<marker, result, launchPosted, client, bar>>

Terminated(w) == IF client[w] = "running" THEN "term" ELSE client[w]

\* Read once the process is published, so Cancel has not missed both.
NoSecondLookBug == FALSE
CancelledAfterLaunch == sessionCancelled

\* The second look at session_cancelled: end the client, or show it the bar
\* and queue _session_launched. Starting the bar may fail.
Recheck(w) ==
  /\ pc[w] = "recheck"
  /\ pc' = [pc EXCEPT ![w] = "wait"]
  /\ \/ /\ CancelledAfterLaunch
        /\ client' = [client EXCEPT ![w] = Terminated(w)]
        /\ UNCHANGED <<bar, launchPosted>>
     \/ /\ ~CancelledAfterLaunch
        /\ launchPosted' = [launchPosted EXCEPT ![w] = TRUE]
        /\ bar' \in {bar, [bar EXCEPT ![w] = IF HasBar THEN "up" ELSE @]}
        /\ UNCHANGED client
  /\ WorkerOnly /\ UNCHANGED <<marker, result, sessionProc>>

NotWaitedBug(w) == TRUE
ClientGone(w) == ~Alive(w)

\* proc.wait() returned: forget the process and terminate the bar.
WaitReturns(w) ==
  /\ pc[w] = "wait" /\ ClientGone(w)
  /\ sessionProc' = NoWorker
  /\ bar' = [bar EXCEPT ![w] = CASE @ = "up"     -> "gone"
                                 [] @ = "marked" -> "used"
                                 [] @ = "unmarked" -> "gone"
                                 [] OTHER        -> @]
  /\ pc' = [pc EXCEPT ![w] = "marker"]
  /\ WorkerOnly /\ UNCHANGED <<marker, result, launchPosted, client>>

\* A marker turns any exit into a deliberate end (exit code 0); that it cannot be
\* removed is passed over.
MarkerIgnoredBug(w) == client[w]
ExitCode(w) == IF marker THEN "clean" ELSE client[w]
CheckMarker(w) ==
  /\ pc[w] = "marker"
  /\ Finish(w, ExitCode(w))
  /\ marker' \in {FALSE, marker}
  /\ WorkerOnly /\ UNCHANGED <<sessionProc, launchPosted, client, bar>>

-----------------------------------------------------------------------------
(* Main-loop callbacks of a session.                                       *)

\* _session_launched: queued before the worker waits, so before _session_done.
SessionLaunched(w) ==
  /\ Running /\ launchPosted[w]
  /\ launchPosted' = [launchPosted EXCEPT ![w] = FALSE]
  /\ IF sessionCancelled THEN UNCHANGED <<progress, visible>>
     ELSE progress' = NoWorker /\ visible' = FALSE
  /\ UNCHANGED <<phase, marker, sessionActive, cancelReconnect, sessionCancelled, sessionProc,
                 pc, conn, result, client, bar, cfgVars, dialogVars, envVars>>

\* "Cancel" in the progress dialog; the button is disabled afterwards.
CancelSessionStart ==
  /\ Running /\ progress # NoWorker /\ ~sessionCancelled
  /\ sessionCancelled' = TRUE
  /\ client' = [w \in Workers |-> IF w = sessionProc THEN Terminated(w) ELSE client[w]]
  /\ UNCHANGED <<phase, visible, marker, sessionActive, cancelReconnect, sessionProc, progress,
                 pc, conn, result, launchPosted, bar, cfgVars, dialogVars, envVars>>

\* How _session_done tells the user: "none", "countdown" or "error".
ReloadIgnoredBug(w) ==
  IF sessionCancelled \/ result[w] = "clean" THEN "none"
  ELSE IF result[w] = "dropped" /\ conn[w].id \in Reconnecting THEN "countdown" ELSE "error"
Announcement(w) ==
  IF sessionCancelled \/ result[w] = "clean" THEN "none"
  ELSE IF result[w] \in {"error", "cancelled"} THEN "error"
  ELSE IF reloadPending THEN "none"
  ELSE IF /\ result[w] = "dropped" /\ conn[w].id \in Reconnecting
          /\ ~cancelReconnect /\ ~countdown
       THEN "countdown" ELSE "error"

\* Opening the dialog of an announcement on top of the frames "below".
Announce(w, below) ==
  frames' = IF Announcement(w) = "none" THEN below
            ELSE Append(below, DialogFrame(Announcement(w), conn[w], result[w] # "refused"))

\* The server refused the sign-in: the next attempt asks again.
TypoKeptBug(w) == remembered
Forget(w) == IF result[w] = "refused" /\ ~sessionCancelled
             THEN remembered \ {conn[w].id} ELSE remembered

\* The thread of w has ended, and its client was waited for: the slot is free.
SessionDone(w) ==
  /\ Running /\ pc[w] = "posted" /\ ~launchPosted[w]
  /\ pc' = [pc EXCEPT ![w] = "idle"]
  /\ conn' = [conn EXCEPT ![w] = NoTarget] /\ result' = [result EXCEPT ![w] = "none"]
  /\ client' = [client EXCEPT ![w] = "none"] /\ bar' = [bar EXCEPT ![w] = "none"]
  /\ sessionActive' = FALSE /\ sessionProc' = NoWorker
  /\ progress' = NoWorker /\ visible' = TRUE
  /\ sessionCancelled' = FALSE /\ reloadPending' = FALSE
  /\ countdown' = ((countdown /\ ~reloadPending) \/ Announcement(w) = "countdown")
  /\ IF reloadPending
     THEN /\ cfg' = central /\ remembered' = {}
          /\ ScheduleAutoConnect(FALSE, FALSE)
          /\ Announce(w, CountdownAnswered)
     ELSE /\ remembered' = Forget(w)
          /\ Announce(w, frames)
          /\ UNCHANGED <<cfg, auto>>
  /\ UNCHANGED <<phase, marker, cancelReconnect, launchPosted, envVars>>

-----------------------------------------------------------------------------
(* The FreeRDP client, the session bar, the dispatcher and tc-session.     *)

EnvironmentOnly == UNCHANGED <<phase, visible, sessionVars, pc, conn, result, launchPosted,
                               cfgVars, dialogVars>>

ClientExits(w) ==
  /\ \/ client[w] = "running" /\ \E code \in Outcome : client' = [client EXCEPT ![w] = code]
     \/ client[w] = "term" /\ \E code \in {"clean", "dropped"} :
                                 client' = [client EXCEPT ![w] = code]
  /\ EnvironmentOnly /\ UNCHANGED <<marker, bar, envVars>>

\* SessionBar.on_disconnect writes the marker, then signals the client. That the
\* marker cannot be written is passed over.
BarWritesMarker(w) ==
  /\ bar[w] = "up"
  /\ \/ marker' = TRUE /\ bar' = [bar EXCEPT ![w] = "marked"]
     \/ UNCHANGED marker /\ bar' = [bar EXCEPT ![w] = "unmarked"]
  /\ EnvironmentOnly /\ UNCHANGED <<client, envVars>>

BarKillsClient(w) ==
  /\ bar[w] \in {"marked", "unmarked"}
  /\ client' = [client EXCEPT ![w] = Terminated(w)]
  /\ bar' = [bar EXCEPT ![w] = IF @ = "marked" THEN "used" ELSE "gone"]
  /\ EnvironmentOnly /\ UNCHANGED <<marker, envVars>>

\* check_session: the bar of a client that is gone closes itself.
BarCheckSession(w) ==
  /\ bar[w] = "up" /\ ~Alive(w)
  /\ bar' = [bar EXCEPT ![w] = "gone"]
  /\ EnvironmentOnly /\ UNCHANGED <<marker, client, envVars>>

\* 50-thinclient: the fetched configuration is on disk, the signal still to
\* come. Every announcement is a version of its own, whatever it contains.
CentralUpdate ==
  /\ central < MaxVersion /\ ~notify
  /\ central' = central + 1 /\ notify' = TRUE
  /\ EnvironmentOnly /\ UNCHANGED <<marker, client, bar, hup, crashes>>

\* The manager process is gone: its threads with it, FreeRDP and the bar not.
ManagerDies ==
  /\ phase' = "down" /\ visible' = TRUE /\ hup' = FALSE
  /\ sessionActive' = FALSE /\ cancelReconnect' = FALSE
  /\ sessionCancelled' = FALSE /\ sessionProc' = NoWorker /\ progress' = NoWorker
  /\ reloadPending' = FALSE /\ remembered' = {}
  /\ auto' = NoAuto /\ countdown' = FALSE /\ frames' = <<>>
  /\ pc' = [w \in Workers |-> "idle"]
  /\ conn' = [w \in Workers |-> NoTarget]
  /\ result' = [w \in Workers |-> "none"]
  /\ launchPosted' = [w \in Workers |-> FALSE]
  /\ UNCHANGED <<cfg, marker, client, bar>>

\* pkill -HUP: nobody to signal, a manager that catches it, or one that has
\* not registered its handler yet and dies of it.
Signal ==
  /\ notify /\ notify' = FALSE
  /\ \/ /\ phase = "down"
        /\ UNCHANGED <<phase, visible, marker, sessionVars, workVars, cfgVars, dialogVars, hup>>
     \/ /\ phase = "starting" /\ ManagerDies
     \/ /\ phase = "running" /\ hup' = TRUE
        /\ UNCHANGED <<phase, visible, marker, sessionVars, workVars, cfgVars, dialogVars>>
  /\ UNCHANGED <<central, crashes>>

\* A crash, at any point of either thread.
Crash ==
  /\ phase # "down" /\ crashes < MaxCrashes
  /\ crashes' = crashes + 1
  /\ ManagerDies
  /\ UNCHANGED <<central, notify>>

\* tc-session starts the manager: ThinClient.__init__ loads every layer.
ManagerStarts ==
  /\ phase = "down"
  /\ phase' = "starting" /\ cfg' = central
  /\ UNCHANGED <<visible, marker, sessionVars, workVars, reloadPending, remembered,
                 dialogVars, envVars>>

\* main() catches SIGHUP, then arms the automatic connection.
ManagerReady ==
  /\ phase = "starting"
  /\ phase' = "running"
  /\ UNCHANGED <<visible, marker, sessionVars, workVars, cfgVars, countdown, frames, envVars>>
  /\ ScheduleAutoConnect(sessionActive, countdown)

-----------------------------------------------------------------------------
UserActs ==
  \/ \E id \in Conns : ClickConnect(id)
  \/ PressF5 \/ CancelAutoConnect \/ CancelSessionStart
  \/ CredentialsEntered \/ DialogDismissed \/ RetryChosen

\* The main loop's own sources: the timers, SIGHUP and the idle callbacks. A
\* dialog reload_config has answered returns by itself.
MainLoopActs ==
  \/ HandleHup \/ AutoDelayFires \/ ConnectAutoNow
  \/ CountdownElapsed \/ CountdownCancelled
  \/ \E w \in Workers : SessionLaunched(w) \/ SessionDone(w)

WorkerActs(w) ==
  \/ Preflight(w) \/ BuildCommand(w) \/ Popen(w) \/ Publish(w)
  \/ Recheck(w) \/ WaitReturns(w) \/ CheckMarker(w)

OutsideActs ==
  \/ \E w \in Workers : \/ ClientExits(w) \/ BarWritesMarker(w)
                        \/ BarKillsClient(w) \/ BarCheckSession(w)
  \/ CentralUpdate \/ Signal \/ Crash \/ ManagerStarts \/ ManagerReady

Next == UserActs \/ MainLoopActs \/ (\E w \in Workers : WorkerActs(w)) \/ OutsideActs

Spec == Init /\ [][Next]_vars

\* Threads are scheduled, the main loop dispatches what is ready, a process
\* that was sent SIGTERM ends, and tc-session restarts the manager. Users,
\* servers and running sessions owe nothing.
Fairness ==
  /\ \A w \in Workers :
       /\ WF_vars(WorkerActs(w))
       /\ WF_vars(SessionLaunched(w)) /\ WF_vars(SessionDone(w))
       /\ WF_vars(client[w] = "term" /\ ClientExits(w))
  /\ WF_vars(HandleHup) /\ WF_vars(Signal)
  /\ WF_vars(ManagerStarts) /\ WF_vars(ManagerReady)

FairSpec == Spec /\ Fairness
=============================================================================
