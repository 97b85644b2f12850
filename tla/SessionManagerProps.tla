------------------------ MODULE SessionManagerProps -------------------------
(* What the session lifecycle of SessionManager must guarantee.            *)
EXTENDS SessionManager

CfgTypes     == cfg \in Versions /\ reloadPending \in BOOLEAN /\ remembered \subseteq Conns \cup {NoConn}
SessionTypes == /\ sessionActive \in BOOLEAN /\ cancelReconnect \in BOOLEAN
                /\ sessionCancelled \in BOOLEAN
                /\ sessionProc \in Workers \cup {NoWorker}
                /\ progress \in Workers \cup {NoWorker}
DialogTypes  == /\ auto \in [stage : AutoStage, conn : Connection]
                /\ countdown \in BOOLEAN /\ frames \in Seq(Frame)
WorkTypes    == /\ pc \in [Workers -> Step]
                /\ conn \in [Workers -> Connection]
                /\ result \in [Workers -> {"none", "cancelled", "error"} \cup Outcome]
                /\ launchPosted \in [Workers -> BOOLEAN]
                /\ client \in [Workers -> {"none", "running", "term"} \cup Outcome]
                /\ bar \in [Workers -> {"none", "up", "marked", "unmarked", "used", "gone"}]
EnvTypes     == /\ central \in Versions /\ notify \in BOOLEAN /\ hup \in BOOLEAN
                /\ crashes \in 0..MaxCrashes
ProcessTypes == /\ phase \in {"down", "starting", "running"}
                /\ visible \in BOOLEAN /\ marker \in BOOLEAN

\* Every variable stays in its domain; a worker reports a way its client ended
\* only after the client ended.
TypeOK == /\ CfgTypes /\ SessionTypes /\ DialogTypes /\ WorkTypes /\ EnvTypes /\ ProcessTypes

\* No session is stuck because its thread could not be started.
ThreadsStarted == \A w \in Workers : pc[w] # "unstarted"

\* "The dispatcher sends one notification": while the manager shows an older
\* configuration than the one on disk, something that will make it reload is
\* still on its way - the dispatcher's signal, the caught SIGHUP, a reload
\* remembered behind a session that will still report its end, or a start. A
\* session whose thread could not be started never reports anything.
UpdateNotForgotten ==
  cfg # central /\ ThreadsStarted =>
    \/ notify \/ hup \/ phase = "down"
    \/ reloadPending /\ sessionActive /\ \E w \in Workers : pc[w] # "idle"

\* _session_done "is the only thing that brings the window back": a hidden
\* window or a disabled Connect button always has a worker whose
\* _session_done is still to come; the button only if no thread failed to start,
\* for nothing gives it back then, and the window is still there.
WindowWillReturn ==
  /\ ~visible => \E w \in Workers : pc[w] \notin {"idle", "unstarted"} /\ ~launchPosted[w]
  /\ (sessionActive \/ progress # NoWorker) /\ ThreadsStarted => \E w \in Workers : pc[w] # "idle"

\* The start of a session is never doubled: a worker runs exactly while
\* session_active is set, and only one.
OneSession ==
  /\ \A w \in Workers : pc[w] # "idle" => sessionActive
  /\ \A v, w \in Workers : pc[v] # "idle" /\ pc[w] # "idle" => v = w

\* Cancel "cannot leave an invisible FreeRDP client running": once the start
\* the progress dialog belongs to is cancelled, its client has been signalled
\* or is gone as soon as the worker is past its second look at the flag.
CancelReachesClient ==
  sessionCancelled =>
    \A w \in Workers : progress = w /\ pc[w] = "wait" => client[w] # "running"

\* The two ways to connect without the user are never armed together.
OneAutomaticPath == ~(auto.stage # "idle" /\ countdown)

\* A reload ends the reconnect countdown it arrives in: no countdown that can
\* still elapse was opened under an older configuration, however deep the
\* dialogs are nested and whether the reload came at once or was remembered.
CountdownDiesWithReload ==
  \A i \in DOMAIN frames :
    frames[i].kind = "countdown" /\ ~frames[i].forced => frames[i].shown = cfg /\ countdown

\* "otherwise it would reconnect to the stale server object even though the
\* list now shows new settings": a session that starts without the user asking
\* for it uses the server of the loaded configuration.
UnattendedStartIsCurrent ==
  [][\A w \in Workers :
       pc[w] = "idle" /\ pc'[w] = "preflight" /\ (CountdownElapsed \/ ConnectAutoNow)
         => conn'[w].ver = cfg]_vars

\* Leaving through the session bar is final once the bar has recorded it:
\* _session_done neither counts down to a reconnect nor reports a failure for that
\* session. (Where the marker cannot be written the client is ended all the same,
\* and its end is taken for what it looks like.)
DisconnectIsFinal ==
  [][\A w \in Workers :
       pc[w] = "posted" /\ pc'[w] = "idle" /\ bar[w] = "used" /\ Running'
         => Len(frames') <= Len(frames)]_vars

\* "A remembered typo must not trap the user in repeated silent failures": while
\* the dialog about a refused sign-in is open, nothing remembered can replay it.
RefusalForgetsCredentials ==
  \A i \in DOMAIN frames :
    frames[i].kind = "error" /\ ~frames[i].retryable => frames[i].conn.id \notin remembered

\* "The bar writes a marker so the connection manager can tell a deliberate
\* disconnect from a dropped session": a failed session that is reported as a
\* deliberate end was ended through its own bar.
MarkerIsOwn ==
  [][\A w \in Workers :
       pc[w] = "marker" /\ pc'[w] = "posted" /\ result'[w] = "clean" /\ client[w] # "clean"
         => bar[w] = "used"]_vars

-----------------------------------------------------------------------------
\* What the manager promises of a session, with the worker, the dialogs and the
\* processes abstracted away.
Lifecycle == INSTANCE SessionLifecycle WITH
  up      <- phase # "down",
  mode    <- IF ~sessionActive THEN "list" ELSE IF visible THEN "starting" ELSE "running",
  clientUp <- \E w \in Workers : pc[w] # "idle" /\ Alive(w),
  applied <- cfg

\* One session at a time, over only when its client is unless the manager dies, and
\* settings that change only at the list: every step of the manager is one of
\* SessionLifecycle.
ImplementsLifecycle == Lifecycle!Spec

-----------------------------------------------------------------------------
\* A cancelled start always comes back to the connection list, whatever the
\* worker was doing when Cancel was pressed and however long the client lives -
\* if there is a worker.
CancelCompletes == sessionCancelled /\ ThreadsStarted ~> ~sessionActive /\ visible

\* "Whatever happens in here, _session_done must run": a session that is over,
\* or failed before its client ran, is reported and frees the Connect button.
SessionEndReported ==
  \A w \in Workers :
    (pc[w] = "wait" /\ ~Alive(w)) \/ pc[w] = "posted" ~> pc[w] = "idle" /\ ~sessionActive

\* If sessions start and come to an end, every central configuration that reaches the
\* disk is eventually the one the manager uses, through restarts and sessions.
UpdateEventuallyUsed ==
  []<>(ThreadsStarted /\ \A w \in Workers : pc[w] = "wait" => ~Alive(w)) => (cfg # central ~> cfg = central)
=============================================================================
