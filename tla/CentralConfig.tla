---------------------------- MODULE CentralConfig ----------------------------
(***************************************************************************)
(* How configuration reaches the connection manager: two processes fetch it *)
(* (tc-config.service at boot, NetworkManager's dispatcher on every link   *)
(* change), each a sequence of small files in /run, while the manager loads *)
(* those files and an administrator saves settings over them.              *)
(*                                                                         *)
(* A document stands for the list of connections of a layer, which replaces *)
(* the one below it.                                                       *)
(***************************************************************************)
EXTENDS Naturals, FiniteSets

CONSTANTS Docs,       \* documents a configuration server may serve
          Accepted,   \* those whose signature and contents are accepted
          Factory,    \* the list baked into the image
          Edits,      \* lists an administrator may make in Settings
          Empty,      \* the empty list
          NoDoc,      \* no such file
          Urls, NoUrl,
          Allowed,    \* URLs the policy lets through
          FixedUrl,   \* from the policy or the kernel command line, or NoUrl
          Policies,   \* what policy.json may say of central configuration
          HasStick,   \* a TCCONF partition is attached
          MaxEvents, MaxKills, MaxBoots, MaxServed   \* bounds

ASSUME ConfigAssumption ==
  /\ Accepted \subseteq Docs /\ NoDoc \notin Docs \cup Edits \cup {Factory, Empty}
  /\ Allowed \subseteq Urls /\ NoUrl \notin Urls /\ FixedUrl \in Urls \cup {NoUrl}
  /\ Policies \subseteq {"optional", "required", "malformed"} /\ HasStick \in BOOLEAN
  /\ {MaxEvents, MaxKills, MaxBoots, MaxServed} \subseteq Nat

VARIABLES
  policy,                \* policy.json, the same for ever
  stick,                 \* config.json on the TCCONF partition
  media, remote, local,  \* the three layers in /run/thinclient
  status,                \* config-status.json: its state, the document it hashes
  dhcpUrl,               \* the URL recorded by the dispatcher
  lock,                  \* holder of fetch.lock
  pc, url, copy, got,    \* per fetching process: step, URL, scratch files
  offer,                 \* option 224 of the event the dispatcher handles
  booted,                \* tc-config.service has finished
  ui,                    \* what the manager's main loop is doing
  registered,            \* it catches SIGHUP
  hup,                   \* SIGHUP caught, not handled
  seen, loaded,          \* connections of load() so far; self.cfg
  origin,                \* where self.cfg comes from: load(), or Settings
  dialog,                \* the configuration an open Settings dialog copied
  link, serves,          \* the network; what each URL serves
  events, kills, boots, served   \* counters of the bounds

mediaVars   == <<stick, media>>
fetchVars   == <<remote, status, lock>>
workVars    == <<pc, url, copy, got>>
managerVars == <<local, ui, registered, seen, loaded, origin, dialog>>
netVars     == <<link, serves, events, served>>
vars == <<policy, mediaVars, fetchVars, workVars, managerVars, netVars, dhcpUrl, offer, booted, hup,
          kills, boots>>

-----------------------------------------------------------------------------
Fetchers == {"boot", "dispatcher"}
Free     == "free"
Step     == {"off", "record", "media", "copied", "url", "lock", "download", "publish",
             "current", "failed", "local", "apply", "signal"}
UiState  == {"off", "layers", "gate", "idle", "stick", "media"}
Lists    == Docs \cup Edits \cup {Factory, Empty}
Config   == [doc : Lists, blocked : BOOLEAN]
States   == {"none", "local", "current", "stale", "unavailable"}
\* Of the two that come from Settings, the second could not be written to /run.
Origins  == {"files", "saved", "unsaved"}
NoDialog == [doc |-> Empty, blocked |-> TRUE, open |-> FALSE]

Init ==
  /\ policy \in Policies
  /\ stick \in IF HasStick THEN {NoDoc} \cup Edits ELSE {NoDoc}
  /\ media = NoDoc /\ remote = NoDoc /\ local = NoDoc
  /\ status = [state |-> "none", doc |-> NoDoc]
  /\ dhcpUrl = NoUrl /\ lock = Free /\ offer = NoUrl /\ booted = FALSE
  /\ pc = [p \in Fetchers |-> IF p = "boot" THEN "media" ELSE "off"]
  /\ url = [p \in Fetchers |-> NoUrl]
  /\ copy = [p \in Fetchers |-> NoDoc] /\ got = [p \in Fetchers |-> NoDoc]
  /\ ui = "off" /\ registered = FALSE /\ hup = FALSE /\ origin = "files"
  /\ seen = Empty /\ loaded = [doc |-> Empty, blocked |-> TRUE] /\ dialog = NoDialog
  /\ link = FALSE /\ serves \in [Urls -> Docs \cup {NoDoc}]
  /\ events = 0 /\ kills = 0 /\ boots = 0 /\ served = 0

-----------------------------------------------------------------------------
(* The fetching processes. tc-fetch-config and configfetch.py are one       *)
(* process here: timeout kills them together.                              *)

Goto(p, step) == pc' = [pc EXCEPT ![p] = step]
FetchOnly == UNCHANGED <<policy, managerVars, netVars, offer, booted, hup, boots>>

\* 50-thinclient: an offered URL is renamed into place, none leaves the old one.
RecordUrl ==
  /\ pc["dispatcher"] = "record"
  /\ dhcpUrl' = IF offer = NoUrl THEN dhcpUrl ELSE offer
  /\ Goto("dispatcher", "media")
  /\ FetchOnly /\ UNCHANGED <<mediaVars, fetchVars, url, copy, got, kills>>

\* The TCCONF partition's config.json, when it can be mounted and has one.
CopyMedia(p) ==
  /\ pc[p] = "media"
  /\ \/ Goto(p, "url") /\ UNCHANGED copy
     \/ stick # NoDoc /\ Goto(p, "copied") /\ copy' = [copy EXCEPT ![p] = stick]
  /\ FetchOnly /\ UNCHANGED <<mediaVars, fetchVars, url, got, dhcpUrl, kills>>

PublishMedia(p) ==
  /\ pc[p] = "copied"
  /\ media' = copy[p]
  /\ Goto(p, "url")
  /\ FetchOnly /\ UNCHANGED <<stick, fetchVars, url, copy, got, dhcpUrl, kills>>

ReadUrl(p) ==
  /\ pc[p] = "url"
  /\ url' = [url EXCEPT ![p] = IF FixedUrl # NoUrl THEN FixedUrl ELSE dhcpUrl]
  /\ Goto(p, "lock")
  /\ FetchOnly /\ UNCHANGED <<mediaVars, fetchVars, copy, got, dhcpUrl, kills>>

\* LOCK_EX | LOCK_NB: whoever comes second returns without fetching.
LockIgnoredBug == TRUE
LockFree == lock = Free

\* A malformed policy is taken for one that requires central configuration.
Required == policy \in {"required", "malformed"}

\* fetch() up to the download: no URL is an error only if one is required.
TakeLock(p) ==
  /\ pc[p] = "lock"
  /\ IF LockFree
     THEN /\ lock' = p
          /\ Goto(p, IF url[p] \in Allowed THEN "download"
                     ELSE IF url[p] = NoUrl /\ ~Required THEN "local" ELSE "failed")
     ELSE Goto(p, "apply") /\ UNCHANGED lock
  /\ FetchOnly /\ UNCHANGED <<mediaVars, remote, status, url, copy, got, dhcpUrl, kills>>

\* The download, its signature and its validation, in a private directory.
Valid(d) == d \in Accepted
Download(p) ==
  /\ pc[p] = "download"
  /\ IF link /\ Valid(serves[url[p]])
     THEN got' = [got EXCEPT ![p] = serves[url[p]]] /\ Goto(p, "publish")
     ELSE UNCHANGED got /\ Goto(p, "failed")
  /\ FetchOnly /\ UNCHANGED <<mediaVars, fetchVars, url, copy, dhcpUrl, kills>>

PublishRemote(p) ==
  /\ pc[p] = "publish"
  /\ remote' = got[p]
  /\ Goto(p, "current")
  /\ FetchOnly /\ UNCHANGED <<mediaVars, status, lock, url, copy, got, dhcpUrl, kills>>

\* The outcome of a failed fetch: the last validated copy of this boot, if any.
OutageForgetsBug == "unavailable"
AlwaysStaleBug == "stale"
AfterFailure == IF remote \in Accepted THEN "stale" ELSE "unavailable"

\* finally: replace the status, then the lock goes with the process. A fetch
\* that did not succeed keeps the hash of the one before.
WriteStatus(p) ==
  /\ pc[p] \in {"current", "failed", "local"}
  /\ status' = CASE pc[p] = "current" -> [state |-> "current", doc |-> got[p]]
                 [] pc[p] = "failed"  -> [status EXCEPT !.state = AfterFailure]
                 [] pc[p] = "local"   -> [status EXCEPT !.state = "local"]
  /\ lock' = Free
  /\ Goto(p, "apply")
  /\ FetchOnly /\ UNCHANGED <<mediaVars, remote, url, copy, got, dhcpUrl, kills>>

\* timeout(1) ends tc-fetch-config after 40 s, wherever it is.
KillFetch(p) ==
  /\ pc[p] \in Step \ {"off", "record", "apply", "signal"} /\ kills < MaxKills
  /\ kills' = kills + 1
  /\ lock' = IF lock = p THEN Free ELSE lock
  /\ Goto(p, "apply")
  /\ FetchOnly /\ UNCHANGED <<mediaVars, remote, status, url, copy, got, dhcpUrl>>

NoSignalBug(p) == "off"
AfterApply(p) == IF p = "boot" THEN "off" ELSE "signal"

\* tc-apply-config, after which the boot service is done and the dispatcher
\* goes on to signal the manager.
Apply(p) ==
  /\ pc[p] = "apply"
  /\ Goto(p, AfterApply(p))
  /\ booted' = (booted \/ p = "boot")
  /\ UNCHANGED <<policy, managerVars, netVars, offer, hup, boots, mediaVars, fetchVars, url, copy, got,
                 dhcpUrl, kills>>

-----------------------------------------------------------------------------
(* The manager.                                                            *)

ManagerOnly == UNCHANGED <<policy, fetchVars, workVars, netVars, dhcpUrl, offer, booted, kills, boots>>

\* thinclient.service is ordered after tc-config.service.
UnorderedBug == TRUE
MayStart == booted

ManagerStarts ==
  /\ ui = "off" /\ MayStart
  /\ ui' = "layers"
  /\ ManagerOnly /\ UNCHANGED <<mediaVars, local, registered, seen, loaded, origin, dialog, hup>>

\* pkill -HUP: a manager that is still starting dies of it and is restarted.
SignalManager ==
  /\ pc["dispatcher"] = "signal"
  /\ Goto("dispatcher", "off")
  /\ IF registered THEN hup' = TRUE /\ UNCHANGED ui ELSE ui' = "off" /\ UNCHANGED hup
  /\ UNCHANGED <<policy, mediaVars, fetchVars, url, copy, got, local, registered, seen, loaded,
                 origin, dialog, netVars, dhcpUrl, offer, booted, kills, boots>>

\* The highest layer that exists decides.
RemoteFirstBug ==
  IF remote # NoDoc THEN remote ELSE IF local # NoDoc THEN local
  ELSE IF media # NoDoc THEN media ELSE Factory
Layered ==
  IF local # NoDoc THEN local ELSE IF remote # NoDoc THEN remote
  ELSE IF media # NoDoc THEN media ELSE Factory

\* A malformed policy blocks whatever the status says.
GateOpen == policy # "malformed" /\ (~Required \/ status.state \in {"current", "stale"})
Gated(list) == [doc |-> IF GateOpen THEN list ELSE Empty, blocked |-> ~GateOpen]

\* tcconfig.load reads the layers first and the status afterwards.
ReadLayers ==
  /\ ui = "layers"
  /\ seen' = Layered
  /\ ui' = "gate"
  /\ ManagerOnly /\ UNCHANGED <<mediaVars, local, registered, loaded, origin, dialog, hup>>

ReadGate ==
  /\ ui = "gate"
  /\ loaded' = Gated(seen) /\ origin' = "files"
  /\ ui' = "idle" /\ registered' = TRUE
  /\ ManagerOnly /\ UNCHANGED <<mediaVars, local, seen, dialog, hup>>

\* SIGHUP. (F5 only loads once more what is there; a session only delays it.)
Reload ==
  /\ ui = "idle" /\ hup
  /\ hup' = FALSE /\ ui' = "layers"
  /\ ManagerOnly /\ UNCHANGED <<mediaVars, local, registered, seen, loaded, origin, dialog>>

\* Settings works on a copy of self.cfg, below which reloads go on.
OpenSettings ==
  /\ ui = "idle" /\ ~dialog.open
  /\ dialog' = [doc |-> loaded.doc, blocked |-> loaded.blocked, open |-> TRUE]
  /\ ManagerOnly /\ UNCHANGED <<mediaVars, local, ui, registered, seen, loaded, origin, hup>>

CloseSettings ==
  /\ ui = "idle" /\ dialog.open
  /\ dialog' = NoDialog
  /\ ManagerOnly /\ UNCHANGED <<mediaVars, local, ui, registered, seen, loaded, origin, hup>>

\* tcconfig.save(self.cfg): the local layer, which may fail, and in any case the
\* helper, synchronously.
Save(list) == local' \in {list, local} /\ ui' = "stick"

AcceptSettings ==
  /\ ui = "idle" /\ dialog.open
  /\ dialog' = NoDialog
  /\ \E list \in Edits \cup {dialog.doc} :
       /\ loaded' = [doc |-> list, blocked |-> dialog.blocked] /\ Save(list)
       /\ origin' = IF local' = list THEN "saved" ELSE "unsaved"
  /\ ManagerOnly /\ UNCHANGED <<mediaVars, registered, seen, hup>>

\* The first administrator password is stored in self.cfg and saved with it.
\* Every list that came from Settings has been accepted with a password.
SetPassword ==
  /\ ui = "idle" /\ ~dialog.open /\ local = NoDoc /\ origin = "files"
  /\ Save(loaded.doc)
  /\ ManagerOnly /\ UNCHANGED <<mediaVars, registered, seen, loaded, origin, dialog, hup>>

\* tc-save-config, which is given the list in use: the partition first, then the
\* layer in /run. Either may fail.
SaveToStick ==
  /\ ui = "stick"
  /\ \/ HasStick /\ stick' = loaded.doc /\ ui' = "media"
     \/ UNCHANGED stick /\ ui' = "idle"
  /\ ManagerOnly /\ UNCHANGED <<media, local, registered, seen, loaded, origin, dialog, hup>>

SaveToMedia ==
  /\ ui = "media"
  /\ media' \in {media, loaded.doc}
  /\ ui' = "idle"
  /\ ManagerOnly /\ UNCHANGED <<stick, local, registered, seen, loaded, origin, dialog, hup>>

-----------------------------------------------------------------------------
(* The network, the server and the power switch.                           *)

OutsideOnly == UNCHANGED <<policy, mediaVars, fetchVars, url, copy, got, managerVars, dhcpUrl, booted,
                           hup, kills, boots>>

\* "up" or "dhcp4-change". NetworkManager runs one script at a time.
LinkUp(u) ==
  /\ pc["dispatcher"] = "off" /\ events < MaxEvents
  /\ events' = events + 1
  /\ link' = TRUE /\ offer' = u
  /\ Goto("dispatcher", "record")
  /\ OutsideOnly /\ UNCHANGED <<serves, served>>

LinkDown ==
  /\ link /\ link' = FALSE
  /\ OutsideOnly /\ UNCHANGED <<pc, offer, serves, events, served>>

ServerChanges(u, d) ==
  /\ serves[u] # d /\ served < MaxServed
  /\ serves' = [serves EXCEPT ![u] = d] /\ served' = served + 1
  /\ OutsideOnly /\ UNCHANGED <<pc, offer, link, events>>

\* /run is a tmpfs: only the TCCONF partition survives.
Reboot ==
  /\ boots < MaxBoots /\ boots' = boots + 1
  /\ media' = NoDoc /\ remote' = NoDoc /\ local' = NoDoc
  /\ status' = [state |-> "none", doc |-> NoDoc]
  /\ dhcpUrl' = NoUrl /\ lock' = Free /\ offer' = NoUrl /\ booted' = FALSE
  /\ pc' = [p \in Fetchers |-> IF p = "boot" THEN "media" ELSE "off"]
  /\ url' = [p \in Fetchers |-> NoUrl]
  /\ copy' = [p \in Fetchers |-> NoDoc] /\ got' = [p \in Fetchers |-> NoDoc]
  /\ ui' = "off" /\ registered' = FALSE /\ hup' = FALSE /\ origin' = "files"
  /\ seen' = Empty /\ loaded' = [doc |-> Empty, blocked |-> TRUE] /\ dialog' = NoDialog
  /\ link' = FALSE
  /\ UNCHANGED <<policy, stick, serves, events, kills, served>>

-----------------------------------------------------------------------------
Fetching(p) ==
  \/ CopyMedia(p) \/ PublishMedia(p) \/ ReadUrl(p) \/ TakeLock(p) \/ Download(p)
  \/ PublishRemote(p) \/ WriteStatus(p) \/ Apply(p)

Dispatching == RecordUrl \/ SignalManager

Manager ==
  \/ ManagerStarts \/ ReadLayers \/ ReadGate \/ Reload \/ SaveToStick \/ SaveToMedia

Administrator == OpenSettings \/ CloseSettings \/ AcceptSettings \/ SetPassword

Outside ==
  \/ \E u \in Urls \cup {NoUrl} : LinkUp(u)
  \/ LinkDown \/ Reboot
  \/ \E u \in Urls, d \in Docs \cup {NoDoc} : ServerChanges(u, d)

Next ==
  \/ \E p \in Fetchers : Fetching(p) \/ KillFetch(p)
  \/ Dispatching \/ Manager \/ Administrator \/ Outside

Spec == Init /\ [][Next]_vars

\* Scripts run on, and the manager's main loop dispatches a caught SIGHUP however
\* busy the administrator keeps it.
FairSpec ==
  Spec /\ WF_vars(Dispatching) /\ WF_vars(Manager) /\ SF_vars(Reload)
       /\ \A p \in Fetchers : WF_vars(Fetching(p))
=============================================================================
