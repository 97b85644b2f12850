------------------------- MODULE CentralConfigProofs -------------------------
(***************************************************************************)
(* TLAPS proofs about CentralConfig, for every value of its constants.     *)
(***************************************************************************)
EXTENDS CentralConfigProps, TLAPS

(***************************************************************************)
(* Types. TypeOK is inductive: a fetching process only ever holds what was *)
(* accepted, so nothing else is published.                                 *)
(***************************************************************************)
LEMMA ReadTypes ==
  ASSUME TypeOK, ConfigAssumption
  PROVE  /\ Layered \in Lists
         /\ \A list \in Lists : Gated(list) \in Config
         /\ AfterFailure \in {"stale", "unavailable"}
         /\ \A p \in Fetchers : AfterApply(p) \in Step
<1>1. Layered \in Lists
  BY DEF TypeOK, ConfigAssumption, Layered, Lists
<1>2. \A list \in Lists : Gated(list) \in Config
  BY DEF Gated, Config, GateOpen, Required, ConfigAssumption, Lists, TypeOK, States
<1>3. AfterFailure \in {"stale", "unavailable"}
  BY DEF AfterFailure
<1>4. \A p \in Fetchers : AfterApply(p) \in Step
  BY DEF AfterApply, Step
<1>5. QED
  BY <1>1, <1>2, <1>3, <1>4

LEMMA FreshTypes ==
  ASSUME ConfigAssumption
  PROVE  Init => TypeOK
<1> SUFFICES ASSUME Init
             PROVE  TypeOK
  OBVIOUS
<1>1. /\ {stick, media, local} \subseteq Lists \cup {NoDoc}
      /\ remote \in Accepted \cup {NoDoc}
      /\ status \in [state : States, doc : Accepted \cup {NoDoc}]
  BY DEF Init, Lists, States
<1>2. /\ {dhcpUrl, offer} \subseteq Urls \cup {NoUrl} /\ lock \in Fetchers \cup {Free}
      /\ pc \in [Fetchers -> Step] /\ url \in [Fetchers -> Urls \cup {NoUrl}]
      /\ copy \in [Fetchers -> Lists \cup {NoDoc}]
      /\ got \in [Fetchers -> Accepted \cup {NoDoc}]
  BY DEF Init, Step
<1>3. /\ booted \in BOOLEAN /\ registered \in BOOLEAN /\ hup \in BOOLEAN /\ link \in BOOLEAN
  BY DEF Init
<1>4. /\ ui \in UiState /\ origin \in Origins /\ seen \in Lists /\ loaded \in Config
      /\ dialog \in [doc : Lists, blocked : BOOLEAN, open : BOOLEAN]
  BY DEF Init, UiState, Origins, Lists, Config, NoDialog
<1>5. /\ events \in 0..MaxEvents /\ kills \in 0..MaxKills
      /\ boots \in 0..MaxBoots /\ served \in 0..MaxServed
  BY DEF Init, ConfigAssumption
<1>6. policy \in Policies /\ serves \in [Urls -> Docs \cup {NoDoc}]
  BY DEF Init
<1>7. QED
  BY <1>1, <1>2, <1>3, <1>4, <1>5, <1>6 DEF TypeOK

LEMMA FetchTypes ==
  ASSUME TypeOK, ConfigAssumption, NEW p \in Fetchers, Fetching(p) \/ KillFetch(p)
  PROVE  TypeOK'
<1> USE DEF TypeOK, FetchOnly, Goto, Step, Fetchers, Free,
            mediaVars, fetchVars, workVars, managerVars, netVars
<1>1. CASE CopyMedia(p)
  BY <1>1 DEF CopyMedia
<1>2. CASE PublishMedia(p)
  BY <1>2 DEF PublishMedia
<1>3. CASE ReadUrl(p)
  BY <1>3 DEF ReadUrl, ConfigAssumption
<1>4. CASE TakeLock(p)
  BY <1>4 DEF TakeLock
<1>5. CASE Download(p)
  BY <1>5 DEF Download, Valid
<1>6. CASE PublishRemote(p)
  BY <1>6 DEF PublishRemote
<1>7. CASE WriteStatus(p)
  <2>1. status' \in [state : States, doc : Accepted \cup {NoDoc}]
    BY <1>7, ReadTypes DEF WriteStatus, States
  <2>2. QED
    BY <1>7, <2>1 DEF WriteStatus
<1>8. CASE Apply(p)
  BY <1>8, ReadTypes DEF Apply
<1>9. CASE KillFetch(p)
  BY <1>9 DEF KillFetch, ConfigAssumption
<1>10. QED
  BY <1>1, <1>2, <1>3, <1>4, <1>5, <1>6, <1>7, <1>8, <1>9 DEF Fetching

LEMMA ManagerTypes ==
  ASSUME TypeOK, ConfigAssumption, Dispatching \/ Manager \/ Administrator
  PROVE  TypeOK'
<1> USE DEF TypeOK, ManagerOnly, FetchOnly, Goto, Step, Fetchers, Config, UiState, Lists,
            mediaVars, fetchVars, workVars, managerVars, netVars
<1>1. CASE RecordUrl
  BY <1>1 DEF RecordUrl
<1>2. CASE SignalManager
  <2>1. hup' \in BOOLEAN
    BY <1>2, Zenon DEF SignalManager
  <2>2. ui' \in UiState /\ pc' \in [Fetchers -> Step]
    BY <1>2 DEF SignalManager
  <2>3. QED
    BY <1>2, <2>1, <2>2 DEF SignalManager
<1>3. CASE ManagerStarts
  BY <1>3 DEF ManagerStarts
<1>4. CASE ReadLayers
  BY <1>4, ReadTypes DEF ReadLayers
<1>5. CASE ReadGate
  BY <1>5, ReadTypes DEF ReadGate, Origins
<1>6. CASE Reload
  <2>1. hup' \in BOOLEAN
    BY <1>6, Zenon DEF Reload
  <2>2. QED
    BY <1>6, <2>1 DEF Reload
<1>7. CASE SaveToStick
  BY <1>7 DEF SaveToStick
<1>8. CASE SaveToMedia
  BY <1>8 DEF SaveToMedia
<1>9. CASE OpenSettings
  BY <1>9 DEF OpenSettings
<1>10. CASE CloseSettings
  BY <1>10 DEF CloseSettings, NoDialog
<1>11. CASE AcceptSettings
  BY <1>11 DEF AcceptSettings, Save, NoDialog, Origins
<1>12. CASE SetPassword
  BY <1>12 DEF SetPassword, Save
<1>13. QED
  BY <1>1, <1>2, <1>3, <1>4, <1>5, <1>6, <1>7, <1>8, <1>9, <1>10, <1>11, <1>12
     DEF Dispatching, Manager, Administrator

LEMMA OutsideTypes ==
  ASSUME TypeOK, ConfigAssumption, Outside
  PROVE  TypeOK'
<1> USE DEF TypeOK, OutsideOnly, Goto, Step, Fetchers,
            mediaVars, fetchVars, workVars, managerVars, netVars
<1>1. ASSUME NEW u \in Urls \cup {NoUrl}, LinkUp(u)
      PROVE  TypeOK'
  BY <1>1 DEF LinkUp, ConfigAssumption
<1>2. CASE LinkDown
  BY <1>2 DEF LinkDown
<1>3. CASE Reboot
  <2>1. /\ {stick', media', local'} \subseteq Lists \cup {NoDoc}
        /\ remote' \in Accepted \cup {NoDoc}
        /\ status' \in [state : States, doc : Accepted \cup {NoDoc}]
    BY <1>3 DEF Reboot, States
  <2>2. /\ {dhcpUrl', offer'} \subseteq Urls \cup {NoUrl} /\ lock' \in Fetchers \cup {Free}
        /\ pc' \in [Fetchers -> Step] /\ url' \in [Fetchers -> Urls \cup {NoUrl}]
        /\ copy' \in [Fetchers -> Lists \cup {NoDoc}]
        /\ got' \in [Fetchers -> Accepted \cup {NoDoc}]
    BY <1>3 DEF Reboot
  <2>3. booted' \in BOOLEAN /\ registered' \in BOOLEAN /\ hup' \in BOOLEAN /\ link' \in BOOLEAN
    BY <1>3 DEF Reboot
  <2>4. /\ ui' \in UiState /\ origin' \in Origins /\ seen' \in Lists /\ loaded' \in Config
        /\ dialog' \in [doc : Lists, blocked : BOOLEAN, open : BOOLEAN]
    BY <1>3 DEF Reboot, UiState, Origins, Lists, Config, NoDialog
  <2>5. boots' \in 0..MaxBoots
    BY <1>3 DEF Reboot, ConfigAssumption
  <2>6. UNCHANGED <<policy, serves, events, kills, served>>
    BY <1>3 DEF Reboot
  <2>7. QED
    BY <2>1, <2>2, <2>3, <2>4, <2>5, <2>6
<1>4. ASSUME NEW u \in Urls, NEW d \in Docs \cup {NoDoc}, ServerChanges(u, d)
      PROVE  TypeOK'
  BY <1>4 DEF ServerChanges, ConfigAssumption
<1>5. QED
  BY <1>1, <1>2, <1>3, <1>4 DEF Outside

\* Every layer, scratch file and status in /run stays in its domain: no file holds
\* a document that the fetch did not accept.
THEOREM ConfigTypes == Spec => []TypeOK
<1>1. Init => TypeOK
  BY ConfigAssumption, FreshTypes
<1>2. TypeOK /\ [Next]_vars => TypeOK'
  <2> SUFFICES ASSUME TypeOK, [Next]_vars
               PROVE  TypeOK'
    OBVIOUS
  <2>1. CASE UNCHANGED vars
    BY <2>1 DEF TypeOK, vars, mediaVars, fetchVars, workVars, managerVars, netVars
  <2>2. CASE Next
    BY <2>2, ConfigAssumption, FetchTypes, ManagerTypes, OutsideTypes DEF Next
  <2>3. QED
    BY <2>1, <2>2
<1>3. QED
  BY <1>1, <1>2, PTL DEF Spec

(***************************************************************************)
(* The gate. The status opens it on the word of one file alone; that file  *)
(* is right because the lock's holder published the document it accepted,  *)
(* and nobody else could publish in between.                               *)
(***************************************************************************)
Held == {"download", "publish", "current", "failed", "local"}

LockedSteps == \A p \in Fetchers : lock = p <=> pc[p] \in Held
GotAccepted == \A p \in Fetchers : pc[p] \in {"publish", "current"} => got[p] \in Accepted
InPlace == \A p \in Fetchers : pc[p] = "current" => remote = got[p]
LocalIsOptional == \A p \in Fetchers : pc[p] = "local" => ~Required
\* A fetch killed between its two files is the one way to break this.
HashFollows ==
  kills = 0 /\ (\A p \in Fetchers : pc[p] # "current") => status.doc = remote
GateInv ==
  LockedSteps /\ GotAccepted /\ InPlace /\ LocalIsOptional /\ HashFollows /\ GateHasConfig

LEMMA FreshGate ==
  ASSUME ConfigAssumption, Init
  PROVE  GateInv
BY DEF Init, GateInv, LockedSteps, GotAccepted, InPlace, LocalIsOptional, HashFollows,
       GateHasConfig, Held, Fetchers, Free

\* Steps that neither hold the lock nor touch the fetched files.
LEMMA ElsewhereGate ==
  ASSUME TypeOK, GateInv, UNCHANGED <<policy, remote, status, lock, got, kills>>,
         \A p \in Fetchers : pc'[p] = pc[p] \/ (pc[p] \notin Held /\ pc'[p] \notin Held)
  PROVE  GateInv'
BY DEF GateInv, LockedSteps, GotAccepted, InPlace, LocalIsOptional, HashFollows,
       GateHasConfig, Held, Required

LEMMA FetchGate ==
  ASSUME TypeOK, ConfigAssumption, GateInv,
         NEW p \in Fetchers, Fetching(p) \/ KillFetch(p)
  PROVE  GateInv' /\ (GateOpen => GateOpen')
<1> USE DEF FetchOnly, Goto, fetchVars, Required
<1>1. \A q \in Fetchers : pc[q] \in Step
  BY DEF TypeOK
<1>2. pc \in [Fetchers -> Step] /\ got \in [Fetchers -> Accepted \cup {NoDoc}]
  BY DEF TypeOK
<1>3. CASE CopyMedia(p) \/ PublishMedia(p) \/ ReadUrl(p) \/ Apply(p)
  <2>1. UNCHANGED <<policy, remote, status, lock, got, kills>>
    BY <1>3 DEF CopyMedia, PublishMedia, ReadUrl, Apply
  <2>2. \A q \in Fetchers : pc'[q] = pc[q] \/ (pc[q] \notin Held /\ pc'[q] \notin Held)
    BY <1>2, <1>3 DEF CopyMedia, PublishMedia, ReadUrl, Apply, AfterApply, Held
  <2>3. QED
    BY <2>1, <2>2, ElsewhereGate DEF GateOpen
<1>4. CASE TakeLock(p)
  <2>1. UNCHANGED <<policy, remote, status, got, kills>>
    BY <1>4 DEF TakeLock
  <2>2. CASE LockFree
    <3>1. /\ lock = Free /\ lock' = p
          /\ pc'[p] \in {"download", "local", "failed"}
          /\ pc'[p] = "local" => ~Required
          /\ \A q \in Fetchers : q # p => pc'[q] = pc[q]
      BY <1>2, <1>4, <2>2 DEF TakeLock, LockFree
    <3>2. \A q \in Fetchers : pc[q] \notin Held
      BY <3>1 DEF GateInv, LockedSteps, Fetchers, Free
    <3>3. QED
      BY <2>1, <3>1, <3>2 DEF GateInv, LockedSteps, GotAccepted, InPlace, LocalIsOptional,
                              HashFollows, GateHasConfig, Held, GateOpen
  <2>3. CASE ~LockFree
    <3>1. \A q \in Fetchers : pc'[q] = pc[q] \/ (pc[q] \notin Held /\ pc'[q] \notin Held)
      BY <1>2, <1>4, <2>3 DEF TakeLock, Held
    <3>2. UNCHANGED lock
      BY <1>4, <2>3 DEF TakeLock
    <3>3. QED
      BY <2>1, <3>1, <3>2, ElsewhereGate DEF GateOpen
  <2>4. QED
    BY <2>2, <2>3
<1>5. CASE Download(p)
  <2>1. UNCHANGED <<policy, remote, status, lock, kills>>
    BY <1>5 DEF Download
  <2>2. /\ pc[p] = "download" /\ pc'[p] \in {"publish", "failed"}
        /\ pc'[p] = "publish" => got'[p] \in Accepted
        /\ \A q \in Fetchers : q # p => pc'[q] = pc[q] /\ got'[q] = got[q]
    BY <1>2, <1>5 DEF Download, Valid
  <2>3. QED
    BY <2>1, <2>2 DEF GateInv, LockedSteps, GotAccepted, InPlace, LocalIsOptional,
                      HashFollows, GateHasConfig, Held, GateOpen
<1>6. CASE PublishRemote(p)
  <2>1. UNCHANGED <<policy, status, lock, got, kills>>
    BY <1>6 DEF PublishRemote
  <2>2. /\ pc[p] = "publish" /\ pc'[p] = "current" /\ remote' = got[p]
        /\ \A q \in Fetchers : q # p => pc'[q] = pc[q]
    BY <1>2, <1>6 DEF PublishRemote
  <2>3. \A q \in Fetchers : q # p => pc[q] \notin Held
    BY <2>2 DEF GateInv, LockedSteps, Held
  <2>4. QED
    BY <2>1, <2>2, <2>3 DEF GateInv, LockedSteps, GotAccepted, InPlace, LocalIsOptional,
                            HashFollows, GateHasConfig, Held, GateOpen
<1>7. CASE WriteStatus(p)
  <2>1. /\ UNCHANGED <<policy, remote, got, kills>> /\ lock' = Free
        /\ pc[p] \in {"current", "failed", "local"} /\ pc'[p] = "apply"
        /\ \A q \in Fetchers : q # p => pc'[q] = pc[q]
    BY <1>2, <1>7 DEF WriteStatus
  <2>2. \A q \in Fetchers : q # p => pc[q] \notin Held
    BY <2>1 DEF GateInv, LockedSteps, Held
  <2>3. LockedSteps' /\ GotAccepted' /\ InPlace' /\ LocalIsOptional'
    BY <2>1, <2>2 DEF GateInv, LockedSteps, GotAccepted, InPlace, LocalIsOptional, Held,
                      Fetchers, Free
  <2>4. status \in [state : States, doc : Accepted \cup {NoDoc}]
    BY DEF TypeOK
  <2>5. CASE pc[p] = "current"
    <3>1. status' = [state |-> "current", doc |-> got[p]]
      BY <1>7, <2>5 DEF WriteStatus
    <3>2. remote = got[p] /\ got[p] \in Accepted
      BY <2>5 DEF GateInv, InPlace, GotAccepted
    <3>3. QED
      BY <2>1, <2>3, <3>1, <3>2 DEF GateInv, HashFollows, GateHasConfig, GateOpen
  <2>6. CASE pc[p] = "failed"
    <3>1. status' = [status EXCEPT !.state = AfterFailure]
      BY <1>7, <2>6 DEF WriteStatus
    <3>2. kills = 0 => status.doc = remote
      BY <2>2, <2>6 DEF GateInv, HashFollows, Held
    <3>3. /\ status'.doc = status.doc
          /\ status'.state = IF remote \in Accepted THEN "stale" ELSE "unavailable"
      BY <2>4, <3>1 DEF AfterFailure
    <3>4. QED
      BY <2>1, <2>3, <3>2, <3>3 DEF GateInv, HashFollows, GateHasConfig, GateOpen
  <2>7. CASE pc[p] = "local"
    <3>1. status' = [status EXCEPT !.state = "local"]
      BY <1>7, <2>7 DEF WriteStatus
    <3>2. (kills = 0 => status.doc = remote) /\ ~Required
      BY <2>2, <2>7 DEF GateInv, HashFollows, LocalIsOptional, Held
    <3>3. status'.doc = status.doc /\ status'.state = "local"
      BY <2>4, <3>1
    <3>4. QED
      BY <2>1, <2>3, <3>2, <3>3 DEF GateInv, HashFollows, GateHasConfig, GateOpen
  <2>8. QED
    BY <2>1, <2>5, <2>6, <2>7
<1>8. CASE KillFetch(p)
  <2>1. /\ UNCHANGED <<policy, remote, status, got>> /\ kills' = kills + 1 /\ kills \in Nat
        /\ lock' = (IF lock = p THEN Free ELSE lock) /\ pc'[p] = "apply"
        /\ \A q \in Fetchers : q # p => pc'[q] = pc[q]
    BY <1>2, <1>8 DEF KillFetch, TypeOK, ConfigAssumption
  <2>2. LockedSteps' /\ GotAccepted' /\ InPlace' /\ LocalIsOptional'
    BY <2>1 DEF GateInv, LockedSteps, GotAccepted, InPlace, LocalIsOptional, Held,
                Fetchers, Free
  <2>3. kills' # 0
    BY <2>1
  <2>4. QED
    BY <2>1, <2>2, <2>3 DEF GateInv, HashFollows, GateHasConfig, GateOpen
<1>9. QED
  BY <1>3, <1>4, <1>5, <1>6, <1>7, <1>8 DEF Fetching

LEMMA OtherGate ==
  ASSUME TypeOK, ConfigAssumption, GateInv, Dispatching \/ Manager \/ Administrator \/ Outside
  PROVE  GateInv' /\ (GateOpen => GateOpen' \/ boots' # boots)
<1>1. pc \in [Fetchers -> Step]
  BY DEF TypeOK
<1>2. CASE Reboot
  <2>1. boots' # boots
    BY <1>2 DEF Reboot, TypeOK, ConfigAssumption
  <2>2. GateInv'
    BY <1>2 DEF Reboot, GateInv, LockedSteps, GotAccepted, InPlace, LocalIsOptional,
                HashFollows, GateHasConfig, Held, Fetchers, Free
  <2>3. QED
    BY <2>1, <2>2
<1>3. CASE ~Reboot
  <2>1. UNCHANGED <<policy, remote, status, lock, got, kills>>
    BY <1>3 DEF Dispatching, Manager, Administrator, Outside, RecordUrl, SignalManager,
                ManagerStarts, ReadLayers, ReadGate, Reload, SaveToStick, SaveToMedia,
                OpenSettings, CloseSettings, AcceptSettings, SetPassword, LinkUp, LinkDown,
                ServerChanges, ManagerOnly, FetchOnly, OutsideOnly, fetchVars, workVars
  <2>2. \A p \in Fetchers : pc'[p] = pc[p] \/ (pc[p] \notin Held /\ pc'[p] \notin Held)
    <3>1. CASE Dispatching
      BY <1>1, <3>1 DEF Dispatching, RecordUrl, SignalManager, Goto, Held
    <3>2. CASE Manager \/ Administrator
      BY <3>2 DEF Manager, Administrator, ManagerStarts, ReadLayers, ReadGate, Reload,
                  SaveToStick, SaveToMedia, OpenSettings, CloseSettings, AcceptSettings,
                  SetPassword, ManagerOnly, workVars
    <3>3. CASE Outside
      BY <1>1, <1>3, <3>3 DEF Outside, LinkUp, LinkDown, ServerChanges, Goto, Held
    <3>4. QED
      BY <3>1, <3>2, <3>3
  <2>3. QED
    BY <2>1, <2>2, ElsewhereGate DEF GateOpen, Required
<1>4. QED
  BY <1>2, <1>3

LEMMA GateStep ==
  ASSUME TypeOK, ConfigAssumption, GateInv, [Next]_vars
  PROVE  GateInv' /\ (GateOpen => GateOpen' \/ boots' # boots)
<1>1. CASE UNCHANGED vars
  BY <1>1, ElsewhereGate DEF vars, fetchVars, workVars, GateOpen, Required
<1>2. CASE Next
  BY <1>2, FetchGate, OtherGate DEF Next
<1>3. QED
  BY <1>1, <1>2

LEMMA GateInductive == Spec => []GateInv
<1>1. Init => GateInv
  BY ConfigAssumption, FreshGate
<1>2. TypeOK /\ GateInv /\ [Next]_vars => GateInv'
  BY ConfigAssumption, GateStep
<1>3. QED
  BY <1>1, <1>2, ConfigTypes, PTL DEF Spec

\* The policy's gate opens only for a document that was accepted in this boot, with
\* fetches killed between any two steps.
THEOREM GateSound == Spec => []GateHasConfig
<1>1. GateInv => GateHasConfig
  BY DEF GateInv
<1>2. QED
  BY <1>1, GateInductive, PTL

\* As long as no fetch is killed the status describes the very document in place.
THEOREM StatusTruthful == Spec => []StatusDescribesRemote
<1>1. GateInv => StatusDescribesRemote
  BY DEF GateInv, StatusDescribesRemote, HashFollows, LockedSteps, Held, Fetchers, Free
<1>2. QED
  BY <1>1, GateInductive, PTL

\* Only a reboot closes an open gate: outages, rejected documents, changed URLs and
\* killed fetches do not.
THEOREM GateKept == Spec => GateStaysOpen
<1>1. TypeOK /\ GateInv /\ [Next]_vars => [GateOpen => GateOpen' \/ boots' # boots]_vars
  BY ConfigAssumption, GateStep
<1>2. QED
  BY <1>1, ConfigTypes, GateInductive, PTL DEF Spec, GateStaysOpen

(***************************************************************************)
(* A saved list stays in use.                                              *)
(***************************************************************************)
SavedInv == SavedWins /\ (ui = "gate" /\ local # NoDoc => seen = local)

LEMMA SavedStep ==
  ASSUME TypeOK, ConfigAssumption, SavedInv, [Next]_vars
  PROVE  SavedInv'
<1> USE DEF SavedInv, SavedWins
<1>1. CASE UNCHANGED <<local, seen, loaded, origin>> /\ (ui' = "gate" => ui = "gate")
  BY <1>1
<1>2. CASE ReadLayers
  BY <1>2 DEF ReadLayers, Layered
<1>3. CASE ReadGate
  <2>1. loaded' = Gated(seen) /\ local' = local /\ ui = "gate" /\ ui' = "idle"
    BY <1>3 DEF ReadGate
  <2>2. Gated(seen).doc = seen \/ Gated(seen).blocked
    BY DEF Gated
  <2>3. QED
    BY <2>1, <2>2
<1>4. CASE AcceptSettings
  BY <1>4 DEF AcceptSettings, Save
<1>5. CASE SetPassword
  BY <1>5 DEF SetPassword, Save
<1>6. CASE Reboot
  BY <1>6 DEF Reboot
<1>7. CASE ~(ReadLayers \/ ReadGate \/ AcceptSettings \/ SetPassword \/ Reboot)
  <2>1. CASE UNCHANGED vars
    BY <1>1, <2>1 DEF vars, managerVars
  <2>2. CASE \E p \in Fetchers : Fetching(p) \/ KillFetch(p)
    BY <1>1, <2>2 DEF Fetching, CopyMedia, PublishMedia, ReadUrl, TakeLock, Download,
                      PublishRemote, WriteStatus, Apply, KillFetch, FetchOnly, managerVars
  <2>3. CASE Dispatching \/ Manager \/ Administrator \/ Outside
    BY <1>1, <1>7, <2>3
       DEF Dispatching, Manager, Administrator, Outside, RecordUrl, SignalManager,
           ManagerStarts, Reload, SaveToStick, SaveToMedia, OpenSettings, CloseSettings,
           LinkUp, LinkDown, ServerChanges, FetchOnly, OutsideOnly, managerVars
  <2>4. QED
    BY <2>1, <2>2, <2>3 DEF Next
<1>8. QED
  BY <1>2, <1>3, <1>4, <1>5, <1>6, <1>7

\* What an administrator saved is in use for the rest of the boot, whatever is fetched
\* and loaded, unless the policy blocks every list.
THEOREM SavedStays == Spec => []SavedWins
<1>1. Init => SavedInv
  BY DEF Init, SavedInv, SavedWins
<1>2. TypeOK /\ SavedInv /\ [Next]_vars => SavedInv'
  BY ConfigAssumption, SavedStep
<1>3. SavedInv => SavedWins
  BY DEF SavedInv
<1>4. QED
  BY <1>1, <1>2, <1>3, ConfigTypes, PTL DEF Spec

(***************************************************************************)
(* The manager catches up. Whatever it shows is either what the files say, *)
(* or something that will make it read them again is still on its way.     *)
(***************************************************************************)
News == pc["dispatcher"] # "off" \/ hup \/ ui \in {"off", "layers"}

BootFirst == (booted => pc["boot"] = "off") /\ (~booted => ui = "off")
SavedIsLocal == origin = "saved" => local # NoDoc
CatchesUp ==
  \/ News
  \/ ui = "gate" /\ seen = Layered
  \/ ui \in {"idle", "stick", "media"} /\ ShowsFiles
FreshInv == BootFirst /\ SavedIsLocal /\ CatchesUp

\* The list in use, written to another layer, stays what the files say: either it
\* is what they said, or the gate is closed for every list.
LEMMA StoredShows ==
  ASSUME TypeOK, ConfigAssumption, SavedIsLocal, ShowsFiles,
         UNCHANGED <<policy, remote, status, loaded, origin>>,
         \/ origin = "files" /\ local = NoDoc /\ local' \in {local, loaded.doc} /\ media' = media
         \/ local' = local /\ media' \in {media, loaded.doc}
  PROVE  ShowsFiles'
<1>1. loaded.doc \in Lists /\ NoDoc \notin Lists /\ (GateOpen <=> GateOpen')
  BY DEF TypeOK, ConfigAssumption, Config, Lists, GateOpen, Required
<1>2. Layered' = Layered \/ (local = NoDoc /\ Layered' = loaded.doc)
  BY <1>1 DEF Layered
<1>3. CASE origin = "files"
  <2>1. loaded = Gated(Layered)
    BY <1>3 DEF ShowsFiles
  <2>2. Gated(Layered)' = loaded
    BY <1>1, <1>2, <2>1 DEF Gated
  <2>3. QED
    BY <1>3, <2>2 DEF ShowsFiles
<1>4. CASE origin = "saved"
  BY <1>2, <1>4 DEF ShowsFiles, SavedIsLocal
<1>5. CASE origin = "unsaved"
  BY <1>5 DEF ShowsFiles
<1>6. QED
  BY <1>3, <1>4, <1>5 DEF TypeOK, Origins

LEMMA FetchFresh ==
  ASSUME TypeOK, FreshInv, NEW p \in Fetchers, Fetching(p) \/ KillFetch(p)
  PROVE  FreshInv'
<1>1. pc \in [Fetchers -> Step] /\ pc[p] # "off"
  BY DEF TypeOK, Fetching, CopyMedia, PublishMedia, ReadUrl, TakeLock, Download,
         PublishRemote, WriteStatus, Apply, KillFetch
<1>2. /\ UNCHANGED <<local, ui, seen, loaded, origin, dialog, hup>>
      /\ booted' = booted \/ (p = "boot" /\ booted' /\ pc'["boot"] = "off")
  <2>1. CASE Apply(p)
    <3>1. /\ UNCHANGED <<local, ui, seen, loaded, origin, dialog, hup>>
          /\ booted' = (booted \/ p = "boot") /\ pc'[p] = AfterApply(p)
      BY <1>1, <2>1 DEF Apply, Goto, managerVars
    <3>2. CASE p = "boot"
      BY <3>1, <3>2 DEF AfterApply
    <3>3. CASE p # "boot"
      <4>1. booted \in BOOLEAN
        BY DEF TypeOK
      <4>2. booted' = booted
        BY <3>1, <3>3, <4>1, Zenon
      <4>3. QED
        BY <3>1, <4>2
    <3>4. QED
      BY <3>2, <3>3
  <2>2. CASE ~Apply(p)
    BY <2>2 DEF Fetching, CopyMedia, PublishMedia, ReadUrl, TakeLock, Download,
           PublishRemote, WriteStatus, KillFetch, FetchOnly, managerVars
  <2>3. QED
    BY <2>1, <2>2
<1>3. \A q \in Fetchers : q # p => pc'[q] = pc[q]
  BY <1>1 DEF Fetching, CopyMedia, PublishMedia, ReadUrl, TakeLock, Download,
         PublishRemote, WriteStatus, Apply, AfterApply, KillFetch, Goto
<1>4. p = "dispatcher" => pc'[p] # "off"
  BY <1>1 DEF Fetching, CopyMedia, PublishMedia, ReadUrl, TakeLock, Download,
         PublishRemote, WriteStatus, Apply, AfterApply, KillFetch, Goto
<1>5. CASE p = "boot"
  <2>1. ~booted /\ ui = "off"
    BY <1>1, <1>5 DEF FreshInv, BootFirst
  <2>2. QED
    BY <1>2, <1>5, <2>1 DEF FreshInv, BootFirst, SavedIsLocal, CatchesUp, News
<1>6. CASE p = "dispatcher"
  BY <1>1, <1>2, <1>3, <1>4, <1>6 DEF FreshInv, BootFirst, SavedIsLocal, CatchesUp, News,
                                      Fetchers
<1>7. QED
  BY <1>5, <1>6 DEF Fetchers

LEMMA ManagerFresh ==
  ASSUME TypeOK, ConfigAssumption, FreshInv, Dispatching \/ Manager \/ Administrator
  PROVE  FreshInv'
<1> USE DEF FreshInv, BootFirst, SavedIsLocal, CatchesUp, News, ManagerOnly, workVars,
            fetchVars, mediaVars
<1>1. pc \in [Fetchers -> Step] /\ NoDoc \notin Lists /\ "boot" \in Fetchers /\ "dispatcher" \in Fetchers
  BY DEF TypeOK, ConfigAssumption, Lists, Fetchers
<1>2. CASE RecordUrl
  BY <1>1, <1>2 DEF RecordUrl, Goto, FetchOnly, managerVars
<1>3. CASE SignalManager
  BY <1>1, <1>3 DEF SignalManager, Goto
<1>4. CASE ManagerStarts
  BY <1>4 DEF ManagerStarts, MayStart
<1>5. CASE ReadLayers
  BY <1>5 DEF ReadLayers, Layered
<1>6. CASE ReadGate
  <2>1. seen = Layered => loaded' = Gated(Layered)' /\ origin' = "files"
    BY <1>6 DEF ReadGate, Layered, Gated, GateOpen, Required
  <2>2. QED
    BY <1>6, <2>1 DEF ReadGate, ShowsFiles
<1>7. CASE Reload
  BY <1>7 DEF Reload
<1>8. CASE SaveToStick
  BY <1>8, StoredShows DEF SaveToStick
<1>9. CASE SaveToMedia
  BY <1>9, StoredShows DEF SaveToMedia
<1>10. CASE OpenSettings
  BY <1>10, StoredShows DEF OpenSettings
<1>11. CASE CloseSettings
  BY <1>11, StoredShows DEF CloseSettings
<1>12. CASE AcceptSettings
  <2>1. dialog.doc \in Lists /\ Edits \subseteq Lists
    BY DEF TypeOK, Lists
  <2>2. PICK list \in Edits \cup {dialog.doc} :
          /\ loaded' = [doc |-> list, blocked |-> dialog.blocked] /\ Save(list)
          /\ origin' = IF local' = list THEN "saved" ELSE "unsaved"
    BY <1>12 DEF AcceptSettings
  <2>3. SavedIsLocal' /\ ShowsFiles'
    BY <1>1, <2>1, <2>2 DEF Layered, ShowsFiles
  <2>4. QED
    BY <1>12, <2>2, <2>3 DEF AcceptSettings, Save
<1>13. CASE SetPassword
  BY <1>13, StoredShows DEF SetPassword, Save
<1>14. QED
  BY <1>2, <1>3, <1>4, <1>5, <1>6, <1>7, <1>8, <1>9, <1>10, <1>11, <1>12, <1>13
     DEF Dispatching, Manager, Administrator

LEMMA OutsideFresh ==
  ASSUME TypeOK, FreshInv, Outside
  PROVE  FreshInv'
<1> USE DEF FreshInv, BootFirst, SavedIsLocal, CatchesUp, News, OutsideOnly,
            managerVars, fetchVars, mediaVars
<1>1. pc \in [Fetchers -> Step] /\ "boot" \in Fetchers /\ "dispatcher" \in Fetchers
  BY DEF TypeOK, Fetchers
<1>2. ASSUME NEW u \in Urls \cup {NoUrl}, LinkUp(u)
      PROVE  FreshInv'
  BY <1>1, <1>2 DEF LinkUp, Goto
<1>3. CASE LinkDown \/ \E u \in Urls, d \in Docs \cup {NoDoc} : ServerChanges(u, d)
  <2>1. UNCHANGED <<policy, media, remote, local, status, pc, booted, hup, ui, seen, loaded, origin>>
    BY <1>3 DEF LinkDown, ServerChanges
  <2>2. Layered' = Layered /\ Gated(Layered)' = Gated(Layered)
    BY <2>1 DEF Layered, Gated, GateOpen, Required
  <2>3. QED
    BY <2>1, <2>2 DEF ShowsFiles
<1>4. CASE Reboot
  BY <1>4 DEF Reboot
<1>5. QED
  BY <1>2, <1>3, <1>4 DEF Outside

\* Under every policy the manager, once everything has settled, shows what the layers
\* say and the gate lets through, or the list Settings stored in them.
THEOREM LoadedSettles == Spec => []LoadedIsFresh
<1>1. Init => FreshInv
  BY DEF Init, FreshInv, BootFirst, SavedIsLocal, CatchesUp, News
<1>2. TypeOK /\ FreshInv /\ [Next]_vars => FreshInv'
  <2> SUFFICES ASSUME TypeOK, FreshInv, [Next]_vars
               PROVE  FreshInv'
    OBVIOUS
  <2>1. CASE UNCHANGED vars
    BY <2>1 DEF vars, mediaVars, fetchVars, workVars, managerVars, FreshInv, BootFirst,
                SavedIsLocal, CatchesUp, News, Layered, ShowsFiles, Gated, GateOpen, Required
  <2>2. CASE Next
    BY <2>2, ConfigAssumption, FetchFresh, ManagerFresh, OutsideFresh DEF Next
  <2>3. QED
    BY <2>1, <2>2
<1>3. FreshInv => LoadedIsFresh
  BY DEF LoadedIsFresh, Settled, FreshInv, CatchesUp, News
<1>4. QED
  BY <1>1, <1>2, <1>3, ConfigTypes, PTL DEF Spec
=============================================================================
