------------------------------ MODULE BootCache ------------------------------
(***************************************************************************)
(* The removable boot cache: the initramfs boots the image the server        *)
(* advertises from a USB stick if it is there and whole, else over HTTP, and *)
(* tc-cache-save then copies what was downloaded to the stick. Power may fail *)
(* and the stick be pulled at any step; what was not flushed is then lost.  *)
(***************************************************************************)
EXTENDS Naturals, FiniteSets

CONSTANTS Profiles,   \* namespaces on the stick
          Images,     \* releases; a hash names its image
          Parts,      \* names mktemp may give
          NoPart,
          Partial,    \* any other content
          NoFile, NoImage,
          Signed,     \* profiles whose initramfs carries release.pub
          MaxDeploys, MaxLosses, MaxKills, MaxSignals, MaxRots, MaxFaults   \* bounds

ASSUME CacheAssumption ==
  /\ Images \cap Parts = {} /\ NoPart \notin Parts
  /\ {Partial, NoFile, NoImage} \cap Images = {} /\ Partial # NoFile
  /\ Signed \subseteq Profiles
  /\ {MaxDeploys, MaxLosses, MaxKills, MaxSignals, MaxRots, MaxFaults} \subseteq Nat

VARIABLES
  release,                   \* the tree the server publishes, per profile
  boot, profile, want, trust,  \* step; tc.cache.profile, .sha256; TC_TRUST_SHA256
  root, origin,              \* the image in RAM; tc-cache-status
  present, disk,             \* the stick is plugged in; what is on its medium
  mounted, view, unsynced,   \* as tc-cache-save sees it; files not flushed
  pc, part, writer, pid,     \* tc-cache-save: TEMP_FILE, the copy, COPY_PID is set
  interrupted,               \* INTERRUPTED
  stage, slips,              \* next command of cleanup(); what kept a cleanup from its work
  status, progress,          \* cache-status, cache-progress
  deploys, losses, kills, signals, rots   \* counters of the bounds

bootVars   == <<boot, profile, want, trust, root, origin>>
stickVars  == <<present, disk>>
mountVars  == <<mounted, view, unsynced>>
saveVars   == <<pc, part, writer, pid, interrupted>>
cleanVars  == <<stage, slips>>
statusVars == <<status, progress>>
boundVars  == <<deploys, losses, kills, signals, rots>>
vars == <<release, bootVars, stickVars, mountVars, saveVars, cleanVars, statusVars, boundVars>>

-----------------------------------------------------------------------------
Files    == Profiles \X (Images \cup Parts)
Data     == Images \cup {Partial, NoFile}
BootStep == {"off", "manifest", "restore", "download", "running", "refused"}
Busy     == {"open", "check", "create", "fork", "register", "copy", "flush", "hash", "publish",
             "commit", "prune", "saved"}
Step     == {"off", "exitOk", "exitFailed", "done"} \cup Busy
Stage    == {"stop", "remove", "progress", "unmount", "report"}
Slips    == {"rm", "umount", "signal", "mktemp"}
MoreFaults == losses + kills + signals + rots + Cardinality(slips) < MaxFaults
Target   == <<profile, want>>
Temp     == <<profile, part>>

\* What a loss leaves of the writes that were not flushed: each of them or not,
\* and of a file's data perhaps a piece.
Left ==
  LET kept(k, t) == [f \in Files |-> IF f \in t THEN Partial ELSE IF f \in k THEN view[f] ELSE disk[f]]
  IN  UNION {{kept(k, t) : t \in SUBSET (k \cap unsynced)}
             : k \in SUBSET {f \in Files : view[f] # disk[f]}}

Init ==
  /\ release \in [Profiles -> Images]
  /\ boot = "off" /\ profile \in Profiles /\ want = NoImage /\ trust = NoImage
  /\ root = NoFile /\ origin = "none"
  /\ present = TRUE /\ disk = [f \in Files |-> NoFile]
  /\ mounted = FALSE /\ view = disk /\ unsynced = {}
  /\ pc = "off" /\ part = NoPart /\ writer = "none" /\ pid = FALSE /\ interrupted = FALSE
  /\ stage = "stop" /\ slips = {} /\ status = "none" /\ progress = FALSE
  /\ deploys = 0 /\ losses = 0 /\ kills = 0 /\ signals = 0 /\ rots = 0

-----------------------------------------------------------------------------
(* Booting: 9991-thinclient-cache.sh.                                      *)

BootOnly == UNCHANGED <<release, stickVars, mountVars, saveVars, cleanVars, statusVars, boundVars>>

\* The PXE menu names the profile and the release it was rendered for.
PowerOn(p) ==
  /\ boot = "off"
  /\ boot' = "manifest" /\ profile' = p /\ want' = release[p]
  /\ present' \in BOOLEAN
  /\ UNCHANGED <<release, trust, root, origin, disk, mountVars, saveVars, cleanVars, statusVars,
                 boundVars>>

\* tc_verify_release_manifest: without a key nothing is verified.
VerifyManifest ==
  /\ boot = "manifest"
  /\ \/ boot' = "restore" /\ trust' = IF profile \in Signed THEN release[profile] ELSE NoImage
     \/ profile \in Signed /\ boot' = "refused" /\ UNCHANGED trust
  /\ BootOnly /\ UNCHANGED <<profile, want, root, origin>>

MenuFirstBug == want
Key == IF trust # NoImage THEN trust ELSE want

\* The copy in RAM is hashed, not the file it was copied from.
Verified(copy, file) == copy = Key

\* tc_cache_restore: the copy may fail, and so may any of the mounts.
Restore ==
  /\ boot = "restore"
  /\ LET file == disk[<<profile, Key>>]
     IN  \/ /\ present /\ file # NoFile
            /\ \E copy \in {file, Partial} :
                 /\ Verified(copy, file)
                 /\ root' = copy /\ origin' = "hit" /\ boot' = "running"
         \/ root' = NoFile /\ origin' = "miss" /\ boot' = "download"
  /\ BootOnly /\ UNCHANGED <<profile, want, trust>>

\* do_httpmount_network, and the signed release once more.
Download ==
  /\ boot = "download"
  /\ \/ /\ root' = release[profile] /\ trust \in {NoImage, release[profile]}
        /\ origin' = "network" /\ boot' = "running"
     \/ boot' = "refused" /\ UNCHANGED <<root, origin>>
  /\ BootOnly /\ UNCHANGED <<profile, want, trust>>

-----------------------------------------------------------------------------
(* tc-cache-save.                                                          *)

SaveOnly == UNCHANGED <<release, bootVars, present, cleanVars, boundVars>>
Goto(step) == pc' = step
Quiet   == UNCHANGED <<disk, mountVars, part, writer, pid, interrupted, statusVars>>
Fails   == Goto("exitFailed") /\ Quiet

UnflushedBug(step) ==
  CASE step = "copy" -> "hash" [] step = "hash" -> "publish" [] step = "publish" -> "commit"
    [] step = "commit" -> "prune" [] step = "prune" -> "saved"
PruneFirstBug(step) ==
  CASE step = "copy" -> "flush" [] step = "flush" -> "hash" [] step = "hash" -> "publish"
    [] step = "publish" -> "prune" [] step = "prune" -> "commit" [] step = "commit" -> "saved"
UncommittedBug(step) ==
  CASE step = "copy" -> "flush" [] step = "flush" -> "hash" [] step = "hash" -> "publish"
    [] step = "publish" -> "saved" [] step = "commit" -> "prune" [] step = "prune" -> "saved"
After(step) ==
  CASE step = "copy" -> "flush" [] step = "flush" -> "hash" [] step = "hash" -> "publish"
    [] step = "publish" -> "commit" [] step = "commit" -> "prune" [] step = "prune" -> "saved"

\* A cache hit needs no write. The boot status may not be writable.
SaveStarts ==
  /\ boot = "running" /\ pc = "off"
  /\ \/ Goto(IF origin = "hit" THEN "done" ELSE "open") /\ Quiet
     \/ Fails
  /\ SaveOnly

\* The first USB partition of that label that can be mounted, and its directory.
Open ==
  /\ pc = "open"
  /\ \/ present /\ mounted' = TRUE /\ (Goto("check") \/ Goto("exitFailed"))
     \/ Goto("exitOk") /\ UNCHANGED mounted
  /\ SaveOnly /\ UNCHANGED <<disk, view, unsynced, part, writer, pid, interrupted, statusVars>>

\* write_saved_status.
ReportSaved ==
  /\ status' = "saved" /\ Goto("exitOk")
  /\ UNCHANGED <<disk, mountVars, part, writer, pid, interrupted, progress>>

AlreadyCached ==
  /\ pc = "check" /\ view[Target] = want
  /\ SaveOnly /\ (ReportSaved \/ Fails)

NotCached ==
  /\ pc = "check" /\ (view[Target] = want => ~present)
  /\ Goto("create")
  /\ SaveOnly /\ Quiet

\* mktemp and the first progress file.
Create ==
  /\ pc = "create"
  /\ \/ /\ present
        /\ \E name \in {q \in Parts : view[<<profile, q>>] = NoFile} :
             /\ part' = name
             /\ view' = [view EXCEPT ![<<profile, name>>] = Partial]
             /\ unsynced' = unsynced \cup {<<profile, name>>}
        /\ \/ Goto("fork") /\ progress' = TRUE
           \/ Goto("exitFailed") /\ UNCHANGED progress
        /\ UNCHANGED <<disk, mounted, writer, pid, interrupted, status>>
     \/ Fails
  /\ SaveOnly

Fork ==
  /\ pc = "fork"
  /\ writer' = "running" /\ Goto("register")
  /\ SaveOnly /\ UNCHANGED <<disk, mountVars, part, pid, interrupted, statusVars>>

Register ==
  /\ pc = "register"
  /\ pid' = TRUE
  /\ Goto(IF interrupted THEN "exitFailed" ELSE "copy")
  /\ SaveOnly /\ UNCHANGED <<disk, mountVars, part, writer, interrupted, statusVars>>

\* The writer is a process of its own. It may stop short and not say so.
Write ==
  /\ writer = "running" /\ part # NoPart
  /\ \/ present /\ view' = [view EXCEPT ![Temp] = root] /\ writer' = "ok"
     \/ writer' \in {"ok", "failed"} /\ UNCHANGED view
  /\ unsynced' = unsynced \cup {Temp}
  /\ SaveOnly /\ UNCHANGED <<disk, mounted, pc, part, pid, interrupted, statusVars>>

SuccessAwaitedBug == writer = "ok"
WriterEnded == writer # "running"

Copied ==
  /\ pc = "copy" /\ WriterEnded
  /\ Goto(IF writer = "ok" THEN After("copy") ELSE "exitFailed")
  /\ pid' = FALSE /\ writer' = "none"
  /\ SaveOnly /\ UNCHANGED <<disk, mountVars, part, interrupted, statusVars>>

CopyAborted ==   \* the progress file cannot be written
  /\ pc = "copy" /\ writer = "running"
  /\ SaveOnly /\ Fails

\* sync -f.
Sync(step) ==
  /\ pc = step
  /\ \/ /\ present /\ disk' = view /\ unsynced' = {}
        /\ Goto(After(step))
        /\ UNCHANGED <<mounted, view, part, writer, pid, interrupted, statusVars>>
     \/ Fails
  /\ SaveOnly

Hashed(file) == view[file] = want

Hash ==
  /\ pc = "hash"
  /\ \/ Hashed(Temp) /\ Goto(After("hash")) /\ Quiet
     \/ Fails
  /\ SaveOnly

\* mv -fT.
Publish ==
  /\ pc = "publish"
  /\ \/ /\ view' = [view EXCEPT ![Target] = view[Temp], ![Temp] = NoFile]
        /\ unsynced' = {IF f = Temp THEN Target ELSE f : f \in unsynced \ {Target}}
        /\ part' = NoPart /\ Goto(After("publish"))
        /\ UNCHANGED <<disk, mounted, writer, pid, interrupted, statusVars>>
     \/ Fails
  /\ SaveOnly

\* Only the advertised version is retained.
Prune ==
  /\ pc = "prune"
  /\ LET old == {f \in {profile} \X Images : f # Target /\ view[f] # NoFile}
     IN  \/ /\ \E f \in old : view' = [view EXCEPT ![f] = NoFile]
            /\ UNCHANGED pc
         \/ old = {} /\ Goto(After("prune")) /\ UNCHANGED view
  /\ SaveOnly /\ UNCHANGED <<disk, mounted, unsynced, part, writer, pid, interrupted, statusVars>>

Saved ==
  /\ pc = "saved"
  /\ SaveOnly /\ (ReportSaved \/ Fails)

\* cleanup(), the EXIT trap, a command at a time.
Cleaning(step, next) == pc \in {"exitOk", "exitFailed"} /\ stage = step /\ stage' = next
CleanOnly == UNCHANGED <<release, bootVars, present, interrupted, boundVars>>
Slip(what) == MoreFaults /\ slips' = slips \cup {what}

StopWriter ==
  /\ Cleaning("stop", "remove")
  /\ writer' = IF pid THEN "none" ELSE writer
  /\ pid' = FALSE
  /\ CleanOnly /\ UNCHANGED <<pc, disk, mountVars, part, slips, statusVars>>

\* rm may fail, on a stick that has become read-only.
RemovePart ==
  /\ Cleaning("remove", "progress")
  /\ \/ /\ view' = IF part = NoPart THEN view ELSE [view EXCEPT ![Temp] = NoFile]
        /\ UNCHANGED slips
     \/ part # NoPart /\ Slip("rm") /\ UNCHANGED view
  /\ part' = NoPart
  /\ CleanOnly /\ UNCHANGED <<pc, disk, mounted, unsynced, writer, pid, statusVars>>

RemoveProgress ==
  /\ Cleaning("progress", "unmount")
  /\ progress' = FALSE
  /\ CleanOnly /\ UNCHANGED <<pc, disk, mountVars, part, writer, pid, slips, status>>

\* umount ... || true: a file system that is in use, or a failing stick, stays mounted.
Unmount ==
  /\ Cleaning("unmount", "report")
  /\ \/ /\ mounted /\ writer # "running" /\ mounted' = FALSE
        /\ disk' = IF present THEN view ELSE disk
        /\ view' = disk' /\ unsynced' = {} /\ UNCHANGED slips
     \/ ~mounted /\ UNCHANGED <<disk, mountVars, slips>>
     \/ mounted /\ Slip("umount") /\ UNCHANGED <<disk, mountVars>>
  /\ CleanOnly /\ UNCHANGED <<pc, part, writer, pid, statusVars>>

ReportFailed ==
  /\ Cleaning("report", "report")
  /\ status' \in IF pc = "exitFailed" THEN {"failed", status} ELSE {status}
  /\ Goto("done")
  /\ CleanOnly /\ UNCHANGED <<disk, mountVars, part, writer, pid, slips, progress>>

Cleanup == StopWriter \/ RemovePart \/ RemoveProgress \/ Unmount \/ ReportFailed

\* HUP, INT or TERM. While the writer is being started the exit is put off.
NotDeferredBug == FALSE
Deferred == pc \in {"fork", "register"}

Signalled ==
  /\ signals < MaxSignals /\ MoreFaults /\ signals' = signals + 1 /\ interrupted' = TRUE
  /\ UNCHANGED <<release, bootVars, present, disk, mounted, writer, pid, stage, statusVars, deploys,
                 losses, kills, rots>>

Interrupt ==
  /\ Signalled /\ pc \in Busy
  /\ IF Deferred THEN UNCHANGED pc ELSE Goto("exitFailed")
  /\ UNCHANGED <<view, unsynced, part, slips>>

\* systemd signals the whole group: mktemp may have made its file and not said so.
InterruptMktemp ==
  /\ Signalled /\ pc = "create" /\ Goto("exitFailed")
  /\ \E name \in {q \in Parts : view[<<profile, q>>] = NoFile} :
       /\ view' = [view EXCEPT ![<<profile, name>>] = Partial]
       /\ unsynced' = unsynced \cup {<<profile, name>>}
  /\ Slip("mktemp")
  /\ UNCHANGED part

\* The traps stay armed in the EXIT trap, where exit ends the shell at once.
InterruptCleanup ==
  /\ Signalled /\ pc \in {"exitOk", "exitFailed"} /\ Goto("done")
  /\ Slip("signal")
  /\ UNCHANGED <<view, unsynced, part>>

\* systemd ends what a finished service left behind.
Reap ==
  /\ pc = "done" /\ writer # "none" /\ writer' = "none"
  /\ SaveOnly /\ UNCHANGED <<disk, mountVars, pc, part, pid, interrupted, statusVars>>

\* systemd's SIGKILL, to the writer as well.
Kill ==
  /\ pc \in Busy \cup {"exitOk", "exitFailed"} /\ kills < MaxKills /\ MoreFaults
  /\ kills' = kills + 1 /\ Goto("done") /\ writer' = "none" /\ part' = NoPart /\ pid' = FALSE
  /\ UNCHANGED <<release, bootVars, stickVars, mountVars, interrupted, cleanVars, statusVars,
                 deploys, losses, signals, rots>>

-----------------------------------------------------------------------------
(* Power, the stick and the server.                                        *)

Off ==
  /\ boot' = "off" /\ want' = NoImage /\ trust' = NoImage /\ root' = NoFile /\ origin' = "none"
  /\ mounted' = FALSE /\ view' = disk' /\ unsynced' = {}
  /\ pc' = "off" /\ part' = NoPart /\ writer' = "none" /\ pid' = FALSE /\ interrupted' = FALSE
  /\ stage' = "stop" /\ status' = "none" /\ progress' = FALSE
  /\ UNCHANGED <<release, profile, present, slips, deploys, kills, signals, rots>>

\* systemd unmounts what is still mounted.
Shutdown ==
  /\ boot \in {"running", "refused"} /\ pc \in {"off", "done"}
  /\ disk' = IF mounted /\ present THEN view ELSE disk
  /\ Off /\ UNCHANGED losses

PowerLoss ==
  /\ boot # "off" /\ losses < MaxLosses /\ MoreFaults /\ losses' = losses + 1
  /\ disk' \in IF present THEN Left ELSE {disk}
  /\ Off

Pull ==
  /\ boot # "off" /\ present /\ losses < MaxLosses /\ MoreFaults /\ losses' = losses + 1
  /\ present' = FALSE
  /\ disk' \in Left
  /\ view' = IF mounted THEN view ELSE disk'
  /\ UNCHANGED <<release, bootVars, mounted, unsynced, saveVars, cleanVars, statusVars, deploys,
                 kills, signals, rots>>

\* A worn medium, or somebody's computer.
Rot(f) ==
  /\ boot = "off" /\ disk[f] \in Images /\ rots < MaxRots /\ MoreFaults /\ rots' = rots + 1
  /\ disk' = [disk EXCEPT ![f] = Partial] /\ view' = disk'
  /\ UNCHANGED <<release, bootVars, present, mounted, unsynced, saveVars, cleanVars, statusVars,
                 deploys, losses, kills, signals>>

Deploy(p, image) ==
  /\ release[p] # image /\ deploys < MaxDeploys /\ deploys' = deploys + 1
  /\ release' = [release EXCEPT ![p] = image]
  /\ UNCHANGED <<bootVars, stickVars, mountVars, saveVars, cleanVars, statusVars, losses, kills,
                 signals, rots>>

-----------------------------------------------------------------------------
Booting == VerifyManifest \/ Restore \/ Download

Saving ==
  \/ SaveStarts \/ Open \/ AlreadyCached \/ NotCached \/ Create \/ Fork \/ Register
  \/ Copied \/ Sync("flush") \/ Hash \/ Publish \/ Sync("commit") \/ Prune \/ Saved \/ Cleanup

Signal == Interrupt \/ InterruptMktemp \/ InterruptCleanup

Next ==
  \/ \E p \in Profiles : PowerOn(p)
  \/ Booting \/ Saving \/ Write \/ CopyAborted
  \/ Signal \/ Reap \/ Kill
  \/ Shutdown \/ PowerLoss \/ Pull
  \/ \E f \in Files : Rot(f)
  \/ \E p \in Profiles, image \in Images : Deploy(p, image)

Spec == Init /\ [][Next]_vars

FairSpec == Spec /\ WF_vars(Saving) /\ WF_vars(Write)
=============================================================================
