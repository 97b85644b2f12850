------------------------------ MODULE Installer ------------------------------
(***************************************************************************)
(* Installing onto a disk: the window of the kiosk user (installer.py) and *)
(* the helper that runs as root (tc-install), step by step, while a disk   *)
(* is mounted automatically, plugged elsewhere or a command fails.  A disk *)
(* holds parts: a partition table, two places for file systems, the files, *)
(* boot code and settings in them; those not written out are lost with the *)
(* power.                                                                  *)
(***************************************************************************)
EXTENDS Naturals, Sequences

CONSTANTS
  Disk, Live, Small, Removable,   \* the medium that runs, those under 4 GiB, USB and cards
  Path, NoDisk, NoPath,           \* names of disks
  Files,                          \* SYSTEM_FILES, in the order they are copied
  MaxInstalls, MaxFaults, MaxMoves

ASSUME DiskAssumption ==
  Live \in Disk /\ Small \cup Removable \subseteq Disk /\ NoDisk \notin Disk /\ NoPath \notin Path

\* Some files, all different, and none of the other parts.
ASSUME FilesAssumption ==
  /\ Files \in Seq(STRING) /\ Files # <<>>
  /\ \A i, j \in DOMAIN Files : Files[i] = Files[j] => i = j
  /\ \A i \in DOMAIN Files : Files[i] \notin {"table", "oldesp", "oldconf", "esp", "conf", "boot", "config"}

VARIABLES
  at, mounted, content, flushed, power, ordered,   \* the machine; a shutdown ordered
  phase, offered, selected, verdict,      \* the window
  pc, file, target, fresh, own, victim,   \* the helper
  raced, moved,                           \* confirmed after that order; moved after its checks
  installs, faults, moves                 \* bounds

machine == <<at, mounted, content, flushed, power, ordered>>
window  == <<phase, offered, selected, verdict>>
helper  == <<pc, file, target, fresh, own, victim, raced, moved>>
bounds  == <<installs, faults, moves>>
vars == <<machine, window, helper, bounds>>

File == {Files[i] : i \in DOMAIN Files}
Parts == {"table", "oldesp", "oldconf", "esp", "conf", "boot", "config"} \cup File
Whole == {"table", "esp", "conf", "boot", "config"} \cup File

\* The places of the second and the third partition, and what is kept in each.
Place == {"esp", "conf"}
Of(place) ==
  IF place = "esp" THEN {"oldesp", "esp", "boot"} \cup File ELSE {"oldconf", "conf", "config"}

\* Before: some disks have a table and file systems in it, none is in use but the medium.
Init ==
  /\ at \in [Path -> Disk \cup {NoDisk}]
  /\ \A p, q \in Path : at[p] = at[q] /\ at[p] \in Disk => p = q
  /\ \E p \in Path : at[p] = Live
  /\ mounted = {} /\ content \in [Disk -> {{"table", "oldesp", "oldconf"}, {}}] /\ flushed = content
  /\ power = "on" /\ ordered = FALSE
  /\ phase = "listing" /\ offered = {} /\ selected = NoPath /\ verdict = "none"
  /\ pc = "none" /\ file = 0 /\ target = NoPath /\ fresh = TRUE /\ own = "none" /\ victim = NoDisk
  /\ raced = FALSE /\ moved = FALSE
  /\ installs = 0 /\ faults = 0 /\ moves = 0

On == power = "on"

-----------------------------------------------------------------------------
\* Which disk can be erased, as candidates and validate_target find out.
Candidate(d) == d \in Disk \ {Live}

InUse(d) == d = Live \/ \E place \in Place : <<d, place>> \in mounted

ListedBug(d) == Candidate(d) /\ ~InUse(d)
Installable(d) == Candidate(d) /\ d \notin Small /\ ~InUse(d)

-----------------------------------------------------------------------------
\* The window.  tc-install --list; the first row is selected at once, also one that is
\* too small and greyed.  No answer in time is an empty list, and findmnt failing a
\* list that does not know the medium.
ShowDisks ==
  /\ On /\ phase = "listing" /\ phase' = "idle"
  /\ \/ offered' = {p \in Path : Candidate(at[p])} /\ UNCHANGED faults
     \/ /\ offered' \in {{}, {p \in Path : at[p] \in Disk}}
        /\ faults < MaxFaults /\ faults' = faults + 1
  /\ selected' \in IF offered' = {} THEN {NoPath} ELSE offered'
  /\ UNCHANGED <<machine, verdict, helper, installs, moves>>

Rescan ==
  /\ On /\ phase = "idle" /\ phase' = "listing"
  /\ UNCHANGED <<machine, offered, selected, verdict, helper, bounds>>

Select(p) ==
  /\ On /\ phase = "idle" /\ p \in offered /\ at[p] \notin Small /\ selected' = p
  /\ UNCHANGED <<machine, phase, offered, verdict, helper, bounds>>

\* on_install: a modal dialog that wants INSTALL typed.
Ask ==
  /\ On /\ phase = "idle" /\ selected # NoPath /\ installs < MaxInstalls
  /\ phase' = "confirm"
  /\ UNCHANGED <<machine, offered, selected, verdict, helper, bounds>>

Decline ==
  /\ On /\ phase = "confirm" /\ phase' = "idle"
  /\ UNCHANGED <<machine, offered, selected, verdict, helper, bounds>>

Confirm ==
  /\ On /\ phase = "confirm" /\ phase' = "running" /\ verdict' = "none"
  /\ pc' = "validate" /\ target' = selected /\ installs' = installs + 1
  /\ raced' = ordered /\ moved' = FALSE
  /\ UNCHANGED <<machine, offered, selected, file, fresh, own, victim, faults, moves>>

\* _worker and _done.  The time limit cannot stop a helper that is root: it is waited
\* for, and then its work counts as failed, whatever it says.
Done ==
  /\ On /\ phase = "running" /\ pc \in {"finished", "failed"} /\ phase' = "report"
  /\ \/ verdict' = (IF pc = "finished" THEN "complete" ELSE "failed") /\ UNCHANGED faults
     \/ verdict' = "failed" /\ faults < MaxFaults /\ faults' = faults + 1
  /\ pc' = "none" /\ target' = NoPath
  /\ UNCHANGED <<machine, offered, selected, file, fresh, own, victim, raced, moved,
                 installs, moves>>

CloseReport ==
  /\ On /\ phase = "report" /\ phase' = "idle"
  /\ UNCHANGED <<machine, offered, selected, verdict, helper, bounds>>

\* Restart and Shut Down; while a dialog is open, the report's Restart now alone.  The
\* command is only started: the window stays, and installs as before.
UnguardedBug == phase # "confirm" /\ (phase = "report" => verdict = "complete")
MayPower == phase \in {"listing", "idle"} \/ (phase = "report" /\ verdict = "complete")

Power ==
  /\ On /\ MayPower /\ ordered' = TRUE
  /\ phase' = IF phase = "report" THEN "idle" ELSE phase
  /\ UNCHANGED <<at, mounted, content, flushed, power, offered, selected, verdict, helper, bounds>>

\* Some time later all that runs is ended, what is mounted released and written out.
ShutsDown ==
  /\ On /\ ordered /\ power' = "asked" /\ flushed' = content /\ mounted' = {}
  /\ UNCHANGED <<at, content, ordered, window, helper, bounds>>

\* What was not written out is gone, mounts with it.
PowerFails ==
  /\ On /\ faults < MaxFaults /\ faults' = faults + 1
  /\ power' = "lost" /\ content' = flushed /\ mounted' = {}
  /\ UNCHANGED <<at, flushed, ordered, window, helper, installs, moves>>

-----------------------------------------------------------------------------
\* The helper.  A step that fails ends it, after the mount of its own is released.
Dev == at[target]

Goto(next) == pc' = next /\ UNCHANGED own

Fail == Goto(IF own # "none" THEN "cleanup" ELSE "failed")

MayFault == faults < MaxFaults /\ faults' = faults + 1

Step(here) ==
  /\ On /\ pc = here /\ UNCHANGED <<at, power, ordered, window, target, raced, moved, installs, moves>>

Keep == UNCHANGED <<mounted, content, flushed>>

\* A step that checks: passed, or the reason to stop.
Require(here, holds, next) ==
  /\ Step(here) /\ Keep /\ UNCHANGED <<fresh, victim>>
  /\ \/ holds /\ Goto(next) /\ UNCHANGED faults
     \/ ~holds /\ Fail /\ UNCHANGED faults
     \/ holds /\ Fail /\ MayFault

\* A command that writes to the disk: done, refused, or failed with or without effect.
Writes(here, allowed, without, with, next) ==
  /\ Step(here) /\ UNCHANGED <<mounted, fresh, flushed>>
  /\ victim' = IF here = "wipe" THEN Dev ELSE victim
  /\ LET written == [content EXCEPT ![Dev] = (@ \ without) \cup with]
     IN  \/ allowed /\ content' = written /\ Goto(next) /\ UNCHANGED faults
         \/ ~allowed /\ content' = content /\ Fail /\ UNCHANGED faults
         \/ allowed /\ content' \in {content, written} /\ Fail /\ MayFault

Validate   == Require("validate", Installable(Dev), "preflight") /\ UNCHANGED file
Revalidate == Require("revalidate", Installable(Dev), "wipe") /\ UNCHANGED file

\* preflight: tools, sources with their hashes, and the configuration.
Preflight ==
  /\ Step("preflight") /\ Keep /\ UNCHANGED <<file, victim>>
  /\ fresh' = TRUE
  /\ \/ Goto("revalidate") /\ UNCHANGED faults
     \/ Fail /\ MayFault

\* wipefs refuses a disk of which something is mounted; mkfs a partition that is.
\* A new table shows the file systems that the old one held at the same places.
Wipe ==
  Writes("wipe", Dev \in Disk /\ ~InUse(Dev), {"table"}, {}, "table") /\ UNCHANGED file

Partition == Writes("table", TRUE, {}, {"table"}, "mkesp") /\ UNCHANGED file

FormatEsp ==
  /\ Writes("mkesp", <<Dev, "esp">> \notin mounted, {"oldesp", "boot"} \cup File, {"esp"}, "mkconf")
  /\ UNCHANGED file

FormatConf ==
  /\ Writes("mkconf", <<Dev, "conf">> \notin mounted, {"oldconf", "config"}, {"conf"}, "mount")
  /\ UNCHANGED file

MountStep(here, place, next) ==
  /\ Step(here) /\ Keep /\ UNCHANGED <<fresh, victim>>
  /\ file' = IF here = "mount" THEN 1 ELSE file
  /\ \/ pc' = next /\ own' = place /\ UNCHANGED faults
     \/ Fail /\ MayFault

MountEsp  == MountStep("mount", "esp", "copy")
MountConf == MountStep("mountconf", "conf", "seed")

\* copy_system: a copy of a source that changed since it was hashed is not the file.
CopyFile ==
  /\ Writes("copy", TRUE, {Files[file]}, IF fresh THEN {Files[file]} ELSE {}, "verify")
  /\ UNCHANGED file

CopiedBug(d, i) == TRUE
Verified(d, i) == Files[i] \in content[d]

VerifyFile ==
  /\ Require("verify", Verified(Dev, file), IF file = Len(Files) THEN "boot" ELSE "copy")
  /\ file' = IF pc' = "copy" THEN file + 1 ELSE file

Bootloader == Writes("boot", TRUE, {}, {"boot"}, "umount") /\ UNCHANGED file
SeedConfig == Writes("seed", TRUE, {}, {"config"}, "umountconf") /\ UNCHANGED file

\* The last mount of a file system writes it out; with another left, nothing is.
Release(d, place) ==
  IF <<d, place>> \in mounted THEN flushed
  ELSE [flushed EXCEPT ![d] = (@ \ Of(place)) \cup (content[d] \cap Of(place))]

\* A mount that cannot be released stays.
Unmount(here, next) ==
  /\ Step(here) /\ own' = "none" /\ UNCHANGED <<content, file, fresh, victim>>
  /\ \/ pc' = next /\ flushed' = Release(Dev, own) /\ UNCHANGED <<mounted, faults>>
     \/ pc' = "failed" /\ mounted' = mounted \cup {<<Dev, own>>} /\ MayFault /\ UNCHANGED flushed

UnmountEsp  == Unmount("umount", "mountconf")
UnmountConf == Unmount("umountconf", "sync")
Cleanup     == Unmount("cleanup", "failed")

Sync ==
  /\ Step("sync") /\ UNCHANGED <<mounted, content, file, fresh, victim>>
  /\ \/ flushed' = content /\ Goto("finished") /\ UNCHANGED faults
     \/ Fail /\ MayFault /\ UNCHANGED flushed

-----------------------------------------------------------------------------
\* The machine: udev mounts what it finds, a medium wears out, a disk is moved.
\* A partition for settings is left alone, by its label.
Automount(d, place) ==
  /\ On /\ d \in Removable \ {Live} /\ <<d, place>> \notin mounted /\ \E p \in Path : at[p] = d
  /\ "table" \in content[d] /\ content[d] \cap Of(place) \cap {"oldesp", "esp", "oldconf"} # {}
  /\ mounted' = mounted \cup {<<d, place>>}
  /\ UNCHANGED <<at, content, flushed, power, ordered, window, helper, bounds>>

SourceChanges ==
  /\ On /\ fresh /\ faults < MaxFaults /\ faults' = faults + 1 /\ fresh' = FALSE
  /\ UNCHANGED <<machine, window, pc, file, target, own, victim, raced, moved, installs, moves>>

\* Disks change their names, as when they are plugged elsewhere, up to the first write;
\* after it that would pull the disk from under the helper.
Writing == pc \notin {"none", "validate", "preflight", "revalidate", "wipe", "finished", "failed"}

Move(p, q) ==
  /\ On /\ ~Writing /\ moves < MaxMoves /\ moves' = moves + 1
  /\ p # q /\ Live \notin {at[p], at[q]} /\ at' = [at EXCEPT ![p] = at[q], ![q] = at[p]]
  /\ mounted' = {m \in mounted : m[1] \notin {at[p], at[q]}}
  /\ content' = [d \in Disk |-> IF d \in {at[p], at[q]} THEN flushed[d] ELSE content[d]]
  /\ moved' = (moved \/ pc = "wipe")
  /\ UNCHANGED <<flushed, power, ordered, window, pc, file, target, fresh, own, victim, raced,
                 installs, faults>>

Helper ==
  \/ Validate \/ Preflight \/ Revalidate \/ Wipe \/ Partition \/ FormatEsp \/ FormatConf
  \/ MountEsp \/ CopyFile \/ VerifyFile \/ Bootloader
  \/ UnmountEsp \/ MountConf \/ SeedConfig \/ UnmountConf \/ Sync \/ Cleanup

Next ==
  \/ ShowDisks \/ Rescan \/ (\E p \in Path : Select(p)) \/ Ask \/ Decline \/ Confirm
  \/ Done \/ CloseReport \/ Power \/ ShutsDown \/ PowerFails \/ Helper
  \/ (\E d \in Disk, place \in Place : Automount(d, place)) \/ SourceChanges \/ \E p, q \in Path : Move(p, q)

Spec == Init /\ [][Next]_vars
=============================================================================
