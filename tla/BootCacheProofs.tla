--------------------------- MODULE BootCacheProofs ---------------------------
(***************************************************************************)
(* TLAPS proofs about BootCache, for every value of its constants.          *)
(***************************************************************************)
EXTENDS BootCacheProps, TLAPS

(***************************************************************************)
(* The inductive invariant. What boots is known before it runs; the writer *)
(* belongs to a step of the save; a file named for a release is written by *)
(* the rename alone, of a copy that was flushed and hashed.                *)
(***************************************************************************)
Writing == {"fork", "register", "copy", "flush", "hash", "publish"}
Finished == {"commit", "prune", "saved"}

BootSteps ==
  /\ boot # "off" => want \in Images
  /\ boot \in {"restore", "download", "running"} /\ profile \in Signed => trust \in Images
  /\ RunsVerified
  /\ boot = "running" => root \in Images
  /\ pc # "off" => boot = "running"

SaveSteps ==
  /\ pc \in Busy \ {"open"} \/ part # NoPart => mounted
  /\ pc \in {"off", "open"} => ~mounted /\ ~progress
  /\ ~mounted => view = disk /\ unsynced = {}
  /\ pc \in Busy \cup {"off"} => stage = "stop"
  /\ part \in Parts =>
       \/ pc \in Writing
       \/ pc = "exitFailed" /\ stage \in {"stop", "remove"}
       \/ pc = "done" /\ "signal" \in slips
  /\ pc \in Writing => part \in Parts
  /\ writer # "none" =>
       \/ pc = "register"
       \/ pc \in {"copy", "exitFailed"} /\ pid /\ stage = "stop"
       \/ pc = "done" /\ "signal" \in slips

FilesKnown ==
  /\ unsynced \subseteq Profiles \X Parts
  /\ pc \in {"hash", "publish"} => Temp \notin unsynced
  /\ pc = "publish" => view[Temp] = want
  /\ pc = "check" => view = disk
  /\ pc \in Finished \/ status = "saved" => view[Target] = want
  /\ pc \in Finished \ {"commit"} \/ status = "saved" => disk[Target] = want
  /\ status = "saved" => pc \in {"exitOk", "done"}

Whole(d) == \A p \in Profiles, h \in Images : d[<<p, h>>] \in {h, NoFile}
Sure(p)  == \E h \in Images : disk[<<p, h>>] = h /\ view[<<p, h>>] = h
FilesGood ==
  /\ rots = 0 => Whole(disk) /\ Whole(view)
  /\ \A p \in Profiles : Cached(disk, p) => Sure(p)

Tidy ==
  /\ losses = 0 /\ mounted => present
  /\ pc \in {"exitOk", "exitFailed"} =>
       /\ stage \in {"unmount", "report"} => ~progress
       /\ stage = "report" /\ "umount" \notin slips => ~mounted
  /\ kills = 0 /\ pc = "done" =>
       /\ "signal" \notin slips => ~progress
       /\ slips \cap {"signal", "umount"} = {} => ~mounted
  /\ kills = 0 /\ losses = 0 /\ slips = {} =>
       \A p \in Profiles, q \in Parts : view[<<p, q>>] # NoFile => <<p, q>> = Temp

CacheInv == TypeOK /\ BootSteps /\ SaveSteps /\ FilesKnown /\ FilesGood /\ Tidy

-----------------------------------------------------------------------------
\* What a loss leaves of a file is its old content, its new one, or a piece of it if it was
\* not flushed.
LEMMA LeftShape ==
  ASSUME TypeOK, NEW d \in Left
  PROVE  /\ d \in [Files -> Data]
         /\ \A f \in Files : d[f] \in {view[f], disk[f]} \/ (f \in unsynced /\ d[f] = Partial)
         /\ view = disk => d = disk
<1>1. PICK k \in SUBSET {f \in Files : view[f] # disk[f]}, t \in SUBSET Files :
        /\ t \subseteq k \cap unsynced
        /\ d = [f \in Files |-> IF f \in t THEN Partial ELSE IF f \in k THEN view[f] ELSE disk[f]]
  BY DEF Left
<1>2. view = disk => k = {} /\ t = {}
  BY <1>1
<1>3. QED
  BY <1>1, <1>2 DEF TypeOK, Data

\* TypeOK in the parts that the provers take one at a time.
FlagTypes == {present, mounted, pid, interrupted, progress} \subseteq BOOLEAN
FileTypes == disk \in [Files -> Data] /\ view \in [Files -> Data] /\ unsynced \subseteq Files
BoundTypes ==
  /\ deploys \in 0..MaxDeploys /\ losses \in 0..MaxLosses /\ kills \in 0..MaxKills
  /\ signals \in 0..MaxSignals /\ rots \in 0..MaxRots
BootTypes ==
  /\ release \in [Profiles -> Images] /\ profile \in Profiles
  /\ boot \in BootStep /\ {want, trust} \subseteq Images \cup {NoImage}
  /\ root \in Images \cup {NoFile} /\ origin \in {"none", "miss", "hit", "network"}
CleanTypes == stage \in Stage /\ slips \subseteq Slips
SaveTypes ==
  /\ pc \in Step /\ part \in Parts \cup {NoPart}
  /\ writer \in {"none", "running", "ok", "failed"} /\ status \in {"none", "saved", "failed"}

LEMMA TypeParts == TypeOK <=> FlagTypes /\ FileTypes /\ BoundTypes /\ BootTypes /\ SaveTypes /\ CleanTypes
BY DEF TypeOK, FlagTypes, FileTypes, BoundTypes, BootTypes, SaveTypes, CleanTypes

LEMMA FlagStep ==
  ASSUME TypeOK, [Next]_vars
  PROVE  FlagTypes'
<1> USE DEF vars, bootVars, stickVars, mountVars, saveVars, statusVars, boundVars, Goto, Quiet,
            Fails, SaveOnly, BootOnly
<1>1. FlagTypes
  BY TypeParts
<1>2. CASE Booting \/ \E p \in Profiles : PowerOn(p)
  BY <1>1, <1>2 DEF Booting, PowerOn, VerifyManifest, Restore, Download, FlagTypes
<1>3. CASE Saving
  BY <1>1, <1>3 DEF Saving, SaveStarts, Open, AlreadyCached, NotCached, Create, Fork, Register,
       Copied, Sync, Hash, Publish, Prune, Saved, ReportSaved, Cleanup, StopWriter, RemovePart, RemoveProgress, Unmount, ReportFailed,
       Cleaning, CleanOnly, Slip, FlagTypes
<1>4. CASE Write \/ CopyAborted \/ Signal \/ Reap \/ Kill \/ Shutdown \/ PowerLoss \/ Pull
  BY <1>1, <1>4 DEF Write, CopyAborted, Signal, Interrupt, InterruptMktemp, InterruptCleanup,
       Signalled, Slip, Reap, Kill, Shutdown, PowerLoss, Pull,
       Off, FlagTypes
<1>5. CASE \/ \E f \in Files : Rot(f)
           \/ \E p \in Profiles, image \in Images : Deploy(p, image)
           \/ UNCHANGED vars
  BY <1>1, <1>5 DEF Rot, Deploy, FlagTypes
<1>6. QED
  BY <1>2, <1>3, <1>4, <1>5 DEF Next

LEMMA BoundStep ==
  ASSUME CacheAssumption, TypeOK, [Next]_vars
  PROVE  BoundTypes'
<1> USE DEF vars, boundVars, SaveOnly, BootOnly
<1>1. BoundTypes
  BY TypeParts
<1>2. CASE Booting \/ (\E p \in Profiles : PowerOn(p)) \/ Write \/ CopyAborted \/ Shutdown \/ UNCHANGED vars
  BY <1>1, <1>2 DEF Booting, PowerOn, VerifyManifest, Restore, Download, Write, CopyAborted,
       Shutdown, Off, BoundTypes
<1>3. CASE Saving
  BY <1>1, <1>3 DEF Saving, SaveStarts, Open, AlreadyCached, NotCached, Create, Fork, Register,
       Copied, Sync, Hash, Publish, Prune, Saved, Cleanup, StopWriter, RemovePart, RemoveProgress, Unmount, ReportFailed,
       Cleaning, CleanOnly, Slip, BoundTypes
<1>4. CASE Signal \/ Reap \/ Kill
  <2>1. CASE Signal
    <3>1. signals < MaxSignals /\ signals' = signals + 1 /\ UNCHANGED <<deploys, losses, kills, rots>>
      BY <2>1 DEF Signal, Interrupt, InterruptMktemp, InterruptCleanup, Signalled
    <3>2. QED
      BY <1>1, <3>1 DEF BoundTypes, CacheAssumption
  <2>2. CASE Kill
    BY <1>1, <2>2 DEF Kill, BoundTypes, CacheAssumption
  <2>3. CASE Reap
    BY <1>1, <2>3 DEF Reap, BoundTypes
  <2>4. QED
    BY <1>4, <2>1, <2>2, <2>3
<1>5. CASE PowerLoss \/ Pull
  BY <1>1, <1>5 DEF PowerLoss, Pull, Off, BoundTypes, CacheAssumption
<1>6. CASE \/ \E f \in Files : Rot(f)
           \/ \E p \in Profiles, image \in Images : Deploy(p, image)
  BY <1>1, <1>6 DEF Rot, Deploy, BoundTypes, CacheAssumption
<1>7. QED
  BY <1>2, <1>3, <1>4, <1>5, <1>6 DEF Next

LEMMA BootTypesStep ==
  ASSUME CacheAssumption, TypeOK, boot # "off" => want \in Images, [Next]_vars
  PROVE  BootTypes'
<1> USE DEF vars, bootVars, SaveOnly, BootStep, BootTypes
<1>1. BootTypes
  BY TypeParts
<1>2. CASE Booting
  BY <1>1, <1>2 DEF Booting, VerifyManifest, Restore, Download, BootOnly, Verified, Key, TypeOK,
       Data, CacheAssumption
<1>3. CASE \/ \E p \in Profiles : PowerOn(p)
           \/ \E p \in Profiles, image \in Images : Deploy(p, image)
           \/ Write \/ CopyAborted \/ Shutdown \/ PowerLoss \/ UNCHANGED vars
  BY <1>1, <1>3 DEF PowerOn, Deploy, Write, CopyAborted, Shutdown, PowerLoss, Off
<1>4. CASE Saving
  BY <1>1, <1>4 DEF Saving, SaveStarts, Open, AlreadyCached, NotCached, Create, Fork, Register,
       Copied, Sync, Hash, Publish, Prune, Saved, Cleanup, StopWriter, RemovePart, RemoveProgress, Unmount, ReportFailed,
       Cleaning, CleanOnly, Slip
<1>5. CASE Signal \/ Reap \/ Kill \/ Pull \/ \E f \in Files : Rot(f)
  BY <1>1, <1>5 DEF Signal, Interrupt, InterruptMktemp, InterruptCleanup,
       Signalled, Slip, Reap, Kill, Pull, Rot
<1>6. QED
  BY <1>2, <1>3, <1>4, <1>5 DEF Next

LEMMA SaveTypesStep ==
  ASSUME TypeOK, [Next]_vars
  PROVE  SaveTypes'
<1> USE DEF vars, saveVars, statusVars, SaveTypes, Goto, Quiet, Fails
<1>1. SaveTypes
  BY TypeParts
<1>2. CASE Booting \/ \E p \in Profiles : PowerOn(p)
  BY <1>1, <1>2 DEF Booting, PowerOn, VerifyManifest, Restore, Download, BootOnly
<1>3. CASE SaveStarts \/ Open \/ AlreadyCached \/ NotCached \/ Create \/ Fork \/ Register
  BY <1>1, <1>3 DEF SaveStarts, Open, AlreadyCached, NotCached, Create, Fork, Register, ReportSaved,
       Step, Busy
<1>4. CASE Copied \/ Sync("flush") \/ Hash \/ Publish \/ Sync("commit") \/ Prune \/ Saved \/ Cleanup
  BY <1>1, <1>4 DEF Copied, Sync, Hash, Publish, Prune, Saved, ReportSaved, After, Step, Busy,
       Cleanup, StopWriter, RemovePart, RemoveProgress, Unmount, ReportFailed,
       Cleaning, CleanOnly, Slip
<1>5. CASE Write \/ CopyAborted \/ Signal \/ Reap \/ Kill \/ Shutdown \/ PowerLoss \/ Pull
  BY <1>1, <1>5 DEF Write, CopyAborted, Signal, Interrupt, InterruptMktemp, InterruptCleanup,
       Signalled, Slip, Reap, Deferred, Kill, Shutdown,
       PowerLoss, Pull, Off,       Step, Busy
<1>6. CASE \/ \E f \in Files : Rot(f)
           \/ \E p \in Profiles, image \in Images : Deploy(p, image)
           \/ UNCHANGED vars
  BY <1>1, <1>6 DEF Rot, Deploy
<1>7. QED
  BY <1>2, <1>3, <1>4, <1>5, <1>6 DEF Next, Saving

LEMMA CleanTypesStep ==
  ASSUME TypeOK, [Next]_vars
  PROVE  CleanTypes'
<1> USE DEF vars, cleanVars, CleanTypes
<1>1. CleanTypes
  BY TypeParts
<1>2. CASE Booting \/ \E p \in Profiles : PowerOn(p)
  BY <1>1, <1>2 DEF Booting, PowerOn, VerifyManifest, Restore, Download, BootOnly
<1>3. CASE Saving
  BY <1>1, <1>3 DEF Saving, SaveStarts, Open, AlreadyCached, NotCached, Create, Fork, Register,
       Copied, Sync, Hash, Publish, Prune, Saved, SaveOnly, Stage, Slips,
       Cleanup, StopWriter, RemovePart, RemoveProgress, Unmount, ReportFailed,
       Cleaning, CleanOnly, Slip
<1>4. CASE Write \/ CopyAborted \/ Signal \/ Reap \/ Kill \/ Shutdown \/ PowerLoss \/ Pull
  BY <1>1, <1>4 DEF Write, CopyAborted, Signal, Interrupt, InterruptMktemp, InterruptCleanup,
       Signalled, Slip, Reap, Kill, Shutdown,
       PowerLoss, Pull, Off, SaveOnly, Stage, Slips
<1>5. CASE \/ \E f \in Files : Rot(f)
           \/ \E p \in Profiles, image \in Images : Deploy(p, image)
           \/ UNCHANGED vars
  BY <1>1, <1>5 DEF Rot, Deploy
<1>6. QED
  BY <1>2, <1>3, <1>4, <1>5 DEF Next

LEMMA FileTypesStep ==
  ASSUME TypeOK, BootSteps, SaveSteps, [Next]_vars
  PROVE  FileTypes'
<1> USE DEF vars, stickVars, mountVars, FileTypes, Quiet, Fails
<1>1. FileTypes /\ Images \cup {Partial, NoFile} = Data
  BY TypeParts DEF Data
<1>2. CASE Booting \/ \E p \in Profiles : PowerOn(p)
  BY <1>1, <1>2 DEF Booting, PowerOn, VerifyManifest, Restore, Download, BootOnly
<1>3. CASE \/ SaveStarts \/ Open \/ AlreadyCached \/ NotCached \/ Fork \/ Register \/ Copied
           \/ Hash \/ Saved \/ CopyAborted
  BY <1>1, <1>3 DEF SaveStarts, Open, AlreadyCached, NotCached, Fork, Register, Copied, Hash, Saved,
       CopyAborted, ReportSaved
<1>4. CASE Create \/ Write
  <2>1. profile \in Profiles /\ part \in Parts \cup {NoPart}
    BY TypeParts DEF BootTypes, SaveTypes
  <2>2. CASE Create
    <3>1. \A q \in Parts : <<profile, q>> \in Files
      BY <2>1 DEF Files
    <3>2. (view' \in [Files -> Data] /\ disk' = disk /\ unsynced' \subseteq Files) \/ Fails
      BY <1>1, <2>2, <3>1 DEF Create
    <3>3. QED
      BY <1>1, <2>2, <3>2 DEF Create
  <2>3. CASE Write
    BY <1>1, <1>4, <2>1, <2>3, TypeParts DEF Write, Files, Temp, BootTypes, SaveTypes
  <2>4. QED
    BY <1>4, <2>2, <2>3
<1>5. CASE Publish
  <2>1. CASE Fails
    BY <1>1, <1>5, <2>1 DEF Publish
  <2>2. Target \in Files /\ Temp \in Files
    BY <1>5 DEF Publish, BootSteps, SaveSteps, Writing, TypeOK, Files, Target, Temp
  <2>3. Data # {} /\ \A f \in Files : view[f] \in Data
    BY <1>1
  <2>4. view' \in [Files -> Data] \/ Fails
    BY <1>1, <1>5, <2>2, <2>3 DEF Publish
  <2>5. QED
    BY <1>1, <1>5, <2>1, <2>2, <2>4 DEF Publish
<1>6. CASE \/ Sync("flush") \/ Sync("commit") \/ Prune
           \/ StopWriter \/ RemoveProgress \/ Unmount \/ ReportFailed
  BY <1>1, <1>6 DEF Sync, Prune, StopWriter, RemoveProgress, Unmount, ReportFailed
<1>7. CASE PowerLoss \/ Pull
  BY <1>1, <1>7, LeftShape DEF PowerLoss, Pull, Off
<1>8. CASE \/ Interrupt \/ InterruptCleanup \/ Reap \/ Kill \/ Shutdown \/ UNCHANGED vars
           \/ \E f \in Files : Rot(f)
           \/ \E p \in Profiles, image \in Images : Deploy(p, image)
  BY <1>1, <1>8 DEF Interrupt, InterruptCleanup, Signalled, Reap, Kill, Shutdown, Off, Rot, Deploy
<1>9. CASE RemovePart \/ InterruptMktemp
  <2>1. profile \in Profiles /\ part \in Parts \cup {NoPart}
    BY TypeParts DEF BootTypes, SaveTypes
  <2>2. \A q \in Parts : <<profile, q>> \in Files
    BY <2>1 DEF Files
  <2>3. CASE RemovePart
    BY <1>1, <2>1, <2>2, <2>3 DEF RemovePart, Temp
  <2>4. CASE InterruptMktemp
    BY <1>1, <2>2, <2>4 DEF InterruptMktemp, Signalled
  <2>5. QED
    BY <1>9, <2>3, <2>4
<1>10. QED
  BY <1>2, <1>3, <1>4, <1>5, <1>6, <1>7, <1>8, <1>9 DEF Next, Booting, Saving, Cleanup, Signal

LEMMA TypeStep ==
  ASSUME CacheAssumption, TypeOK, BootSteps, SaveSteps, [Next]_vars
  PROVE  TypeOK'
<1>1. BootTypes'
  BY BootTypesStep DEF BootSteps
<1>2. QED
  BY <1>1, FlagStep, BoundStep, SaveTypesStep, CleanTypesStep, FileTypesStep DEF TypeOK, FlagTypes,
     FileTypes, BoundTypes, BootTypes, SaveTypes, CleanTypes

-----------------------------------------------------------------------------
LEMMA BootStepsStep ==
  ASSUME CacheAssumption, TypeOK, BootSteps, [Next]_vars
  PROVE  BootSteps'
<1> USE DEF vars, bootVars, BootSteps, RunsVerified, Goto
<1>1. ASSUME NEW p \in Profiles, PowerOn(p) PROVE BootSteps'
  BY <1>1 DEF PowerOn, saveVars, TypeOK
<1>2. CASE VerifyManifest
  BY <1>2 DEF VerifyManifest, BootOnly, saveVars, TypeOK
<1>3. CASE Restore
  BY <1>3 DEF Restore, BootOnly, saveVars, Verified, Key, TypeOK, CacheAssumption
<1>4. CASE Download
  BY <1>4 DEF Download, BootOnly, saveVars, TypeOK, CacheAssumption
<1>5. CASE Saving
  <2>1. boot = "running" /\ UNCHANGED bootVars
    BY <1>5 DEF Saving, SaveStarts, Open, AlreadyCached, NotCached, Create, Fork, Register, Copied,
         Sync, Hash, Publish, Prune, Saved, SaveOnly,
       Cleanup, StopWriter, RemovePart, RemoveProgress, Unmount, ReportFailed,
       Cleaning, CleanOnly, Slip
  <2>2. QED
    BY <2>1 DEF Key
<1>6. CASE Write \/ CopyAborted \/ Signal \/ Reap \/ Kill
  <2>1. (pc = "off" => pc' = "off") /\ UNCHANGED bootVars
    BY <1>6 DEF Write, CopyAborted, Signal, Interrupt, InterruptMktemp, InterruptCleanup,
       Signalled, Slip, Reap, Kill,
         SaveOnly, Fails, Busy
  <2>2. QED
    BY <2>1 DEF Key
<1>7. CASE Shutdown \/ PowerLoss
  BY <1>7 DEF Shutdown, PowerLoss, Off
<1>8. CASE \/ Pull \/ UNCHANGED vars
           \/ \E f \in Files : Rot(f)
           \/ \E p \in Profiles, image \in Images : Deploy(p, image)
  <2>1. UNCHANGED <<pc, bootVars>>
    BY <1>8 DEF Pull, Rot, Deploy, saveVars
  <2>2. QED
    BY <2>1 DEF Key
<1> HIDE DEF BootSteps
<1>9. QED
  BY <1>1, <1>2, <1>3, <1>4, <1>5, <1>6, <1>7, <1>8 DEF Next, Booting

LEMMA SaveStepsStep ==
  ASSUME CacheAssumption, TypeOK, BootSteps, SaveSteps, [Next]_vars
  PROVE  SaveSteps'
<1> USE DEF vars, mountVars, saveVars, cleanVars, statusVars, SaveSteps, Goto, Busy, Writing, Fails,
            Quiet, SaveOnly
<1>1. CASE Booting \/ \E p \in Profiles : PowerOn(p)
  <2>1. /\ UNCHANGED <<disk, mountVars, saveVars, cleanVars, statusVars>>
    BY <1>1 DEF Booting, PowerOn, VerifyManifest, Restore, Download, BootOnly, stickVars
  <2>2. QED
    BY <2>1
<1>2. CASE SaveStarts \/ AlreadyCached \/ NotCached \/ Saved
  BY <1>2 DEF SaveStarts, AlreadyCached, NotCached, Saved, ReportSaved
<1>3. CASE Open
  BY <1>3 DEF Open
<1>4. CASE Create
  <2>1. CASE Fails
    BY <1>4, <2>1 DEF Create
  <2>2. CASE ~Fails
    <3>1. /\ pc = "create" /\ UNCHANGED <<mounted, writer, stage, slips>>
          /\ part' \in Parts /\ pc' \in {"fork", "exitFailed"}
      BY <1>4, <2>2 DEF Create
    <3>2. QED
      BY <3>1
  <2>3. QED
    BY <2>1, <2>2
<1>5. CASE Fork \/ Register \/ Copied \/ CopyAborted
  BY <1>5 DEF Fork, Register, Copied, CopyAborted, After
<1>6. CASE Hash \/ Prune \/ Sync("flush") \/ Sync("commit")
  BY <1>6 DEF Hash, Prune, Sync, After
<1>7. CASE Publish
  <2>1. CASE Fails
    BY <1>7, <2>1 DEF Publish
  <2>2. CASE ~Fails
    <3>1. /\ pc = "publish" /\ UNCHANGED <<mounted, writer, stage, slips>>
          /\ part' = NoPart /\ pc' = "commit"
      BY <1>7, <2>2 DEF Publish, After
    <3>2. QED
      BY <3>1 DEF CacheAssumption
  <2>3. QED
    BY <2>1, <2>2
<1>8. CASE Write
  BY <1>8 DEF Write, TypeOK
<1>9. CASE Cleanup
  <2>1. CASE StopWriter \/ RemoveProgress \/ ReportFailed
    BY <2>1 DEF StopWriter, RemoveProgress, ReportFailed, Cleaning, CleanOnly
  <2>2. CASE RemovePart
    BY <2>2 DEF RemovePart, Cleaning, CleanOnly, Slip, TypeOK, CacheAssumption
  <2>3. CASE Unmount
    BY <2>3 DEF Unmount, Cleaning, CleanOnly, Slip, TypeOK
  <2>4. QED
    BY <1>9, <2>1, <2>2, <2>3 DEF Cleanup
<1>10. CASE Signal \/ Reap
  <2>1. CASE Interrupt
    BY <2>1 DEF Interrupt, Signalled, Deferred
  <2>2. CASE InterruptMktemp
    BY <2>2 DEF InterruptMktemp, Signalled, Slip
  <2>3. CASE InterruptCleanup
    BY <2>3 DEF InterruptCleanup, Signalled, Slip
  <2>4. CASE Reap
    BY <2>4 DEF Reap
  <2>5. QED
    BY <1>10, <2>1, <2>2, <2>3, <2>4 DEF Signal
<1>11. CASE Kill
  BY <1>11 DEF Kill, stickVars, CacheAssumption
<1>12. CASE Shutdown \/ PowerLoss
  BY <1>12 DEF Shutdown, PowerLoss, Off, CacheAssumption
<1>13. CASE Pull
  BY <1>13, LeftShape DEF Pull
<1>14. CASE \/ UNCHANGED vars
            \/ \E f \in Files : Rot(f)
            \/ \E p \in Profiles, image \in Images : Deploy(p, image)
  BY <1>14 DEF Rot, Deploy, stickVars, BootSteps
<1>15. QED
  BY <1>1, <1>2, <1>3, <1>4, <1>5, <1>6, <1>7, <1>8, <1>9, <1>10, <1>11, <1>12, <1>13, <1>14
     DEF Next, Saving

LEMMA FilesKnownStep ==
  ASSUME CacheAssumption, TypeOK, BootSteps, SaveSteps, FilesKnown, [Next]_vars
  PROVE  FilesKnown'
<1> USE DEF vars, mountVars, saveVars, statusVars, FilesKnown, Goto, Busy, Finished, Fails, Quiet
<1>1. ASSUME NEW p \in Profiles, PowerOn(p) PROVE FilesKnown'
  BY <1>1 DEF PowerOn, BootSteps
<1>2. ASSUME UNCHANGED <<want, profile, part, disk, view, unsynced, status>>,
             \/ pc' = pc
             \/ status # "saved" /\ pc' \notin {"hash", "publish", "check"} \cup Finished
             \/ pc' = "done" /\ pc' \notin Busy
      PROVE  FilesKnown'
  BY <1>2 DEF Temp, Target
<1>3. CASE Booting
  BY <1>2, <1>3 DEF Booting, VerifyManifest, Restore, Download, BootOnly, stickVars
<1>4. CASE \/ SaveStarts \/ NotCached \/ Fork \/ Register \/ CopyAborted
           \/ Interrupt \/ InterruptCleanup \/ Reap
  BY <1>2, <1>4 DEF SaveStarts, NotCached, Fork, Register, CopyAborted, Interrupt, InterruptCleanup,
       Signalled, Reap, Deferred, SaveOnly, bootVars, stickVars
<1>mktemp. CASE InterruptMktemp
  BY <1>mktemp DEF InterruptMktemp, Signalled, bootVars, TypeOK
<1>5. CASE Open
  BY <1>5 DEF Open, SaveOnly, bootVars, SaveSteps, Temp, Target
<1>6. CASE AlreadyCached
  BY <1>6 DEF AlreadyCached, ReportSaved, SaveOnly, bootVars, Temp, Target
<1>7. CASE Saved
  BY <1>7 DEF Saved, ReportSaved, SaveOnly, bootVars, Temp, Target
<1>8. CASE Copied
  BY <1>8 DEF Copied, After, SaveOnly, bootVars, Temp, Target
<1>9. CASE Hash
  BY <1>9 DEF Hash, Hashed, After, SaveOnly, bootVars, Temp, Target
<1>10. CASE Kill
  BY <1>10 DEF Kill, bootVars, stickVars, Target
<1>11. CASE Shutdown \/ PowerLoss
  BY <1>11 DEF Shutdown, PowerLoss, Off
<1>12. CASE \/ UNCHANGED vars
            \/ \E f \in Files : Rot(f)
            \/ \E p \in Profiles, image \in Images : Deploy(p, image)
  BY <1>12 DEF Rot, Deploy, bootVars, stickVars, BootSteps, SaveSteps, Temp, Target
<1>13. CASE Create
  <2>1. CASE Fails
    BY <1>2, <1>13, <2>1 DEF Create, SaveOnly, bootVars
  <2>2. CASE ~Fails
    <3>1. /\ \E name \in Parts : unsynced' = unsynced \cup {<<profile, name>>}
          /\ pc = "create" /\ pc' \in {"fork", "exitFailed"} /\ UNCHANGED status
      BY <1>13, <2>2 DEF Create
    <3>2. QED
      BY <3>1 DEF TypeOK
  <2>3. QED
    BY <2>1, <2>2
<1>14. CASE Write
  <2>1. /\ pc \in {"register", "copy", "exitFailed", "done"} /\ UNCHANGED <<pc, part, disk, status>>
        /\ unsynced' = unsynced \cup {Temp} /\ Temp \in Profiles \X Parts
        /\ Target' = Target /\ want' = want
    BY <1>14 DEF Write, SaveSteps, SaveOnly, bootVars, TypeOK, Temp, Target
  <2>2. Target # Temp /\ Target \in Files
    BY <2>1 DEF BootSteps, TypeOK, Files, Target, Temp, CacheAssumption
  <2>3. view'[Target] = view[Target]
    BY <1>14, <2>2 DEF Write, TypeOK
  <2>4. QED
    BY <2>1, <2>3
<1>15. CASE Sync("flush") \/ Sync("commit")
  BY <1>15 DEF Sync, After, SaveOnly, bootVars, Temp, Target
<1>16. CASE Publish
  <2>1. Target \in Files /\ Temp \in Profiles \X Parts /\ Target # Temp /\ Target \notin Profiles \X Parts
    BY <1>16 DEF Publish, BootSteps, SaveSteps, Writing, TypeOK, Files, Target, Temp, CacheAssumption
  <2>2. Temp \in Files
    BY <2>1 DEF Files
  <2>3. CASE Fails
    BY <1>2, <1>16, <2>3 DEF Publish, SaveOnly, bootVars
  <2>4. CASE ~Fails
    <3>1. /\ unsynced' = {IF f = Temp THEN Target ELSE f : f \in unsynced \ {Target}}
          /\ view' = [view EXCEPT ![Target] = view[Temp], ![Temp] = NoFile]
      BY <1>16, <2>4 DEF Publish
    <3>2. unsynced' = unsynced
      <4>1. Temp \notin unsynced /\ Target \notin unsynced
        BY <1>16, <2>1 DEF Publish
      <4>2. QED
        BY <3>1, <4>1
    <3>3. view'[Target] = want /\ Target' = Target
      BY <1>16, <2>1, <2>2, <3>1 DEF Publish, TypeOK, SaveOnly, bootVars, Target
    <3>4. pc' = "commit" /\ UNCHANGED <<want, status>> /\ status # "saved"
      BY <1>16, <2>4 DEF Publish, After, SaveOnly, bootVars
    <3>5. QED
      BY <3>2, <3>3, <3>4
  <2>5. QED
    BY <2>3, <2>4
<1>17. CASE Prune
  <2>1. Target \in Files /\ Target' = Target
    BY <1>17 DEF Prune, BootSteps, TypeOK, Files, Target, SaveOnly, bootVars
  <2>2. view'[Target] = view[Target]
    BY <1>17, <2>1 DEF Prune, TypeOK
  <2>3. QED
    BY <1>17, <2>1, <2>2 DEF Prune, After, SaveOnly, bootVars
<1>18. CASE Cleanup
  <2>1. /\ pc \in {"exitOk", "exitFailed"} /\ pc' \in {pc, "done"} /\ unsynced' \in {unsynced, {}}
        /\ Target' = Target /\ want' = want /\ status' \in {status, "failed"}
    BY <1>18 DEF Cleanup, StopWriter, RemovePart, RemoveProgress, Unmount, ReportFailed, Cleaning,
         CleanOnly, bootVars, Target
  <2>2. ASSUME status' = "saved"
        PROVE  disk'[Target] = want /\ view'[Target] = want
    <3>1. part = NoPart
      BY <2>1, <2>2 DEF SaveSteps, Writing, TypeOK
    <3>2. QED
      BY <1>18, <2>1, <2>2, <3>1 DEF Cleanup, StopWriter, RemovePart, RemoveProgress, Unmount, ReportFailed
  <2>3. QED
    BY <2>1, <2>2
<1>19. CASE Pull
  <2>1. /\ UNCHANGED <<want, profile, part, pc, status, unsynced>>
        /\ disk' \in Left /\ view' \in {view, disk'}
    BY <1>19 DEF Pull, bootVars
  <2>2. pc = "check" => view' = disk'
    BY <2>1, LeftShape
  <2>3. ASSUME want \in Images, view[Target] = want, disk[Target] = want
        PROVE  disk'[Target] = want
    <3>1. Target \in Files /\ Target \notin unsynced
      BY <2>3 DEF Files, Target, TypeOK, CacheAssumption
    <3>2. QED
      BY <2>1, <2>3, <3>1, LeftShape
  <2>4. pc \notin {"off", "open"} /\ pc \in Busy => view' = view
    BY <1>19 DEF Pull, SaveSteps
  <2>5. (pc # "off" => want \in Images) /\ Temp' = Temp /\ Target' = Target
    BY <2>1 DEF BootSteps, Temp, Target
  <2>6. QED
    BY <2>1, <2>2, <2>3, <2>4, <2>5
<1> HIDE DEF FilesKnown
<1>20. QED
  BY <1>1, <1>3, <1>4, <1>mktemp, <1>5, <1>6, <1>7, <1>8, <1>9, <1>10, <1>11, <1>12, <1>13, <1>14,
     <1>15, <1>16, <1>17, <1>18, <1>19 DEF Next, Saving, Signal

\* The files named for releases: a step that leaves both sides alone, or brings them together,
\* keeps FilesGood.
Alike(d, e) == \A p \in Profiles, h \in Images : d[<<p, h>>] = e[<<p, h>>]

LEMMA AlikeGood ==
  ASSUME FilesGood, rots' = rots,
         \/ Alike(disk', disk) /\ Alike(view', view)
         \/ (Alike(disk', disk) \/ Alike(disk', view)) /\ Alike(view', disk')
  PROVE  FilesGood'
<1>1. CASE Alike(disk', disk) /\ Alike(view', view)
  BY <1>1 DEF FilesGood, Whole, Sure, Cached, Alike
<1>2. CASE (Alike(disk', disk) \/ Alike(disk', view)) /\ Alike(view', disk')
  BY <1>2 DEF FilesGood, Whole, Sure, Cached, Alike
<1>3. QED
  BY <1>1, <1>2

LEMMA LossGood ==
  ASSUME CacheAssumption, TypeOK, FilesKnown, FilesGood, rots' = rots,
         disk' \in Left, view' \in {view, disk'}
  PROVE  FilesGood'
<1>1. \A p \in Profiles, h \in Images : <<p, h>> \in Files /\ <<p, h>> \notin unsynced
  BY DEF Files, FilesKnown, CacheAssumption
<1>2. \A p \in Profiles, h \in Images : disk'[<<p, h>>] \in {view[<<p, h>>], disk[<<p, h>>]}
  BY <1>1, LeftShape
<1>3. rots = 0 => Whole(disk') /\ Whole(view')
  BY <1>2 DEF FilesGood, Whole
<1>4. ASSUME NEW p \in Profiles, Cached(disk', p)
      PROVE  Sure(p)'
  <2>1. CASE Cached(disk, p)
    <3>1. PICK h \in Images : disk[<<p, h>>] = h /\ view[<<p, h>>] = h
      BY <2>1 DEF FilesGood, Sure
    <3>2. disk'[<<p, h>>] = h
      BY <1>2, <3>1
    <3>3. QED
      BY <3>1, <3>2 DEF Sure
  <2>2. CASE ~Cached(disk, p)
    <3>1. PICK h \in Images : disk'[<<p, h>>] = h
      BY <1>4 DEF Cached
    <3>2. view[<<p, h>>] = h
      BY <1>2, <2>2, <3>1 DEF Cached
    <3>3. QED
      BY <3>1, <3>2 DEF Sure
  <2>3. QED
    BY <2>1, <2>2
<1>5. QED
  BY <1>3, <1>4 DEF FilesGood, Cached

LEMMA FilesGoodStep ==
  ASSUME CacheAssumption, TypeOK, BootSteps, SaveSteps, FilesKnown, FilesGood, [Next]_vars
  PROVE  FilesGood'
<1> USE DEF vars, boundVars, Fails, Quiet, SaveOnly
<1>1. ASSUME UNCHANGED <<disk, view, rots>> PROVE FilesGood'
  BY <1>1, AlikeGood DEF Alike
<1>2. CASE Booting \/ \E p \in Profiles : PowerOn(p)
  BY <1>1, <1>2 DEF Booting, PowerOn, VerifyManifest, Restore, Download, BootOnly, stickVars, mountVars
<1>3. CASE SaveStarts \/ Open \/ AlreadyCached \/ NotCached \/ Fork \/ Register
  BY <1>1, <1>3 DEF SaveStarts, Open, AlreadyCached, NotCached, Fork, Register, ReportSaved, mountVars
<1>4. CASE \/ Copied \/ Hash \/ Saved \/ CopyAborted \/ Kill
           \/ Interrupt \/ InterruptCleanup \/ Reap
  BY <1>1, <1>4 DEF Copied, Hash, Saved, CopyAborted, Interrupt, InterruptCleanup, Signalled, Reap,
       Kill, ReportSaved, stickVars, mountVars
<1>5. CASE UNCHANGED vars \/ \E p \in Profiles, image \in Images : Deploy(p, image)
  BY <1>1, <1>5 DEF Deploy, stickVars, mountVars
<1>6. CASE Create \/ Write \/ InterruptMktemp
  <2>1. \/ UNCHANGED view
        \/ \E f \in Profiles \X Parts : \E c \in {Partial, root} : view' = [view EXCEPT ![f] = c]
    BY <1>6 DEF Create, Write, InterruptMktemp, TypeOK, Temp, mountVars
  <2>2. Alike(view', view)
    BY <2>1 DEF Alike, CacheAssumption, TypeOK, Files
  <2>3. UNCHANGED <<disk, rots>>
    BY <1>6 DEF Create, Write, InterruptMktemp, Signalled
  <2>4. QED
    BY <2>2, <2>3, AlikeGood DEF Alike
<1>7. CASE Sync("flush") \/ Sync("commit")
  BY <1>1, <1>7, AlikeGood DEF Sync, mountVars, Alike
<1>8. CASE Publish
  <2>1. Target \in Files /\ Temp \in Profiles \X Parts /\ want \in Images
    BY <1>8 DEF Publish, BootSteps, SaveSteps, Writing, TypeOK, Files, Target, Temp
  <2>2. UNCHANGED <<disk, rots>>
    BY <1>8 DEF Publish
  <2>3. CASE Fails
    BY <1>1, <1>8, <2>3 DEF Publish, mountVars
  <2>4. CASE ~Fails
    <3>1. view' = [view EXCEPT ![Target] = want, ![Temp] = NoFile]
      BY <1>8, <2>4 DEF Publish, FilesKnown
    <3>2. \A p \in Profiles, h \in Images :
            view'[<<p, h>>] = IF <<p, h>> = Target THEN want ELSE view[<<p, h>>]
      BY <2>1, <3>1 DEF TypeOK, Files, CacheAssumption
    <3>3. \A p \in Profiles, h \in Images : view'[<<p, h>>] \in {h, view[<<p, h>>]}
      BY <3>2 DEF Target
    <3>4. rots' = 0 => Whole(disk') /\ Whole(view')
      BY <2>2, <3>3 DEF FilesGood, Whole
    <3>5. ASSUME NEW p \in Profiles, Cached(disk', p) PROVE Sure(p)'
      <4>1. PICK h \in Images : disk[<<p, h>>] = h /\ view[<<p, h>>] = h
        BY <2>2, <3>5 DEF FilesGood, Cached, Sure
      <4>2. QED
        BY <2>2, <3>3, <4>1 DEF Sure
    <3>6. QED
      BY <3>4, <3>5 DEF FilesGood, Cached
  <2>5. QED
    BY <2>3, <2>4
<1>9. CASE Prune
  <2>1. /\ Target \in Files /\ want \in Images /\ profile \in Profiles
        /\ view[Target] = want /\ disk[Target] = want
    BY <1>9 DEF Prune, BootSteps, FilesKnown, Finished, TypeOK, Files, Target
  <2>2. UNCHANGED <<disk, rots>>
    BY <1>9 DEF Prune
  <2>3. CASE UNCHANGED view
    BY <1>1, <2>2, <2>3
  <2>4. ASSUME NEW f \in {profile} \X Images, f # Target, view' = [view EXCEPT ![f] = NoFile]
        PROVE  FilesGood'
    <3>1. \A p \in Profiles, h \in Images : view'[<<p, h>>] \in {NoFile, view[<<p, h>>]}
      BY <2>4 DEF TypeOK, Files
    <3>2. view'[Target] = want
      BY <2>1, <2>4 DEF TypeOK
    <3>3. \A p \in Profiles \ {profile}, h \in Images : view'[<<p, h>>] = view[<<p, h>>]
      BY <2>4 DEF TypeOK, Files
    <3>4. ASSUME NEW p \in Profiles, Cached(disk, p) PROVE Sure(p)'
      <4>1. CASE p = profile
        BY <2>1, <2>2, <3>2, <4>1 DEF Sure, Target
      <4>2. CASE p # profile
        BY <2>2, <3>3, <3>4, <4>2 DEF FilesGood, Sure
      <4>3. QED
        BY <4>1, <4>2
    <3>5. QED
      BY <2>2, <3>1, <3>4 DEF FilesGood, Whole, Cached
  <2>5. QED
    BY <1>9, <2>3, <2>4 DEF Prune
<1>10. CASE Cleanup
  <2>1. PICK clean \in {view, [view EXCEPT ![Temp] = NoFile]} :
          /\ part = NoPart => clean = view
          /\ disk' \in {clean, disk} /\ view' \in {clean, disk'}
          /\ view' # disk' => disk' = disk
    BY <1>10 DEF Cleanup, StopWriter, RemovePart, RemoveProgress, Unmount, ReportFailed, mountVars
  <2>2. Alike(clean, view)
    BY <2>1 DEF Alike, TypeOK, Files, Temp, CacheAssumption
  <2>3. QED
    <3>1. rots' = rots
      BY <1>10 DEF Cleanup, StopWriter, RemovePart, RemoveProgress, Unmount, ReportFailed, CleanOnly
    <3>2. QED
      BY <2>1, <2>2, <3>1, AlikeGood DEF Alike
<1>11. CASE Shutdown
  BY <1>11, AlikeGood DEF Shutdown, Off, Alike
<1>12. CASE PowerLoss
  <2>1. CASE disk' \in Left
    BY <1>12, <2>1, LossGood DEF PowerLoss, Off
  <2>2. CASE disk' = disk
    BY <1>12, <2>2, AlikeGood DEF PowerLoss, Off, Alike
  <2>3. QED
    BY <1>12, <2>1, <2>2 DEF PowerLoss
<1>13. CASE Pull
  BY <1>13, LossGood DEF Pull
<1>14. ASSUME NEW f \in Files, Rot(f) PROVE FilesGood'
  <2>1. rots' # 0 /\ view' = disk'
    BY <1>14 DEF Rot, TypeOK
  <2>2. QED
    BY <2>1 DEF FilesGood, Cached, Sure
<1>15. QED
  BY <1>2, <1>3, <1>4, <1>5, <1>6, <1>7, <1>8, <1>9, <1>10, <1>11, <1>12, <1>13, <1>14
     DEF Next, Saving, Signal

LEMMA TidyStep ==
  ASSUME CacheAssumption, TypeOK, BootSteps, SaveSteps, FilesKnown, Tidy, [Next]_vars
  PROVE  Tidy'
<1> USE DEF vars, mountVars, saveVars, cleanVars, statusVars, boundVars, Tidy, Goto, Fails, Quiet
<1>1. ASSUME UNCHANGED <<profile, present, mounted, view, part, progress, kills, losses>>,
             slips' = slips /\ (UNCHANGED <<pc, stage>> \/ (pc' = "done" => ~mounted /\ ~progress)),
             UNCHANGED <<pc, stage>> \/ stage' \notin {"unmount", "report"}
      PROVE  Tidy'
  BY <1>1 DEF Temp
\* Before an exit the cleanup has not begun.
<1>stop. pc \in Busy \cup {"off"} => stage = "stop"
  BY DEF SaveSteps
<1>2. CASE Booting \/ SaveStarts
  BY <1>1, <1>2, <1>stop DEF Busy,Booting, VerifyManifest, Restore, Download, BootOnly, SaveStarts, SaveOnly,
       SaveSteps, bootVars, stickVars
<1>3. CASE AlreadyCached \/ NotCached \/ Fork \/ Register \/ Copied \/ Hash \/ Saved \/ CopyAborted
  BY <1>1, <1>3, <1>stop DEF Busy,AlreadyCached, NotCached, Fork, Register, Copied, After, Hash, Saved,
       CopyAborted, ReportSaved, SaveOnly, bootVars
<1>4. CASE Sync("flush") \/ Sync("commit") \/ Interrupt \/ Reap
  BY <1>1, <1>stop, <1>4 DEF Sync, After, Interrupt, Signalled, Reap, Deferred, Busy, SaveOnly, bootVars,
       stickVars
<1>signal. CASE InterruptCleanup \/ InterruptMktemp
  <2>1. /\ slips' # {} /\ UNCHANGED <<present, mounted, losses, kills, stage, progress>>
        /\ \/ pc' = "exitFailed" /\ pc = "create"
           \/ pc' = "done" /\ "signal" \in slips'
    BY <1>signal DEF InterruptCleanup, InterruptMktemp, Signalled, Slip
  <2>2. QED
    BY <1>stop, <2>1 DEF Busy
<1>5. ASSUME NEW p \in Profiles, PowerOn(p) PROVE Tidy'
  BY <1>5 DEF PowerOn, BootSteps, SaveSteps, Writing, Temp, TypeOK
<1>6. CASE Open
  BY <1>stop, <1>6 DEF Busy, Open, SaveOnly, bootVars, Temp
<1>7. CASE Create
  <2>1. CASE Fails
    BY <1>1, <1>stop, <1>7, <2>1 DEF Busy, Create, SaveOnly, bootVars
  <2>2. CASE ~Fails
    <3>1. PICK name \in Parts :
            /\ pc = "create" /\ pc' \in {"fork", "exitFailed"} /\ part' = name
            /\ view' = [view EXCEPT ![<<profile, name>>] = Partial]
            /\ UNCHANGED <<profile, present, mounted, kills, losses, slips>> /\ stage' = "stop"
      BY <1>stop, <1>7, <2>2 DEF Busy, Create, SaveOnly, bootVars
    <3>2. part \notin Parts /\ Temp' = <<profile, name>>
      BY <3>1 DEF SaveSteps, Writing, Temp
    <3>3. \A p \in Profiles, q \in Parts : <<p, q>> # Temp' => view'[<<p, q>>] = view[<<p, q>>]
      BY <3>1, <3>2 DEF TypeOK, Files
    <3>4. QED
      BY <3>1, <3>2, <3>3 DEF Temp
  <2>3. QED
    BY <2>1, <2>2
<1>8. CASE Write
  <2>1. \/ UNCHANGED view
        \/ view' = [view EXCEPT ![Temp] = root]
    BY <1>8 DEF Write
  <2>2. \A p \in Profiles, q \in Parts : <<p, q>> # Temp => view'[<<p, q>>] = view[<<p, q>>]
    BY <2>1 DEF TypeOK, Files
  <2>3. UNCHANGED <<pc, stage, slips, profile, present, mounted, part, progress, kills, losses>>
    BY <1>8 DEF Write, SaveOnly, bootVars
  <2>4. QED
    BY <2>2, <2>3 DEF Temp
<1>9. CASE Publish
  <2>1. CASE Fails
    BY <1>1, <1>stop, <1>9, <2>1 DEF Busy, Publish, SaveOnly, bootVars
  <2>2. CASE ~Fails
    <3>1. /\ view' = [view EXCEPT ![Target] = view[Temp], ![Temp] = NoFile] /\ pc' = "commit"
          /\ UNCHANGED <<profile, present, mounted, kills, losses, slips>>
      BY <1>9, <2>2 DEF Publish, After, SaveOnly, bootVars
    <3>2. want \in Images
      BY <1>9 DEF Publish, BootSteps
    <3>3. \A p \in Profiles, q \in Parts :
            view'[<<p, q>>] = IF <<p, q>> = Temp THEN NoFile ELSE view[<<p, q>>]
      BY <3>1, <3>2 DEF TypeOK, Files, Target, CacheAssumption
    <3>4. QED
      BY <3>1, <3>3
  <2>3. QED
    BY <2>1, <2>2
<1>10. CASE Prune
  <2>1. \/ UNCHANGED view
        \/ \E f \in {profile} \X Images : view' = [view EXCEPT ![f] = NoFile]
    BY <1>10 DEF Prune
  <2>2. \A p \in Profiles, q \in Parts : view'[<<p, q>>] = view[<<p, q>>]
    BY <2>1 DEF TypeOK, Files, CacheAssumption
  <2>3. /\ UNCHANGED <<slips, profile, present, mounted, part, progress, kills, losses>>
        /\ pc' \in {"prune", "saved"}
    BY <1>10 DEF Prune, After, SaveOnly, bootVars
  <2>4. QED
    BY <2>2, <2>3 DEF Temp
<1>11. CASE Cleanup
  <2>1. UNCHANGED <<profile, present, kills, losses>>
    BY <1>11 DEF Cleanup, StopWriter, RemovePart, RemoveProgress, Unmount, ReportFailed, CleanOnly, bootVars
  <2>2. CASE StopWriter \/ RemoveProgress \/ ReportFailed
    BY <2>1, <2>2 DEF StopWriter, RemoveProgress, ReportFailed, Cleaning, CleanOnly, Temp
  <2>3. CASE RemovePart
    <3>1. stage' = "progress" /\ part' = NoPart /\ UNCHANGED <<pc, mounted, progress>> /\ pc # "done"
      BY <2>3 DEF RemovePart, Cleaning
    <3>2. ASSUME kills = 0, losses = 0, slips' = {}, NEW p \in Profiles, NEW q \in Parts
          PROVE  view'[<<p, q>>] = NoFile
      <4>1. slips = {} /\ view' = (IF part = NoPart THEN view ELSE [view EXCEPT ![Temp] = NoFile])
        BY <2>3, <3>2 DEF RemovePart, Slip
      <4>2. view[<<p, q>>] # NoFile => <<p, q>> = Temp
        BY <3>2, <4>1
      <4>3. <<p, q>> \in Files
        BY DEF Files
      <4>4. CASE part = NoPart
        BY <4>1, <4>2, <4>4 DEF Temp, CacheAssumption
      <4>5. CASE part # NoPart
        BY <4>1, <4>2, <4>3, <4>5 DEF TypeOK
      <4>6. QED
        BY <4>4, <4>5
    <3>3. QED
      BY <2>1, <3>1, <3>2
  <2>4. CASE Unmount
    <3>1. stage' = "report" /\ UNCHANGED <<pc, part, progress>> /\ pc # "done" /\ stage = "unmount"
      BY <2>4 DEF Unmount, Cleaning
    <3>2. part = NoPart /\ (mounted' => mounted)
      BY <2>4, <3>1 DEF Unmount, SaveSteps, Cleaning, Writing, TypeOK
    <3>3. "umount" \notin slips' => ~mounted'
      BY <2>4 DEF Unmount, Slip
    <3>4. ASSUME kills = 0, losses = 0, slips' = {}
          PROVE  view' = view /\ slips = {}
      BY <2>1, <2>4, <3>4 DEF Unmount, Slip
    <3>5. Temp' = Temp
      BY <2>1, <3>1 DEF Temp
    <3>6. QED
      BY <2>1, <3>1, <3>2, <3>3, <3>4, <3>5
  <2>5. QED
    BY <1>11, <2>2, <2>3, <2>4 DEF Cleanup
<1>12. CASE Kill
  BY <1>12 DEF Kill, stickVars, TypeOK
<1>13. CASE Shutdown
  <2>1. /\ kills = 0 /\ slips = {} => part \notin Parts /\ ~mounted
        /\ ~mounted => view = disk
    BY <1>13 DEF Shutdown, SaveSteps, Writing
  <2>2. ~mounted' /\ pc' = "off" /\ UNCHANGED <<kills, losses, slips>> /\ view' = disk'
    BY <1>13 DEF Shutdown, Off
  <2>3. kills = 0 /\ slips = {} => view' = view
    BY <1>13, <2>1, <2>2 DEF Shutdown
  <2>4. QED
    BY <2>1, <2>2, <2>3 DEF Temp
<1>14. CASE PowerLoss \/ Pull
  <2>1. /\ losses' # 0 /\ slips' = slips
        /\ pc' = "off" \/ UNCHANGED <<pc, stage, mounted, progress>>
    BY <1>14 DEF PowerLoss, Pull, Off, TypeOK
  <2>2. UNCHANGED kills
    BY <1>14 DEF PowerLoss, Pull, Off
  <2>3. QED
    BY <2>1, <2>2
<1>15. ASSUME NEW f \in Files, Rot(f) PROVE Tidy'
  <2>1. ~mounted /\ view = disk /\ disk[f] # NoFile
    BY <1>15 DEF Rot, BootSteps, SaveSteps, CacheAssumption
  <2>2. \A g \in Files : view'[g] # NoFile => view[g] # NoFile
    BY <1>15, <2>1 DEF Rot, TypeOK
  <2>3. UNCHANGED <<pc, stage, slips, profile, present, mounted, part, progress, kills, losses>>
    BY <1>15 DEF Rot, bootVars
  <2>4. QED
    BY <2>2, <2>3 DEF Temp, Files
<1>16. CASE UNCHANGED vars \/ \E p \in Profiles, image \in Images : Deploy(p, image)
  BY <1>1, <1>16 DEF Deploy, bootVars, stickVars
<1> HIDE DEF Tidy
<1>17. QED
  BY <1>2, <1>3, <1>4, <1>signal, <1>5, <1>6, <1>7, <1>8, <1>9, <1>10, <1>11, <1>12, <1>13, <1>14,
     <1>15, <1>16 DEF Next, Saving, Signal

\* Rot apart, no step brings anything to a file on the medium but what the system sees there.
LEMMA DiskStep ==
  ASSUME CacheAssumption, TypeOK, FilesKnown, [Next]_vars, rots' = rots,
         NEW p \in Profiles, NEW h \in Images
  PROVE  disk'[<<p, h>>] \in {disk[<<p, h>>], view[<<p, h>>]}
<1> USE DEF vars, Fails, Quiet
<1>1. <<p, h>> \in Files /\ <<p, h>> \notin unsynced
  BY DEF Files, FilesKnown, CacheAssumption
<1>2. CASE Booting \/ \E q \in Profiles : PowerOn(q)
  BY <1>2 DEF Booting, PowerOn, VerifyManifest, Restore, Download, BootOnly, stickVars
<1>3. CASE SaveStarts \/ Open \/ AlreadyCached \/ NotCached \/ Create \/ Fork \/ Register
  BY <1>3 DEF SaveStarts, Open, AlreadyCached, NotCached, Create, Fork, Register, ReportSaved
<1>4. CASE Copied \/ Hash \/ Publish \/ Prune \/ Saved \/ Write \/ CopyAborted \/ Signal \/ Reap \/ Kill
  BY <1>4 DEF Copied, Hash, Publish, Prune, Saved, Write, CopyAborted, Signal, Interrupt,
       InterruptMktemp, InterruptCleanup, Signalled, Reap, Kill, ReportSaved,
       stickVars
<1>5. CASE Sync("flush") \/ Sync("commit") \/ Shutdown
  BY <1>5 DEF Sync, Shutdown
<1>6. CASE Cleanup
  BY <1>6 DEF Cleanup, StopWriter, RemovePart, RemoveProgress, Unmount, ReportFailed, mountVars
<1>7. CASE PowerLoss \/ Pull
  BY <1>1, <1>7, LeftShape DEF PowerLoss, Pull
<1>8. CASE UNCHANGED vars \/ \E q \in Profiles, image \in Images : Deploy(q, image)
  BY <1>8 DEF Deploy, stickVars
<1>9. ~ \E f \in Files : Rot(f)
  BY DEF Rot, TypeOK
<1>10. QED
  BY <1>2, <1>3, <1>4, <1>5, <1>6, <1>7, <1>8, <1>9 DEF Next, Saving

LEMMA CacheInit == ASSUME CacheAssumption, Init PROVE CacheInv
<1> USE DEF Init
<1>1. TypeOK
  <2>1. FlagTypes /\ FileTypes
    BY DEF FlagTypes, FileTypes, Data
  <2>2. BoundTypes /\ BootTypes /\ SaveTypes /\ CleanTypes
    BY DEF BoundTypes, BootTypes, SaveTypes, CleanTypes, Stage, CacheAssumption, BootStep, Step
  <2>3. QED
    BY <2>1, <2>2, TypeParts
<1>2. BootSteps /\ SaveSteps /\ FilesKnown
  BY DEF BootSteps, RunsVerified, SaveSteps, FilesKnown, Busy, Finished, Writing, CacheAssumption
<1>3. \A f \in Files : disk[f] = NoFile /\ view[f] = NoFile
  OBVIOUS
<1>4. FilesGood
  BY <1>3 DEF FilesGood, Whole, Cached, Files, CacheAssumption
<1>5. Tidy
  BY <1>3 DEF Tidy, Files
<1>6. QED
  BY <1>1, <1>2, <1>4, <1>5 DEF CacheInv

LEMMA CacheHolds == Spec => []CacheInv
<1>1. Init => CacheInv
  BY CacheAssumption, CacheInit
<1>2. CacheInv /\ [Next]_vars => CacheInv'
  BY CacheAssumption, TypeStep, BootStepsStep, SaveStepsStep, FilesKnownStep, FilesGoodStep, TidyStep
     DEF CacheInv
<1>3. QED
  BY <1>1, <1>2, PTL DEF Spec

-----------------------------------------------------------------------------
\* Every variable stays in its domain, Restore's image in RAM among them.
THEOREM CacheTypes == Spec => []TypeOK
<1>1. CacheInv => TypeOK
  BY DEF CacheInv
<1>2. QED
  BY <1>1, CacheHolds, PTL

\* What tc_cache_restore hands over as a hit is the image asked for, and of a signed release
\* nothing but the manifest's image runs.
THEOREM BootVerified == Spec => []RunsVerified
<1>1. CacheInv => RunsVerified
  BY DEF CacheInv, BootSteps
<1>2. QED
  BY <1>1, CacheHolds, PTL

\* A file that tc-cache-save has named for a release holds it, on the medium, wherever the
\* power is lost: its data was flushed and hashed before the rename.
THEOREM OnlyWhole == Spec => []PublishedIsWhole
<1>1. CacheInv => PublishedIsWhole
  BY DEF CacheInv, FilesGood, Whole, PublishedIsWhole
<1>2. QED
  BY <1>1, CacheHolds, PTL

\* cache-status says "saved" of what is on the medium: the directory was flushed before.
THEOREM SavedForGood == Spec => []SavedIsOnDisk
<1>1. CacheInv => SavedIsOnDisk
  BY DEF CacheInv, FilesKnown, SavedIsOnDisk
<1>2. QED
  BY <1>1, CacheHolds, PTL

\* cleanup() finds every writer by COPY_PID, because interrupt() puts its exit off while the
\* writer is being started: it can always wait for it, remove its file and unmount, and does
\* so unless rm or umount fails or another signal ends the cleanup itself.
THEOREM CleanExit == Spec => []NothingLeft
<1>1. ASSUME CacheInv, pc = "done", kills = 0
      PROVE  /\ "signal" \notin slips => writer = "none" /\ ~progress
             /\ slips \cap {"signal", "umount"} = {} => ~mounted
  BY <1>1 DEF CacheInv, SaveSteps, Tidy
<1>2. ASSUME CacheInv, pc = "done", kills = 0, losses = 0, slips = {},
             NEW p \in Profiles, NEW q \in Parts
      PROVE  disk[<<p, q>>] = NoFile
  <2>1. part \notin Parts /\ view = disk
    <3>1. ~mounted
      BY <1>1, <1>2
    <3>2. QED
      BY <1>2, <3>1 DEF CacheInv, SaveSteps, Writing
  <2>2. QED
    BY <1>2, <2>1 DEF CacheInv, Tidy, Temp
<1>3. CacheInv => NothingLeft
  BY <1>1, <1>2 DEF NothingLeft
<1>4. QED
  BY <1>3, CacheHolds, PTL

\* No step, a loss of power between flush, rename and pruning included, takes a bootable
\* profile its last image from the medium.
THEOREM PreviousStays == Spec => PreviousKept
<1>1. CacheInv /\ [Next]_vars => [\A p \in Profiles : Cached(disk, p) => Cached(disk', p) \/ rots' # rots]_vars
  <2> SUFFICES ASSUME CacheInv, [Next]_vars, rots' = rots, NEW p \in Profiles, Cached(disk, p)
               PROVE  Cached(disk', p)
    OBVIOUS
  <2>1. PICK h \in Images : disk[<<p, h>>] = h /\ view[<<p, h>>] = h
    BY DEF CacheInv, FilesGood, Sure
  <2>2. disk'[<<p, h>>] \in {disk[<<p, h>>], view[<<p, h>>]}
    BY CacheAssumption, DiskStep DEF CacheInv
  <2>3. QED
    BY <2>1, <2>2 DEF Cached
<1>2. QED
  BY <1>1, CacheHolds, PTL DEF Spec, PreviousKept
=============================================================================
