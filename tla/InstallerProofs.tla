--------------------------- MODULE InstallerProofs ---------------------------
(***************************************************************************)
(* TLAPS proofs about Installer, for every value of its constants.          *)
(***************************************************************************)
EXTENDS InstallerProps, TLAPS

(***************************************************************************)
(* The inductive invariant. The window runs exactly while a helper does,   *)
(* and a shutdown that is on its way then was ordered before; the name     *)
(* that a helper past its last check works on stands for the disk that was  *)
(* checked or one that was plugged in since, never for the medium; once it *)
(* writes the disk is one, and each step finds on it what those before have *)
(* written; its own mount is there for exactly the steps that need it.     *)
(***************************************************************************)
Working ==
  {"wipe", "table", "mkesp", "mkconf", "mount", "copy", "verify", "boot", "umount",
   "mountconf", "seed", "umountconf", "sync", "cleanup"}
Steps == Working \cup {"none", "validate", "preflight", "revalidate", "finished", "failed"}

Types ==
  /\ TypeOK
  /\ power \in {"on", "asked", "lost"} /\ pc \in Steps
  /\ phase \in {"listing", "idle", "confirm", "running", "report"}
  /\ verdict \in {"none", "complete", "failed"}

\* A disk has one name.
OneName == \A p, q \in Path : at[p] = at[q] /\ at[p] \in Disk => p = q

WindowKnows ==
  /\ phase = "running" <=> pc # "none"
  /\ phase = "running" => verdict = "none" /\ target \in Path
  /\ phase = "confirm" => selected \in Path
  /\ phase = "running" /\ ordered => raced
  /\ PowerWaits

Erasable(d) == d \in Disk \ {Live} /\ (d \in Small => moved)

\* The steps with a mount of the helper's own.
Mounted == {"copy", "verify", "boot", "umount", "seed", "umountconf", "cleanup"}

\* What is on the disk before a step.
Systems == {"table", "esp", "conf"}
Copied == {Files[i] : i \in 1..(file - 1)}
Found(here) ==
  CASE here = "mkesp" -> {"table"}
    [] here = "mkconf" -> {"table", "esp"}
    [] here = "mount" -> Systems
    [] here \in {"copy", "verify"} -> Systems \cup Copied
    [] here = "boot" -> Systems \cup File
    [] here \in {"umount", "mountconf", "seed"} -> Systems \cup File \cup {"boot"}
    [] here \in {"umountconf", "sync", "finished"} -> Whole
    [] OTHER -> {}

HelperKnows ==
  /\ pc = "wipe" => Dev # Live /\ (Dev \in Small => moved)
  /\ pc \in Working \ {"wipe"} => Erasable(Dev) /\ victim = Dev
  /\ pc \in {"copy", "verify"} => file \in DOMAIN Files
  /\ Found(pc) # {} => victim \in Disk /\ Found(pc) \subseteq content[victim]
  /\ pc = "finished" => Whole \subseteq flushed[victim]
  /\ own # "none" <=> pc \in Mounted

InstallInv ==
  /\ Types /\ OneName /\ WindowKnows /\ SuccessIsComplete
  /\ On => HelperKnows
-----------------------------------------------------------------------------
LEMMA FilesKnown ==
  /\ Len(Files) \in Nat \ {0} /\ DOMAIN Files = 1..Len(Files)
  /\ File = {Files[i] : i \in 1..Len(Files)}
  /\ File \cap {"table", "oldesp", "oldconf", "esp", "conf", "boot", "config"} = {}
  /\ Whole = Systems \cup File \cup {"boot", "config"} /\ Whole \subseteq Parts
<1>1. Len(Files) \in Nat /\ DOMAIN Files = 1..Len(Files) /\ Files # <<>>
  BY FilesAssumption
<1>2. Len(Files) # 0
  BY <1>1, FilesAssumption
<1>3. File = {Files[i] : i \in 1..Len(Files)}
  BY <1>1 DEF File
<1>4. File \cap {"table", "oldesp", "oldconf", "esp", "conf", "boot", "config"} = {}
  BY <1>1, <1>3, FilesAssumption
<1>5. QED
  BY <1>1, <1>2, <1>3, <1>4 DEF Whole, Systems, Parts

\* A step of the helper leaves window, names and power alone.
LEMMA HelperFrame ==
  ASSUME InstallInv, NEW here \in Steps \ {"none"}, Step(here), pc' \in Steps \ {"none"},
         mounted' \subseteq Disk \X Place, content' \in [Disk -> SUBSET Parts],
         flushed' \in [Disk -> SUBSET Parts], file' \in 0..Len(Files),
         fresh' \in BOOLEAN, own' \in Place \cup {"none"}, victim' \in Disk \cup {NoDisk}
  PROVE  Types' /\ OneName' /\ WindowKnows' /\ SuccessIsComplete' /\ Dev' = Dev /\ On'
<1>1. /\ power' = power /\ at' = at /\ phase' = phase /\ offered' = offered
      /\ selected' = selected /\ verdict' = verdict /\ target' = target /\ pc = here /\ On
      /\ ordered' = ordered /\ raced' = raced /\ moved' = moved
  BY DEF Step, window
<1>2. Types'
  BY <1>1 DEF InstallInv, Types, TypeOK
<1>3. OneName' /\ Dev' = Dev /\ On'
  BY <1>1 DEF InstallInv, OneName, Dev, On
<1>4. phase = "running" /\ verdict = "none"
  BY <1>1 DEF InstallInv, WindowKnows
<1>5. WindowKnows' /\ SuccessIsComplete'
  BY <1>1, <1>4 DEF InstallInv, On, WindowKnows, PowerWaits, SuccessIsComplete
<1>6. QED
  BY <1>2, <1>3, <1>5

\* A step that fails leaves nothing to know but the disk whose mount is to be released.
LEMMA FailKnows ==
  ASSUME InstallInv, NEW here \in Steps \ {"none"}, Step(here), Fail,
         pc \in Mounted => victim' = Dev
  PROVE  HelperKnows' /\ pc' \in Steps \ {"none"} /\ own' = own
<1>1. at' = at /\ target' = target /\ moved' = moved /\ pc = here /\ HelperKnows
  BY DEF Step, InstallInv
<1>2. own' = own /\ pc' = (IF own # "none" THEN "cleanup" ELSE "failed")
  BY DEF Fail, Goto
<1>3. CASE own # "none"
  BY <1>1, <1>2, <1>3 DEF HelperKnows, Dev, Erasable, Found, Working, Mounted, Steps
<1>4. CASE own = "none"
  BY <1>1, <1>2, <1>4 DEF HelperKnows, Found, Working, Mounted, Steps
<1>5. QED
  BY <1>3, <1>4
-----------------------------------------------------------------------------
LEMMA InstallInit == Init => InstallInv
<1>1. SUFFICES ASSUME Init PROVE InstallInv
  OBVIOUS
<1>2. {{"table", "oldesp", "oldconf"}, {}} \subseteq SUBSET Parts
  BY DEF Parts
<1>3. Types
  <2>1. content \in [Disk -> SUBSET Parts]
    BY <1>1, <1>2 DEF Init
  <2>2. TypeOK
    <3>1. /\ file \in 0..Len(Files) /\ fresh = TRUE /\ own = "none"
          /\ ordered = FALSE /\ raced = FALSE /\ moved = FALSE
      BY <1>1, FilesKnown DEF Init
    <3>2. /\ at \in [Path -> Disk \cup {NoDisk}] /\ mounted \subseteq Disk \X Place
          /\ flushed \in [Disk -> SUBSET Parts]
      BY <1>1, <2>1 DEF Init
    <3>3. /\ offered \subseteq Path /\ selected \in Path \cup {NoPath}
          /\ target \in Path \cup {NoPath} /\ victim \in Disk \cup {NoDisk}
      BY <1>1 DEF Init
    <3>4. QED
      BY <2>1, <3>1, <3>2, <3>3 DEF TypeOK
  <2>3. QED
    BY <1>1, <2>2 DEF Init, Types, Steps
<1>4. OneName /\ WindowKnows /\ SuccessIsComplete
  BY <1>1 DEF Init, OneName, WindowKnows, PowerWaits, SuccessIsComplete
<1>5. HelperKnows
  BY <1>1 DEF Init, HelperKnows, Working, Mounted, Found
<1>6. QED
  BY <1>3, <1>4, <1>5 DEF InstallInv

-----------------------------------------------------------------------------
(***************************************************************************)
(* The steps of the helper.                                                *)
(***************************************************************************)
LEMMA HelperTypes == InstallInv => /\ TypeOK /\ file \in Nat
  BY FilesKnown DEF InstallInv, Types, TypeOK

\* A check keeps what is known, and what it found besides.
LEMMA ChecksKeep ==
  ASSUME InstallInv,
         Validate \/ Revalidate \/ Preflight
  PROVE  InstallInv'
<1>1. PICK here \in {"validate", "revalidate", "preflight"} : Step(here)
  BY DEF Validate, Revalidate, Preflight, Require
<1>2. pc = here /\ On /\ HelperKnows /\ own = "none"
  BY <1>1 DEF Step, InstallInv, HelperKnows, Mounted
<1>3. /\ Keep /\ victim' = victim /\ file' = file /\ fresh' \in BOOLEAN
  BY HelperTypes DEF Validate, Revalidate, Preflight, Require, TypeOK
<1>4. /\ own' = "none" /\ pc' \in {"preflight", "revalidate", "wipe", "failed"}
      /\ pc' = "wipe" => Installable(Dev)
  BY <1>2 DEF Validate, Revalidate, Preflight, Require, Fail, Goto
<1>5. at' = at /\ target' = target
  BY <1>1 DEF Step
<1>6. HelperKnows'
  BY <1>2, <1>4, <1>5 DEF HelperKnows, Found, Working, Mounted, Installable, Candidate, Dev
<1>7. Types' /\ OneName' /\ WindowKnows' /\ SuccessIsComplete'
  <2>1. here \in Steps \ {"none"} /\ pc' \in Steps \ {"none"}
    BY <1>4 DEF Steps, Working
  <2>2. QED
    BY <1>1, <1>3, <1>4, <2>1, HelperFrame, HelperTypes DEF Keep, TypeOK
<1>8. QED
  BY <1>6, <1>7 DEF InstallInv

\* A command that writes leaves the disk worked on as before, and ends the helper, or
\* with the parts written; all that is to show then is that these are the ones needed.
LEMMA WritesKeep ==
  ASSUME InstallInv, NEW here \in Working, NEW next \in Working, next # "sync",
         NEW without, NEW with \in SUBSET Parts, NEW written,
         written = [content EXCEPT ![Dev] = (@ \ without) \cup with],
         Step(here), UNCHANGED <<mounted, fresh, flushed, file>>,
         victim' = Dev, Erasable(Dev), next # "wipe", here \in Mounted <=> next \in Mounted, next \in {"copy", "verify"} => file' \in DOMAIN Files,
         (content' = written /\ Goto(next)) \/ (content' \in {content, written} /\ Fail),
         Found(next)' \subseteq written[Dev]
  PROVE  InstallInv'
<1>1. pc = here /\ On /\ HelperKnows /\ Erasable(Dev) /\ Dev \in Disk /\ victim' = Dev
  BY DEF Step, InstallInv, Erasable
<1>2. content' \in [Disk -> SUBSET Parts] /\ own' \in Place \cup {"none"}
  BY <1>1, HelperTypes DEF TypeOK, Goto, Fail
<1>3. at' = at /\ target' = target /\ moved' = moved /\ Dev' = Dev
  BY DEF Step, Dev
<1>4. CASE content' \in {content, written} /\ Fail
  <2>1. HelperKnows' /\ pc' \in Steps \ {"none"}
    BY <1>1, <1>4, FailKnows DEF Steps, Working
  <2>2. here \in Steps \ {"none"}
    BY DEF Steps, Working
  <2>3. Types' /\ OneName' /\ WindowKnows' /\ SuccessIsComplete'
    BY <1>1, <1>2, <2>1, <2>2, HelperFrame, HelperTypes DEF TypeOK
  <2>4. QED
    BY <2>1, <2>3 DEF InstallInv
<1>5. CASE content' = written /\ Goto(next)
  <2>1. pc' = next /\ own' = own
    BY <1>5 DEF Goto
  <2>2. here \in Steps \ {"none"} /\ next \in Steps \ {"none"} /\ next # "finished"
    BY DEF Steps, Working
  <2>3. Types' /\ OneName' /\ WindowKnows' /\ SuccessIsComplete'
    BY <1>1, <1>2, <2>1, <2>2, HelperFrame, HelperTypes DEF TypeOK
  <2>4. Erasable(Dev)'
    BY <1>1, <1>3 DEF Erasable
  <2>5. Found(pc)' = Found(next)'
    BY <2>1
  <2>6. HelperKnows'
    BY <1>1, <1>3, <1>5, <2>1, <2>2, <2>4, <2>5 DEF HelperKnows
  <2>7. QED
    BY <2>3, <2>6 DEF InstallInv
<1>6. QED
  BY <1>4, <1>5

LEMMA CommandsKeep ==
  ASSUME InstallInv, Wipe \/ Partition \/ FormatEsp \/ FormatConf \/ Bootloader \/ SeedConfig
  PROVE  InstallInv'
<1>1. /\ InstallInv /\ TypeOK /\ (On => HelperKnows)
      /\ \A d \in Disk : content[d] \subseteq Parts
  BY HelperTypes DEF InstallInv, TypeOK
<1>2. CASE Wipe
  <2> DEFINE written == [content EXCEPT ![Dev] = (@ \ {"table"}) \cup {}]
  <2>1. /\ Step("wipe") /\ UNCHANGED <<mounted, fresh, flushed, file>> /\ victim' = Dev
        /\ pc = "wipe" /\ HelperKnows /\ own = "none"
    BY <1>1, <1>2 DEF Wipe, Writes, Step, HelperKnows, Mounted
  <2>2. Found("table")' = {} /\ {"wipe", "table"} \subseteq Working \ Mounted
    BY DEF Found, Working, Mounted
  <2>3. CASE Dev \in Disk /\ ~InUse(Dev)
    <3>1. (content' = written /\ Goto("table")) \/ (content' \in {content, written} /\ Fail)
      BY <1>2, <2>3 DEF Wipe, Writes
    <3>2. Erasable(Dev)
      BY <2>1, <2>3 DEF HelperKnows, Erasable
    <3>3. QED
      BY <2>1, <2>2, <3>1, <3>2, WritesKeep
  <2>4. CASE ~(Dev \in Disk /\ ~InUse(Dev))
    <3>1. content' = content /\ Fail
      BY <1>2, <2>4 DEF Wipe, Writes
    <3>2. HelperKnows' /\ pc' \in Steps \ {"none"} /\ own' = own
      BY <2>1, <3>1, <1>1, FailKnows DEF Mounted, Steps, Working
    <3>3. Dev \in Disk \cup {NoDisk}
      BY <1>1, <2>1 DEF InstallInv, WindowKnows, TypeOK, Dev
    <3>4. Types' /\ OneName' /\ WindowKnows' /\ SuccessIsComplete'
      BY <1>1, <2>1, <3>1, <3>2, <3>3, HelperFrame DEF TypeOK, Steps, Working
    <3>5. QED
      BY <3>2, <3>4 DEF InstallInv
  <2>5. QED
    BY <2>3, <2>4
<1>3. CASE Partition
  <2> DEFINE written == [content EXCEPT ![Dev] = (@ \ {}) \cup {"table"}]
  <2>1. /\ Step("table") /\ UNCHANGED <<mounted, fresh, flushed, file>> /\ victim' = victim
        /\ (content' = written /\ Goto("mkesp")) \/ (content' \in {content, written} /\ Fail)
    BY <1>3 DEF Partition, Writes, Goto, Fail
  <2>2. /\ pc = "table" /\ Dev \in Disk /\ victim = Dev /\ victim' = Dev /\ Erasable(Dev)
        /\ Found("table") \subseteq content[Dev]
    BY <1>1, <2>1 DEF Step, HelperKnows, Working, Erasable, Found
  <2>3. /\ Found("mkesp")' = {"table"}
        /\ Found("mkesp")' \subseteq written[Dev]
    BY <1>1, <2>1, <2>2, FilesKnown DEF Found, Systems, TypeOK
  <2>4. /\ {"table"} \subseteq Parts /\ "table" \in Working /\ "mkesp" \in Working
        /\ ("table" \in Mounted <=> "mkesp" \in Mounted)
    BY FilesKnown DEF Parts, Working, Mounted
  <2>5. QED
    BY <1>1, <2>1, <2>2, <2>3, <2>4, WritesKeep
<1>4. CASE FormatEsp
  <2> DEFINE written == [content EXCEPT ![Dev] = (@ \ ({"oldesp", "boot"} \cup File)) \cup {"esp"}]
  <2>1. /\ Step("mkesp") /\ UNCHANGED <<mounted, fresh, flushed, file>> /\ victim' = victim
        /\ (content' = written /\ Goto("mkconf")) \/ (content' \in {content, written} /\ Fail)
    BY <1>4 DEF FormatEsp, Writes, Goto, Fail
  <2>2. /\ pc = "mkesp" /\ Dev \in Disk /\ victim = Dev /\ victim' = Dev /\ Erasable(Dev)
        /\ Found("mkesp") \subseteq content[Dev]
    BY <1>1, <2>1 DEF Step, HelperKnows, Working, Erasable, Found
  <2>3. /\ Found("mkconf")' = {"table", "esp"}
        /\ Found("mkconf")' \subseteq written[Dev]
    BY <1>1, <2>1, <2>2, FilesKnown DEF Found, Systems, TypeOK
  <2>4. /\ {"esp"} \subseteq Parts /\ "mkesp" \in Working /\ "mkconf" \in Working
        /\ ("mkesp" \in Mounted <=> "mkconf" \in Mounted)
    BY FilesKnown DEF Parts, Working, Mounted
  <2>5. QED
    BY <1>1, <2>1, <2>2, <2>3, <2>4, WritesKeep
<1>5. CASE FormatConf
  <2> DEFINE written == [content EXCEPT ![Dev] = (@ \ {"oldconf", "config"}) \cup {"conf"}]
  <2>1. /\ Step("mkconf") /\ UNCHANGED <<mounted, fresh, flushed, file>> /\ victim' = victim
        /\ (content' = written /\ Goto("mount")) \/ (content' \in {content, written} /\ Fail)
    BY <1>5 DEF FormatConf, Writes, Goto, Fail
  <2>2. /\ pc = "mkconf" /\ Dev \in Disk /\ victim = Dev /\ victim' = Dev /\ Erasable(Dev)
        /\ Found("mkconf") \subseteq content[Dev]
    BY <1>1, <2>1 DEF Step, HelperKnows, Working, Erasable, Found
  <2>3. /\ Found("mount")' = Systems
        /\ Found("mount")' \subseteq written[Dev]
    BY <1>1, <2>1, <2>2, FilesKnown DEF Found, Systems, TypeOK
  <2>4. /\ {"conf"} \subseteq Parts /\ "mkconf" \in Working /\ "mount" \in Working
        /\ ("mkconf" \in Mounted <=> "mount" \in Mounted)
    BY FilesKnown DEF Parts, Working, Mounted
  <2>5. QED
    BY <1>1, <2>1, <2>2, <2>3, <2>4, WritesKeep
<1>6. CASE Bootloader
  <2> DEFINE written == [content EXCEPT ![Dev] = (@ \ {}) \cup {"boot"}]
  <2>1. /\ Step("boot") /\ UNCHANGED <<mounted, fresh, flushed, file>> /\ victim' = victim
        /\ (content' = written /\ Goto("umount")) \/ (content' \in {content, written} /\ Fail)
    BY <1>6 DEF Bootloader, Writes, Goto, Fail
  <2>2. /\ pc = "boot" /\ Dev \in Disk /\ victim = Dev /\ victim' = Dev /\ Erasable(Dev)
        /\ Found("boot") \subseteq content[Dev]
    BY <1>1, <2>1 DEF Step, HelperKnows, Working, Erasable, Found
  <2>3. /\ Found("umount")' = Systems \cup File \cup {"boot"}
        /\ Found("umount")' \subseteq written[Dev]
    BY <1>1, <2>1, <2>2, FilesKnown DEF Found, Systems, TypeOK
  <2>4. /\ {"boot"} \subseteq Parts /\ "boot" \in Working /\ "umount" \in Working
        /\ ("boot" \in Mounted <=> "umount" \in Mounted)
    BY FilesKnown DEF Parts, Working, Mounted
  <2>5. QED
    BY <1>1, <2>1, <2>2, <2>3, <2>4, WritesKeep
<1>7. CASE SeedConfig
  <2> DEFINE written == [content EXCEPT ![Dev] = (@ \ {}) \cup {"config"}]
  <2>1. /\ Step("seed") /\ UNCHANGED <<mounted, fresh, flushed, file>> /\ victim' = victim
        /\ (content' = written /\ Goto("umountconf")) \/ (content' \in {content, written} /\ Fail)
    BY <1>7 DEF SeedConfig, Writes, Goto, Fail
  <2>2. /\ pc = "seed" /\ Dev \in Disk /\ victim = Dev /\ victim' = Dev /\ Erasable(Dev)
        /\ Found("seed") \subseteq content[Dev]
    BY <1>1, <2>1 DEF Step, HelperKnows, Working, Erasable, Found
  <2>3. /\ Found("umountconf")' = Whole
        /\ Found("umountconf")' \subseteq written[Dev]
    BY <1>1, <2>1, <2>2, FilesKnown DEF Found, Systems, TypeOK
  <2>4. /\ {"config"} \subseteq Parts /\ "seed" \in Working /\ "umountconf" \in Working
        /\ ("seed" \in Mounted <=> "umountconf" \in Mounted)
    BY FilesKnown DEF Parts, Working, Mounted
  <2>5. QED
    BY <1>1, <2>1, <2>2, <2>3, <2>4, WritesKeep
<1>8. QED
  BY <1>2, <1>3, <1>4, <1>5, <1>6, <1>7

LEMMA MountsKeep ==
  ASSUME InstallInv, MountEsp \/ MountConf
  PROVE  InstallInv'
<1>1. PICK here \in {"mount", "mountconf"} :
        /\ Step(here) /\ Keep /\ UNCHANGED <<fresh, victim>>
        /\ file' = IF here = "mount" THEN 1 ELSE file
        /\ \/ pc' = (IF here = "mount" THEN "copy" ELSE "seed") /\ own' \in Place
           \/ Fail
  BY DEF MountEsp, MountConf, MountStep, Place
<1>2. /\ pc = here /\ HelperKnows /\ TypeOK /\ Erasable(Dev) /\ Dev \in Disk /\ victim = Dev
      /\ Found(here) \subseteq content[Dev]
  BY <1>1, HelperTypes DEF Step, InstallInv, HelperKnows, Working, Erasable, Found
<1>3. file' \in 0..Len(Files)
  BY <1>1, <1>2, FilesKnown DEF TypeOK
<1>4. at' = at /\ target' = target /\ moved' = moved /\ Dev' = Dev
  BY <1>1 DEF Step, Dev
<1>5. here \in Steps \ {"none"}
  BY DEF Steps, Working
<1>6. CASE Fail
  <2>1. HelperKnows' /\ pc' \in Steps \ {"none"} /\ own' = own
    BY <1>1, <1>2, <1>5, <1>6, FailKnows
  <2>2. Types' /\ OneName' /\ WindowKnows' /\ SuccessIsComplete'
    BY <1>1, <1>2, <1>3, <1>5, <2>1, HelperFrame DEF Keep, TypeOK
  <2>3. QED
    BY <2>1, <2>2 DEF InstallInv
<1>7. CASE pc' = (IF here = "mount" THEN "copy" ELSE "seed") /\ own' \in Place
  <2>1. pc' \in {"copy", "seed"} /\ pc' \in Steps \ {"none"} /\ own' # "none"
    BY <1>7 DEF Steps, Working, Place
  <2>2. Types' /\ OneName' /\ WindowKnows' /\ SuccessIsComplete'
    BY <1>1, <1>2, <1>3, <1>5, <1>7, <2>1, HelperFrame DEF Keep, TypeOK
  <2>3. Erasable(Dev)' /\ victim' = Dev' /\ content' = content
    BY <1>1, <1>2, <1>4 DEF Erasable, Keep
  <2>4. CASE here = "mount"
    <3>1. Found("copy")' = Systems
      BY <1>1, <2>4 DEF Found, Copied
    <3>2. Found("mount") = Systems /\ 1 \in DOMAIN Files
      BY FilesKnown DEF Found
    <3>3. QED
      BY <1>1, <1>2, <1>4, <1>7, <2>1, <2>2, <2>3, <2>4, <3>1, <3>2
      DEF InstallInv, HelperKnows, Working, Mounted
  <2>5. CASE here = "mountconf"
    <3>1. Found("seed")' = Found("mountconf")
      BY DEF Found
    <3>2. QED
      BY <1>1, <1>2, <1>4, <1>7, <2>1, <2>2, <2>3, <2>5, <3>1
      DEF InstallInv, HelperKnows, Working, Mounted
  <2>6. QED
    BY <2>4, <2>5
<1>8. QED
  BY <1>1, <1>6, <1>7

\* A copy leaves the files before it as they are: no two files are one.
LEMMA CopyKeeps ==
  ASSUME InstallInv, CopyFile
  PROVE  InstallInv'
<1> DEFINE parts == IF fresh THEN {Files[file]} ELSE {}
           written == [content EXCEPT ![Dev] = (@ \ {Files[file]}) \cup parts]
<1>1. /\ Step("copy") /\ UNCHANGED <<mounted, fresh, flushed, file>> /\ victim' = victim
      /\ (content' = written /\ Goto("verify")) \/ (content' \in {content, written} /\ Fail)
  BY DEF CopyFile, Writes, Goto, Fail
<1>2. /\ pc = "copy" /\ Dev \in Disk /\ victim = Dev /\ victim' = Dev /\ Found("copy") \subseteq content[Dev]
      /\ file \in DOMAIN Files /\ TypeOK /\ Erasable(Dev)
  BY <1>1, HelperTypes DEF Step, InstallInv, HelperKnows, Working, Erasable, Found, Systems
<1>3. Files[file] \notin Systems \cup Copied
  <2>1. \A i \in 1..(file - 1) : i \in DOMAIN Files /\ i # file
    BY <1>2, FilesKnown
  <2>2. Files[file] \notin Copied
    BY <1>2, <2>1, FilesAssumption DEF Copied
  <2>3. Files[file] \notin Systems
    BY <1>2, FilesAssumption DEF Systems
  <2>4. QED
    BY <2>2, <2>3
<1>4. Found("verify")' = Systems \cup Copied /\ Found("copy") = Systems \cup Copied
  BY <1>1 DEF Found, Copied
<1>5. Found("verify")' \subseteq written[Dev]
  BY <1>2, <1>3, <1>4 DEF TypeOK
<1>6. parts \subseteq Parts /\ {"copy", "verify"} \subseteq Working \cap Mounted
  BY <1>2 DEF Parts, File, Working, Mounted
<1>7. QED
  BY <1>1, <1>2, <1>5, <1>6, WritesKeep

\* A file that verifies is one more of those that are there.
LEMMA VerifyKeeps ==
  ASSUME InstallInv, VerifyFile
  PROVE  InstallInv'
<1>1. /\ Step("verify") /\ Keep /\ UNCHANGED <<fresh, victim>>
      /\ file' = IF pc' = "copy" THEN file + 1 ELSE file
      /\ \/ /\ Files[file] \in content[Dev] /\ own' = own
            /\ pc' = IF file = Len(Files) THEN "boot" ELSE "copy"
         \/ Fail
  BY DEF VerifyFile, Require, Verified, Goto
<1>2. /\ pc = "verify" /\ HelperKnows /\ TypeOK /\ Erasable(Dev) /\ Dev \in Disk /\ victim = Dev
      /\ Found("verify") \subseteq content[Dev] /\ file \in 1..Len(Files) /\ own # "none"
  BY <1>1, HelperTypes, FilesKnown
  DEF Step, InstallInv, Types, HelperKnows, Working, Mounted, Erasable, Found, Systems, TypeOK
<1>3. at' = at /\ target' = target /\ moved' = moved /\ Dev' = Dev
  BY <1>1 DEF Step, Dev
<1>4. CASE Fail
  <2>1. HelperKnows' /\ pc' \in Steps \ {"none"} /\ own' = own
    BY <1>1, <1>2, <1>4, FailKnows DEF Steps, Working
  <2>2. pc' # "copy"
    BY <1>4 DEF Fail, Goto
  <2>3. Types' /\ OneName' /\ WindowKnows' /\ SuccessIsComplete'
    BY <1>1, <1>2, <2>1, <2>2, HelperFrame DEF Keep, TypeOK, Steps, Working
  <2>4. QED
    BY <2>1, <2>3 DEF InstallInv
<1>5. CASE /\ Files[file] \in content[Dev] /\ own' = own
           /\ pc' = IF file = Len(Files) THEN "boot" ELSE "copy"
  <2>1. /\ Len(Files) \in Nat /\ file' \in 1..Len(Files) /\ file' \in DOMAIN Files
        /\ pc' \in {"copy", "boot"}
    <3>1. Len(Files) \in Nat /\ DOMAIN Files = 1..Len(Files)
      BY FilesKnown
    <3>2. pc' \in {"copy", "boot"} /\ (pc' = "copy" => file # Len(Files))
      BY <1>5
    <3>3. file' \in {file} \/ (file' = file + 1 /\ file # Len(Files))
      BY <1>1, <3>2
    <3>4. file \in 1..Len(Files)
      BY <1>2
    <3>5. \A n \in Nat : \A i \in 1..n : i # n => i + 1 \in 1..n
      OBVIOUS
    <3>6. file' \in 1..Len(Files)
      BY <3>1, <3>3, <3>4, <3>5
    <3>7. QED
      BY <3>1, <3>2, <3>6
  <2>2. Types' /\ OneName' /\ WindowKnows' /\ SuccessIsComplete'
    BY <1>1, <1>2, <1>5, <2>1, HelperFrame DEF Keep, TypeOK, Steps, Working
  <2>3. Erasable(Dev)' /\ victim' = Dev' /\ content' = content
    BY <1>1, <1>2, <1>3 DEF Erasable, Keep
  <2>4. Systems \cup {Files[i] : i \in 1..file} \subseteq content[Dev]
    <3>1. \A i \in 1..file : i \in 1..(file - 1) \/ i = file
      BY <1>2
    <3>2. QED
      BY <1>2, <1>5, <3>1 DEF Found, Copied
  <2>5. CASE pc' = "copy"
    <3>1. Found("copy")' = Systems \cup {Files[i] : i \in 1..file}
      BY <1>1, <1>2, <2>5 DEF Found, Copied
    <3>2. QED
      BY <1>1, <1>2, <1>3, <1>5, <2>1, <2>2, <2>3, <2>4, <2>5, <3>1
      DEF InstallInv, HelperKnows, Working, Mounted
  <2>6. CASE pc' = "boot"
    <3>1. Found("boot")' = Systems \cup {Files[i] : i \in 1..file}
      BY <1>2, <1>5, <2>6, FilesKnown DEF Found
    <3>2. QED
      BY <1>1, <1>2, <1>3, <1>5, <2>1, <2>2, <2>3, <2>4, <2>6, <3>1
      DEF InstallInv, HelperKnows, Working, Mounted
  <2>7. QED
    BY <2>1, <2>5, <2>6
<1>6. QED
  BY <1>1, <1>4, <1>5

LEMMA UnmountsKeep ==
  ASSUME InstallInv, UnmountEsp \/ UnmountConf \/ Cleanup
  PROVE  InstallInv'
<1> DEFINE after == CASE pc = "umount" -> "mountconf" [] pc = "umountconf" -> "sync" [] OTHER -> "failed"
<1>1. PICK here \in {"umount", "umountconf", "cleanup"} :
        /\ Step(here) /\ own' = "none" /\ UNCHANGED <<content, file, fresh, victim>>
        /\ \/ pc' = after /\ flushed' = Release(Dev, own) /\ UNCHANGED mounted
           \/ pc' = "failed" /\ mounted' = mounted \cup {<<Dev, own>>} /\ UNCHANGED flushed
  BY DEF UnmountEsp, UnmountConf, Cleanup, Unmount, Step
<1>2. /\ pc = here /\ HelperKnows /\ TypeOK /\ Erasable(Dev) /\ Dev \in Disk /\ victim = Dev
      /\ Found(here) \subseteq content[Dev] /\ own \in Place
  BY <1>1, HelperTypes
  DEF Step, InstallInv, HelperKnows, Working, Mounted, Erasable, Found, TypeOK
<1>3. at' = at /\ target' = target /\ moved' = moved /\ Dev' = Dev
  BY <1>1 DEF Step, Dev
<1>4. mounted' \subseteq Disk \X Place /\ flushed' \in [Disk -> SUBSET Parts]
  BY <1>1, <1>2 DEF Release, TypeOK
<1>5. here \in Steps \ {"none"} /\ pc' \in {"mountconf", "sync", "failed"}
  BY <1>1 DEF Steps, Working
<1>6. Types' /\ OneName' /\ WindowKnows' /\ SuccessIsComplete'
  BY <1>1, <1>2, <1>4, <1>5, HelperFrame DEF TypeOK, Steps, Working
<1>7. Erasable(Dev)' /\ victim' = Dev' /\ content' = content
  BY <1>1, <1>2, <1>3 DEF Erasable
<1>8. pc' = "failed" \/ (pc = "umount" /\ pc' = "mountconf") \/ (pc = "umountconf" /\ pc' = "sync")
  BY <1>1, <1>2
<1>9. Found(pc)' \subseteq Found(pc)
  BY <1>8 DEF Found
<1>10. QED
  BY <1>1, <1>2, <1>3, <1>5, <1>6, <1>7, <1>9 DEF InstallInv, HelperKnows, Working, Mounted

LEMMA SyncKeeps ==
  ASSUME InstallInv, Sync
  PROVE  InstallInv'
<1>1. /\ Step("sync") /\ UNCHANGED <<mounted, content, file, fresh, victim>>
      /\ (flushed' = content /\ Goto("finished")) \/ (Fail /\ UNCHANGED flushed)
  BY DEF Sync, Goto, Fail
<1>2. /\ pc = "sync" /\ HelperKnows /\ TypeOK /\ Erasable(Dev) /\ Dev \in Disk /\ victim = Dev
      /\ Found("sync") \subseteq content[Dev] /\ own = "none"
  BY <1>1, HelperTypes, FilesKnown
  DEF Step, InstallInv, HelperKnows, Working, Mounted, Erasable, Found, Systems, TypeOK
<1>3. at' = at /\ target' = target /\ Dev' = Dev
  BY <1>1 DEF Step, Dev
<1>4. CASE Fail /\ UNCHANGED flushed
  <2>1. HelperKnows' /\ pc' \in Steps \ {"none"} /\ own' = own
    BY <1>1, <1>2, <1>4, FailKnows DEF Steps, Working
  <2>2. Types' /\ OneName' /\ WindowKnows' /\ SuccessIsComplete'
    BY <1>1, <1>2, <1>4, <2>1, HelperFrame DEF TypeOK, Steps, Working
  <2>3. QED
    BY <2>1, <2>2 DEF InstallInv
<1>5. CASE flushed' = content /\ Goto("finished")
  <2>1. pc' = "finished" /\ own' = own
    BY <1>5 DEF Goto
  <2>2. Types' /\ OneName' /\ WindowKnows' /\ SuccessIsComplete'
    BY <1>1, <1>2, <1>5, <2>1, HelperFrame DEF TypeOK, Steps, Working
  <2>3. Found(pc)' = Whole /\ Found("sync") = Whole
    BY <2>1 DEF Found
  <2>4. /\ pc' \notin Working \cup Mounted /\ own' = "none" /\ victim' \in Disk
        /\ Found(pc)' \subseteq content'[victim'] /\ Whole \subseteq flushed'[victim']
    BY <1>1, <1>2, <1>5, <2>1, <2>3 DEF HelperKnows, Working, Mounted
  <2>5. QED
    BY <2>2, <2>4 DEF InstallInv, HelperKnows, Working
<1>6. QED
  BY <1>1, <1>4, <1>5

LEMMA HelperKeeps == InstallInv /\ Helper => InstallInv'
  BY ChecksKeep, CommandsKeep, MountsKeep, CopyKeeps, VerifyKeeps, UnmountsKeep, SyncKeeps
  DEF Helper
-----------------------------------------------------------------------------
(***************************************************************************)
(* The steps of the window and of the machine.                             *)
(***************************************************************************)
\* A shutdown is ordered while no helper runs.
LEMMA PowerKeeps ==
  ASSUME InstallInv, Power
  PROVE  InstallInv'
<1>1. /\ UNCHANGED <<at, mounted, content, flushed, power, offered, selected, verdict, helper>>
      /\ phase # "running" /\ phase' \in {"listing", "idle"} /\ ordered' = TRUE /\ On
  BY DEF Power, MayPower
<1>2. Types'
  BY <1>1 DEF InstallInv, Types, TypeOK, helper
<1>3. OneName' /\ WindowKnows' /\ SuccessIsComplete'
  BY <1>1
  DEF InstallInv, OneName, WindowKnows, PowerWaits, SuccessIsComplete, helper, On
<1>4. HelperKnows'
  <2>1. HelperKnows /\ pc = "none" /\ pc' = "none"
    BY <1>1 DEF InstallInv, WindowKnows, helper
  <2>2. QED
    BY <1>1, <2>1 DEF HelperKnows, Found, Working, Mounted, helper
<1>5. QED
  BY <1>2, <1>3, <1>4 DEF InstallInv

\* Nothing happens to a machine that is off; a helper that was ended with it was raced, and
\* what is said to be complete was written out before.
LEMMA OffKeeps ==
  ASSUME InstallInv, ShutsDown \/ PowerFails
  PROVE  InstallInv'
<1>1. /\ power' \in {"asked", "lost"} /\ (power' = "asked" => ordered) /\ mounted' = {}
      /\ content' \in {content, flushed} /\ flushed' \in {content, flushed} /\ content' = flushed'
      /\ UNCHANGED <<at, ordered, window, helper>> /\ Types
  BY DEF ShutsDown, PowerFails, InstallInv
<1>2. Types' /\ ~On'
  BY <1>1 DEF Types, TypeOK, window, helper, On
<1>3. OneName'
  BY <1>1 DEF InstallInv, OneName
<1>4. WindowKnows'
  BY <1>1 DEF InstallInv, WindowKnows, PowerWaits, window, helper
<1>5. SuccessIsComplete'
  BY <1>1 DEF InstallInv, SuccessIsComplete, window, helper
<1>6. QED
  BY <1>2, <1>3, <1>4, <1>5 DEF InstallInv

\* The steps of the window that leave the helper alone, and those it has when none runs.
LEMMA WindowKeeps ==
  ASSUME InstallInv,
         ShowDisks \/ Rescan \/ (\E p \in Path : Select(p)) \/ Ask \/ Decline \/ CloseReport
  PROVE  InstallInv'
<1>1. /\ On /\ UNCHANGED <<machine, helper>> /\ verdict' = verdict
      /\ phase \in {"listing", "idle", "confirm", "report"} /\ phase' \in {"listing", "idle", "confirm"}
      /\ offered' \subseteq Path /\ selected' \in Path \cup {NoPath}
      /\ phase' = "confirm" => selected' \in Path
  BY HelperTypes DEF ShowDisks, Rescan, Select, Ask, Decline, CloseReport, TypeOK
<1>2. Types'
  BY <1>1 DEF InstallInv, Types, TypeOK, machine, helper
<1>3. OneName' /\ WindowKnows' /\ SuccessIsComplete'
  BY <1>1
  DEF InstallInv, OneName, WindowKnows, PowerWaits, SuccessIsComplete, machine, helper, On
<1>4. HelperKnows'
  <2>1. HelperKnows /\ pc = "none" /\ pc' = "none"
    BY <1>1 DEF InstallInv, WindowKnows, helper
  <2>2. QED
    BY <1>1, <2>1 DEF HelperKnows, Found, Working, Mounted, helper
<1>5. QED
  BY <1>2, <1>3, <1>4 DEF InstallInv

LEMMA ConfirmKeeps ==
  ASSUME InstallInv, Confirm
  PROVE  InstallInv'
<1>1. /\ On /\ UNCHANGED machine /\ phase = "confirm" /\ phase' = "running" /\ verdict' = "none"
      /\ pc' = "validate" /\ target' = selected /\ raced' = ordered /\ moved' = FALSE
      /\ UNCHANGED <<offered, selected, file, fresh, own, victim>>
  BY DEF Confirm
<1>2. Types'
  BY <1>1 DEF InstallInv, Types, TypeOK, machine, Steps
<1>3. OneName' /\ WindowKnows' /\ SuccessIsComplete'
  BY <1>1 DEF InstallInv, OneName, WindowKnows, PowerWaits, SuccessIsComplete, machine, On
<1>4. HelperKnows'
  BY <1>1 DEF InstallInv, WindowKnows, HelperKnows, Found, Working, Mounted
<1>5. QED
  BY <1>2, <1>3, <1>4 DEF InstallInv

\* What the helper that finished knows is what the window says then.
LEMMA DoneKeeps ==
  ASSUME InstallInv, Done
  PROVE  InstallInv'
<1>1. /\ On /\ UNCHANGED machine /\ phase = "running" /\ phase' = "report"
      /\ pc \in {"finished", "failed"} /\ pc' = "none" /\ target' = NoPath
      /\ verdict' \in {"complete", "failed"} /\ (verdict' = "complete" => pc = "finished")
      /\ UNCHANGED <<offered, selected, file, fresh, own, victim, raced, moved>>
  BY DEF Done
<1>2. Types'
  BY <1>1 DEF InstallInv, Types, TypeOK, machine, Steps
<1>3. OneName' /\ WindowKnows'
  BY <1>1 DEF InstallInv, OneName, WindowKnows, PowerWaits, machine, On
<1>4. SuccessIsComplete'
  <2>1. CASE pc = "finished"
    <3>1. /\ victim \in Disk /\ Found("finished") \subseteq content[victim]
          /\ Whole \subseteq flushed[victim]
      BY <1>1, <2>1 DEF InstallInv, HelperKnows, Found, Whole
    <3>2. Found("finished") = Whole /\ victim # NoDisk
      BY <3>1, DiskAssumption DEF Found
    <3>3. QED
      BY <1>1, <3>1, <3>2 DEF SuccessIsComplete, machine
  <2>2. CASE pc # "finished"
    BY <1>1, <2>2 DEF SuccessIsComplete
  <2>3. QED
    BY <2>1, <2>2
<1>5. HelperKnows'
  BY <1>1 DEF InstallInv, HelperKnows, Found, Working, Mounted
<1>6. QED
  BY <1>2, <1>3, <1>4, <1>5 DEF InstallInv

LEMMA MachineKeeps ==
  ASSUME InstallInv, (\E d \in Disk, place \in Place : Automount(d, place)) \/ SourceChanges
  PROVE  InstallInv'
<1>1. /\ UNCHANGED <<at, content, flushed, power, ordered, window>>
      /\ UNCHANGED <<pc, file, target, own, victim, raced, moved>>
      /\ fresh' \in BOOLEAN /\ mounted' \in {mounted} \cup {mounted \cup {m} : m \in Disk \X Place}
  <2>1. CASE \E d \in Disk, place \in Place : Automount(d, place)
    BY <2>1, HelperTypes DEF Automount, TypeOK, helper
  <2>2. CASE SourceChanges
    BY <2>2 DEF SourceChanges, machine
  <2>3. QED
    BY <2>1, <2>2
<1>2. Types'
  BY <1>1 DEF InstallInv, Types, TypeOK, window
<1>3. OneName' /\ WindowKnows' /\ SuccessIsComplete'
  BY <1>1 DEF InstallInv, OneName, WindowKnows, PowerWaits, SuccessIsComplete, window
<1>4. On' => HelperKnows'
  <2>1. Found(pc)' = Found(pc) /\ On' = On /\ Dev' = Dev
    BY <1>1 DEF Found, Copied, On, Dev
  <2>2. QED
    BY <1>1, <2>1 DEF InstallInv, HelperKnows, Erasable
<1>5. QED
  BY <1>2, <1>3, <1>4 DEF InstallInv

\* Two disks trade their names; what a disk that is pulled has not written out is gone.
LEMMA MoveKeeps ==
  ASSUME InstallInv, NEW p \in Path, NEW q \in Path, Move(p, q)
  PROVE  InstallInv'
<1>1. /\ On /\ ~Writing /\ at' = [at EXCEPT ![p] = at[q], ![q] = at[p]]
      /\ mounted' \subseteq mounted /\ Live \notin {at[p], at[q]} /\ moved' = (moved \/ pc = "wipe")
      /\ content' = [d \in Disk |-> IF d \in {at[p], at[q]} THEN flushed[d] ELSE content[d]]
      /\ UNCHANGED <<flushed, power, ordered, window>> /\ p # q
      /\ UNCHANGED <<pc, file, target, fresh, own, victim, raced>>
  BY DEF Move
<1>2. Types /\ TypeOK /\ at \in [Path -> Disk \cup {NoDisk}] /\ HelperKnows
      /\ pc \notin Working \ {"wipe"} /\ own = "none"
  BY <1>1 DEF InstallInv, Types, TypeOK, HelperKnows, Writing, Working, Mounted
<1>3. Types'
  <2>1. at' \in [Path -> Disk \cup {NoDisk}]
    BY <1>1, <1>2
  <2>2. content' \in [Disk -> SUBSET Parts] /\ mounted' \subseteq Disk \X Place
    BY <1>1, <1>2 DEF TypeOK
  <2>3. QED
    BY <1>1, <1>2, <2>1, <2>2 DEF Types, TypeOK, window
<1>4. OneName'
  <2>1. \A r, t \in Path : at[r] = at[t] /\ at[r] \in Disk => r = t
    BY DEF InstallInv, OneName
  <2>2. QED
    BY <1>1, <1>2, <2>1 DEF OneName
<1>5. WindowKnows'
  BY <1>1 DEF InstallInv, WindowKnows, PowerWaits, window
<1>6. \A d \in Disk : flushed[d] \cap content[d] \subseteq content'[d]
  BY <1>1
<1>7. SuccessIsComplete'
  <2>1. SuccessIsComplete /\ victim \in Disk \cup {NoDisk}
    BY <1>2 DEF InstallInv, TypeOK
  <2>2. QED
    BY <1>1, <1>6, <2>1 DEF SuccessIsComplete, window
<1>8. HelperKnows'
  <2>1. CASE pc = "finished"
    <3>1. Found(pc) = Whole /\ Found(pc)' = Whole /\ Found(pc) # {}
      BY <1>1, <2>1 DEF Found, Whole
    <3>2. victim \in Disk /\ Whole \subseteq content[victim] /\ Whole \subseteq flushed[victim]
      BY <1>2, <2>1, <3>1 DEF HelperKnows
    <3>3. QED
      BY <1>1, <1>2, <1>6, <2>1, <3>1, <3>2 DEF HelperKnows, Working, Mounted
  <2>2. CASE pc = "wipe"
    <3>1. target \in Path /\ Dev # Live
      BY <1>2, <2>2 DEF InstallInv, WindowKnows, HelperKnows
    <3>2. Dev' \in {at[p], at[q], Dev}
      BY <1>1, <1>2, <3>1 DEF Dev
    <3>3. Dev' # Live /\ moved' /\ Found(pc)' = {}
      BY <1>1, <2>2, <3>1, <3>2 DEF Found
    <3>4. QED
      BY <1>1, <1>2, <2>2, <3>3 DEF HelperKnows, Working, Mounted
  <2>3. CASE pc \notin {"finished", "wipe"}
    <3>1. Found(pc)' = {}
      BY <1>1, <1>2, <2>3 DEF Types, Steps, Found, Working
    <3>2. QED
      BY <1>1, <1>2, <2>3, <3>1 DEF HelperKnows, Working, Mounted
  <2>4. QED
    BY <2>1, <2>2, <2>3
<1>9. QED
  BY <1>3, <1>4, <1>5, <1>7, <1>8 DEF InstallInv

THEOREM InstallInductive == Spec => []InstallInv
<1>1. InstallInv /\ [Next]_vars => InstallInv'
  <2>1. SUFFICES ASSUME InstallInv, [Next]_vars PROVE InstallInv'
    OBVIOUS
  <2>2. CASE UNCHANGED vars
    <3>1. /\ UNCHANGED <<at, mounted, content, flushed, power, ordered>>
          /\ UNCHANGED <<phase, offered, selected, verdict>>
          /\ UNCHANGED <<pc, file, target, fresh, own, victim, raced, moved>>
      BY <2>2 DEF vars, machine, window, helper
    <3>2. Types' /\ OneName'
      BY <2>1, <3>1 DEF InstallInv, Types, TypeOK, OneName
    <3>3. WindowKnows' /\ SuccessIsComplete'
      BY <2>1, <3>1 DEF InstallInv, WindowKnows, PowerWaits, SuccessIsComplete
    <3>4. On' => HelperKnows'
      <4>1. Found(pc)' = Found(pc) /\ On' = On /\ Dev' = Dev
        BY <3>1 DEF Found, Copied, On, Dev
      <4>2. QED
        BY <2>1, <3>1, <4>1 DEF InstallInv, HelperKnows, Erasable
    <3>5. QED
      BY <3>2, <3>3, <3>4 DEF InstallInv
  <2>3. CASE Power \/ ShutsDown \/ PowerFails
    BY <2>1, <2>3, PowerKeeps, OffKeeps
  <2>4. CASE Helper
    BY <2>1, <2>4, HelperKeeps
  <2>5. CASE Confirm
    BY <2>1, <2>5, ConfirmKeeps
  <2>6. CASE Done
    BY <2>1, <2>6, DoneKeeps
  <2>7. CASE ShowDisks \/ Rescan \/ (\E p \in Path : Select(p)) \/ Ask \/ Decline \/ CloseReport
    BY <2>1, <2>7, WindowKeeps
  <2>8. CASE (\E d \in Disk, place \in Place : Automount(d, place)) \/ SourceChanges
    BY <2>1, <2>8, MachineKeeps
  <2>9. CASE \E p, q \in Path : Move(p, q)
    BY <2>1, <2>9, MoveKeeps
  <2>10. QED
    BY <2>1, <2>2, <2>3, <2>4, <2>5, <2>6, <2>7, <2>8, <2>9 DEF Next
<1>2. QED
  BY <1>1, InstallInit, PTL DEF Spec
-----------------------------------------------------------------------------
(***************************************************************************)
(* What follows for every number of disks, names and files, and however    *)
(* often something fails.                                                  *)
(***************************************************************************)
\* The machine, the window and the helper stay in their domains.
THEOREM InstallTypes == Spec => []TypeOK
<1>1. InstallInv => TypeOK
  BY HelperTypes
<1>2. QED
  BY <1>1, InstallInductive, PTL

\* "Installation complete" is only said of a disk that has every part, written out.
THEOREM SuccessComplete == Spec => []SuccessIsComplete
<1>1. InstallInv => SuccessIsComplete
  BY DEF InstallInv
<1>2. QED
  BY <1>1, InstallInductive, PTL

\* A shutdown that the window ordered interrupts no installation but one that was
\* confirmed after it.
THEOREM PowerWaited == Spec => []PowerWaits
<1>1. InstallInv => PowerWaits
  BY DEF InstallInv, WindowKnows
<1>2. QED
  BY <1>1, InstallInductive, PTL

\* What a command of the helper takes from a disk, besides the copying of files.
LEMMA Taken ==
  ASSUME InstallInv, NEW d \in Disk, NEW without, NEW with, Dev \in Disk, own = "none",
         content' \in {content, [content EXCEPT ![Dev] = (@ \ without) \cup with]},
         Lost(d) # {}
  PROVE  d = Dev /\ Lost(d) \subseteq without
<1>1. content \in [Disk -> SUBSET Parts] /\ Lost(d) = content[d] \ content'[d]
  BY HelperTypes DEF TypeOK, Lost
<1>2. QED
  BY <1>1

\* Only wipefs and mkfs take a table or a file system from a disk that stays in place,
\* and they refuse one in use.
LEMMA OnlyTheVictim ==
  ASSUME InstallInv, [Next]_vars, NEW d \in Disk, Lost(d) # {}
  PROVE  d = victim' /\ Erasable(d) /\ Unmounted(d, Lost(d))
<1>1. /\ TypeOK /\ (On => HelperKnows) /\ content' # content
      /\ power' = "on" /\ at' = at /\ own = "none"
  BY HelperTypes DEF InstallInv, Lost
<1>2. (Wipe \/ Partition \/ FormatEsp \/ FormatConf \/ CopyFile \/ Bootloader \/ SeedConfig)
      \/ \E p, q \in Path : Move(p, q)
  BY <1>1
  DEF Next, vars, Helper, machine, ShowDisks, Rescan, Select, Ask, Decline, Confirm, Done,
      CloseReport, Power, ShutsDown, PowerFails, Validate, Preflight, Revalidate, Require, Keep,
      MountEsp, MountConf, MountStep, VerifyFile, UnmountEsp, UnmountConf, Cleanup, Unmount, Sync,
      Automount, SourceChanges
<1>3. CASE Wipe
  <2>1. /\ pc = "wipe" /\ HelperKnows /\ victim' = Dev /\ Dev \in Disk /\ ~InUse(Dev)
        /\ content' \in {content, [content EXCEPT ![Dev] = (@ \ {"table"}) \cup {}]}
    BY <1>1, <1>3 DEF Wipe, Writes, Step
  <2>2. d = Dev /\ Lost(d) \subseteq {"table"}
    BY <1>1, <2>1, Taken
  <2>3. Erasable(d)
    BY <2>1, <2>2 DEF HelperKnows, Erasable
  <2>4. Unmounted(d, Lost(d))
    BY <2>1, <2>2, FilesKnown DEF Unmounted, Of, Place
  <2>5. QED
    BY <2>1, <2>2, <2>3, <2>4
<1>4. CASE FormatEsp
  <2> DEFINE gone == {"oldesp", "boot"} \cup File
  <2>1. /\ pc = "mkesp" /\ HelperKnows /\ victim' = victim /\ <<Dev, "esp">> \notin mounted
        /\ content' \in {content, [content EXCEPT ![Dev] = (@ \ gone) \cup {"esp"}]}
    BY <1>1, <1>4 DEF FormatEsp, Writes, Step
  <2>2. Erasable(Dev) /\ victim' = Dev /\ Dev \in Disk
    BY <2>1 DEF HelperKnows, Erasable, Working
  <2>3. d = Dev /\ Lost(d) \subseteq gone
    BY <1>1, <2>1, <2>2, Taken
  <2>4. Unmounted(d, Lost(d))
    BY <2>1, <2>3, FilesKnown DEF Unmounted, Of, Place
  <2>5. QED
    BY <2>2, <2>3, <2>4
<1>5. CASE FormatConf
  <2>1. /\ pc = "mkconf" /\ HelperKnows /\ victim' = victim /\ <<Dev, "conf">> \notin mounted
        /\ content' \in
             {content, [content EXCEPT ![Dev] = (@ \ {"oldconf", "config"}) \cup {"conf"}]}
    BY <1>1, <1>5 DEF FormatConf, Writes, Step
  <2>2. Erasable(Dev) /\ victim' = Dev /\ Dev \in Disk
    BY <2>1 DEF HelperKnows, Erasable, Working
  <2>3. d = Dev /\ Lost(d) \subseteq {"oldconf", "config"}
    BY <1>1, <2>1, <2>2, Taken
  <2>4. Unmounted(d, Lost(d))
    BY <2>1, <2>3, FilesKnown DEF Unmounted, Of, Place
  <2>5. QED
    BY <2>2, <2>3, <2>4
<1>6. CASE Partition
  <2>1. /\ pc = "table" /\ HelperKnows
        /\ content' \in {content, [content EXCEPT ![Dev] = (@ \ {}) \cup {"table"}]}
    BY <1>1, <1>6 DEF Partition, Writes, Step
  <2>2. Dev \in Disk
    BY <2>1 DEF HelperKnows, Erasable, Working
  <2>3. Lost(d) \subseteq {}
    BY <1>1, <2>1, <2>2, Taken
  <2>4. QED
    BY <2>3
<1>7. CASE CopyFile \/ Bootloader \/ SeedConfig
  <2>1. pc \in {"copy", "boot", "seed"} /\ HelperKnows
    BY <1>1, <1>7 DEF CopyFile, Bootloader, SeedConfig, Writes, Step
  <2>2. QED
    BY <1>1, <2>1 DEF HelperKnows, Mounted
<1>8. CASE \E p, q \in Path : Move(p, q)
  <2>1. PICK p \in Path, q \in Path : Move(p, q)
    BY <1>8
  <2>2. p # q /\ at' = [at EXCEPT ![p] = at[q], ![q] = at[p]] /\ at' = at
    BY <1>1, <2>1 DEF Move
  <2>3. at[p] = at[q]
    BY <1>1, <2>2 DEF TypeOK
  <2>4. at[p] \notin Disk
    BY <2>2, <2>3 DEF InstallInv, OneName
  <2>5. content' = content
    BY <1>1, <2>1, <2>3, <2>4 DEF Move, TypeOK
  <2>6. QED
    BY <1>1, <2>5
<1>9. QED
  BY <1>2, <1>3, <1>4, <1>5, <1>6, <1>7, <1>8

\* A disk loses its table or its file systems only as the one disk worked on, and never
\* the medium, one that something is mounted from there, or one that is too small, but
\* for a disk that took the name after the last check of it.
THEOREM ErasedFree == Spec => ErasedWasFree
<1>1. InstallInv /\ [Next]_vars =>
        [\A d \in Disk : Lost(d) # {} =>
           d = victim' /\ d # Live /\ (d \in Small => moved) /\ Unmounted(d, Lost(d))]_vars
  BY OnlyTheVictim DEF Erasable
<1>2. QED
  BY <1>1, InstallInductive, PTL DEF Spec, ErasedWasFree
=============================================================================
