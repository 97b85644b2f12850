--------------------------- MODULE InstallerProps ----------------------------
(* What an installation must guarantee, of the window and of the helper as root. *)
EXTENDS Installer

\* The machine, the window and the helper stay in their domains.
TypeOK ==
  /\ at \in [Path -> Disk \cup {NoDisk}] /\ mounted \subseteq Disk \X Place
  /\ content \in [Disk -> SUBSET Parts] /\ flushed \in [Disk -> SUBSET Parts]
  /\ offered \subseteq Path /\ selected \in Path \cup {NoPath} /\ target \in Path \cup {NoPath}
  /\ file \in 0..Len(Files) /\ own \in Place \cup {"none"} /\ victim \in Disk \cup {NoDisk}
  /\ {fresh, ordered, raced, moved} \subseteq BOOLEAN

\* "Installation complete" is only said of a disk that has every part, each as it was
\* checked before anything was erased, written out so that no loss of power takes it.
SuccessIsComplete ==
  verdict = "complete" =>
    victim # NoDisk /\ Whole \subseteq (content[victim] \cap flushed[victim])

\* What a disk in place loses but to the copying of files, as a table, a file system or
\* something in one.
Lost(d) == IF power' = "on" /\ at' = at /\ own = "none" THEN content[d] \ content'[d] ELSE {}

\* Nobody's mounted file system is destroyed: a table goes only with nothing of the disk
\* mounted, a file system only when it is not.
Unmounted(d, parts) ==
  /\ "table" \in parts => ~InUse(d)
  /\ \A place \in Place : parts \cap Of(place) # {} => <<d, place>> \notin mounted

\* A disk loses its table or its file systems only as the one disk worked on, and never
\* the medium, one that something is mounted from there, or one that is too small, but
\* for a disk that took the name after the last check of it; whatever else was mounted
\* or moved since it was chosen.
ErasedWasFree ==
  [][\A d \in Disk : Lost(d) # {} =>
       d = victim' /\ d # Live /\ (d \in Small => moved) /\ Unmounted(d, Lost(d))]_vars

\* "Re-run it immediately before partitioning": no disk that is too small is erased.
\* It can be, if it takes the name between the last check and wipefs.
ErasedWasChecked == [][\A d \in Small : Lost(d) = {}]_vars

\* "Installation is still writing the disk; wait for it to finish": the shutdown that the
\* window orders, whenever it comes, interrupts no installation but one that was
\* confirmed after the order.
PowerWaits == power = "asked" /\ pc # "none" => raced

\* It interrupts none at all: not so, the window stays usable until the shutdown comes.
PowerWaitsAlways == power = "asked" => pc = "none"

\* "The disk this client booted from is never offered as a target."
NeverOffered == \A p \in offered : at[p] # Live
=============================================================================
