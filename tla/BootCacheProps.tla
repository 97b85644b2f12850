--------------------------- MODULE BootCacheProps ----------------------------
(* What the boot cache must guarantee.                                     *)
EXTENDS BootCache

\* Every variable stays in its domain.
TypeOK ==
  /\ release \in [Profiles -> Images] /\ profile \in Profiles
  /\ boot \in BootStep /\ {want, trust} \subseteq Images \cup {NoImage}
  /\ root \in Images \cup {NoFile} /\ origin \in {"none", "miss", "hit", "network"}
  /\ present \in BOOLEAN /\ mounted \in BOOLEAN /\ pid \in BOOLEAN
  /\ interrupted \in BOOLEAN /\ progress \in BOOLEAN
  /\ stage \in Stage /\ slips \subseteq Slips
  /\ disk \in [Files -> Data] /\ view \in [Files -> Data] /\ unsynced \subseteq Files
  /\ pc \in Step /\ part \in Parts \cup {NoPart}
  /\ writer \in {"none", "running", "ok", "failed"} /\ status \in {"none", "saved", "failed"}
  /\ deploys \in 0..MaxDeploys /\ losses \in 0..MaxLosses /\ kills \in 0..MaxKills
  /\ signals \in 0..MaxSignals /\ rots \in 0..MaxRots

\* "Every hit is verified before use", and a signed release is what runs, whatever is on
\* the stick and whenever the server's tree is exchanged.
RunsVerified ==
  boot = "running" =>
    /\ origin = "hit" => root = Key
    /\ profile \in Signed => root = trust /\ trust # NoImage

\* "The saved file is verified": a file on the medium that is named for a release is that
\* release, wherever power is lost or the stick pulled, unless the medium rots.
PublishedIsWhole ==
  rots = 0 => \A p \in Profiles, h \in Images : disk[<<p, h>>] \in {h, NoFile}

\* "Retain the previous cache until publication succeeds": a profile that could boot from
\* the stick can do so ever after, as far as the medium goes.
Cached(d, p) == \E h \in Images : d[<<p, h>>] = h
PreviousKept ==
  [][\A p \in Profiles : Cached(disk, p) => Cached(disk', p) \/ rots' # rots]_vars

\* "USB boot cache saved and verified" is on the medium, also if the stick is pulled as
\* soon as the user reads it.
SavedIsOnDisk == status = "saved" => disk[Target] = want

\* A save that was not killed leaves no writer and no progress behind, whatever fails and
\* wherever a signal meets it, unless it is in its cleanup; then also no mount, unless umount
\* failed, and no partial file on a stick that is still there, unless rm failed, too, or
\* the signal killed mktemp.
NothingLeft ==
  pc = "done" /\ kills = 0 =>
    /\ "signal" \notin slips => writer = "none" /\ ~progress
    /\ slips \cap {"signal", "umount"} = {} => ~mounted
    /\ slips = {} /\ losses = 0 => \A p \in Profiles, q \in Parts : disk[<<p, q>>] = NoFile

\* A save always ends, also when its writer fails or a signal meets its start.
SaveEnds == pc \in Busy ~> pc \in {"done", "off"}

\* "Retain only the currently advertised version and prevent a small USB from filling
\* over time": after a save has pruned, the advertised version is alone.
OnlyAdvertised ==
  pc = "saved" => \A f \in {profile} \X (Images \cup Parts) : view[f] # NoFile => f = Target
=============================================================================
