------------------------- MODULE CentralConfigProps --------------------------
(* What fetching, loading and saving the configuration must guarantee.     *)
EXTENDS CentralConfig

\* Every variable stays in its domain; no file ever holds what was rejected.
TypeOK ==
  /\ policy \in Policies
  /\ {stick, media, local} \subseteq Lists \cup {NoDoc}
  /\ remote \in Accepted \cup {NoDoc}
  /\ status \in [state : States, doc : Accepted \cup {NoDoc}]
  /\ {dhcpUrl, offer} \subseteq Urls \cup {NoUrl} /\ lock \in Fetchers \cup {Free}
  /\ pc \in [Fetchers -> Step] /\ url \in [Fetchers -> Urls \cup {NoUrl}]
  /\ copy \in [Fetchers -> Lists \cup {NoDoc}] /\ got \in [Fetchers -> Accepted \cup {NoDoc}]
  /\ booted \in BOOLEAN /\ registered \in BOOLEAN /\ hup \in BOOLEAN /\ link \in BOOLEAN
  /\ ui \in UiState /\ origin \in Origins
  /\ seen \in Lists /\ loaded \in Config
  /\ dialog \in [doc : Lists, blocked : BOOLEAN, open : BOOLEAN]
  /\ serves \in [Urls -> Docs \cup {NoDoc}]
  /\ events \in 0..MaxEvents /\ kills \in 0..MaxKills
  /\ boots \in 0..MaxBoots /\ served \in 0..MaxServed

\* A policy that requires central configuration is satisfied by the status
\* alone, so the status never says so before an accepted document is in place,
\* whichever process is killed wherever.
GateHasConfig == status.state \in {"current", "stale"} => remote \in Accepted

\* The two fetching processes never mix: unless one was killed half-way, the
\* status describes the very document that is in place.
StatusDescribesRemote ==
  lock = Free /\ kills = 0 /\ status.state \in {"current", "stale"} => status.doc = remote

\* "Preserve the last valid runtime copy during outages": within a boot nothing
\* that happens to the network, the server or a fetch closes the gate again.
GateStaysOpen == [][GateOpen => GateOpen' \/ boots' # boots]_vars

\* No script of the dispatcher, no signal and no load is under way.
Settled == booted /\ pc["dispatcher"] = "off" /\ ui = "idle" /\ ~hup

\* What load() returned is what the files say and the policy lets through. What
\* Settings returned has passed no gate, but is the list that the files say too,
\* unless save() could not write it.
ShowsFiles ==
  CASE origin = "files"   -> loaded = Gated(Layered)
    [] origin = "saved"   -> loaded.doc = Layered
    [] origin = "unsaved" -> TRUE

\* Once everything has settled the manager shows what the files say, under every
\* policy and however fetches, kills, restarts, loads, dialogs and saves interleaved.
LoadedIsFresh == Settled => ShowsFiles

\* An administrator's saved list is in use from then on, whatever is fetched and
\* reloaded in the same boot, unless the policy blocks every list or a newer one was
\* accepted that could not be written over it.
SavedWins == local # NoDoc /\ origin # "unsaved" => loaded.doc = local \/ loaded.blocked

\* A gate that a fetch of the dispatcher finds open, or opens, is opened in the
\* manager too: the news is not lost in a restart, a save, a load or a dialog.
GateReachesManager ==
  pc["dispatcher"] = "apply" /\ GateOpen
    ~> (ui = "idle" /\ ~loaded.blocked) \/ ~GateOpen

-----------------------------------------------------------------------------
\* "Required central configuration still fails closed": connections are only
\* ever offered once central configuration is in place.
RequiredMeansCentral == Required /\ loaded.doc # Empty => loaded.doc \in Accepted

\* A client "that booted before DHCP finished still picks up its server list":
\* once its link is up and everything has settled, a server that can be reached
\* under the URL in force, and serves an accepted document, has been asked.
LateLinkServed ==
  LET u == IF FixedUrl # NoUrl THEN FixedUrl ELSE dhcpUrl
  IN  Settled /\ link /\ u \in Allowed /\ serves[u] \in Accepted => status.state = "current"

\* A blocked client "stays in the support UI until approved central configuration
\* arrives": once it has arrived and everything has settled, nothing is blocked.
GateShown == Settled /\ GateOpen => ~loaded.blocked

\* "... until approved central configuration arrives": with nothing edited, the
\* list in use is the central one as soon as there is one.
CentralListShown == Settled /\ status.state = "current" => loaded.doc = remote
=============================================================================
