# Thinclient, verified

Thinclient turns a PC into an RDP/RemoteApp/VNC terminal: a Debian live image
whose GTK connection manager starts FreeRDP, configured from its boot medium, a
central server and a local settings dialog, bootable over PXE with an optional
USB cache, and installable to disk. This directory holds TLA+ models of its
stateful parts, the TLC runs that check them on small instances, and TLAPS
proofs of the properties that matter most.

File names below are relative to `src/overlay/usr/local/lib/thinclient/`,
`src/overlay/usr/local/{bin,sbin}/` or `src/tools/`, wherever the file is.

    tlc -workers 2 -config SessionManager_kiosk.cfg MCSessionManager.tla
    tlapm SessionManagerProofs.tla

`PROJECT.json` maps every definition that models code to the lines it models,
names the runs and their properties, a plausible bug of the code for each
property (the operators whose names end in `Bug`, each placed before the
definition it replaces), the hazards, the findings and the theorems.

# 1. The system

## Components

**Session lifecycle** (`manager.py` 321-1002, `sessionbar.py`, `bin/tc-session`).
State: `self.cfg`, `session_active`, `session_cancelled`, `cancel_reconnect`,
`reload_pending`, `session_proc`, `progress_dialog`, the timers of the automatic
connection and of the reconnect countdown, remembered credentials, the
disconnect marker file. Operations: `start_session`, `cancel_session_start`,
the worker (`_session_worker`, `_run_session`), `_session_launched`,
`_session_done`, `reload_config`, `schedule_auto_connect` and its timers,
`_reconnect_countdown`, `show_connection_error`; the bar's Disconnect; restart
by tc-session. Hard: every `Gtk.Dialog.run()` is a nested main loop below which
timers and signals go on; the worker shares flags with the main loop; FreeRDP
and the bar outlive a crashed manager; a configuration is announced once.
Correct when: one session at a time; a cancelled start leaves no client; every
session comes back to the list; no announcement is lost; no unattended
reconnect to a server that is no longer configured.

**Central configuration** (`configfetch.py`, `sbin/tc-fetch-config`,
`sbin/tc-apply-config`, the NetworkManager dispatcher `50-thinclient`,
`tcconfig.load`). State: `media-config.json`, `remote-config.json`,
`config-status.json`, `dhcp-config-url`, `fetch.lock`, the baked-in policy.
Operations: record the DHCP URL, fetch (at boot and from the dispatcher),
download, verify, validate, publish, write the status, load the layers, gate
the result on the policy. Hard: two processes fetch concurrently, each killed
after 40 s at any point; configuration and status are two files; the kiosk
loads while they change. Correct when: only validated configuration is ever
loaded; a policy that requires central configuration blocks every connection
until one was fetched; a URL learnt from DHCP is used.

**Saving settings** (`tcconfig.save`, `sbin/tc-save-config`, `settings.py`,
the administrator's part of `manager.py` 1002-1195). State: the local layer,
`media-config.json`, `config.json` on the TCCONF partition. Operations: save
the merged configuration locally, copy it to the medium, publish it as the media
layer, first-time password, Settings. Hard: three copies written one after
the other by two processes, with the fetch reading one of them; the dialog
works on a copy of `self.cfg` while it may be reloaded.

**Settings form** (`settings.py` `SettingsDialog`). State: the working copy of
the configuration, the current row, the widgets. Operations: select, add, copy,
remove, validate, store, choose the automatic connection. Hard: the form holds
one connection's edits while rows come and go. Correct when: an edit reaches the row
that was shown and no other, and Save hands over what was shown.

**Connection identities** (`tcconfig._assign_connection_ids`, `find`). A pure
algorithm: every connection gets a unique id, explicit ids win.

**Background jobs** (`uijobs.py`; users in `settings.py`, `installer.py`).
State: busy, closed, the pending finish. Operations: start, worker, dispatch,
finish, close. Hard: the answer arrives after the dialog is gone; generations of
workers of closed windows go on beside new ones. Correct when: what a window says of a
change or a test is true.

**Configuration and boot server** (`tc-config-server.py` `StatusMonitor`,
handler, server). State: active requests, recent history, clients, totals,
the durable state file; a bounded number of worker slots. Operations: begin,
bytes, finish, snapshot, persist, restore, quarantine, merge of an anonymous
client into its MAC, LRU eviction, slot acquire and release. Hard: handler
threads interleave between two locks; the process may crash between any two
writes; a client's identity changes while its download is active.

**Boot cache** (`sbin/tc-cache-save`, `live/boot/9991-thinclient-cache.sh`,
`uxstate.cache_status`). State: the image file and hash on the TCCACHE
partition, the partial copy, mounts. Operations: discover, copy, hash, publish,
prune; at boot verify, copy to RAM, fall back to HTTP. Hard: power loss or stick
removal at any step; signals during copy; verification of what is booted.

**Installer** (`installer.py`, `sbin/tc-install`, `sbin/tc-autoinstall`).
State: target disk, partitions, phase, the UI's job. Operations: validate
target, preflight, partition, format, copy, boot loader, seed configuration,
power off, delete. Hard: erasing; timeouts while root work continues; what a
failure half-way leaves. Correct when: only a free disk that may be erased is erased,
and "complete" is complete.

**tc-connect** (`bin/tc-connect`): command line sessions with the retry rule
of the manager. **Status and UX state** (`uxstate.py`, `metrics.py`,
`inventory.py`): bounded event log, recency. **Network settings dialog**
(`settings.py` `NetworkDialog`, `networkdiag.py`, `rdpprobe.py`): bounded
probes run as jobs. **Removable storage** (`sbin/tc-automount`). **Support
access** (`sbin/tc-prepare-support`): ssh only with a key from the medium.
**Diagnostics** (`sbin/tc-diag`). **Image build, PXE and release tooling**
(`build/`, `pxe/`, `deploy/`, the other `tools/`).

## How they interact

The boot service runs tc-fetch-config and tc-apply-config before the session
starts; the dispatcher runs both again on every link change and then sends the
manager SIGHUP. The manager reads what they wrote through `tcconfig.load`, and
writes through `tcconfig.save` and, with sudo, tc-save-config. The manager
starts FreeRDP and the bar as processes of their own; they share the marker
file with it. tc-session restarts the manager when it dies. The configuration
server answers the fetches, the PXE boots and the cache's downloads. Settings,
the installer and the network dialog run slow work as background jobs on the
same main loop the session lives on.


# 2. Modules

In order of what would hurt most if it were wrong:

| # | module | what | abstract specification | proofs |
|---|--------|------|------------------------|--------|
| 1 | `SessionManager` | session lifecycle | `SessionLifecycle` | every safety property of its runs and the refinement |
| 2 | `CentralConfig` | fetch, lock, dispatcher, policy, layers, saving | | every safety property of its runs |
| 3 | `StatusMonitor` | server accounting and capacity | | every safety property of its runs |
| 4 | `BootCache` | saving to the stick and booting from it | | every safety property of its run |
| 5 | `SettingsForm` | the Settings window, identities of rows | `SettingsEditor` | every property of its run, the refinement included |
| 6 | `NetworkDialog` with `NetworkReport` | background jobs, network settings, the network test | | every property of its run |
| 7 | `Installer` | erasing and installing a disk | | every property of its run |

Each component has a module of its own, a module of its properties (`...Props`),
one of model values (`MC...`) and, where there are theorems, one of proofs
(`...Proofs`). SessionManager takes the configuration as a version number;
CentralConfig says what "announced" and "on disk" mean. SettingsForm is what
happens between `OpenSettings` and `AcceptSettings` of CentralConfig. Modules 3 and
4 meet only over HTTP and stay separate. Worth doing next: a second
window of the installer beside a helper that still writes, and tc-connect.
# 3. Session lifecycle

`SessionManager.tla` is the component, `SessionManagerProps.tla` its properties,
`SessionLifecycle.tla` the abstract specification, `MCSessionManager.tla` the
model values, `SessionManagerProofs.tla` and `SessionSerialProofs.tla` the theorems.

## How the model corresponds to the code

*Main loop.* One action per GLib callback, executed atomically, as the main loop
does. The exception is what the code really interleaves: `Gtk.Dialog.run()`
returns only after further callbacks were dispatched. `frames` is the stack of
callbacks suspended in one - the credential dialog of `start_session`, the error
dialog of `show_connection_error`, the reconnect countdown - and only the
innermost can return. What the user can reach is `MainWindowReachable` (no
dialog modal above the window) and `Answerable`. The progress dialog is modal
but not run nested, hence the separate `progress`.

*Worker.* One action between two points at which another thread can interfere:
after the preflight, after building the command, `Popen`, publishing
`session_proc`, the second look at `session_cancelled`, `proc.wait`, the marker.
`Thread.start` may fail when `start_session` has already published the session
(`Launch`, `pc[w] = "unstarted"`): nobody will then call `_session_done`, and only a
restart of the manager helps. `GLib.idle_add` becomes `launchPosted[w]` and `pc[w] = "posted"`. A worker's
`_session_launched` precedes its own `_session_done`; the idle callbacks of
different workers may run in any order, which only adds behaviours.

*Processes.* `client[w]` is the FreeRDP process: running, sent SIGTERM, or ended
with an outcome (a clean exit, a dropped connection, a refused sign-in).
`bar[w]` is the session bar with the two steps of Disconnect, the marker and then
the signal. Writing the marker may fail, and the client is ended all the same
(`"unmarked"`): the worker then takes its end for a drop. Removing the marker may
fail too, and leaves it for the next session. Both survive a crash; a slot is reused only when neither is left.

*Outside.* `central` numbers the announcements of the dispatcher, whatever they
contain; `Signal` is its pkill and kills a manager that has not yet installed
its handler; `Crash` is any death of the process; `ManagerStarts` and
`ManagerReady` are tc-session, `__init__` and `main`. Fetching is one step here
(the store is `CentralConfig`'s subject).

*Data.* A connection is its id, the version of the configuration it came from
and whether the dialog filled in credentials; the rest of its fields decide
nothing here except through the sets `Prompting`, `Incomplete`, `Reconnecting`.
Texts, status lines, focus, the log and the kiosk-window details are left out.
Escape closing the progress dialog is left out: the window below it refuses a
second session through `session_active` alone.

## Properties and runs

`manager_kiosk` - stored credentials, automatic connection, reconnect, bar,
two updates, one crash: no announced configuration is forgotten
(`UpdateNotForgotten`), the window and the Connect button always have somebody
to give them back unless a thread failed to start (`WindowWillReturn`), one session (`OneSession`), Cancel
leaves no client (`CancelReachesClient`), automatic connection and reconnect
countdown never compete (`OneAutomaticPath`), a reload ends the countdown it
arrives in (`CountdownDiesWithReload`), a bar disconnect is final
(`DisconnectIsFinal`: once the bar has recorded it), and the whole implements
`SessionLifecycle`, in which a session ends only when its client has, unless the
manager process itself dies. A manager left with a thread that never started waits
for ever, so these runs do not check deadlock.

`manager_live` - a client that asks for credentials and never connects by itself,
under fairness: a refused sign-in is forgotten at once
(`RefusalForgetsCredentials`), cancelled starts come back (`CancelCompletes`),
ended sessions are reported (`SessionEndReported`), and configurations are
eventually used if sessions end (`UpdateEventuallyUsed`).

One run shows a disagreement between the code and its own comments:

* `manager_overlap`: `start_session` looks at `session_active` before the
  credential dialog and not after it. A SIGHUP during the dialog arms the
  automatic connection, its session starts below the dialog, and OK starts a
  second. The first to end clears `session_proc` of the second, whose Cancel
  then reaches no client. It takes a client with automatic connection *and* a
  connection that prompts; in `manager_kiosk`, where nothing prompts, the same
  property holds.
Two configurations are kept to be run by hand:

* `SessionManager_stale.cfg` refutes `UnattendedStartIsCurrent`: a reload remembered
  behind a failing session is applied in `_session_done`, which then offers "Try
  again" with the old connection object; its countdown reconnects, unattended, to a
  server no longer configured, which manager.py:542-544 means to exclude.
* `SessionManager_marker.cfg` refutes `MarkerIsOwn`: a bar that outlives a crash
  leaves its marker behind, and the next session's drop is taken for a deliberate
  end.

## Bounds

Two worker slots suffice for every overlap the code can produce between a
session and one other (an orphan of a crash, or an overlapping start); further
slots only repeat the pair. Two updates let one arrive while another is pending;
one crash gives a restart with orphans. Two connections distinguish the one that
connects by itself from another. Dialogs nest as deep as these bounds allow.

## Fairness

Weak fairness on each worker's steps (threads are scheduled; preflight, Popen and
the marker check are bounded by timeouts), on dispatching posted callbacks and
SIGHUP (the main loop never blocks: dialogs run it), on the dispatcher's signal,
on restarting the manager, and on the end of a client that was sent SIGTERM. None
on users, servers or a running client.

# 4. Central configuration and saving

`CentralConfig.tla` is the component, `CentralConfigProps.tla` its properties,
`MCCentralConfig.tla` the model values, `CentralConfigProofs.tla` the theorems.

## How the model corresponds to the code

*Fetching processes.* tc-config.service (`"boot"`) and the NetworkManager
dispatcher (`"dispatcher"`, at most one script at a time) run the same commands:
copy the TCCONF partition's `config.json` to a scratch file and rename it into
`/run`, read the URL, take `fetch.lock` or give way, download and validate,
rename the document, replace the status. One action per file that another
process can see, so that a `KillFetch` (the units' `timeout 40`) falls between any
two. tc-fetch-config and `configfetch.py` are one process: the timeout ends
both. The lock goes with the process.

*Manager.* `tcconfig.load` is two actions, `ReadLayers` and `ReadGate`, because
the layers and `config-status.json` are read one after the other. SIGHUP is
caught once and dispatched by the main loop, kills a manager that has not yet
registered its handler, and is otherwise the only thing that makes it load
again. `Save` is the first half of `tcconfig.save`: the local layer, which may fail to
be written; the helper is then called all the same. `SaveToStick` and `SaveToMedia` are
its two publications, either of which may fail. Settings holds a copy of `self.cfg`, below which
reloads go on.

*Data.* A document stands for the list of connections of a layer: the highest
layer that exists decides, as `_merge` does for lists. Fields that merge by key,
CA certificates, the signature's arithmetic and what tc-apply-config does to the
device are left out; validity is membership in `Accepted`. The status keeps its
state and the document whose hash it records. `policy` is chosen once: a malformed
`policy.json` makes the fetch demand a configuration like a required one, but
`tcconfig.load` then blocks every list whatever the status says. `origin` says whether
`self.cfg` was loaded or came from Settings, and in the second case whether the local
layer could be written. The helper is a step of the
manager here: its time limit cannot end a process that is root, so the manager waits
for it, and then calls a failure what may have been stored.

## Properties and runs

`config_managed` - an optional, a required and a malformed policy, a TCCONF partition, a
rejected document, a kill, an edit, saves that fail half-way, a reboot: at rest the
manager shows what the files say and the gate lets through (`LoadedIsFresh`); a saved
list stays in use (`SavedWins`). Where save() could not write the local layer both claim
nothing of the list that was accepted, and rightly: "storage failure must never make an
edit look like it was ignored" (manager.py:1087-1088), so it is in use until the next
load, which may find an older one on top - also where the helper succeeded and save() has
said that the settings will survive a reboot.

`config_gate` - required configuration, two accepted documents, a kill anywhere: the
status opens the gate only for a document in place (`GateHasConfig`) that it
describes (`StatusDescribesRemote`), no outage closes it again (`GateStaysOpen`),
and, under fairness, a gate that is open when the dispatcher has fetched opens in
the manager (`GateReachesManager`).

One run shows a disagreement between the code and its documentation:

* `config_password`: storing the first administrator password on a blocked client
  saves its empty list as the top layer, which hides the central list for the
  rest of the boot (and, on a TCCONF partition, below the central layer after it).

Four more configurations are kept to be run by hand; TLC refutes `LateLinkServed`
under the first, `RequiredMeansCentral` under the next two and `GateShown` under the
last:

* `CentralConfig_late.cfg`: a fetch that gives way to the holder of the lock may be
  the one that knows the URL; the holder fails and nobody asks the new server, against
  50-thinclient:2-3.
* `CentralConfig_race.cfg`: layers read before a fetch publishes, status after: the
  factory connections pass a gate that was opened for others, until the next SIGHUP.
* `CentralConfig_edit.cfg`: a list made in Settings on a blocked client is used at
  once; the gate is in `tcconfig.load` only.
* `CentralConfig_dialog.cfg`: a dialog opened while blocked and accepted after the
  configuration arrived puts the block back.

## Bounds

One kill suffices: a killed fetch leaves files and a free lock, and the next one
only sees those. Two link events let the dispatcher fetch while the boot service
does and again afterwards with another URL. Two URLs distinguish an allowed from a
rejected one, two accepted documents an old from a new one. One reboot shows what
survives in the partition.

## Fairness

Weak fairness on the scripts (each command is bounded by a timeout) and on the
manager's steps; strong fairness on `Reload`, because the main loop dispatches a
caught SIGHUP even if an administrator opens and closes dialogs for ever. None
on the network, the server or the administrator.

# 5. Boot server

`StatusMonitor.tla` is the component, `StatusMonitorProps.tla` its properties,
`MCStatusMonitor.tla` the model values, `StatusMonitorProofs.tla` the theorems.

## How the model corresponds to the code

*Two locks.* Whatever runs under `_lock` - begin, add_bytes, finish - is one
action on `mem`. `_persist` takes `_persistence_lock`, then a snapshot under
`_lock`, and writes without it: `Snapshot` and `Commit`, between which other
threads go on. `doc[t]` is the serialized document a thread holds.

*A handler thread.* `handle` (the request is read), `begun`, `writeBegun`,
`serve`, `settled`, `writeSettled`, `leave`. A response has a Content-Length, none,
or is an error; it is successful if it was sent completely and nothing broke.
`Accept` and `Leave` are the semaphore around it, `Reject` the answer 503 without
a thread. Requests for the status pages are not counted.

*The document* is a record with the fields of the JSON file that are counters,
the ordered clients, the active requests by id and the bounded history. It is
the same for memory and file, as `_state_document_locked` and `_restore_state`
make it; times, rates, paths, user agents and the instance name are left out.
What a list of clients or requests adds up to is `SumTo`, a recursive function, so that
it can be proved about; `Descending` is the order in which the recovery files the
interrupted requests, the newest last and so first in the history.
`Start` is the constructor: restore or quarantine, settle what was in flight as
failed, commit. `StartUnread` is the same constructor on a disk that fails to read a good
file: `except OSError` treats it as an invalid one, so the file is renamed, or not even that,
and the server begins from an empty document. `overlooked` is a history variable: the state
file is still the one that could not be read. `Crash` is any end of the process; only `file` survives. A write
may fail before or after the rename, and sets `_persistence_error`.

## Properties and runs

The constants stand for what the code has: addresses and MACs are finite and different
(`MonitorAssumption`), and a file that is missing or unreadable is none of the documents
(`FileAssumption`).

`server_crash` - two handlers, two clients, a crash, a failing disk: no request is
lost (`NoneLost`) or settled twice (`SettledOnce`) across recovery, what was
answered is durable (`ServedIsDurable`), the file never goes back
(`FileMonotone`). The one exception the code makes is stated in the property: a start that
cannot read the file discards what it has (the renamed copy is never read again), and if
it could not even rename it, the next commit replaces it by less. Until then health
reports the error (`ServedIsDurable`). A client names its MAC while downloads of its
address are in flight: everything stays attributed to exactly one client, and where
there is no room for all of them to one at most (`AllAttributed`), and downloads follow
the MAC (`InFlightFollows`).

`server_pool` - one client more than there is room for and a failing disk, under
fairness: the bounds of the document (`TypeOK`), and every accepted connection
gives its thread back (`WorkersReturn`).

`StatusMonitor_evicted.cfg` is kept to be run by hand; TLC refutes `InFlightFollows`
under it. With more clients than `max_clients` the anonymous record of a download
in flight may be evicted before its client names its MAC; `_touch_client` then
finds nothing to merge and leaves the download anonymous, against the changelog. What
the evicted client had done is forgotten with it, so that the clients then hold less
than the server counted; `AllAttributed` says that they never hold more.

## Bounds

Two handlers interleave every pair of steps of the two locks; a third only
repeats them, because what they share is one document. Two or three requests give
an older one in flight while a newer one settles. One crash suffices for recovery:
what a second one finds is again a file of the same shape, and the proofs below
hold for any number. Size 1 makes a body complete, partial or without length, and `MaxSent` 2 in `server_crash`
longer than announced, because the file grew while `copyfile` sent it.

## Fairness

Weak fairness on each thread's own progress (`Ending`): sockets time out after
30 s, so a handler that waits for a client gets on, and the lock's holder writes
and releases. `_lock` is held only within one action, so that an inversion of the two
locks is not something these runs could find. The requests are bounded, so a waiting thread is not overtaken for
ever; Python's lock gives no such promise by itself. None on clients.


# 6. Boot cache

`BootCache.tla` is the component, `BootCacheProps.tla` its properties,
`MCBootCache.tla` the model values, `BootCacheProofs.tla` the theorems.

## How the model corresponds to the code

*Booting.* `PowerOn` is the PXE menu: it names the profile and the release it was
rendered for. `VerifyManifest`, `Restore` and `Download` are
`tc_verify_release_manifest`, `tc_cache_restore` and `do_httpmount_network` of the
initramfs hook; any of them may fail. `Signed` are the profiles whose initramfs
carries a public key. The server's tree may be exchanged (`Deploy`) between any
two steps.

*Saving.* tc-cache-save is a sequence of commands, `pc` the next one; each may
fail, which exits, and every exit runs `cleanup`. `After` is the order of the
commands once the copy is made. `tee` is a process of its own (`Write`): it may end
before, while or after the loop looks, and may stop short without saying so. A
signal exits at once, except while the writer is being started, when
`interrupt` only takes note of it (`Deferred`); systemd sends it to the whole group,
so that it may kill `mktemp` between making the file and printing its name
(`InterruptMktemp`). `Kill` is SIGKILL, after which nothing is cleaned up until systemd
unmounts.

*Cleaning up.* `stage` is the next command of `cleanup`: `StopWriter`, `RemovePart`,
`RemoveProgress`, `Unmount`, `ReportFailed`. Its `rm -f` and `umount ... || true` are
unchecked, and the traps of HUP, INT and TERM stay armed in the EXIT trap, where their
`exit` ends the shell and with it the rest of the cleanup (`InterruptCleanup`); a writer
that is still there is then systemd's to end (`Reap`). `slips` remembers which of these
has kept a cleanup from its work.

*The medium.* `view` is the file system as the running system sees it, `disk` what
is on the stick, `unsynced` the files whose data was not flushed. A write, rename
or removal changes `view`; `sync -f` and unmounting make `disk` equal. On a loss of
power or of the stick, `Left` takes each difference or leaves it, independently,
and of unflushed data perhaps a piece - the weakest promise a file system makes
about what was not flushed. A stick may rot, or be edited elsewhere, while the
client is off.

*Data.* A SHA-256 names the image it was computed from; a content is an image or
`Partial`. Left out: the discovery of devices and its waiting times, several
sticks (the first that works is used), the menu entry without a cache, and the texts of cache-status and cache-progress.

## Properties and runs

`cache_stick` - two profiles, one of them signed: nothing unverified runs, whatever
is on the stick and whenever the tree is exchanged (`RunsVerified`); what is named
for a release is that release wherever power is lost (`PublishedIsWhole`); a
profile that could boot from the stick still can (`PreviousKept`); "saved" is on the
medium (`SavedIsOnDisk`); a save leaves nothing behind and ends
(`SaveEnds`, under fairness). `NothingLeft` claims as much as the code does: no writer and
no progress, unless the signal met the cleanup itself; no mount, unless `umount` failed;
no partial file, unless `rm` failed, the stick is gone or the signal killed `mktemp`. A
partial file that stays is there for good (below).

`BootCache_leftover.cfg` is kept to be run by hand: pruning looks at `*.squashfs` only, so that
the `.part` file of a save that lost its power is never removed, and each is as
large as the image; the comment at
tc-cache-save:200 promises that the stick does not fill up (`OnlyAdvertised`).

## Bounds

Two images are an old and a new release; one exchange of the tree gives menu,
manifest and download their three combinations. A loss, a kill, a signal, a rotten
file, a failed `rm` and a failed `umount` may each come at any step, and any two of them
together in any order (`MaxFaults`): what one undoes of another's precautions takes two. A second temporary
name only matters where one was left behind: `BootCache_leftover.cfg` has two.

## Fairness

Weak fairness on tc-cache-save's own steps and on its writer: commands return, also
with an error. None on power, the stick, signals or the server.

# 7. Settings form

`SettingsForm.tla` is the component, `SettingsEditor.tla` the abstract
specification, `SettingsFormProps.tla` the properties and the refinement,
`MCSettingsForm.tla` the model values, `SettingsFormProofs.tla` the theorems.

## How the model corresponds to the code

*The form* is one set of widgets for all rows: `form` is what they hold, `current`
the row they are written back into (`_store_form` is `Stored`). `EditChecked` and
`ChooseProtocol` are the fields whose signals call `_validate_form`; the others
(`EditOther`) stay in the widgets until something stores them. `Show` is
`_reload_conn_list` followed by the selection it makes: GTK emits `row-selected`
with no row when the selected one is removed from the list, and with a row when
one is selected, so that one click is `_on_row_selected` storing the old row and
filling in the new. `Populated` is `_load_form`: under `_loading_form` the signals
of the widgets change nothing else. Ctrl-click deselects.

*Identities.* `Assigned` is `_assign_connection_ids`, a recursive function over the
rows of a file: `Take` is one turn of the loop, `ReadTo` what it has
made of the first n. A name is a base and a number, `conn<n>` or `<id>-copy<n>`;
`Fresh` is the loop that counts up to a free one. Loading forgets a start-up row that is missing.
That a blank name is replaced by the host or the identity is left out: a name decides nothing here.

*Data.* A text is acceptable or not. The port is that of one of the two
protocols, because a switch of protocol takes it along. Values that the widgets
would change on the way (a port of 70000) are normalised by `load` before. Of the
device page only the start-up choice is modelled. What is typed into the form of a
list that was empty from the start has no row and is dropped, by the code and the
model. `_on_response`'s own refusal cannot happen: Save is greyed then.

## Properties and runs

`settings_edit` - from lists without rows, with rows that share an identity and rows
that have none: every row has an identity of its own and the start-up choice is one
of them (`RowsAreSound`); Save is offered exactly when all rows, the one in the
form as the form has it, are valid (`SaveTellsTruth`); and the form implements an
editor (`ImplementsEditor`): a step changes one field of the chosen row and nothing
of any other, a copy is a copy, Save hands over all that was shown and Cancel
nothing. docs/UI-UX.md promises the last two. `MCSettingsForm` also evaluates
`WellAssigned` - the first row of an identity keeps it, the others get names that no
row brings - for each of the 781 lists of up to four rows over five names; the theorem
`LoadKeepsFirst` is the same for every list.

## Bounds

Three rows: one to edit, one beside it, one to add. Four changes, any number of
selections between them: to edit a row, add or copy one, edit that one and remove
either. There is no fairness: nothing has to happen.

# 8. Network window

`NetworkReport.tla` holds the network test and its rows as operators,
`NetworkDialog.tla` the window with its workers, `NetworkDialogProps.tla` the
properties, `MCNetworkDialog.tla` the model values, `NetworkDialogProofs.tla` the proofs.

## How the model corresponds to the code

*Jobs.* `Start`, `Answer` and `Finish` are `BackgroundJob`: one job per window,
refused while it runs, its answer dispatched to the GTK thread and dropped if the
window is closed; a thread that cannot start is reported at once. A worker runs one
command after the other (`_configure_wired`: show, connect, show, modify, up), one
action each, and any command may be refused, time out with or without its effect,
or not start. Of the command that shows the profile only the output is looked at: if it
fails, the device counts as unconnected and is connected (`Unnamed`). The time limit cannot end a command that sudo runs as root: the
worker waits for it, so none goes on behind its back. But a *window's* end does not
end its worker: `job[w]` and `test[w]` go on beside those of the next window.

*The test* (`_run_network_test`, `run_preflight`) looks at the network five times,
and the network may change in between. `Look` is one check with what was found
before it, `Rows` is `parse_network_report`. A check that fails itself - no process, no
time left, an answer that cannot be read - finds nothing (`Told`), and says FAILED of
what exists; `unable` remembers the lines this happened to. A target is what `normalize_target`
makes of a connection: invalid, an address or a name, behind a gateway or not. The
report of an exception has no lines. The ping decides no row and is left out.

*NetworkManager* is external: one wired device with one profile, what the profile
says, what the device uses, and the Wi-Fi it joined. `Reach` says what is true of
the server on each network. Refusing an address without prefix is left out.

## Properties and runs

`network_tools` - two windows, two presses of buttons, one fault: the sentence under
a finished job is true (`MessageTellsTruth`): applied settings are stored and in use,
saved ones are stored, a refusal left the profile alone. This excludes jobs during
which another worker or a cable changed the network: there the sentence may be out
of date, and TLC shows such a state as soon as `disturbed` is dropped. And every row
of the test is true of a network there was while it ran (`ReportIsTrue`): what passed
worked; what failed did not, or its own command failed, or its name was not found; nothing is
tried beyond what failed, and a private service behind a gateway is never said to
work. A target that was never looked at is the exception that the code makes: its
Network and Gateway rows say FAILED.

`NetworkDialog_answer.cfg` is kept to be run by hand; TLC refutes `TestAnswered` under
it. If the thread of the test cannot start, the exception leaves "Run Network Test"
greyed for good, although the comment at settings.py:785 wants to fail visibly.

## Bounds

Two windows give every overlap of a worker left behind with a new one; two presses
let the second window apply other settings, or test, while the first still does.
Fairness is on workers, whose commands have time limits.

# 9. Installer

`Installer.tla` is the component, `InstallerProps.tla` the properties,
`MCInstaller.tla` the model values, `InstallerProofs.tla` the proofs.

## How the model corresponds to the code

*The window* (`installer.py`) lists, asks, waits and reports: `phase`. Its dialogs
are modal. `Power` only starts systemctl: the window stays as usable as before until
the shutdown comes (`ShutsDown`), which ends every process and writes out what is
mounted. An order that fails has no effect and is no step. The time limit on the helper cannot end a process that is root:
`subprocess.run` waits for it and then reports a failure, whatever the helper
achieved (`Done`). The first row of the list is selected at once, even one that is
greyed because its disk is too small: the helper is what refuses it.

*The helper* (`tc-install`) is one action per command: `Require` for those that
check, `Writes` for those that write, each of which may fail with or without effect,
`MountStep` and `Unmount` for its own mounts, which every exit tries to release.
`Installable` is `validate_target`, which runs twice. If findmnt fails, the medium
is a candidate like others, but what is mounted of it still refuses it.

*The disk* holds parts: a partition table and, in the places of its second and third
partition (`Of`), file systems, files, boot code, settings. An old table may show old
file systems in both. A write changes `content`; `flushed` is what a loss of power
leaves. The last unmount of a file system writes it out, another mount of it keeps it
from that, and `sync` is for this case. Write-back errors that umount or sync do not report
are not modelled. A copy of a source that changed after it was hashed is not
the file (`fresh`).

*The machine.* `Automount` is udev with tc-automount, for each file system of sticks and
cards but one labelled as settings. `Move` plugs disks elsewhere, so that a name means another disk
than the one that was listed: at the confirmation the window shows a name and a
size, and the helper looks at names only. A disk may move up to the first write, also
between the second validation and wipefs (`moved`); that a disk stays plugged in while it
is written is assumed. wipefs refuses a disk of which anything is mounted, mkfs
only a partition that is; both are external.

## Properties and runs

`installer_disk` - the medium, a stick, a disk that is too small, two installations,
two failures and a moved disk: "Installation complete" is said only of a disk that
holds everything, written out (`SuccessIsComplete`); what loses its table or its file
systems is the one disk worked on, never the medium, and nothing destroyed is mounted
(`ErasedWasFree`); a shutdown that the window ordered, whenever it comes, interrupts
no installation but one confirmed after the order (`PowerWaits`).

Both have an exception that the code makes. Three configurations are kept to be run by hand,
and TLC refutes what they state:

- `Installer_gap.cfg`, `ErasedWasChecked`: a disk that takes the name between the
  second validation and wipefs is erased without a check, be it too small, unless something
  of it is mounted, although the validation is there to be "immediately before
  partitioning" (tc-install:115). The medium cannot be erased that way: wipefs refuses it.
- `Installer_cut.cfg`, `PowerWaitsAlways`: Restart is pressed, and an
  installation confirmed before the shutdown comes is cut off by it.
- `Installer_offer.cfg`, `NeverOffered`: if findmnt does not answer while the list is
  made, the list offers the disk the client booted from, which the window's own text
  and the README exclude.

Left out: a window that dies while the helper writes (its successor knows nothing of
it and offers Restart), `toram`, where nothing of the medium stays mounted, tc-autoinstall,
a thread that cannot start, which leaves the window waiting for ever (installer.py:207),
and what GRUB writes.

## Bounds

Three names for three disks give every assignment and exchange, and one move puts
any disk at the name worked on. Two failures let
one installation fail and leave something behind for the next; two files have one
copied and verified while the other is missing. No fairness is assumed: what is
checked is safety.
# Proofs

`SessionManagerProofs` proves, from `ManagerAssumption` alone:

* `TypeCorrect`: `Spec => []TypeOK`. `TypeOK` is not inductive: that a worker
  reports one of the outcomes needs `ClientKnown` - past Popen there is a client,
  past proc.wait() it has ended. `TypeInvStep` has one step per action; the stack
  of dialogs is handled once, in `FrameSteps`.
* `UpdateKept`: `Spec => []UpdateNotForgotten`, and `WindowKept`: `Spec =>
  []WindowWillReturn`, both from `PromiseInv`. The two need each other's worker:
  a pending reload is only safe behind an active session that has a worker left
  (`ActiveHasWorker`), a hidden window needs a worker past its launch whose
  `_session_launched` has already run (`HiddenHasWorker`), and a queued
  `_session_launched` belongs to a worker that has not reported yet
  (`LaunchIsOfWorker`). These hold with overlapping sessions too, for any number
  of workers, versions and crashes.

`SessionSerialProofs` proves what holds of sessions that cannot overlap. The overlap of
section 3 takes a credential dialog with an automatic connection below it, so it is
excluded by `Serial`: no connection asks for credentials, or none connects by itself. It
is a hypothesis of each theorem that needs it, in its statement, and what the kiosk and
the prompting client of the two runs satisfy in the two ways there are.

* `NeverDoubled`: `Spec => []OneSession`. The invariant `SerialInv` says why under either
  half of `Serial`: a dialog that asks never opens, so that every start looks at
  `session_active` in the callback that sets it; or a dialog stands alone, with no
  automatic connection waiting and never beside a session (`DialogAlone`).
* `CountdownCurrent`: `Spec => []CountdownDiesWithReload`, without `Serial`. On any stack
  only the topmost countdown can still elapse (`StackGood`): a new one opens only while
  `_countdown_id` is clear, and a reload answers all of them.
* `OneWay`: `Spec => []OneAutomaticPath`.
* `CancelReaches` and `LeavingIsFinal`, from `WorkInv`, which follows one worker through
  its steps: from the second look at the flag on its client is the one `session_proc`
  names, and a Disconnect through its bar is remembered by the marker until it is
  consumed and by the outcome afterwards. Bars that outlived an earlier manager may write
  the marker at any time, and nobody else can consume it; a bar that could not write it
  is outside the claim.
* `RefusedForgotten`: `Spec => []RefusalForgetsCredentials`.
* `LifecycleImplemented`: `Spec => ImplementsLifecycle`, the refinement of
  `SessionLifecycle`, from all of the above, the order of versions (`NewsOrder`) and the
  promise that a hidden window has a worker past its launch.

`CentralConfigProofs` proves, from `ConfigAssumption` alone, for any documents, URLs,
kills, link events and reboots:

* `ConfigTypes`: `Spec => []TypeOK`; `TypeOK` is inductive, and includes that only
  accepted documents are ever published in `/run`.
* `GateSound`, `StatusTruthful`, `GateKept`: one invariant, `GateInv`, carries all
  three. Between renaming a document and writing the status only the holder of the
  lock acts, so whoever is there *is* the holder (mutual exclusion), and what it
  fetched is what is in place; a fetch that failed looks at `remote` again.
* `SavedStays`: a saved list is loaded, is about to be read, or is blocked.
* `LoadedSettles`: under every policy the manager at rest shows what the layers say
  and the gate lets through. The invariant counts the news: as long as what was read
  differs from the layers or the status, a script that will signal, a caught SIGHUP or a
  load is on its way. A save changes the layers under what is shown, and `StoredShows`
  says why that is harmless whichever of its writes fail.

`StatusMonitorProofs` proves, from `MonitorAssumption` and, for
`NeverOlder`, `FileAssumption`, every safety property of its two runs, for any number of
threads, addresses, requests, crashes and failed writes:

* `Conservation`: `Spec => []NoneLost`, and `ServedDurable`: `Spec =>
  []ServedIsDurable`, both from `LedgerInv`. A document in memory, on disk or
  under way is sound; the thread that holds the lock carries a document that
  covers every request whose begin or finish has returned (`WriterCovers`), because
  none can return while it holds the lock; so what it commits covers them too.
  The lemmas `RegisteredSound` to `AddedSound` say what each operation does to the
  counters and to the requests in flight.
* `SlotsKept`: `Spec => []SlotsConserved`.
* `HistoryOnce`: `Spec => []SettledOnce`, `Attribution`: `Spec => []AllAttributed`, and
  `DownloadsFollow`: `Spec => []InFlightFollows` while `Cardinality(Keys) <= MaxClients`,
  all from `KeptInv`: every document there is - in memory, on disk, under way - is `Kept`.
  A document is kept when it is `Written` (its lists are lists of what they should hold,
  keys and history distinct), `Bounded` (no counter of the clients together exceeds the
  server's), and, while there is room for every client, `Attributed`: the counters are
  equal (`Balanced`), whoever has a request in flight is remembered (`Owned`), and no
  request stayed with an address that has named a MAC since (`Follows`). `Owned` is what
  eviction breaks, and why `DownloadsFollow` has its hypothesis; TLC's counterexample of
  `StatusMonitor_evicted.cfg` is that it is needed. One lemma per operation says that it
  makes a kept document of a kept one: `RegisteredKept`, `AddedKept`, `SettledKept`,
  `RecoveredKept`.
* `NeverOlder`: `Spec => FileMonotone`, from `KeptInv` and `OrderInv`: the file, unless it
  is one the constructor could not read, precedes
  the document of the thread that holds the persistence lock, and that one precedes
  memory, because it was taken under the lock and every operation only goes on (`GoesOn`).
* `MonitorTypes`: `Spec => []TypeOK`.

What the clients hold together is a sum, and the library's induction theorems are of no
use to these provers. The sums are therefore proved about with an induction of their own:
a set of numbers that has 0, and n + 1 with every n, is all of `Nat`, since the numbers
that are missing from it would have a least (`EveryNumber`, from `WFMin` and
`NatLessThanWellFounded` for the order of `Nat`; each use names the set). `SumsExist` shows
that the recursion has a solution and `SumStep` that `SumTo` is it; `SumPlus`, `SumSame`, `SumLess`,
`SumOne`, `SumWithout` and `SumByColumns` are the arithmetic of lists the operations
need. `RecoveredKept` is where they meet: the bytes of all interrupted requests are those of
the clients they are charged to, a table added up by rows and by columns
(`SentByClient`). `DescendingIs` shows by counting that the recovery's order names each
interrupted request once.

`BootCacheProofs` proves every safety property of `cache_stick`, from `CacheAssumption`
alone, for any profiles, images, losses, signals, kills and rot: `BootVerified`,
`OnlyWhole`, `PreviousStays`, `SavedForGood`, `CleanExit` and `CacheTypes`. The inductive
invariant `CacheInv` has a part for each question and one lemma per part:

* `BootSteps`: what boots is known before it runs.
* `SaveSteps`: a writer belongs to a step that will wait for it, and to a process id as
  soon as a signal can end the script. This is why `cleanup` always finds it.
* `FilesKnown`: only temporary files are ever unflushed, and the one that is renamed was
  flushed and hashed.
* `FilesGood`: what is named for a release is whole in the view *and* on the medium,
  because a loss picks from both; and a profile that can boot has an image that is
  the same in both, which no loss can take. `LossGood` is that argument.
* `Tidy`: a temporary file belongs to the save that is running.

`SettingsFormProofs` proves every property of `settings_edit`, from `RestsAssumption` and
`RawAssumption` (the rows of a file's lists are rows): `RowsSound`, `SaveIsTruthful` and
`FormImplementsEditor`, for any number of rows and changes.

* `LoadKeepsFirst`: every list of a file is loaded as `WellAssigned` says, whatever
  identities it repeats, leaves out or has taken from the generator. `SoFar` is the
  invariant of `_assign_connection_ids`' loop and `TakeGood` one turn of it; the induction
  over the rows is that of the sums above. What is loaded has an identity per row
  (`LoadedGood`), which is where the next theorems start.
* `RowsSound` rests on `FreshNumber` finding a free number among one more than are
  taken, a counting argument over finite sets (the pigeonhole).
* `SaveIsTruthful` needs that the form and the row it writes to only ever differ in
  fields that are not checked.
* `FormImplementsEditor` maps the draft to the rows with the form stored in its own;
  each step of the form is a step of `SettingsEditor` or, for a selection of what is
  selected, none.

`NetworkDialogProofs` proves every property of `network_tools`, from `BoundAssumption` and
`ReachAssumption`, for any number of windows, settings, networks, presses and failures:
`MessageTrue`, `ReportTrue` and `DialogTypes`.

* `MessageTrue` rests on `JobInv`: a job that nothing disturbed knows, stage by stage, what
  its own commands have made of the profile and the device, and the window repeats only
  the job it has finished. A command of one worker either changes nothing or disturbs
  every other (`OthersKnow`), so each needs to be looked at for its own job only.
* `ReportTrue` rests on `TestInv`: the lines found so far are true of a network that was
  seen (`Sound`) and come in the order of the checks (`InOrder`). `LookSound` is one check,
  `SeenMore` that a change of the network meanwhile takes nothing away, `RowsSay` what
  the rows make of the lines. A line whose own command failed is in `unable`, and a FAILED of it
  claims nothing; what passed is claimed to have worked in any case.

`InstallerProofs` proves every property of `installer_disk`, from `DiskAssumption` and
`FilesAssumption` (the files copied differ from each other and from the other parts), for any
number of disks, names, files, failures and moves: `SuccessComplete`, `PowerWaited`,
`ErasedFree` and `InstallTypes`. The inductive invariant `InstallInv` says that the window
waits exactly while a helper runs, that one running under a shutdown already ordered was
raced by it from the start, that no two names are one disk, that the helper's own mount is
there for exactly the steps that need it, and what each of its steps finds on its
disk (`Found`): the parts written before it, file by file.
`WritesKeep` shows for every command alike that a failure needs nothing and a success
leaves what the next step expects; `CopyKeeps` is where two files that are one would
break it. For `ErasedFree` the argument of `OnlyTheVictim` is that only wipefs and mkfs
take anything away (`Taken`); that the disk wipefs meets is the one that passed the second
validation or one that took its name since (`moved`), and never the medium, which keeps its
name; and that from there on names do not move. That nothing of it is mounted is asked
by the two commands themselves: wipefs of the whole disk, mkfs of the one place.

Every invariant, every action property and every refinement that a run checks is a theorem.
Liveness needs ENABLED and stays with TLC: `CancelCompletes`, `SessionEndReported`,
`UpdateEventuallyUsed`, `GateReachesManager`, `WorkersReturn` and `SaveEnds`.
# Not modelled

The remaining components of the plan are listed in `PROJECT.json` with their
status. Outside any plan: layout and wording of the dialogs, hardware inventory,
the FreeRDP command line beyond what `explain_failure` and `build_command` decide,
and the build, PXE and release scripts, which are straight-line tooling around
external programs.
