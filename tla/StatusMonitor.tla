---------------------------- MODULE StatusMonitor ----------------------------
(***************************************************************************)
(* The boot server's accounting (tools/tc-config-server.py): a bounded pool *)
(* of handler threads registers every request before serving it and settles *)
(* it afterwards, each time waiting until the state file holds the news. The *)
(* process may die between any two steps and restarts from that file.       *)
(***************************************************************************)
EXTENDS Naturals, Sequences, FiniteSets, SequencesExt

CONSTANTS Threads,      \* handler threads that may exist
          MaxWorkers,   \* slots of the server's semaphore
          Ips, Macs, NoMac,
          MaxClients, MaxRecent,  \* max_clients, max_requests
          Size, MaxSent, \* chunks of a file with a Content-Length; what it may have grown to
          Free,         \* nobody holds the persistence lock
          NoFile, Invalid,  \* no state file; one that cannot be restored
          MaxRequests, MaxCrashes, MaxFailures, MaxRejected   \* bounds

ASSUME MonitorAssumption ==
  /\ MaxWorkers \in Nat \ {0} /\ MaxClients \in Nat \ {0} /\ MaxRecent \in Nat
  /\ Size \in Nat /\ MaxSent \in Nat /\ Size <= MaxSent
  /\ IsFiniteSet(Ips) /\ IsFiniteSet(Macs)
  /\ Ips \cap Macs = {} /\ NoMac \notin Macs \cup Ips
  /\ Free \notin Threads /\ IsFiniteSet(Threads)
  /\ {MaxRequests, MaxCrashes, MaxFailures, MaxRejected} \subseteq Nat

VARIABLES
  up,        \* the process is running
  mem,       \* StatusMonitor's attributes, under _lock
  file,      \* the state file
  plock,     \* holder of _persistence_lock
  doc,       \* per thread: the document it is writing
  perr,      \* _persistence_error is set
  overlooked, \* the state file is still the one the constructor could not read
  pc, rid, reply,   \* per thread: step, request, kind of response
  slots, rejected,  \* _worker_slots, rejected_requests
  crashes, failures \* counters of the bounds

threadVars == <<pc, rid, reply>>
poolVars   == <<slots, rejected>>
boundVars  == <<crashes, failures>>
vars == <<up, mem, file, plock, doc, perr, overlooked, threadVars, poolVars,
          boundVars>>

-----------------------------------------------------------------------------
Keys  == Ips \cup Macs
Ids   == 1..MaxRequests
Step  == {"off", "handle", "begun", "writeBegun", "serve", "settled", "writeSettled", "leave"}
Reply == {"none", "full", "short", "error"}

\* The document: _state_document_locked, and the attributes it is made of. Clients
\* are in the order of the OrderedDict, the newest request of recent is the first.
Fresh ==
  [next |-> 1, requests |-> 0, successful |-> 0, failed |-> 0, bytes |-> 0, boots |-> 0,
   starts |-> 1, recovered |-> 0, clients |-> <<>>, active |-> <<>>, recent |-> <<>>]

Init ==
  /\ up = FALSE /\ file \in {NoFile, Invalid} /\ mem = Fresh
  /\ plock = Free /\ doc = [t \in Threads |-> Fresh] /\ perr = FALSE
  /\ overlooked = FALSE
  /\ pc = [t \in Threads |-> "off"] /\ rid = [t \in Threads |-> 0]
  /\ reply = [t \in Threads |-> "none"]
  /\ slots = MaxWorkers /\ rejected = 0 /\ crashes = 0 /\ failures = 0

-----------------------------------------------------------------------------
(* Clients.                                                                *)

Known(clients, key)   == \E i \in DOMAIN clients : clients[i].key = key
Position(clients, key) == CHOOSE i \in DOMAIN clients : clients[i].key = key
Without(clients, key) ==
  IF Known(clients, key) THEN RemoveAt(clients, Position(clients, key)) ELSE clients
Counts(clients, key)  ==
  IF Known(clients, key) THEN clients[Position(clients, key)]
  ELSE [key |-> key, requests |-> 0, boots |-> 0, bytes |-> 0]

MergeForgetsBug(into, from) == into
Merge(into, from) ==
  [into EXCEPT !.requests = @ + from.requests, !.boots = @ + from.boots, !.bytes = @ + from.bytes]

\* The least recently seen client makes room.
EvictNoneBug(clients) == clients
Evict(clients) == IF Len(clients) > MaxClients THEN Tail(clients) ELSE clients

\* _touch_client: a client that names its MAC takes over what its address did.
TouchClient(clients, ip, mac) ==
  LET key  == IF mac = NoMac THEN ip ELSE mac
      mine == IF mac = NoMac THEN Counts(clients, key)
              ELSE Merge(Counts(clients, key), Counts(clients, ip))
      rest == Without(IF mac = NoMac THEN clients ELSE Without(clients, ip), key)
  IN  Evict(Append(rest, [mine EXCEPT !.requests = @ + 1]))

\* Its requests in flight follow, if the record they are counted on still exists.
NotRekeyedBug(clients, active, ip, mac) == active
Rekey(clients, active, ip, mac) ==
  IF mac = NoMac \/ ~Known(clients, ip) THEN active
  ELSE [i \in DOMAIN active |->
          IF active[i].key = ip THEN [active[i] EXCEPT !.key = mac] ELSE active[i]]

\* A client that was evicted meanwhile is not credited.
Credit(clients, key, bytes, boots) ==
  [i \in DOMAIN clients |->
     IF clients[i].key = key
     THEN [clients[i] EXCEPT !.bytes = @ + bytes, !.boots = @ + boots] ELSE clients[i]]

-----------------------------------------------------------------------------
(* Registering, serving and settling a request, each under _lock.          *)

Registered(m, ip, mac, image) ==
  LET request == [ip |-> ip, key |-> IF mac = NoMac THEN ip ELSE mac, image |-> image,
                  bytes |-> 0]
      moved   == Rekey(m.clients, m.active, ip, mac)
  IN  [m EXCEPT !.next = @ + 1, !.requests = @ + 1,
                !.clients = TouchClient(@, ip, mac),
                !.active = [i \in DOMAIN moved \cup {m.next} |->
                              IF i = m.next THEN request ELSE moved[i]]]

\* finish(): what is popped from the active requests is counted once.
PopForgottenBug(active, id) == active
Popped(active, id) == [i \in DOMAIN active \ {id} |-> active[i]]

Recent(s) == SubSeq(s, 1, IF Len(s) < MaxRecent THEN Len(s) ELSE MaxRecent)

Settled(m, id, ok, boot) ==
  LET request == m.active[id]
  IN  [m EXCEPT !.successful = IF ok THEN @ + 1 ELSE @,
                !.failed = IF ok THEN @ ELSE @ + 1,
                !.bytes = @ + request.bytes,
                !.boots = @ + boot,
                !.clients = Credit(@, request.key, request.bytes, boot),
                !.recent = Recent(<<[id |-> id, ok |-> ok]>> \o @),
                !.active = Popped(@, id)]

\* A body that stops short of its Content-Length has failed; the boot count takes
\* complete images only.
Successful(kind, bytes, interrupted) ==
  kind \in {"full", "short"} /\ ~interrupted /\ (kind = "full" => bytes = Size)

\* The sum of f over 1..n; a set of numbers, the largest first.
SumTo(f, n) == LET sum[k \in 0..n] == IF k = 0 THEN 0 ELSE sum[k - 1] + f[k] IN sum[n]
Descending(S) ==
  [k \in 1..Cardinality(S) |-> CHOOSE x \in S : Cardinality({y \in S : y > x}) = k - 1]

\* What the requests ids have sent; the requests in flight that a client is charged for.
Sent(m, ids) ==
  SumTo([i \in 1..(m.next - 1) |-> IF i \in ids THEN m.active[i].bytes ELSE 0], m.next - 1)
ChargedTo(m, key) == {i \in DOMAIN m.active : m.active[i].key = key}

\* _restore_state and _recover_interrupted_requests: what was in flight has failed.
DroppedBug(m) == [m EXCEPT !.active = <<>>]
Recovered(m) ==
  LET lost == DOMAIN m.active
      ids  == Descending(lost)
  IN  [m EXCEPT !.failed = @ + Cardinality(lost),
                !.recovered = @ + Cardinality(lost),
                !.bytes = @ + Sent(m, lost),
                !.clients = [c \in DOMAIN m.clients |->
                   [m.clients[c] EXCEPT !.bytes = @ + Sent(m, ChargedTo(m, m.clients[c].key))]],
                !.recent = Recent([k \in DOMAIN ids |-> [id |-> ids[k], ok |-> FALSE]] \o @),
                !.active = <<>>]

-----------------------------------------------------------------------------
(* The server process. Nothing is served before the constructor's own commit. *)

Start ==
  /\ ~up /\ up' = TRUE /\ overlooked' = FALSE
  /\ LET started == IF file \in {NoFile, Invalid} THEN Fresh
                    ELSE Recovered([file EXCEPT !.starts = @ + 1])
     IN  /\ mem' = started
         /\ \/ file' = started /\ perr' = FALSE /\ UNCHANGED failures
            \/ /\ failures < MaxFailures /\ failures' = failures + 1
               /\ perr' = TRUE
               /\ file' \in {file, started} \cup (IF file = Invalid THEN {NoFile} ELSE {})
  /\ UNCHANGED <<plock, doc, threadVars, poolVars, crashes>>

\* A disk that fails to read a good state file: the constructor sets the file aside as it
\* does an invalid one, if it can, and begins from nothing.
StartUnread ==
  /\ ~up /\ up' = TRUE /\ file \notin {NoFile, Invalid}
  /\ failures < MaxFailures /\ failures' = failures + 1
  /\ mem' = Fresh
  /\ \/ file' = Fresh /\ perr' \in BOOLEAN /\ overlooked' = FALSE
     \/ file' = NoFile /\ perr' = TRUE /\ overlooked' = FALSE
     \/ file' = file /\ perr' = TRUE /\ overlooked' = TRUE
  /\ UNCHANGED <<plock, doc, threadVars, poolVars, crashes>>

Crash ==
  /\ up /\ crashes < MaxCrashes
  /\ crashes' = crashes + 1 /\ up' = FALSE
  /\ mem' = Fresh /\ plock' = Free /\ doc' = [t \in Threads |-> Fresh] /\ perr' = FALSE
  /\ overlooked' = FALSE
  /\ pc' = [t \in Threads |-> "off"] /\ rid' = [t \in Threads |-> 0]
  /\ reply' = [t \in Threads |-> "none"]
  /\ slots' = MaxWorkers /\ rejected' = 0
  /\ UNCHANGED <<file, failures>>

-----------------------------------------------------------------------------
(* The accept thread.                                                      *)

Goto(t, step) == pc' = [pc EXCEPT ![t] = step]

\* A thread that cannot be started gives its slot back at once.
Accept(t) ==
  /\ up /\ slots > 0 /\ pc[t] = "off"
  /\ slots' = slots - 1
  /\ Goto(t, "handle")
  /\ UNCHANGED <<up, mem, file, plock, doc, perr, overlooked, rid, reply, rejected,
                 boundVars>>

Reject ==
  /\ up /\ slots = 0 /\ rejected < MaxRejected
  /\ rejected' = rejected + 1
  /\ UNCHANGED <<up, mem, file, plock, doc, perr, overlooked, threadVars, slots, boundVars>>

-----------------------------------------------------------------------------
(* A handler thread.                                                       *)

ServingOnly == UNCHANGED <<up, file, plock, doc, perr, overlooked, poolVars, boundVars>>

\* No request arrives, it is malformed, or it asks for the status pages.
NothingToCount(t) ==
  /\ pc[t] = "handle"
  /\ Goto(t, "leave")
  /\ ServingOnly /\ UNCHANGED <<mem, rid, reply>>

Begin(t, ip, mac, image) ==
  /\ pc[t] = "handle" /\ mem.next \in Ids
  /\ rid' = [rid EXCEPT ![t] = mem.next]
  /\ mem' = Registered(mem, ip, mac, image)
  /\ reply' = [reply EXCEPT ![t] = "none"]
  /\ Goto(t, "begun")
  /\ ServingOnly

\* send_response and the headers: a body with a Content-Length, none, or an error.
Respond(t, kind) ==
  /\ pc[t] = "serve" /\ reply[t] = "none"
  /\ reply' = [reply EXCEPT ![t] = kind]
  /\ ServingOnly /\ UNCHANGED <<mem, pc, rid>>

\* copyfile sends what there is to read, also when the file has grown meanwhile.
AddBytes(t) ==
  /\ pc[t] = "serve" /\ reply[t] = "full" /\ mem.active[rid[t]].bytes < MaxSent
  /\ mem' = [mem EXCEPT !.active[rid[t]].bytes = @ + 1]
  /\ ServingOnly /\ UNCHANGED threadVars

\* The handler returns, the file ends early, or the connection breaks.
Finish(t, interrupted) ==
  /\ pc[t] = "serve" /\ (reply[t] = "none" => interrupted)
  /\ LET request == mem.active[rid[t]]
         ok      == Successful(reply[t], request.bytes, interrupted)
     IN  mem' = Settled(mem, rid[t], ok,
                        IF ok /\ reply[t] = "full" /\ request.image THEN 1 ELSE 0)
  /\ Goto(t, "settled")
  /\ ServingOnly /\ UNCHANGED <<rid, reply>>

\* _persist: the document is a snapshot taken under both locks.
UnserializedBug == TRUE
PersistFree == plock = Free

After(step) ==
  CASE step = "begun"        -> "writeBegun"
    [] step = "settled"      -> "writeSettled"
    [] step = "writeBegun"   -> "serve"
    [] step = "writeSettled" -> "leave"

Snapshot(t) ==
  /\ pc[t] \in {"begun", "settled"} /\ PersistFree
  /\ plock' = t
  /\ doc' = [doc EXCEPT ![t] = mem]
  /\ Goto(t, After(pc[t]))
  /\ UNCHANGED <<up, mem, file, perr, overlooked, rid, reply, poolVars, boundVars>>

KeptOnErrorBug(written) == IF written THEN Free ELSE plock
PersistReleased(written) == Free

\* _write_state: the temporary file replaces the state file, or an error is noted. An
\* error after the replacement leaves the new file.
Commit(t) ==
  /\ pc[t] \in {"writeBegun", "writeSettled"}
  /\ \/ /\ file' = doc[t] /\ perr' = FALSE /\ overlooked' = FALSE /\ UNCHANGED failures
        /\ plock' = PersistReleased(TRUE)
     \/ /\ failures < MaxFailures /\ failures' = failures + 1
        /\ perr' = TRUE
        /\ \/ UNCHANGED <<file, overlooked>>
           \/ file' = doc[t] /\ overlooked' = FALSE
        /\ plock' = PersistReleased(FALSE)
  /\ doc' = [doc EXCEPT ![t] = Fresh]
  /\ Goto(t, After(pc[t]))
  /\ UNCHANGED <<up, mem, rid, reply, poolVars, crashes>>

GivenBack == slots + 1

\* process_request_thread's finally.
Leave(t) ==
  /\ pc[t] = "leave"
  /\ slots' = GivenBack
  /\ Goto(t, "off")
  /\ rid' = [rid EXCEPT ![t] = 0] /\ reply' = [reply EXCEPT ![t] = "none"]
  /\ UNCHANGED <<up, mem, file, plock, doc, perr, overlooked, rejected, boundVars>>

-----------------------------------------------------------------------------
\* Sockets time out after 30 s, so that a thread always gets on.
Ending(t) ==
  \/ NothingToCount(t) \/ \E interrupted \in BOOLEAN : Finish(t, interrupted)
  \/ Snapshot(t) \/ Commit(t) \/ Leave(t)

Handler(t) ==
  \/ Ending(t)
  \/ \E ip \in Ips, mac \in Macs \cup {NoMac}, image \in BOOLEAN : Begin(t, ip, mac, image)
  \/ \E kind \in {"full", "short", "error"} : Respond(t, kind)
  \/ AddBytes(t)

Next ==
  \/ Start \/ StartUnread \/ Crash \/ Reject
  \/ \E t \in Threads : Accept(t) \/ Handler(t)

Spec == Init /\ [][Next]_vars

FairSpec == Spec /\ WF_vars(Start \/ StartUnread) /\ \A t \in Threads : WF_vars(Ending(t))
=============================================================================
