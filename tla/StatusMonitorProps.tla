------------------------- MODULE StatusMonitorProps --------------------------
(* What the boot server's accounting must guarantee.                       *)
EXTENDS StatusMonitor


Client  == [key : Keys, requests : Nat, boots : Nat, bytes : Nat]
Request == [ip : Ips, key : Keys, image : BOOLEAN, bytes : 0..MaxSent]

\* "No file" and "not to be restored" are no documents.
Documents ==
  [next : Nat, requests : Nat, successful : Nat, failed : Nat, bytes : Nat, boots : Nat,
   starts : Nat, recovered : Nat, clients : Seq(Client),
   active : UNION {[S -> Request] : S \in SUBSET Ids}, recent : Seq([id : Ids, ok : BOOLEAN])]

ASSUME FileAssumption == NoFile \notin Documents /\ Invalid \notin Documents

\* A document keeps its bounds: clients are distinct and at most MaxClients, requests
\* in flight and finished ones have been given out before.
Document(m) ==
  /\ m.next \in 1..(MaxRequests + 1)
  /\ {m.requests, m.successful, m.failed, m.bytes, m.boots, m.starts, m.recovered}
       \subseteq Nat
  /\ Len(m.clients) <= MaxClients
  /\ \A i \in DOMAIN m.clients : m.clients[i] \in Client
  /\ \A i, j \in DOMAIN m.clients : m.clients[i].key = m.clients[j].key => i = j
  /\ DOMAIN m.active \subseteq 1..(m.next - 1)
  /\ \A id \in DOMAIN m.active : m.active[id] \in Request
  /\ Len(m.recent) <= MaxRecent
  /\ \A i \in DOMAIN m.recent : m.recent[i] \in [id : 1..(m.next - 1), ok : BOOLEAN]

TypeOK ==
  /\ up \in BOOLEAN /\ perr \in BOOLEAN /\ overlooked \in BOOLEAN
  /\ Document(mem) /\ (file \notin {NoFile, Invalid} => Document(file))
  /\ \A t \in Threads : Document(doc[t])
  /\ plock \in Threads \cup {Free}
  /\ pc \in [Threads -> Step] /\ reply \in [Threads -> Reply]
  /\ rid \in [Threads -> 0..MaxRequests]
  /\ slots \in 0..MaxWorkers /\ rejected \in 0..MaxRejected
  /\ crashes \in 0..MaxCrashes /\ failures \in 0..MaxFailures

\* Every request is successful, failed or in flight, in memory and on disk, across
\* crashes and recoveries.
Conserved(m) == m.requests = m.successful + m.failed + Cardinality(DOMAIN m.active)
NoneLost == Conserved(mem) /\ (file \notin {NoFile, Invalid} => Conserved(file))

\* Nor is one settled twice: what is in the history is not in flight, and in it once.
Once(m) ==
  /\ \A i \in DOMAIN m.recent : m.recent[i].id \notin DOMAIN m.active
  /\ \A i, j \in DOMAIN m.recent : m.recent[i].id = m.recent[j].id => i = j
SettledOnce == Once(mem) /\ (file \notin {NoFile, Invalid} => Once(file))

\* "begin/finish still wait for their durable commit before return": while health
\* reports no persistence error, the file is this process's own and has every request
\* being served in flight and every one that was answered settled.
ServedIsDurable ==
  up /\ ~perr =>
    /\ ~overlooked
    /\ \A t \in Threads :
         /\ pc[t] = "serve" => rid[t] \in DOMAIN file.active
         /\ pc[t] = "leave" /\ rid[t] # 0 => rid[t] < file.next /\ rid[t] \notin DOMAIN file.active

\* The file never goes back: no commit replaces a newer one and no start begins from less,
\* but for a file that the constructor could not read: it is set aside, or the next commit
\* replaces it.
FileMonotone ==
  [][file \notin {NoFile, Invalid} /\ ~overlooked /\ ~StartUnread =>
       /\ file' \notin {NoFile, Invalid}
       /\ file'.next >= file.next /\ file'.requests >= file.requests
       /\ file'.successful >= file.successful /\ file'.failed >= file.failed
       /\ file'.bytes >= file.bytes /\ file'.starts >= file.starts]_vars

\* Each request, byte and boot is attributed to one client at most, whoever was
\* forgotten or identified itself in between, and to exactly one while there is room
\* for every client; in memory and on disk.
Total(m, count) == SumTo([c \in DOMAIN m.clients |-> m.clients[c][count]], Len(m.clients))
Charged(m) ==
  \A count \in {"requests", "bytes", "boots"} :
    /\ Total(m, count) <= m[count]
    /\ Cardinality(Keys) <= MaxClients => Total(m, count) = m[count]
AllAttributed == Charged(mem) /\ (file \notin {NoFile, Invalid} => Charged(file))

\* "Keep in-flight download accounting attached to a client when its MAC becomes
\* known": no download begun anonymously stays so once its address named a MAC.
InFlightFollows ==
  \A a, b \in DOMAIN mem.active :
    a < b /\ mem.active[a].ip = mem.active[b].ip /\ mem.active[b].key \in Macs
      => mem.active[a].key \in Macs

\* Slots are neither lost nor made up, so that the pool neither shrinks nor grows.
SlotsConserved == slots + Cardinality({t \in Threads : pc[t] # "off"}) = MaxWorkers

\* An accepted connection always gives its thread and slot back, also when the disk fails.
WorkersReturn == \A t \in Threads : pc[t] # "off" ~> pc[t] = "off"
=============================================================================
