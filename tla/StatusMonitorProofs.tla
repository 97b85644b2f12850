------------------------ MODULE StatusMonitorProofs -------------------------
(***************************************************************************)
(* TLAPS proofs about StatusMonitor, for every value of its constants.     *)
(***************************************************************************)
EXTENDS StatusMonitorProps, FiniteSetTheorems, SequenceTheorems, WellFoundedInduction,
        TLAPS

(***************************************************************************)
(* Documents. What the operations do to the counters and to the requests   *)
(* in flight; what they do to clients and history does not matter here.    *)
(***************************************************************************)
Shape(m) ==
  /\ DOMAIN m = DOMAIN Fresh
  /\ m.next \in Nat \ {0} /\ m.requests \in Nat /\ m.successful \in Nat /\ m.failed \in Nat
  /\ DOMAIN m.active \subseteq 1..(m.next - 1)
Sound(m) == Shape(m) /\ Conserved(m)

LEMMA InFlightFinite ==
  ASSUME NEW m, Shape(m)
  PROVE  /\ IsFiniteSet(DOMAIN m.active) /\ Cardinality(DOMAIN m.active) \in Nat
         /\ m.next \notin DOMAIN m.active
<1>1. IsFiniteSet(1..(m.next - 1))
  <2>1. 1 \in Int /\ m.next - 1 \in Int
    BY DEF Shape
  <2>2. QED
    BY <2>1, FS_Interval
<1>2. IsFiniteSet(DOMAIN m.active)
  BY <1>1, FS_Subset DEF Shape
<1>3. QED
  BY <1>2, FS_CardinalityType DEF Shape

LEMMA FreshSound == Sound(Fresh) /\ DOMAIN Fresh.active = {}
<1>1. DOMAIN Fresh.active = {}
  BY DEF Fresh
<1>2. Cardinality({}) = 0
  BY FS_EmptySet
<1>3. QED
  BY <1>1, <1>2 DEF Sound, Shape, Conserved, Fresh

LEMMA RegisteredSound ==
  ASSUME NEW m, Sound(m), NEW ip, NEW mac, NEW image
  PROVE  /\ Sound(Registered(m, ip, mac, image))
         /\ Registered(m, ip, mac, image).next = m.next + 1
         /\ DOMAIN Registered(m, ip, mac, image).active = DOMAIN m.active \cup {m.next}
<1> DEFINE moved == Rekey(m.clients, m.active, ip, mac)
           r == Registered(m, ip, mac, image)
<1>1. DOMAIN moved = DOMAIN m.active
  BY DEF Rekey
<1>2. /\ DOMAIN r = DOMAIN Fresh /\ r.next = m.next + 1 /\ r.requests = m.requests + 1
      /\ r.successful = m.successful /\ r.failed = m.failed
      /\ DOMAIN r.active = DOMAIN m.active \cup {m.next}
  BY <1>1 DEF Registered, Sound, Shape, Fresh
<1>3. IsFiniteSet(DOMAIN m.active) /\ m.next \notin DOMAIN m.active
  BY InFlightFinite DEF Sound
<1>4. Cardinality(DOMAIN r.active) = Cardinality(DOMAIN m.active) + 1
  BY <1>2, <1>3, FS_AddElement
<1>5. Shape(r)
  BY <1>2 DEF Sound, Shape
<1>6. Conserved(r)
  BY <1>2, <1>4, InFlightFinite DEF Sound, Shape, Conserved
<1>7. QED
  BY <1>2, <1>5, <1>6 DEF Sound

LEMMA SettledSound ==
  ASSUME NEW m, Sound(m), NEW id \in DOMAIN m.active, NEW ok \in BOOLEAN, NEW boot
  PROVE  /\ Sound(Settled(m, id, ok, boot))
         /\ Settled(m, id, ok, boot).next = m.next
         /\ DOMAIN Settled(m, id, ok, boot).active = DOMAIN m.active \ {id}
<1> DEFINE s == Settled(m, id, ok, boot)
<1>1. /\ DOMAIN s = DOMAIN Fresh /\ s.next = m.next /\ s.requests = m.requests
      /\ s.successful = (IF ok THEN m.successful + 1 ELSE m.successful)
      /\ s.failed = (IF ok THEN m.failed ELSE m.failed + 1)
      /\ s.active = Popped(m.active, id)
  BY DEF Settled, Sound, Shape, Fresh
<1>2. DOMAIN s.active = DOMAIN m.active \ {id}
  BY <1>1 DEF Popped
<1>3. IsFiniteSet(DOMAIN m.active)
  BY InFlightFinite DEF Sound
<1>4. Cardinality(DOMAIN s.active) = Cardinality(DOMAIN m.active) - 1
  BY <1>2, <1>3, FS_RemoveElement
<1>5. Shape(s)
  BY <1>1, <1>2 DEF Sound, Shape
<1>6. Conserved(s)
  BY <1>1, <1>4, InFlightFinite DEF Sound, Shape, Conserved
<1>7. QED
  BY <1>1, <1>2, <1>5, <1>6 DEF Sound

LEMMA RecoveredSound ==
  ASSUME NEW m, Sound(m)
  PROVE  Sound(Recovered(m)) /\ DOMAIN Recovered(m).active = {}
<1> DEFINE r == Recovered(m)
           lost == DOMAIN m.active
<1>1. /\ DOMAIN r = DOMAIN Fresh /\ r.next = m.next /\ r.requests = m.requests
      /\ r.successful = m.successful /\ r.failed = m.failed + Cardinality(lost)
      /\ r.active = <<>>
  BY DEF Recovered, Fresh, Sound, Shape
<1>2. DOMAIN r.active = {} /\ Cardinality(DOMAIN r.active) = 0
  BY <1>1, FS_EmptySet
<1>3. QED
  BY <1>1, <1>2, InFlightFinite DEF Sound, Shape, Conserved

LEMMA RestartedSound ==
  ASSUME NEW m, Sound(m)
  PROVE  Sound([m EXCEPT !.starts = @ + 1])
<1> DEFINE n == [m EXCEPT !.starts = @ + 1]
<1>1. /\ DOMAIN n = DOMAIN Fresh /\ n.next = m.next /\ n.requests = m.requests
      /\ n.successful = m.successful /\ n.failed = m.failed /\ n.active = m.active
  BY DEF Sound, Shape, Fresh
<1>2. QED
  BY <1>1 DEF Sound, Shape, Conserved

LEMMA AddedSound ==
  ASSUME NEW m, Sound(m), NEW id
  PROVE  LET n == [m EXCEPT !.active[id].bytes = @ + 1]
         IN  Sound(n) /\ n.next = m.next /\ DOMAIN n.active = DOMAIN m.active
<1> DEFINE n == [m EXCEPT !.active[id].bytes = @ + 1]
<1>1. /\ DOMAIN n = DOMAIN Fresh /\ n.next = m.next /\ n.requests = m.requests
      /\ n.successful = m.successful /\ n.failed = m.failed
      /\ DOMAIN n.active = DOMAIN m.active
  BY DEF Sound, Shape, Fresh
<1>2. QED
  BY <1>1 DEF Sound, Shape, Conserved

(***************************************************************************)
(* The ledger. A request being served is in flight in memory and a settled *)
(* one is not; the lock's holder writes a document that says so of every   *)
(* request whose begin or finish has returned, and while it writes no other *)
(* begin or finish returns.                                                *)
(***************************************************************************)
Pending == {"begun", "writeBegun", "serve"}
Done    == {"settled", "writeSettled", "leave"}

DocsSound ==
  /\ Sound(mem) /\ (file \notin {NoFile, Invalid} => Sound(file))
  /\ \A t \in Threads : Sound(doc[t])
ThreadTypes ==
  /\ pc \in [Threads -> Step] /\ rid \in [Threads -> Nat] /\ DOMAIN doc = Threads
  /\ ~up => \A t \in Threads : pc[t] = "off"
RequestsKnown ==
  /\ \A t \in Threads :
       /\ pc[t] \in {"off", "handle"} => rid[t] = 0
       /\ pc[t] \in Pending => rid[t] \in DOMAIN mem.active
       /\ pc[t] \in Done => rid[t] < mem.next /\ rid[t] \notin DOMAIN mem.active
  /\ \A t, u \in Threads : t # u /\ pc[t] \in Pending /\ pc[u] \in Pending => rid[t] # rid[u]
LockedSteps == \A t \in Threads : plock = t <=> pc[t] \in {"writeBegun", "writeSettled"}

In(m, u)  == rid[u] \in DOMAIN m.active
Out(m, u) == rid[u] < m.next /\ rid[u] \notin DOMAIN m.active
Returned(m) ==
  \A u \in Threads : (pc[u] = "serve" => In(m, u)) /\ (pc[u] = "leave" => Out(m, u))
WriterCovers ==
  \A t \in Threads : plock = t =>
    /\ Returned(doc[t])
    /\ pc[t] = "writeBegun" => In(doc[t], t)
    /\ pc[t] = "writeSettled" => Out(doc[t], t)
FileCovers == up /\ ~perr => ~overlooked /\ Sound(file) /\ Returned(file)
LedgerInv ==
  DocsSound /\ ThreadTypes /\ RequestsKnown /\ LockedSteps /\ WriterCovers /\ FileCovers

LEMMA FreshLedger ==
  ASSUME MonitorAssumption, Init
  PROVE  LedgerInv
BY FreshSound DEF Init, LedgerInv, DocsSound, ThreadTypes, RequestsKnown, LockedSteps,
   WriterCovers, FileCovers, Step, Pending, Done, MonitorAssumption

LEMMA StartLedger ==
  ASSUME MonitorAssumption, LedgerInv, Start \/ StartUnread
  PROVE  LedgerInv'
<1> USE DEF LedgerInv
<1> DEFINE restarted == Recovered([file EXCEPT !.starts = @ + 1])
<1>1. Sound(Fresh) /\ (file \notin {NoFile, Invalid} => Sound(restarted))
  BY FreshSound, RestartedSound, RecoveredSound DEF DocsSound
<1> HIDE DEF restarted
<1>2. /\ mem' = Fresh \/ (file \notin {NoFile, Invalid} /\ mem' = restarted)
      /\ UNCHANGED <<plock, doc, pc, rid>> /\ up' = TRUE /\ ~up
      /\ \/ file' = mem' /\ overlooked' = FALSE
         \/ file' \in {file, NoFile} /\ perr' = TRUE
  BY DEF Start, StartUnread, threadVars, restarted
<1>3. \A t \in Threads : pc[t] = "off" /\ rid[t] = 0
  BY <1>2 DEF ThreadTypes, RequestsKnown
<1>4. DocsSound'
  BY <1>1, <1>2 DEF DocsSound
<1>5. QED
  BY <1>1, <1>2, <1>3, <1>4 DEF ThreadTypes, RequestsKnown, LockedSteps, WriterCovers, FileCovers,
                           Returned, Pending, Done

LEMMA CrashLedger ==
  ASSUME MonitorAssumption, LedgerInv, Crash
  PROVE  LedgerInv'
BY FreshSound DEF Crash, LedgerInv, DocsSound, ThreadTypes, RequestsKnown, LockedSteps,
   WriterCovers, FileCovers, Step, Pending, Done, MonitorAssumption

\* Steps that change neither a document nor a thread that owes or holds one.
LEMMA QuietLedger ==
  ASSUME LedgerInv, UNCHANGED <<up, mem, file, plock, doc, perr, overlooked>>,
         pc' \in [Threads -> Step], rid' \in [Threads -> Nat], up,
         \A u \in Threads :
           \/ pc'[u] = pc[u] /\ rid'[u] = rid[u]
           \/ /\ pc[u] \notin Pending \cup {"settled", "writeSettled"} /\ rid'[u] = 0
              /\ pc'[u] \in {"off", "handle", "leave"}
  PROVE  LedgerInv'
<1> USE DEF LedgerInv
<1>1. \A m : Sound(m) => 0 < m.next /\ 0 \notin DOMAIN m.active
  BY DEF Sound, Shape
<1>2. DocsSound' /\ ThreadTypes' /\ RequestsKnown' /\ LockedSteps'
  BY <1>1 DEF DocsSound, ThreadTypes, RequestsKnown, LockedSteps, Pending, Done
<1>3. ASSUME NEW m, Sound(m), Returned(m), \A u \in Threads : pc'[u] = "leave" /\ rid'[u] # rid[u] => rid'[u] = 0
      PROVE  \A u \in Threads : /\ pc'[u] = "serve" => rid'[u] \in DOMAIN m.active
                               /\ pc'[u] = "leave" => rid'[u] < m.next /\ rid'[u] \notin DOMAIN m.active
  BY <1>1, <1>3 DEF Returned, In, Out, Pending
<1>4. WriterCovers'
  BY <1>1, <1>3 DEF DocsSound, WriterCovers, Returned, In, Out, Pending
<1>5. FileCovers'
  BY <1>1, <1>3 DEF FileCovers, Returned, In, Out, Pending
<1>6. QED
  BY <1>2, <1>4, <1>5

\* Steps under _lock: memory changes and one thread goes on to its persist() call.
LEMMA MemoryLedger ==
  ASSUME LedgerInv, UNCHANGED <<up, file, plock, doc, perr, overlooked>>, up,
         NEW t \in Threads,
         Sound(mem'), mem.next <= mem'.next,
         pc' = [pc EXCEPT ![t] = pc'[t]], pc'[t] \in {"begun", "serve", "settled"},
         pc[t] \in {"handle", "serve"}, pc'[t] = "serve" => pc[t] = "serve" /\ rid' = rid,
         rid' = [rid EXCEPT ![t] = rid'[t]], rid'[t] \in Nat,
         RequestsKnown'
  PROVE  LedgerInv'
<1> USE DEF LedgerInv
<1>1. \A u \in Threads \ {t} : pc'[u] = pc[u] /\ rid'[u] = rid[u]
  BY DEF ThreadTypes
<1>2. plock # t
  BY DEF LockedSteps
<1>3. DocsSound' /\ ThreadTypes' /\ LockedSteps'
  BY <1>1, <1>2 DEF DocsSound, ThreadTypes, LockedSteps, Step
<1>4. ASSUME NEW m, Returned(m)
      PROVE  \A u \in Threads : /\ pc'[u] = "serve" => rid'[u] \in DOMAIN m.active
                               /\ pc'[u] = "leave" => rid'[u] < m.next /\ rid'[u] \notin DOMAIN m.active
  BY <1>1, <1>4 DEF Returned, In, Out
<1>5. WriterCovers' /\ FileCovers'
  BY <1>1, <1>2, <1>4 DEF WriterCovers, FileCovers, Returned, In, Out
<1>6. QED
  BY <1>3, <1>5

LEMMA ActiveIsUp ==
  ASSUME LedgerInv, NEW t \in Threads, pc[t] # "off"
  PROVE  up
BY DEF LedgerInv, ThreadTypes

LEMMA BeginLedger ==
  ASSUME LedgerInv, NEW t \in Threads, NEW ip, NEW mac, NEW image, Begin(t, ip, mac, image)
  PROVE  LedgerInv'
<1> USE DEF LedgerInv
<1>1. Sound(mem) /\ mem.next \in Nat
  BY DEF DocsSound, Sound, Shape
<1>2. /\ Sound(mem') /\ mem'.next = mem.next + 1
      /\ DOMAIN mem'.active = DOMAIN mem.active \cup {mem.next}
  BY <1>1, RegisteredSound DEF Begin
<1>3. mem.next \notin DOMAIN mem.active
  BY <1>1, InFlightFinite DEF Sound
<1>4. /\ pc[t] = "handle" /\ pc' = [pc EXCEPT ![t] = "begun"] /\ rid' = [rid EXCEPT ![t] = mem.next]
      /\ UNCHANGED <<up, file, plock, doc, perr, overlooked>>
  BY DEF Begin, Goto, ServingOnly
<1>5. /\ pc'[t] = "begun" /\ rid'[t] = mem.next
      /\ \A u \in Threads \ {t} : pc'[u] = pc[u] /\ rid'[u] = rid[u]
  BY <1>4 DEF ThreadTypes
<1>6. RequestsKnown'
  <2>1. \A u \in Threads : rid[u] \in Nat
    BY DEF ThreadTypes
  <2>2. \A u \in Threads :
          /\ pc'[u] \in {"off", "handle"} => rid'[u] = 0
          /\ pc'[u] \in Pending => rid'[u] \in DOMAIN mem'.active
    BY <1>2, <1>5 DEF RequestsKnown, Pending
  <2>3. \A u \in Threads : pc'[u] \in Done => rid'[u] < mem'.next /\ rid'[u] \notin DOMAIN mem'.active
    BY <1>1, <1>2, <1>5, <2>1 DEF RequestsKnown, Done
  <2>4. \A u, v \in Threads : u # v /\ pc'[u] \in Pending /\ pc'[v] \in Pending => rid'[u] # rid'[v]
    BY <1>3, <1>5 DEF RequestsKnown, Pending
  <2>5. QED
    BY <2>2, <2>3, <2>4 DEF RequestsKnown
<1>7. pc' = [pc EXCEPT ![t] = pc'[t]] /\ rid' = [rid EXCEPT ![t] = rid'[t]] /\ rid'[t] \in Nat
  BY <1>1, <1>4, <1>5
<1>8. up /\ mem.next <= mem'.next
  BY <1>1, <1>2, <1>4, ActiveIsUp
<1>9. QED
  BY <1>2, <1>4, <1>5, <1>6, <1>7, <1>8, MemoryLedger

LEMMA AddBytesLedger ==
  ASSUME LedgerInv, NEW t \in Threads, AddBytes(t)
  PROVE  LedgerInv'
<1> USE DEF LedgerInv
<1>1. Sound(mem) /\ mem.next \in Nat
  BY DEF DocsSound, Sound, Shape
<1>2. /\ pc[t] = "serve" /\ mem' = [mem EXCEPT !.active[rid[t]].bytes = @ + 1]
      /\ UNCHANGED <<up, file, plock, doc, perr, overlooked, pc, rid>>
  BY DEF AddBytes, ServingOnly, threadVars
<1>3. Sound(mem') /\ mem'.next = mem.next /\ DOMAIN mem'.active = DOMAIN mem.active
  BY <1>1, <1>2, AddedSound
<1>4. RequestsKnown'
  BY <1>2, <1>3 DEF RequestsKnown
<1>5. pc' = [pc EXCEPT ![t] = pc'[t]] /\ rid' = [rid EXCEPT ![t] = rid'[t]] /\ rid'[t] \in Nat
  BY <1>2 DEF ThreadTypes
<1>6. QED
  BY <1>1, <1>2, <1>3, <1>4, <1>5, MemoryLedger, ActiveIsUp

LEMMA FinishLedger ==
  ASSUME LedgerInv, NEW t \in Threads, NEW interrupted \in BOOLEAN, Finish(t, interrupted)
  PROVE  LedgerInv'
<1> USE DEF LedgerInv
<1> DEFINE ok   == Successful(reply[t], mem.active[rid[t]].bytes, interrupted)
           boot == IF ok /\ reply[t] = "full" /\ mem.active[rid[t]].image THEN 1 ELSE 0
<1>1. Sound(mem) /\ mem.next \in Nat /\ DOMAIN mem.active \subseteq 1..(mem.next - 1)
  BY DEF DocsSound, Sound, Shape
<1>2. /\ pc[t] = "serve" /\ mem' = Settled(mem, rid[t], ok, boot)
      /\ pc' = [pc EXCEPT ![t] = "settled"]
      /\ UNCHANGED <<up, file, plock, doc, perr, overlooked, rid>>
  BY DEF Finish, ServingOnly, Goto
<1>3. rid[t] \in DOMAIN mem.active
  BY <1>2 DEF RequestsKnown, Pending
<1>4. ok \in BOOLEAN
  BY DEF Successful
<1>5. /\ Sound(mem') /\ mem'.next = mem.next /\ DOMAIN mem'.active = DOMAIN mem.active \ {rid[t]}
  <2>1. \A i \in DOMAIN mem.active, o \in BOOLEAN : \A b :
          LET s == Settled(mem, i, o, b)
          IN  Sound(s) /\ s.next = mem.next /\ DOMAIN s.active = DOMAIN mem.active \ {i}
    BY <1>1, SettledSound
  <2>2. QED
    BY <1>2, <1>3, <1>4, <2>1
<1>6. pc'[t] = "settled" /\ \A u \in Threads \ {t} : pc'[u] = pc[u]
  BY <1>2 DEF ThreadTypes
<1>7. RequestsKnown'
  <2>1. \A u \in Threads \ {t} : pc[u] \in Pending => rid[u] # rid[t]
    BY <1>2 DEF RequestsKnown, Pending
  <2>2. rid[t] < mem'.next
    BY <1>1, <1>3, <1>5
  <2>3. QED
    BY <1>2, <1>5, <1>6, <2>1, <2>2 DEF RequestsKnown, Pending, Done
<1>8. pc' = [pc EXCEPT ![t] = pc'[t]] /\ rid' = [rid EXCEPT ![t] = rid'[t]] /\ rid'[t] \in Nat
  BY <1>2, <1>6 DEF ThreadTypes
<1>9. up /\ mem.next <= mem'.next
  <2>1. mem'.next = mem.next /\ mem.next \in Nat
    BY <1>1, <1>5
  <2>2. up
    BY <1>2, ActiveIsUp
  <2>3. QED
    BY <2>1, <2>2
<1>10. QED
  BY <1>2, <1>5, <1>6, <1>7, <1>8, <1>9, MemoryLedger

LEMMA SnapshotLedger ==
  ASSUME MonitorAssumption, LedgerInv, NEW t \in Threads, Snapshot(t)
  PROVE  LedgerInv'
<1> USE DEF LedgerInv
<1>1. /\ pc[t] \in {"begun", "settled"} /\ plock = Free /\ plock' = t
      /\ doc' = [doc EXCEPT ![t] = mem] /\ pc' = [pc EXCEPT ![t] = After(pc[t])]
      /\ UNCHANGED <<up, mem, file, perr, overlooked, rid>>
  BY DEF Snapshot, PersistFree, Goto
<1>2. /\ pc'[t] = (IF pc[t] = "begun" THEN "writeBegun" ELSE "writeSettled")
      /\ doc'[t] = mem
      /\ \A u \in Threads \ {t} : pc'[u] = pc[u] /\ doc'[u] = doc[u]
  BY <1>1 DEF ThreadTypes, After
<1>3. DocsSound' /\ ThreadTypes'
  BY <1>1, <1>2, ActiveIsUp DEF DocsSound, ThreadTypes, Step
<1>4. RequestsKnown'
  BY <1>1, <1>2 DEF RequestsKnown, Pending, Done
<1>5. LockedSteps'
  BY <1>1, <1>2 DEF LockedSteps, MonitorAssumption
<1>6. WriterCovers'
  BY <1>1, <1>2 DEF RequestsKnown, WriterCovers, Returned, In, Out, Pending, Done
<1>7. FileCovers'
  BY <1>1, <1>2 DEF FileCovers, Returned, In, Out
<1>8. QED
  BY <1>3, <1>4, <1>5, <1>6, <1>7

LEMMA CommitLedger ==
  ASSUME MonitorAssumption, LedgerInv, NEW t \in Threads, Commit(t)
  PROVE  LedgerInv'
<1> USE DEF LedgerInv
<1>1. /\ pc[t] \in {"writeBegun", "writeSettled"} /\ plock' = Free
      /\ doc' = [doc EXCEPT ![t] = Fresh] /\ pc' = [pc EXCEPT ![t] = After(pc[t])]
      /\ UNCHANGED <<up, mem, rid>>
      /\ \/ file' = doc[t] /\ perr' = FALSE /\ overlooked' = FALSE
         \/ file' \in {file, doc[t]} /\ perr' = TRUE
  BY DEF Commit, PersistReleased, Goto
<1>2. plock = t
  BY <1>1 DEF LockedSteps
<1>3. /\ pc'[t] = (IF pc[t] = "writeBegun" THEN "serve" ELSE "leave")
      /\ doc'[t] = Fresh
      /\ \A u \in Threads \ {t} : pc'[u] = pc[u] /\ doc'[u] = doc[u]
  BY <1>1 DEF ThreadTypes, After
<1>4. DocsSound' /\ ThreadTypes'
  BY <1>1, <1>3, ActiveIsUp, FreshSound DEF DocsSound, ThreadTypes, Step
<1>5. RequestsKnown'
  BY <1>1, <1>3 DEF RequestsKnown, Pending, Done
<1>6. LockedSteps' /\ WriterCovers'
  BY <1>1, <1>2, <1>3 DEF LockedSteps, WriterCovers, MonitorAssumption
<1>7. FileCovers'
  BY <1>1, <1>2, <1>3 DEF DocsSound, WriterCovers, FileCovers, Returned, In, Out
<1>8. QED
  BY <1>4, <1>5, <1>6, <1>7

LEMMA LedgerStep ==
  ASSUME MonitorAssumption, LedgerInv, [Next]_vars
  PROVE  LedgerInv'
<1>1. CASE UNCHANGED vars
  BY <1>1 DEF vars, threadVars, LedgerInv, DocsSound, ThreadTypes, RequestsKnown, LockedSteps,
              WriterCovers, FileCovers, Returned, In, Out
<1>2. CASE Start \/ StartUnread \/ Crash
  BY <1>2, StartLedger, CrashLedger
<1>3. CASE Reject
  <2>1. UNCHANGED <<up, mem, file, plock, doc, perr, overlooked, pc, rid>> /\ up
    BY <1>3 DEF Reject, threadVars
  <2>2. QED
    BY <2>1, QuietLedger DEF LedgerInv, ThreadTypes
<1>4. ASSUME NEW t \in Threads, Accept(t) \/ NothingToCount(t) \/ Leave(t)
      PROVE  LedgerInv'
  <2>1. /\ UNCHANGED <<up, mem, file, plock, doc, perr, overlooked>>
        /\ pc[t] \in {"off", "handle", "leave"} /\ (Accept(t) => up)
        /\ \E s \in {"off", "handle", "leave"} : pc' = [pc EXCEPT ![t] = s]
        /\ (rid' = rid /\ pc[t] # "leave") \/ rid' = [rid EXCEPT ![t] = 0]
    BY <1>4 DEF Accept, NothingToCount, Leave, ServingOnly, Goto
  <2>2. up
    BY <1>4, ActiveIsUp DEF Accept, NothingToCount, Leave
  <2>3. /\ pc' \in [Threads -> Step] /\ rid' \in [Threads -> Nat] /\ rid'[t] = 0
        /\ pc'[t] \in {"off", "handle", "leave"}
        /\ \A u \in Threads \ {t} : pc'[u] = pc[u] /\ rid'[u] = rid[u]
    BY <2>1 DEF LedgerInv, ThreadTypes, RequestsKnown, Step
  <2>4. QED
    BY <2>1, <2>2, <2>3, QuietLedger DEF Pending
<1>5. ASSUME NEW t \in Threads, NEW kind, Respond(t, kind)
      PROVE  LedgerInv'
  <2>1. UNCHANGED <<up, mem, file, plock, doc, perr, overlooked, pc, rid>> /\ pc[t] = "serve"
    BY <1>5 DEF Respond, ServingOnly
  <2>2. QED
    BY <2>1, ActiveIsUp, QuietLedger DEF LedgerInv, ThreadTypes
<1>6. QED
  BY <1>1, <1>2, <1>3, <1>4, <1>5, BeginLedger, AddBytesLedger, FinishLedger, SnapshotLedger,
     CommitLedger DEF Next, Handler, Ending

LEMMA LedgerHolds == Spec => []LedgerInv
<1>1. Init => LedgerInv
  BY MonitorAssumption, FreshLedger
<1>2. LedgerInv /\ [Next]_vars => LedgerInv'
  BY MonitorAssumption, LedgerStep
<1>3. QED
  BY <1>1, <1>2, PTL DEF Spec

\* While health reports no persistence error, the state file holds every request that is
\* being served as in flight and every one that has been answered as settled: persist()
\* waits for a commit that started after begin or finish changed the monitor.
THEOREM ServedDurable == Spec => []ServedIsDurable
<1>1. LedgerInv => ServedIsDurable
  BY DEF LedgerInv, FileCovers, Returned, In, Out, ServedIsDurable
<1>2. QED
  BY <1>1, LedgerHolds, PTL

\* No request is lost from the accounts, in memory or on disk: begin, finish and the
\* recovery after a crash keep requests = successful + failed + in flight.
THEOREM Conservation == Spec => []NoneLost
<1>1. LedgerInv => NoneLost
  BY DEF LedgerInv, DocsSound, Sound, NoneLost
<1>2. QED
  BY <1>1, LedgerHolds, PTL

(***************************************************************************)
(* The pool.                                                               *)
(***************************************************************************)
Busy    == {t \in Threads : pc[t] # "off"}
SlotInv == slots \in Nat /\ pc \in [Threads -> Step] /\ SlotsConserved

LEMMA BusyFinite == ASSUME MonitorAssumption PROVE IsFiniteSet(Busy) /\ Cardinality(Busy) \in Nat
BY FS_Subset, FS_CardinalityType DEF Busy, MonitorAssumption

LEMMA IdleSlots ==
  ASSUME MonitorAssumption, \A t \in Threads : pc[t] = "off", slots = MaxWorkers
  PROVE  SlotsConserved
<1>1. {t \in Threads : pc[t] # "off"} = {}
  OBVIOUS
<1>2. QED
  BY <1>1, FS_EmptySet DEF SlotsConserved, MonitorAssumption

LEMMA SlotStep ==
  ASSUME MonitorAssumption, SlotInv, [Next]_vars
  PROVE  SlotInv'
<1> USE DEF SlotInv
<1>1. CASE slots' = slots /\ pc' = pc
  BY <1>1 DEF SlotsConserved
<1>2. CASE Crash
  <2>1. slots' = MaxWorkers /\ pc' = [t \in Threads |-> "off"]
    BY <1>2 DEF Crash
  <2>2. {t \in Threads : pc'[t] # "off"} = {}
    BY <2>1
  <2>3. QED
    BY <2>1, <2>2, FS_EmptySet DEF SlotsConserved, MonitorAssumption, Step
<1>3. ASSUME NEW t \in Threads, Accept(t)
      PROVE  SlotInv'
  <2>1. slots > 0 /\ slots' = slots - 1 /\ pc[t] = "off" /\ pc' = [pc EXCEPT ![t] = "handle"]
    BY <1>3 DEF Accept, Goto
  <2>2. Busy' = Busy \cup {t} /\ t \notin Busy
    BY <2>1 DEF Busy
  <2>3. Cardinality(Busy') = Cardinality(Busy) + 1
    BY <2>2, BusyFinite, FS_AddElement
  <2>4. QED
    BY <2>1, <2>3, BusyFinite DEF SlotsConserved, Busy, Step, MonitorAssumption
<1>4. ASSUME NEW t \in Threads, Leave(t)
      PROVE  SlotInv'
  <2>1. slots' = slots + 1 /\ pc[t] = "leave" /\ pc' = [pc EXCEPT ![t] = "off"]
    BY <1>4 DEF Leave, GivenBack, Goto
  <2>2. Busy' = Busy \ {t} /\ t \in Busy
    BY <2>1 DEF Busy
  <2>3. Cardinality(Busy') = Cardinality(Busy) - 1
    BY <2>2, BusyFinite, FS_RemoveElement
  <2>4. QED
    BY <2>1, <2>3, BusyFinite DEF SlotsConserved, Busy, Step, MonitorAssumption
<1>5. ASSUME NEW t \in Threads, NEW step \in Step \ {"off"}, pc[t] # "off",
             pc' = [pc EXCEPT ![t] = step], slots' = slots
      PROVE  SlotInv'
  <2>1. {u \in Threads : pc'[u] # "off"} = {u \in Threads : pc[u] # "off"}
    BY <1>5
  <2>2. QED
    BY <1>5, <2>1 DEF SlotsConserved
<1>6. ASSUME NEW t \in Threads, NothingToCount(t) \/ Snapshot(t) \/ Commit(t)
                 \/ (\E ip, mac, image : Begin(t, ip, mac, image))
                 \/ \E interrupted \in BOOLEAN : Finish(t, interrupted)
      PROVE  SlotInv'
  <2>1. /\ pc[t] # "off" /\ slots' = slots
        /\ \E step \in Step \ {"off"} : pc' = [pc EXCEPT ![t] = step]
    BY <1>6 DEF NothingToCount, Snapshot, Commit, Begin, Finish, ServingOnly, poolVars, Goto,
                After, Step
  <2>2. QED
    BY <1>5, <2>1
<1>7. ASSUME Start \/ StartUnread \/ Reject \/ UNCHANGED vars \/ \E t \in Threads : AddBytes(t) \/ \E kind : Respond(t, kind)
      PROVE  SlotInv'
  BY <1>1, <1>7 DEF Start, StartUnread, Reject, vars, AddBytes, Respond, ServingOnly, threadVars, poolVars
<1>8. QED
  BY <1>2, <1>3, <1>4, <1>6, <1>7 DEF Next, Handler, Ending

LEMMA SlotInvHolds == Spec => []SlotInv
<1>1. Init => SlotInv
  BY MonitorAssumption, IdleSlots DEF Init, SlotInv, Step, MonitorAssumption
<1>2. SlotInv /\ [Next]_vars => SlotInv'
  BY MonitorAssumption, SlotStep
<1>3. QED
  BY <1>1, <1>2, PTL DEF Spec

\* Every slot of the semaphore is either free or held by one handler thread, however
\* requests end: process_request gives back what process_request_thread does not.
THEOREM SlotsKept == Spec => []SlotsConserved
<1>1. SlotInv => SlotsConserved
  BY DEF SlotInv
<1>2. QED
  BY <1>1, SlotInvHolds, PTL

(***************************************************************************)
(* Sums. The set of the numbers up to which a claim about them holds is    *)
(* all of Nat, since one that is missing from it would have a least.       *)
(***************************************************************************)
LEMMA LeastElement ==
  ASSUME NEW T, T \subseteq Nat, T # {}
  PROVE  \E n \in T : \A m \in T : n <= m
<1>1. \E n \in T : \A m \in T : ~(<<m, n>> \in OpToRel(<, Nat))
  BY NatLessThanWellFounded, WFMin
<1>2. PICK n \in T : \A m \in T : ~(<<m, n>> \in OpToRel(<, Nat))
  BY <1>1
<1>3. \A m \in T : ~(m < n)
  BY <1>2 DEF OpToRel
<1>4. QED
  BY <1>3

LEMMA EveryNumber ==
  ASSUME NEW S, 0 \in S, \A n \in Nat : n \in S => n + 1 \in S
  PROVE  Nat \subseteq S
<1> SUFFICES ASSUME Nat \ S # {} PROVE FALSE
  OBVIOUS
<1>1. PICK n \in Nat \ S : \A m \in Nat \ S : n <= m
  BY LeastElement
<1>2. n # 0 /\ n - 1 \in Nat /\ n - 1 < n
  BY <1>1
<1>3. n - 1 \in S
  BY <1>1, <1>2
<1>4. QED
  BY <1>1, <1>2, <1>3

IntsTo(f, n) == \A k \in 1..n : f[k] \in Int
SumsTo(s, f, n) ==
  /\ s \in [0..n -> Int] /\ s[0] = 0
  /\ \A k \in 1..n : s[k] = s[k - 1] + f[k]

LEMMA SumsExist ==
  ASSUME NEW n \in Nat, NEW f, IntsTo(f, n)
  PROVE  \E s : SumsTo(s, f, n)
<1> DEFINE S == {j \in Nat : j <= n => \E s : SumsTo(s, f, j)}
<1>1. 0 \in S
  <2>1. SumsTo([k \in 0..0 |-> 0], f, 0)
    BY DEF SumsTo
  <2>2. QED
    BY <2>1
<1>2. ASSUME NEW j \in Nat, j \in S
      PROVE  j + 1 \in S
  <2>1. SUFFICES ASSUME j + 1 <= n PROVE \E s : SumsTo(s, f, j + 1)
    OBVIOUS
  <2>2. PICK s : SumsTo(s, f, j)
    BY <1>2, <2>1
  <2> DEFINE t == [k \in 0..(j + 1) |-> IF k = j + 1 THEN s[j] + f[j + 1] ELSE s[k]]
  <2>3. t \in [0..(j + 1) -> Int] /\ t[0] = 0
    BY <2>1, <2>2 DEF SumsTo, IntsTo
  <2>4. ASSUME NEW k \in 1..(j + 1)
        PROVE  t[k] = t[k - 1] + f[k]
    <3>1. CASE k \in 1..j
      BY <3>1, <2>2 DEF SumsTo
    <3>2. CASE k = j + 1
      BY <3>2
    <3>3. QED
      BY <3>1, <3>2
  <2>5. SumsTo(t, f, j + 1)
    BY <2>3, <2>4 DEF SumsTo
  <2>6. QED
    BY <2>5
<1> HIDE DEF S
<1>3. n \in S
  BY <1>1, <1>2, EveryNumber
<1>4. QED
  BY <1>3 DEF S

LEMMA SumToIs ==
  ASSUME NEW n \in Nat, NEW f, IntsTo(f, n)
  PROVE  \E s : SumsTo(s, f, n) /\ SumTo(f, n) = s[n]
<1>1. PICK t : SumsTo(t, f, n)
  BY SumsExist
<1>2. t = [k \in 0..n |-> IF k = 0 THEN 0 ELSE t[k - 1] + f[k]]
  BY <1>1 DEF SumsTo
<1> DEFINE s == CHOOSE s : s = [k \in 0..n |-> IF k = 0 THEN 0 ELSE s[k - 1] + f[k]]
<1>3. s = [k \in 0..n |-> IF k = 0 THEN 0 ELSE s[k - 1] + f[k]]
  BY <1>2
<1>4. SumTo(f, n) = s[n]
  BY DEF SumTo
<1> HIDE DEF s
<1>5. s[0] = 0 /\ \A k \in 1..n : s[k] = s[k - 1] + f[k]
  BY <1>3
<1>6. \A j \in 0..n : s[j] \in Int
  <2> DEFINE S == {j \in Nat : j <= n => s[j] \in Int}
  <2>1. 0 \in S
    BY <1>5
  <2>2. ASSUME NEW j \in Nat, j \in S
        PROVE  j + 1 \in S
    BY <1>5, <2>2 DEF IntsTo
  <2> HIDE DEF S
  <2>3. Nat \subseteq S
    BY <2>1, <2>2, EveryNumber
  <2>4. QED
    BY <2>3 DEF S
<1>7. SumsTo(s, f, n)
  BY <1>3, <1>5, <1>6 DEF SumsTo
<1>8. QED
  BY <1>4, <1>7

\* The sums of functions that agree, over a shorter and a longer interval, agree.
LEMMA SumsAgree ==
  ASSUME NEW n \in Nat, NEW m \in Nat, n <= m, NEW s, NEW t, NEW f, NEW g,
         SumsTo(s, f, n), SumsTo(t, g, m), \A k \in 1..n : f[k] = g[k]
  PROVE  s[n] = t[n]
<1> DEFINE S == {j \in Nat : j <= n => s[j] = t[j]}
<1>1. 0 \in S
  BY DEF SumsTo
<1>2. ASSUME NEW j \in Nat, j \in S
      PROVE  j + 1 \in S
  BY <1>2 DEF SumsTo
<1> HIDE DEF S
<1>3. n \in S
  BY <1>1, <1>2, EveryNumber
<1>4. QED
  BY <1>3 DEF S

LEMMA SumStep ==
  ASSUME NEW f
  PROVE  /\ SumTo(f, 0) = 0
         /\ \A n \in Nat : IntsTo(f, n + 1) => SumTo(f, n + 1) = SumTo(f, n) + f[n + 1]
         /\ \A n \in Nat : IntsTo(f, n) => SumTo(f, n) \in Int
<1>1. SumTo(f, 0) = 0
  <2>1. PICK s : SumsTo(s, f, 0) /\ SumTo(f, 0) = s[0]
    BY SumToIs DEF IntsTo
  <2>2. QED
    BY <2>1 DEF SumsTo
<1>2. ASSUME NEW n \in Nat, IntsTo(f, n + 1)
      PROVE  SumTo(f, n + 1) = SumTo(f, n) + f[n + 1]
  <2>1. IntsTo(f, n)
    BY <1>2 DEF IntsTo
  <2>2. PICK s : SumsTo(s, f, n) /\ SumTo(f, n) = s[n]
    BY <2>1, SumToIs
  <2>3. PICK t : SumsTo(t, f, n + 1) /\ SumTo(f, n + 1) = t[n + 1]
    BY <1>2, SumToIs
  <2>4. s[n] = t[n]
    BY <2>2, <2>3, SumsAgree
  <2>5. QED
    BY <2>2, <2>3, <2>4 DEF SumsTo
<1>3. ASSUME NEW n \in Nat, IntsTo(f, n)
      PROVE  SumTo(f, n) \in Int
  <2>1. PICK s : SumsTo(s, f, n) /\ SumTo(f, n) = s[n]
    BY <1>3, SumToIs
  <2>2. QED
    BY <2>1 DEF SumsTo
<1>4. QED
  BY <1>1, <1>2, <1>3

\* A sum of non-negative numbers is one, and functions that agree have one sum.
LEMMA SumNat ==
  ASSUME NEW n \in Nat, NEW f, \A k \in 1..n : f[k] \in Nat
  PROVE  SumTo(f, n) \in Nat
<1> DEFINE S == {j \in Nat : j <= n => SumTo(f, j) \in Nat}
<1>1. 0 \in S
  BY SumStep
<1>2. ASSUME NEW j \in Nat, j \in S
      PROVE  j + 1 \in S
  BY <1>2, SumStep DEF IntsTo
<1> HIDE DEF S
<1>3. n \in S
  BY <1>1, <1>2, EveryNumber
<1>4. QED
  BY <1>3 DEF S

\* Sums add up.
LEMMA SumPlus ==
  ASSUME NEW n \in Nat, NEW f, NEW g, NEW h, IntsTo(f, n), IntsTo(g, n),
         \A k \in 1..n : h[k] = f[k] + g[k]
  PROVE  SumTo(h, n) = SumTo(f, n) + SumTo(g, n)
<1> DEFINE S == {j \in Nat : j <= n => SumTo(h, j) = SumTo(f, j) + SumTo(g, j)}
<1>1. 0 \in S
  BY SumStep
<1>2. ASSUME NEW j \in Nat, j \in S
      PROVE  j + 1 \in S
  <2>1. SUFFICES ASSUME j + 1 <= n
                 PROVE  SumTo(h, j + 1) = SumTo(f, j + 1) + SumTo(g, j + 1)
    OBVIOUS
  <2>2. IntsTo(f, j) /\ IntsTo(g, j) /\ IntsTo(f, j + 1) /\ IntsTo(g, j + 1) /\ IntsTo(h, j + 1)
    BY <2>1 DEF IntsTo
  <2>3. SumTo(f, j) \in Int /\ SumTo(g, j) \in Int
    BY <2>2, SumStep
  <2>4. /\ SumTo(f, j + 1) = SumTo(f, j) + f[j + 1] /\ SumTo(g, j + 1) = SumTo(g, j) + g[j + 1]
        /\ SumTo(h, j + 1) = SumTo(h, j) + h[j + 1]
    BY <2>2, SumStep
  <2>5. f[j + 1] \in Int /\ g[j + 1] \in Int /\ h[j + 1] = f[j + 1] + g[j + 1]
    BY <2>1 DEF IntsTo
  <2>6. SumTo(h, j) = SumTo(f, j) + SumTo(g, j)
    BY <1>2, <2>1
  <2>7. QED
    BY <2>3, <2>4, <2>5, <2>6
<1> HIDE DEF S
<1>3. n \in S
  BY <1>1, <1>2, EveryNumber
<1>4. QED
  BY <1>3 DEF S

LEMMA SumSame ==
  ASSUME NEW n \in Nat, NEW f, NEW g, IntsTo(f, n), \A k \in 1..n : g[k] = f[k]
  PROVE  SumTo(g, n) = SumTo(f, n)
<1> DEFINE S == {j \in Nat : j <= n => SumTo(g, j) = SumTo(f, j)}
<1>1. 0 \in S
  BY SumStep
<1>2. ASSUME NEW j \in Nat, j \in S
      PROVE  j + 1 \in S
  BY <1>2, SumStep DEF IntsTo
<1> HIDE DEF S
<1>3. n \in S
  BY <1>1, <1>2, EveryNumber
<1>4. QED
  BY <1>3 DEF S

LEMMA SumLess ==
  ASSUME NEW n \in Nat, NEW f, NEW g, IntsTo(f, n), IntsTo(g, n), \A k \in 1..n : g[k] <= f[k]
  PROVE  SumTo(g, n) <= SumTo(f, n)
<1> DEFINE S == {j \in Nat : j <= n => SumTo(g, j) <= SumTo(f, j)}
<1>1. 0 \in S
  BY SumStep
<1>2. ASSUME NEW j \in Nat, j \in S
      PROVE  j + 1 \in S
  <2>1. SUFFICES ASSUME j + 1 <= n
                 PROVE  SumTo(g, j + 1) <= SumTo(f, j + 1)
    OBVIOUS
  <2>2. IntsTo(f, j) /\ IntsTo(g, j) /\ IntsTo(f, j + 1) /\ IntsTo(g, j + 1)
    BY <2>1 DEF IntsTo
  <2>3. /\ SumTo(f, j) \in Int /\ SumTo(g, j) \in Int
        /\ SumTo(f, j + 1) = SumTo(f, j) + f[j + 1] /\ SumTo(g, j + 1) = SumTo(g, j) + g[j + 1]
    BY <2>2, SumStep
  <2>4. f[j + 1] \in Int /\ g[j + 1] \in Int /\ g[j + 1] <= f[j + 1]
    BY <2>1 DEF IntsTo
  <2>5. SumTo(g, j) <= SumTo(f, j)
    BY <1>2, <2>1
  <2>6. QED
    BY <2>3, <2>4, <2>5
<1> HIDE DEF S
<1>3. n \in S
  BY <1>1, <1>2, EveryNumber
<1>4. QED
  BY <1>3 DEF S

\* One number among zeros is the sum; so is none.
LEMMA SumOne ==
  ASSUME NEW n \in Nat, NEW p \in Nat \ {0}, NEW v \in Int, NEW f,
         \A k \in 1..n : f[k] = IF k = p THEN v ELSE 0
  PROVE  SumTo(f, n) = IF p <= n THEN v ELSE 0
<1> DEFINE S == {j \in Nat : j <= n => SumTo(f, j) = IF p <= j THEN v ELSE 0}
<1>1. 0 \in S
  BY SumStep
<1>2. ASSUME NEW j \in Nat, j \in S
      PROVE  j + 1 \in S
  <2>1. SUFFICES ASSUME j + 1 <= n
                 PROVE  SumTo(f, j + 1) = IF p <= j + 1 THEN v ELSE 0
    OBVIOUS
  <2>2. SumTo(f, j + 1) = SumTo(f, j) + f[j + 1]
    BY <2>1, SumStep DEF IntsTo
  <2>3. SumTo(f, j) = (IF p <= j THEN v ELSE 0) /\ f[j + 1] = IF j + 1 = p THEN v ELSE 0
    BY <1>2, <2>1
  <2>4. QED
    BY <2>2, <2>3
<1> HIDE DEF S
<1>3. n \in S
  BY <1>1, <1>2, EveryNumber
<1>4. QED
  BY <1>3 DEF S

\* Taking the number at p out of the list takes it out of the sum.
LEMMA SumWithout ==
  ASSUME NEW n \in Nat, NEW p \in 1..n, NEW f, NEW g, IntsTo(f, n),
         \A k \in 1..(n - 1) : g[k] = IF k < p THEN f[k] ELSE f[k + 1]
  PROVE  SumTo(g, n - 1) = SumTo(f, n) - f[p]
<1> DEFINE S == {j \in Nat : j <= n - 1 =>
                   SumTo(g, j) = IF j < p THEN SumTo(f, j) ELSE SumTo(f, j + 1) - f[p]}
<1>1. 0 \in S
  BY SumStep
<1>2. ASSUME NEW j \in Nat, j \in S
      PROVE  j + 1 \in S
  <2>1. SUFFICES ASSUME j + 1 <= n - 1
                 PROVE  SumTo(g, j + 1) = IF j + 1 < p THEN SumTo(f, j + 1)
                                          ELSE SumTo(f, j + 2) - f[p]
    OBVIOUS
  <2>2. /\ IntsTo(f, j) /\ IntsTo(f, j + 1) /\ IntsTo(f, j + 2) /\ IntsTo(g, j + 1)
        /\ f[j + 1] \in Int /\ f[j + 2] \in Int /\ f[p] \in Int
    BY <2>1 DEF IntsTo
  <2>3. SumTo(f, j) \in Int /\ SumTo(f, j + 1) = SumTo(f, j) + f[j + 1]
    BY <2>2, SumStep
  <2>4. SumTo(f, j + 2) = SumTo(f, j + 1) + f[j + 2]
    <3>1. j + 1 \in Nat /\ j + 2 = (j + 1) + 1
      OBVIOUS
    <3>2. QED
      BY <2>2, <3>1, SumStep
  <2>5. SumTo(g, j + 1) = SumTo(g, j) + g[j + 1]
    BY <2>2, SumStep
  <2>6. SumTo(g, j) = IF j < p THEN SumTo(f, j) ELSE SumTo(f, j + 1) - f[p]
    BY <1>2, <2>1
  <2>7. g[j + 1] = IF j + 1 < p THEN f[j + 1] ELSE f[j + 2]
    BY <2>1
  <2>8. QED
    BY <2>2, <2>3, <2>4, <2>5, <2>6, <2>7
<1> HIDE DEF S
<1>3. n - 1 \in S
  BY <1>1, <1>2, EveryNumber
<1>4. n - 1 < p => n = p
  OBVIOUS
<1>5. SumTo(f, n) = SumTo(f, n - 1) + f[n] /\ SumTo(f, n - 1) \in Int /\ f[n] \in Int
  BY SumStep DEF IntsTo
<1>6. SumTo(g, n - 1) = IF n - 1 < p THEN SumTo(f, n - 1) ELSE SumTo(f, n) - f[p]
  BY <1>3 DEF S
<1>7. QED
  BY <1>4, <1>5, <1>6

\* A table t of n rows and m columns, u by columns, has one total by rows and by columns.
Tabled(t, u, rows, columns, n, m) ==
  /\ \A c \in 1..n : IntsTo(t[c], m) /\ rows[c] = SumTo(t[c], m)
  /\ \A i \in 1..m : columns[i] = SumTo(u[i], n)
  /\ \A c \in 1..n, i \in 1..m : u[i][c] = t[c][i]

LEMMA SumByColumns ==
  ASSUME NEW n \in Nat, NEW m \in Nat, NEW t, NEW u, NEW rows, NEW columns,
         Tabled(t, u, rows, columns, n, m)
  PROVE  SumTo(rows, n) = SumTo(columns, m)
<1> USE DEF Tabled
<1> DEFINE upto(j) == [c \in 1..n |-> SumTo(t[c], j)]
           S == {j \in Nat : j <= m => SumTo(upto(j), n) = SumTo(columns, j)}
<1>1. \A i \in 1..m : IntsTo(u[i], n) /\ columns[i] \in Int
  BY SumStep DEF IntsTo
<1>2. 0 \in S
  <2>1. \A k \in 1..n : upto(0)[k] = 0
    BY SumStep
  <2>2. SumTo(upto(0), n) = 0
    <3> HIDE DEF upto
    <3>1. 1 \in Nat \ {0} /\ 0 \in Int /\ \A k \in 1..n : upto(0)[k] = IF k = 1 THEN 0 ELSE 0
      BY <2>1
    <3>2. SumTo(upto(0), n) = IF 1 <= n THEN 0 ELSE 0
      BY <3>1, SumOne
    <3>3. QED
      BY <3>2
  <2>3. QED
    BY <2>2, SumStep
<1>3. ASSUME NEW j \in Nat, j \in S
      PROVE  j + 1 \in S
  <2>1. SUFFICES ASSUME j + 1 <= m
                 PROVE  SumTo(upto(j + 1), n) = SumTo(columns, j + 1)
    OBVIOUS
  <2>2. \A c \in 1..n : IntsTo(t[c], j) /\ IntsTo(t[c], j + 1)
    BY <2>1 DEF IntsTo
  <2>3. j + 1 \in 1..m
    BY <2>1
  <2>4. \A c \in 1..n : /\ upto(j)[c] \in Int
                       /\ upto(j + 1)[c] = upto(j)[c] + u[j + 1][c]
    BY <2>2, <2>3, SumStep
  <2>5. SumTo(upto(j + 1), n) = SumTo(upto(j), n) + SumTo(u[j + 1], n)
    <3>1. IntsTo(upto(j), n) /\ IntsTo(u[j + 1], n)
      BY <1>1, <2>3, <2>4 DEF IntsTo
    <3> HIDE DEF upto
    <3>2. QED
      BY <2>4, <3>1, SumPlus
  <2>6. SumTo(columns, j + 1) = SumTo(columns, j) + columns[j + 1]
    BY <1>1, <2>1, SumStep DEF IntsTo
  <2>7. columns[j + 1] = SumTo(u[j + 1], n)
    BY <2>3
  <2>8. SumTo(upto(j), n) = SumTo(columns, j)
    BY <1>3, <2>1
  <2>9. QED
    <3> HIDE DEF upto
    <3>1. QED
      BY <2>5, <2>6, <2>7, <2>8
<1> HIDE DEF S
<1>4. m \in S
  BY <1>2, <1>3, EveryNumber
<1>5. SumTo(upto(m), n) = SumTo(columns, m)
  BY <1>4 DEF S
<1>6. SumTo(rows, n) = SumTo(upto(m), n)
  <2>1. IntsTo(upto(m), n) /\ \A c \in 1..n : rows[c] = upto(m)[c]
    BY SumStep DEF IntsTo
  <2> HIDE DEF upto
  <2>2. QED
    BY <2>1, SumSame
<1>7. QED
  BY <1>5, <1>6

(***************************************************************************)
(* The remembered clients: a list of records with distinct keys.           *)
(***************************************************************************)
Counters == {"requests", "bytes", "boots"}
Remembered(cs) == cs \in Seq(Client) /\ \A i, j \in DOMAIN cs : cs[i].key = cs[j].key => i = j
Held(cs, count) == SumTo([c \in DOMAIN cs |-> cs[c][count]], Len(cs))

LEMMA ListOf ==
  ASSUME NEW S, NEW n \in Nat, NEW s \in [1..n -> S]
  PROVE  s \in Seq(S) /\ Len(s) = n /\ DOMAIN s = 1..n
<1>1. s \in Seq(S)
  BY SeqDef
<1>2. QED
  BY <1>1, LenProperties

LEMMA CountersOf ==
  ASSUME NEW c \in Client, NEW count \in Counters
  PROVE  c[count] \in Nat
BY DEF Client, Counters

LEMMA CountsOf ==
  ASSUME NEW cs, Remembered(cs), NEW key \in Keys
  PROVE  /\ Counts(cs, key) \in Client /\ Counts(cs, key).key = key
         /\ Known(cs, key) => Position(cs, key) \in DOMAIN cs /\ cs[Position(cs, key)].key = key
<1>1. CASE Known(cs, key)
  <2>1. Position(cs, key) \in DOMAIN cs /\ cs[Position(cs, key)].key = key
    BY <1>1 DEF Known, Position
  <2>2. cs[Position(cs, key)] \in Client
    BY <2>1, LenProperties DEF Remembered
  <2>3. QED
    BY <1>1, <2>1, <2>2 DEF Counts
<1>2. CASE ~Known(cs, key)
  BY <1>2 DEF Counts, Client
<1>3. QED
  BY <1>1, <1>2

\* RemoveAt by positions.
LEMMA RemovedIs ==
  ASSUME NEW S, NEW s \in Seq(S), NEW p \in DOMAIN s
  PROVE  LET r == RemoveAt(s, p)
         IN  /\ r \in Seq(S) /\ Len(r) = Len(s) - 1 /\ DOMAIN r = 1..(Len(s) - 1)
             /\ \A k \in 1..(Len(s) - 1) : r[k] = IF k < p THEN s[k] ELSE s[k + 1]
<1> DEFINE a == SubSeq(s, 1, p - 1)
           b == SubSeq(s, p + 1, Len(s))
<1>1. Len(s) \in Nat /\ DOMAIN s = 1..Len(s) /\ p \in 1..Len(s) /\ \A i \in 1..Len(s) : s[i] \in S
  BY LenProperties
<1>2. a \in Seq(S) /\ Len(a) = p - 1 /\ \A i \in 1..(p - 1) : a[i] = s[i]
  <2>1. 1 \in Int /\ p - 1 \in Int /\ \A i \in 1..(p - 1) : s[i] \in S
    BY <1>1
  <2>2. /\ a \in Seq(S) /\ Len(a) = (IF 1 <= p - 1 THEN p - 1 - 1 + 1 ELSE 0)
        /\ \A i \in 1..(p - 1 - 1 + 1) : a[i] = s[1 + i - 1]
    BY <2>1, SubSeqProperties
  <2>3. QED
    BY <1>1, <2>2
<1>3. b \in Seq(S) /\ Len(b) = Len(s) - p /\ \A i \in 1..(Len(s) - p) : b[i] = s[p + i]
  <2>1. p + 1 \in Int /\ Len(s) \in Int /\ \A i \in (p + 1)..Len(s) : s[i] \in S
    BY <1>1
  <2>2. /\ b \in Seq(S) /\ Len(b) = (IF p + 1 <= Len(s) THEN Len(s) - (p + 1) + 1 ELSE 0)
        /\ \A i \in 1..(Len(s) - (p + 1) + 1) : b[i] = s[p + 1 + i - 1]
    BY <2>1, SubSeqProperties
  <2> HIDE DEF b
  <2>3. Len(b) = Len(s) - p
    BY <1>1, <2>2
  <2>4. ASSUME NEW i \in 1..(Len(s) - p)
        PROVE  b[i] = s[p + i]
    <3>1. i \in 1..(Len(s) - (p + 1) + 1) /\ p + 1 + i - 1 = p + i
      BY <1>1
    <3>2. QED
      BY <2>2, <3>1
  <2>5. QED
    BY <2>2, <2>3, <2>4
<1>4. RemoveAt(s, p) = a \o b
  BY DEF RemoveAt
<1> HIDE DEF a, b
<1>5. /\ a \o b \in Seq(S) /\ Len(a \o b) = Len(s) - 1
      /\ \A i \in 1..(Len(s) - 1) : (a \o b)[i] = IF i <= p - 1 THEN a[i] ELSE b[i - (p - 1)]
  <2>1. /\ a \o b \in Seq(S) /\ Len(a \o b) = Len(a) + Len(b)
        /\ \A i \in 1..(Len(a) + Len(b)) : (a \o b)[i] = IF i <= Len(a) THEN a[i] ELSE b[i - Len(a)]
    BY <1>2, <1>3, ConcatProperties
  <2>2. Len(a) = p - 1 /\ Len(a) + Len(b) = Len(s) - 1
    BY <1>1, <1>2, <1>3
  <2>3. QED
    BY <2>1, <2>2
<1>6. DOMAIN (a \o b) = 1..(Len(s) - 1)
  BY <1>5, LenProperties
<1>7. ASSUME NEW k \in 1..(Len(s) - 1)
      PROVE  (a \o b)[k] = IF k < p THEN s[k] ELSE s[k + 1]
  <2>1. CASE k < p
    BY <1>1, <1>2, <1>5, <2>1
  <2>2. CASE ~(k < p)
    <3>1. k - (p - 1) \in 1..(Len(s) - p) /\ p + (k - (p - 1)) = k + 1
      BY <1>1, <2>2
    <3>2. (a \o b)[k] = b[k - (p - 1)]
      BY <1>1, <1>5, <2>2
    <3>3. b[k - (p - 1)] = s[k + 1]
      BY <1>3, <3>1
    <3>4. QED
      BY <2>2, <3>2, <3>3
  <2>3. QED
    BY <2>1, <2>2
<1>8. QED
  BY <1>4, <1>5, <1>6, <1>7

LEMMA WithoutIs ==
  ASSUME NEW cs, Remembered(cs), NEW key \in Keys
  PROVE  LET w == Without(cs, key)
         IN  /\ Remembered(w) /\ ~Known(w, key) /\ Len(w) <= Len(cs)
             /\ \A k \in Keys \ {key} : Known(w, k) = Known(cs, k) /\ Counts(w, k) = Counts(cs, k)
             /\ \A count \in Counters : Held(w, count) = Held(cs, count) - Counts(cs, key)[count]
<1> DEFINE w == Without(cs, key)
           n == Len(cs)
           p == Position(cs, key)
<1>1. n \in Nat /\ DOMAIN cs = 1..n /\ \A i \in 1..n : cs[i] \in Client
  BY LenProperties DEF Remembered
<1>2. \A count \in Counters : Held(cs, count) \in Int
  BY <1>1, CountersOf, SumStep DEF Held, IntsTo
<1>3. CASE ~Known(cs, key)
  <2>1. w = cs
    BY <1>3 DEF Without
  <2>2. \A count \in Counters : Counts(cs, key)[count] = 0
    BY <1>3 DEF Counts, Counters
  <2>3. QED
    BY <1>1, <1>2, <1>3, <2>1, <2>2
<1>4. CASE Known(cs, key)
  <2>1. p \in 1..n /\ cs[p].key = key /\ Counts(cs, key) = cs[p] /\ w = RemoveAt(cs, p)
    BY <1>1, <1>4, CountsOf DEF Counts, Without
  <2>2. /\ w \in Seq(Client) /\ Len(w) = n - 1 /\ DOMAIN w = 1..(n - 1)
        /\ \A k \in 1..(n - 1) : w[k] = IF k < p THEN cs[k] ELSE cs[k + 1]
    <3>1. cs \in Seq(Client) /\ p \in DOMAIN cs
      BY <1>1, <2>1 DEF Remembered
    <3> HIDE DEF p
    <3>2. QED
      BY <2>1, <3>1, RemovedIs
  <2> HIDE DEF w, p, n
  <2>3. Remembered(w)
    <3> DEFINE from(j) == IF j < p THEN j ELSE j + 1
    <3>1. \A j \in 1..(n - 1) : from(j) \in 1..n /\ w[j] = cs[from(j)]
      BY <1>1, <2>1, <2>2
    <3>2. \A i, j \in 1..(n - 1) : from(i) = from(j) => i = j
      BY <1>1, <2>1
    <3> HIDE DEF from
    <3>3. \A i, j \in 1..(n - 1) : w[i].key = w[j].key => from(i) = from(j)
      BY <1>1, <3>1 DEF Remembered
    <3>4. QED
      BY <2>2, <3>2, <3>3 DEF Remembered
  <2>4. ~Known(w, key)
    BY <1>1, <2>1, <2>2 DEF Known, Remembered
  <2>5. ASSUME NEW k \in Keys \ {key}
        PROVE  Known(w, k) = Known(cs, k) /\ Counts(w, k) = Counts(cs, k)
    <3>1. \A i \in 1..n : cs[i].key = k => i # p
      BY <2>1
    <3>2. ASSUME NEW i \in 1..n, cs[i].key = k
          PROVE  \E j \in 1..(n - 1) : w[j] = cs[i]
      <4>1. CASE i < p
        BY <1>1, <2>1, <2>2, <4>1
      <4>2. CASE i > p
        <5>1. i - 1 \in 1..(n - 1) /\ ~(i - 1 < p) /\ (i - 1) + 1 = i
          BY <1>1, <2>1, <4>2
        <5>2. QED
          BY <2>2, <5>1
      <4>3. QED
        BY <1>1, <2>1, <3>1, <3>2, <4>1, <4>2
    <3>3. \A j \in 1..(n - 1) : \E i \in 1..n : w[j] = cs[i]
      BY <1>1, <2>1, <2>2
    <3>4. Known(w, k) = Known(cs, k)
      <4>1. ASSUME Known(cs, k) PROVE Known(w, k)
        <5>1. PICK i \in 1..n : cs[i].key = k
          BY <1>1, <4>1 DEF Known
        <5>2. QED
          BY <2>2, <3>2, <5>1 DEF Known
      <4>2. ASSUME Known(w, k) PROVE Known(cs, k)
        <5>1. PICK j \in 1..(n - 1) : w[j].key = k
          BY <2>2, <4>2 DEF Known
        <5>2. QED
          BY <1>1, <3>3, <5>1 DEF Known
      <4>3. Known(w, k) \in BOOLEAN /\ Known(cs, k) \in BOOLEAN
        BY DEF Known
      <4>4. QED
        BY <4>1, <4>2, <4>3
    <3>5. ASSUME Known(cs, k)
          PROVE  Counts(w, k) = Counts(cs, k)
      <4>1. /\ Position(cs, k) \in 1..n /\ cs[Position(cs, k)].key = k
            /\ Position(w, k) \in 1..(n - 1) /\ w[Position(w, k)].key = k
        BY <1>1, <2>2, <2>3, <3>4, <3>5, CountsOf
      <4>2. PICK j \in 1..(n - 1) : w[j] = cs[Position(cs, k)]
        BY <3>2, <4>1
      <4>3. j = Position(w, k)
        BY <2>2, <2>3, <4>1, <4>2 DEF Remembered
      <4>4. QED
        BY <3>4, <3>5, <4>2, <4>3 DEF Counts
    <3>6. QED
      BY <3>4, <3>5 DEF Counts
  <2>6. ASSUME NEW count \in Counters
        PROVE  Held(w, count) = Held(cs, count) - Counts(cs, key)[count]
    <3> DEFINE f == [c \in 1..n |-> cs[c][count]]
               g == [c \in 1..(n - 1) |-> w[c][count]]
    <3>1. IntsTo(f, n)
      BY <1>1, CountersOf DEF IntsTo
    <3>2. \A k \in 1..(n - 1) : g[k] = IF k < p THEN f[k] ELSE f[k + 1]
      BY <1>1, <2>1, <2>2
    <3>3. /\ f[p] = Counts(cs, key)[count] /\ Held(cs, count) = SumTo(f, n)
          /\ Held(w, count) = SumTo(g, n - 1)
      BY <1>1, <2>1, <2>2 DEF Held, n
    <3> HIDE DEF f, g
    <3>4. SumTo(g, n - 1) = SumTo(f, n) - f[p]
      BY <1>1, <2>1, <3>1, <3>2, SumWithout
    <3>5. QED
      BY <3>3, <3>4
  <2>7. n - 1 <= n
    BY <1>1
  <2>8. QED
    BY <2>2, <2>3, <2>4, <2>5, <2>6, <2>7 DEF w, n
<1>5. QED
  BY <1>3, <1>4

LEMMA AppendedIs ==
  ASSUME NEW cs, Remembered(cs), NEW c \in Client, ~Known(cs, c.key)
  PROVE  LET a == Append(cs, c)
         IN  /\ Remembered(a) /\ Len(a) = Len(cs) + 1
             /\ \A k \in Keys : Known(a, k) <=> Known(cs, k) \/ k = c.key
             /\ \A count \in Counters : Held(a, count) = Held(cs, count) + c[count]
<1> DEFINE a == Append(cs, c)
           n == Len(cs)
<1>1. n \in Nat /\ DOMAIN cs = 1..n /\ \A i \in 1..n : cs[i] \in Client
  BY LenProperties DEF Remembered
<1>2. /\ a \in Seq(Client) /\ Len(a) = n + 1 /\ \A i \in 1..n : a[i] = cs[i]
      /\ a[n + 1] = c
  BY AppendProperties DEF Remembered
<1>3. DOMAIN a = 1..(n + 1)
  BY <1>2, LenProperties
<1> HIDE DEF a, n
<1>4. Remembered(a)
  <2>1. \A i \in 1..n : cs[i].key # c.key
    BY <1>1 DEF Known
  <2>2. QED
    BY <1>1, <1>2, <1>3, <2>1 DEF Remembered
<1>5. \A k \in Keys : Known(a, k) <=> Known(cs, k) \/ k = c.key
  BY <1>1, <1>2, <1>3 DEF Known
<1>6. ASSUME NEW count \in Counters
      PROVE  Held(a, count) = Held(cs, count) + c[count]
  <2> DEFINE f == [i \in 1..(n + 1) |-> a[i][count]]
             g == [i \in 1..n |-> cs[i][count]]
  <2>1. Held(a, count) = SumTo(f, n + 1) /\ Held(cs, count) = SumTo(g, n)
    BY <1>1, <1>2, <1>3 DEF Held, n
  <2>2. IntsTo(f, n + 1) /\ IntsTo(g, n) /\ (\A i \in 1..n : f[i] = g[i]) /\ f[n + 1] = c[count]
    BY <1>1, <1>2, CountersOf DEF IntsTo
  <2> HIDE DEF f, g
  <2>3. SumTo(f, n + 1) = SumTo(f, n) + f[n + 1]
    BY <1>1, <2>2, SumStep
  <2>4. SumTo(f, n) = SumTo(g, n)
    BY <1>1, <2>2, SumSame
  <2>5. QED
    BY <2>1, <2>2, <2>3, <2>4
<1>7. QED
  BY <1>2, <1>4, <1>5, <1>6 DEF a, n

LEMMA HeldType ==
  ASSUME NEW cs, Remembered(cs), NEW count \in Counters
  PROVE  Held(cs, count) \in Nat
<1> DEFINE f == [c \in DOMAIN cs |-> cs[c][count]]
<1>1. Len(cs) \in Nat /\ DOMAIN cs = 1..Len(cs) /\ \A i \in 1..Len(cs) : cs[i] \in Client
  BY LenProperties DEF Remembered
<1>2. \A k \in 1..Len(cs) : f[k] \in Nat
  BY <1>1, CountersOf
<1> HIDE DEF f
<1>3. SumTo(f, Len(cs)) \in Nat
  BY <1>1, <1>2, SumNat
<1>4. QED
  BY <1>3 DEF Held, f

LEMMA MergeIs ==
  ASSUME NEW a \in Client, NEW b \in Client
  PROVE  /\ Merge(a, b) \in Client /\ Merge(a, b).key = a.key
         /\ \A count \in Counters : Merge(a, b)[count] = a[count] + b[count]
<1> DEFINE c == Merge(a, b)
<1>1. c.key = a.key
  BY DEF Merge, Client
<1>2. c.requests = a.requests + b.requests
  BY DEF Merge, Client
<1>3. c.bytes = a.bytes + b.bytes
  BY DEF Merge, Client
<1>4. c.boots = a.boots + b.boots
  BY DEF Merge, Client
<1>5. [a EXCEPT !.requests = a.requests + b.requests] \in Client
  BY DEF Client
<1>6. \A x \in Client : [x EXCEPT !.boots = a.boots + b.boots] \in Client
  BY DEF Client
<1>7. \A x \in Client : [x EXCEPT !.bytes = a.bytes + b.bytes] \in Client
  BY DEF Client
<1>8. c \in Client
  BY <1>5, <1>6, <1>7 DEF Merge
<1> HIDE DEF c
<1>9. \A count \in Counters : c[count] = a[count] + b[count]
  BY <1>2, <1>3, <1>4 DEF Counters
<1>10. QED
  BY <1>1, <1>8, <1>9 DEF c

LEMMA AskedIs ==
  ASSUME NEW a \in Client
  PROVE  LET b == [a EXCEPT !.requests = @ + 1]
         IN  /\ b \in Client /\ b.key = a.key
             /\ \A count \in Counters : b[count] = a[count] + IF count = "requests" THEN 1 ELSE 0
BY DEF Client, Counters

KeyOf(ip, mac) == IF mac = NoMac THEN ip ELSE mac

\* No list of clients with distinct keys is longer than there are keys.
LEMMA RoomIs ==
  ASSUME MonitorAssumption, NEW cs, Remembered(cs)
  PROVE  /\ Cardinality(Keys) \in Nat /\ Len(cs) <= Cardinality(Keys)
<1> DEFINE n == Len(cs)
           f == [i \in 1..n |-> cs[i].key]
<1>1. n \in Nat /\ DOMAIN cs = 1..n /\ \A i \in 1..n : cs[i] \in Client
  BY LenProperties DEF Remembered
<1>2. f \in Injection(1..n, Keys)
  BY <1>1 DEF Remembered, Client, Injection, IsInjective
<1>3. IsFiniteSet(Keys) /\ Cardinality(Keys) \in Nat
  BY FS_Union, FS_CardinalityType DEF MonitorAssumption, Keys
<1>4. Cardinality(1..n) <= Cardinality(Keys)
  BY <1>2, <1>3, FS_Injection
<1>5. Cardinality(1..n) = n
  <2>1. 1 \in Int /\ n \in Int
    BY <1>1
  <2>2. Cardinality(1..n) = IF 1 > n THEN 0 ELSE n - 1 + 1
    BY <2>1, FS_Interval
  <2>3. QED
    BY <1>1, <2>2
<1>6. QED
  BY <1>3, <1>4, <1>5

LEMMA EvictIs ==
  ASSUME MonitorAssumption, NEW cs, Remembered(cs), Len(cs) <= MaxClients + 1
  PROVE  /\ Remembered(Evict(cs)) /\ Len(Evict(cs)) <= MaxClients
         /\ Cardinality(Keys) <= MaxClients => Evict(cs) = cs
         /\ \A count \in Counters : Held(Evict(cs), count) <= Held(cs, count)
<1>0. \A count \in Counters : Held(cs, count) \in Nat
  BY HeldType
<1>1. Len(cs) \in Nat /\ DOMAIN cs = 1..Len(cs) /\ \A i \in 1..Len(cs) : cs[i] \in Client
  BY LenProperties DEF Remembered
<1>2. CASE Len(cs) <= MaxClients
  <2>1. ~(Len(cs) > MaxClients)
    BY <1>1, <1>2 DEF MonitorAssumption
  <2>2. Evict(cs) = cs
    BY <2>1 DEF Evict
  <2>3. QED
    BY <1>0, <1>2, <2>2
<1>3. CASE Len(cs) > MaxClients
  <2>1. Evict(cs) = Tail(cs) /\ cs # <<>>
    BY <1>1, <1>3 DEF Evict, MonitorAssumption
  <2>2. /\ Tail(cs) \in Seq(Client) /\ Len(Tail(cs)) = Len(cs) - 1
        /\ \A i \in 1..(Len(cs) - 1) : Tail(cs)[i] = cs[i + 1]
    BY <2>1, HeadTailProperties DEF Remembered
  <2>3. DOMAIN Tail(cs) = 1..(Len(cs) - 1)
    BY <2>2, LenProperties
  <2>4. Remembered(Tail(cs))
    BY <1>1, <2>2, <2>3 DEF Remembered
  <2>5. ~(Cardinality(Keys) <= MaxClients)
    BY <1>1, <1>3, RoomIs DEF MonitorAssumption
  <2>6. Len(Tail(cs)) <= MaxClients
    BY <1>1, <2>2 DEF MonitorAssumption
  <2>7. ASSUME NEW count \in Counters
        PROVE  Held(Tail(cs), count) <= Held(cs, count)
    <3> DEFINE n == Len(cs)
               f == [c \in 1..n |-> cs[c][count]]
               g == [c \in 1..(n - 1) |-> Tail(cs)[c][count]]
    <3>1. n \in Nat /\ 1 \in 1..n
      BY <1>1, <1>3 DEF MonitorAssumption
    <3>2. \A c \in 1..n : f[c] \in Nat
      BY <1>1, CountersOf
    <3>3. \A k \in 1..(n - 1) : g[k] = IF k < 1 THEN f[k] ELSE f[k + 1]
      BY <1>1, <2>2
    <3>4. Held(cs, count) = SumTo(f, n) /\ Held(Tail(cs), count) = SumTo(g, n - 1)
      BY <1>1, <2>2, <2>3 DEF Held
    <3> HIDE DEF f, g, n
    <3>5. SumTo(g, n - 1) = SumTo(f, n) - f[1]
      <4>1. IntsTo(f, n)
        BY <3>2 DEF IntsTo
      <4>2. QED
        BY <3>1, <3>3, <4>1, SumWithout
    <3>6. SumTo(f, n) \in Nat /\ f[1] \in Nat
      BY <3>1, <3>2, SumNat
    <3>7. QED
      BY <3>4, <3>5, <3>6
  <2>8. QED
    BY <2>1, <2>4, <2>5, <2>6, <2>7
<1>4. QED
  BY <1>1, <1>2, <1>3 DEF MonitorAssumption

LEMMA TouchIs ==
  ASSUME MonitorAssumption, NEW cs, Remembered(cs), Len(cs) <= MaxClients,
         NEW ip \in Ips, NEW mac \in Macs \cup {NoMac}
  PROVE  LET touched == TouchClient(cs, ip, mac)
         IN  /\ Remembered(touched) /\ Len(touched) <= MaxClients
             /\ \A count \in Counters :
                  Held(touched, count) <= Held(cs, count) + IF count = "requests" THEN 1 ELSE 0
             /\ Cardinality(Keys) <= MaxClients =>
                  /\ \A k \in Keys : Known(touched, k) <=>
                       (Known(cs, k) /\ (mac # NoMac => k # ip)) \/ k = KeyOf(ip, mac)
                  /\ \A count \in Counters :
                       Held(touched, count) = Held(cs, count) + IF count = "requests" THEN 1 ELSE 0
<1> DEFINE key  == KeyOf(ip, mac)
           old  == IF mac = NoMac THEN cs ELSE Without(cs, ip)
           rest == Without(old, key)
           mine == IF mac = NoMac THEN Counts(cs, key) ELSE Merge(Counts(cs, key), Counts(cs, ip))
           asked == [mine EXCEPT !.requests = @ + 1]
           all  == Append(rest, asked)
<1>1. ip \in Keys /\ key \in Keys /\ (mac # NoMac => key # ip)
  BY DEF Keys, KeyOf, MonitorAssumption
<1>2. TouchClient(cs, ip, mac) = Evict(all)
  BY DEF TouchClient, KeyOf
<1>3. Len(cs) \in Nat
  BY LenProperties DEF Remembered
<1>4. /\ Remembered(old) /\ Len(old) <= Len(cs)
      /\ \A k \in Keys : Known(old, k) <=> Known(cs, k) /\ (mac # NoMac => k # ip)
      /\ Counts(old, key) = Counts(cs, key)
      /\ \A count \in Counters :
           Held(old, count) = Held(cs, count) - IF mac = NoMac THEN 0 ELSE Counts(cs, ip)[count]
  <2>1. CASE mac = NoMac
    <3>1. \A count \in Counters : Held(cs, count) \in Int
      BY HeldType
    <3>2. QED
      BY <1>3, <2>1, <3>1
  <2>2. CASE mac # NoMac
    <3>1. /\ Remembered(Without(cs, ip)) /\ ~Known(Without(cs, ip), ip)
          /\ Len(Without(cs, ip)) <= Len(cs)
      BY <1>1, WithoutIs
    <3>2. \A k \in Keys \ {ip} : /\ Known(Without(cs, ip), k) = Known(cs, k)
                                 /\ Counts(Without(cs, ip), k) = Counts(cs, k)
      BY <1>1, WithoutIs
    <3>3. \A count \in Counters :
            Held(Without(cs, ip), count) = Held(cs, count) - Counts(cs, ip)[count]
      BY <1>1, WithoutIs
    <3>4. old = Without(cs, ip)
      BY <2>2
    <3> HIDE DEF old, key
    <3>5. QED
      BY <1>1, <2>2, <3>1, <3>2, <3>3, <3>4
  <2>3. QED
    BY <2>1, <2>2
<1>5. /\ mine \in Client /\ mine.key = key
      /\ \A count \in Counters :
           mine[count] = Counts(cs, key)[count]
                           + IF mac = NoMac THEN 0 ELSE Counts(cs, ip)[count]
  <2>1. Counts(cs, key) \in Client /\ Counts(cs, key).key = key /\ Counts(cs, ip) \in Client
    BY <1>1, CountsOf
  <2>2. \A count \in Counters : Counts(cs, key)[count] \in Nat
    BY <2>1, CountersOf
  <2>3. QED
    BY <2>1, <2>2, MergeIs
<1>6. /\ asked \in Client /\ asked.key = key
      /\ \A count \in Counters : asked[count] = mine[count] + IF count = "requests" THEN 1 ELSE 0
  BY <1>5, AskedIs
<1> HIDE DEF old, mine, asked, key
<1>7. /\ Remembered(rest) /\ ~Known(rest, key) /\ Len(rest) <= Len(old)
      /\ \A k \in Keys \ {key} : Known(rest, k) = Known(old, k)
      /\ \A count \in Counters : Held(rest, count) = Held(old, count) - Counts(old, key)[count]
  <2>1. rest = Without(old, key)
    OBVIOUS
  <2> HIDE DEF rest
  <2>2. Remembered(rest) /\ ~Known(rest, key) /\ Len(rest) <= Len(old)
    BY <1>1, <1>4, <2>1, WithoutIs
  <2>3. \A k \in Keys \ {key} : Known(rest, k) = Known(old, k)
    BY <1>1, <1>4, <2>1, WithoutIs
  <2>4. \A count \in Counters :
          Held(Without(old, key), count) = Held(old, count) - Counts(old, key)[count]
    BY <1>1, <1>4, WithoutIs
  <2>5. QED
    BY <2>1, <2>2, <2>3, <2>4
<1> HIDE DEF rest
<1>8. /\ Remembered(all) /\ Len(all) = Len(rest) + 1
      /\ \A k \in Keys : Known(all, k) <=> Known(rest, k) \/ k = key
      /\ \A count \in Counters : Held(all, count) = Held(rest, count) + asked[count]
  BY <1>6, <1>7, AppendedIs
<1> HIDE DEF all
<1>9. Len(all) <= MaxClients + 1
  <2>1. Len(old) \in Nat /\ Len(rest) \in Nat
    BY <1>4, <1>7, LenProperties DEF Remembered
  <2>2. QED
    BY <1>3, <1>4, <1>7, <1>8, <2>1 DEF MonitorAssumption
<1>10. /\ Remembered(Evict(all)) /\ Len(Evict(all)) <= MaxClients
       /\ Cardinality(Keys) <= MaxClients => Evict(all) = all
       /\ \A count \in Counters : Held(Evict(all), count) <= Held(all, count)
  BY <1>8, <1>9, EvictIs
<1>11. \A k \in Keys : Known(all, k) <=> (Known(cs, k) /\ (mac # NoMac => k # ip)) \/ k = key
  BY <1>1, <1>4, <1>7, <1>8
<1>12. ASSUME NEW count \in Counters
       PROVE  Held(all, count) = Held(cs, count) + IF count = "requests" THEN 1 ELSE 0
  <2> DEFINE own   == Counts(cs, key)[count]
             taken == IF mac = NoMac THEN 0 ELSE Counts(cs, ip)[count]
             more  == IF count = "requests" THEN 1 ELSE 0
  <2>1. Held(cs, count) \in Int
    BY HeldType
  <2>2. own \in Nat /\ taken \in Nat /\ more \in Nat
    BY <1>1, CountsOf, CountersOf
  <2>3. mine[count] = own + taken /\ asked[count] = mine[count] + more
    BY <1>5, <1>6
  <2>4. Held(old, count) = Held(cs, count) - taken
    BY <1>4
  <2>5. Held(rest, count) = Held(old, count) - own
    BY <1>4, <1>7
  <2>6. Held(all, count) = Held(rest, count) + asked[count]
    BY <1>8
  <2> HIDE DEF own, taken, more
  <2>7. Held(all, count) = Held(cs, count) + more
    BY <2>1, <2>2, <2>3, <2>4, <2>5, <2>6
  <2>8. QED
    BY <2>7 DEF more
<1>13. QED
  BY <1>2, <1>10, <1>11, <1>12 DEF key

\* What Descending returns: each number of the set, once.
LEMMA DescendingIs ==
  ASSUME NEW S \in SUBSET Int, IsFiniteSet(S)
  PROVE  LET d == Descending(S)
         IN  /\ Cardinality(S) \in Nat /\ d \in [1..Cardinality(S) -> S]
             /\ \A i, j \in 1..Cardinality(S) : d[i] = d[j] => i = j
<1> DEFINE n == Cardinality(S)
           above(x) == {y \in S : y > x}
           f == [x \in S |-> Cardinality(above(x)) + 1]
<1>1. n \in Nat
  BY FS_CardinalityType
<1>2. ASSUME NEW x \in S
      PROVE  IsFiniteSet(above(x)) /\ Cardinality(above(x)) \in Nat
  BY FS_Subset, FS_CardinalityType
<1>3. ASSUME NEW x \in S
      PROVE  Cardinality(above(x)) + 1 \in 1..n
  <2>1. IsFiniteSet(S \ {x}) /\ Cardinality(S \ {x}) = n - 1
    BY FS_RemoveElement
  <2>2. above(x) \in SUBSET (S \ {x})
    OBVIOUS
  <2>3. Cardinality(above(x)) <= n - 1
    BY <2>1, <2>2, FS_Subset
  <2>4. Cardinality(above(x)) \in Nat
    BY <1>2
  <2> HIDE DEF above
  <2>5. QED
    BY <1>1, <2>3, <2>4
<1>4. ASSUME NEW x \in S, NEW y \in S, x < y
      PROVE  Cardinality(above(y)) < Cardinality(above(x))
  <2>1. IsFiniteSet(above(x) \ {y}) /\ Cardinality(above(x) \ {y}) = Cardinality(above(x)) - 1
    BY <1>2, <1>4, FS_RemoveElement
  <2>2. above(y) \in SUBSET (above(x) \ {y})
    <3>1. ASSUME NEW z \in S, z > y
          PROVE  z > x /\ z # y
      <4>1. x \in Int /\ y \in Int /\ z \in Int
        OBVIOUS
      <4>2. QED
        BY <1>4, <3>1, <4>1
    <3>2. QED
      BY <3>1
  <2>3. Cardinality(above(y)) <= Cardinality(above(x)) - 1
    BY <2>1, <2>2, FS_Subset
  <2>4. QED
    BY <1>2, <2>3
<1> HIDE DEF above
<1>5. f \in [S -> 1..n] /\ \A x, y \in S : f[x] = f[y] => x = y
  <2>1. f \in [S -> 1..n]
    BY <1>3
  <2>2. ASSUME NEW x \in S, NEW y \in S, f[x] = f[y]
        PROVE  x = y
    <3>1. Cardinality(above(x)) = Cardinality(above(y))
      BY <1>2, <2>2
    <3>2. ~(x < y) /\ ~(y < x) /\ x \in Int /\ y \in Int
      BY <1>2, <1>4, <3>1
    <3>3. QED
      BY <3>2
  <2>3. QED
    BY <2>1, <2>2
<1>6. f \in Injection(S, 1..n)
  BY <1>5 DEF Injection, IsInjective
<1>7. IsFiniteSet(1..n) /\ Cardinality(1..n) = n
  <2>1. 1 \in Int /\ n \in Int
    BY <1>1
  <2>2. IsFiniteSet(1..n) /\ Cardinality(1..n) = IF 1 > n THEN 0 ELSE n - 1 + 1
    BY <2>1, FS_Interval
  <2>3. QED
    BY <1>1, <2>2
<1>8. f \in Surjection(S, 1..n)
  BY <1>6, <1>7, FS_Injection
<1>9. ASSUME NEW k \in 1..n
      PROVE  \E x \in S : Cardinality(above(x)) = k - 1
  <2>1. PICK x \in S : f[x] = k
    BY <1>8 DEF Surjection
  <2>2. QED
    BY <1>2, <2>1
<1> DEFINE d(k) == CHOOSE x \in S : Cardinality(above(x)) = k - 1
<1>10. ASSUME NEW k \in 1..n
       PROVE  d(k) \in S /\ Cardinality(above(d(k))) = k - 1
  BY <1>9
<1>11. Descending(S) = [k \in 1..n |-> d(k)]
  BY DEF Descending, above
<1> HIDE DEF d
<1>12. ASSUME NEW i \in 1..n, NEW j \in 1..n, Descending(S)[i] = Descending(S)[j]
       PROVE  i = j
  <2>1. d(i) = d(j)
    BY <1>11, <1>12
  <2>2. i - 1 = j - 1
    BY <1>10, <2>1
  <2>3. QED
    BY <1>1, <2>2
<1>13. Descending(S) \in [1..n -> S]
  BY <1>10, <1>11
<1>14. QED
  BY <1>1, <1>12, <1>13

(***************************************************************************)
(* The history.                                                            *)
(***************************************************************************)
DistinctIds(s) == \A i, j \in DOMAIN s : s[i].id = s[j].id => i = j

LEMMA HistoryIs ==
  ASSUME MonitorAssumption, NEW E, NEW new \in Seq(E), NEW old \in Seq(E),
         DistinctIds(new), DistinctIds(old),
         \A i \in DOMAIN new, j \in DOMAIN old : new[i].id # old[j].id
  PROVE  LET r == Recent(new \o old)
         IN  /\ r \in Seq(E) /\ Len(r) <= MaxRecent /\ DistinctIds(r)
             /\ \A k \in DOMAIN r :
                  (\E i \in DOMAIN new : r[k] = new[i]) \/ (\E j \in DOMAIN old : r[k] = old[j])
<1> DEFINE s == new \o old
           n == IF Len(s) < MaxRecent THEN Len(s) ELSE MaxRecent
           r == SubSeq(s, 1, n)
<1>1. /\ Len(new) \in Nat /\ Len(old) \in Nat /\ DOMAIN new = 1..Len(new) /\ DOMAIN old = 1..Len(old)
  BY LenProperties
<1>2. /\ s \in Seq(E) /\ Len(s) = Len(new) + Len(old)
      /\ \A k \in 1..(Len(new) + Len(old)) : s[k] = IF k <= Len(new) THEN new[k] ELSE old[k - Len(new)]
  BY ConcatProperties
<1> HIDE DEF s
<1>3. n \in Nat /\ n <= Len(s) /\ n <= MaxRecent
  BY <1>1, <1>2 DEF MonitorAssumption
<1>4. Recent(s) = r
  BY DEF Recent
<1> HIDE DEF n
<1>5. /\ r \in Seq(E) /\ Len(r) = n /\ \A k \in 1..n : r[k] = s[k]
  <2>1. 1 \in Int /\ n \in Int /\ \A k \in 1..n : s[k] \in E
    BY <1>2, <1>3, LenProperties
  <2>2. /\ r \in Seq(E) /\ Len(r) = (IF 1 <= n THEN n - 1 + 1 ELSE 0)
        /\ \A k \in 1..(n - 1 + 1) : r[k] = s[1 + k - 1]
    BY <2>1, SubSeqProperties
  <2>3. QED
    BY <1>3, <2>2
<1>6. DOMAIN r = 1..n
  BY <1>5, LenProperties
<1> HIDE DEF r
<1>7. ASSUME NEW k \in 1..n
      PROVE  \/ k <= Len(new) /\ k \in DOMAIN new /\ r[k] = new[k]
             \/ k > Len(new) /\ k - Len(new) \in DOMAIN old /\ r[k] = old[k - Len(new)]
  <2>1. k \in 1..(Len(new) + Len(old)) /\ r[k] = s[k]
    BY <1>2, <1>3, <1>5
  <2>2. QED
    BY <1>1, <1>2, <2>1
<1>8. DistinctIds(r)
  <2>1. SUFFICES ASSUME NEW i \in 1..n, NEW j \in 1..n, r[i].id = r[j].id PROVE i = j
    BY <1>6 DEF DistinctIds
  <2>2. CASE i <= Len(new) /\ j <= Len(new)
    BY <1>7, <2>1, <2>2 DEF DistinctIds
  <2>3. CASE i > Len(new) /\ j > Len(new)
    <3>1. i - Len(new) = j - Len(new)
      BY <1>7, <2>1, <2>3 DEF DistinctIds
    <3>2. QED
      BY <1>1, <1>3, <3>1
  <2>4. CASE (i <= Len(new) /\ j > Len(new)) \/ (i > Len(new) /\ j <= Len(new))
    BY <1>7, <2>1, <2>4
  <2>5. QED
    BY <1>1, <1>3, <2>2, <2>3, <2>4
<1>9. QED
  BY <1>3, <1>4, <1>5, <1>6, <1>7, <1>8 DEF s

(***************************************************************************)
(* Documents again, now with the clients and the history. While there is   *)
(* room for every client, each request in flight is counted on a client    *)
(* that is remembered, under its address or a MAC, and no older one of its *)
(* address was left behind.                                                *)
(***************************************************************************)
Formed(m) ==
  m = [field \in DOMAIN m |-> m[field]] /\ m.active = [id \in DOMAIN m.active |-> m.active[id]]
Entry(m) == [id : 1..(m.next - 1), ok : BOOLEAN]
Written(m) ==
  /\ Shape(m) /\ Formed(m) /\ m.next <= MaxRequests + 1
  /\ m.bytes \in Nat /\ m.boots \in Nat /\ m.starts \in Nat /\ m.recovered \in Nat
  /\ Remembered(m.clients) /\ Len(m.clients) <= MaxClients
  /\ \A id \in DOMAIN m.active : m.active[id] \in Request
  /\ m.recent \in Seq(Entry(m)) /\ Len(m.recent) <= MaxRecent /\ Once(m)

Follows(active) ==
  \A a, b \in DOMAIN active :
    a < b /\ active[a].ip = active[b].ip /\ active[b].key \in Macs => active[a].key \in Macs
Owned(m) ==
  \A id \in DOMAIN m.active :
    /\ Known(m.clients, m.active[id].key)
    /\ m.active[id].key = m.active[id].ip \/ m.active[id].key \in Macs
Balanced(m) == \A count \in Counters : Held(m.clients, count) = m[count]
Bounded(m)  == \A count \in Counters : Held(m.clients, count) <= m[count]
Attributed(m) == Owned(m) /\ Follows(m.active) /\ Balanced(m)
Kept(m) == Written(m) /\ Bounded(m) /\ (Cardinality(Keys) <= MaxClients => Attributed(m))

LEMMA NoneActive == <<>> = [id \in DOMAIN <<>> |-> <<>>[id]]
<1>1. <<>> \in Seq({}) /\ Len(<<>>) = 0
  BY EmptySeq
<1>2. <<>> \in [1..0 -> {}] /\ DOMAIN <<>> = 1..0
  BY <1>1, LenProperties
<1>3. QED
  BY <1>2

LEMMA FreshKept ==
  ASSUME MonitorAssumption
  PROVE  Kept(Fresh)
<1>1. Shape(Fresh) /\ DOMAIN Fresh.active = {}
  BY FreshSound DEF Sound
<1>2. \A S : <<>> \in Seq(S) /\ Len(<<>>) = 0 /\ DOMAIN <<>> = {}
  BY EmptySeq, LenProperties
<1>3. /\ Fresh.next = 1 /\ Fresh.clients = <<>> /\ Fresh.recent = <<>>
      /\ Fresh.bytes = 0 /\ Fresh.boots = 0 /\ Fresh.starts = 1 /\ Fresh.recovered = 0
      /\ Fresh.requests = 0
  BY DEF Fresh
<1>4. Formed(Fresh)
  <2>1. Fresh = [field \in DOMAIN Fresh |-> Fresh[field]]
    BY DEF Fresh
  <2>2. Fresh.active = <<>>
    BY DEF Fresh
  <2>3. QED
    BY <2>1, <2>2, NoneActive DEF Formed
<1>5. Written(Fresh)
  BY <1>1, <1>2, <1>3, <1>4 DEF Written, Remembered, Once, MonitorAssumption
<1>6. Balanced(Fresh) /\ Bounded(Fresh)
  BY <1>2, <1>3, SumStep DEF Balanced, Bounded, Held, Counters
<1>7. QED
  BY <1>1, <1>5, <1>6 DEF Kept, Attributed, Owned, Follows

LEMMA RekeyIs ==
  ASSUME MonitorAssumption, NEW cs, NEW active, \A id \in DOMAIN active : active[id] \in Request,
         NEW ip \in Ips, NEW mac \in Macs \cup {NoMac}
  PROVE  LET moved == Rekey(cs, active, ip, mac)
         IN  /\ DOMAIN moved = DOMAIN active
             /\ \A id \in DOMAIN active :
                  /\ moved[id] \in Request /\ moved[id].ip = active[id].ip
                  /\ moved[id].key = IF mac # NoMac /\ Known(cs, ip) /\ active[id].key = ip
                                     THEN mac ELSE active[id].key
<1>1. CASE mac = NoMac \/ ~Known(cs, ip)
  BY <1>1 DEF Rekey
<1>2. CASE ~(mac = NoMac \/ ~Known(cs, ip))
  <2>1. mac \in Keys
    BY <1>2 DEF Keys
  <2>2. \A r \in Request : /\ [r EXCEPT !.key = mac] \in Request
                           /\ [r EXCEPT !.key = mac].ip = r.ip /\ [r EXCEPT !.key = mac].key = mac
    BY <2>1 DEF Request
  <2>3. QED
    BY <1>2, <2>2 DEF Rekey
<1>3. QED
  BY <1>1, <1>2

LEMMA RegisteredKept ==
  ASSUME MonitorAssumption, NEW m, Kept(m), m.next \in Ids,
         NEW ip \in Ips, NEW mac \in Macs \cup {NoMac}, NEW image \in BOOLEAN
  PROVE  Kept(Registered(m, ip, mac, image))
<1> DEFINE r == Registered(m, ip, mac, image)
           moved == Rekey(m.clients, m.active, ip, mac)
           touched == TouchClient(m.clients, ip, mac)
           key == KeyOf(ip, mac)
<1>1. /\ Written(m) /\ m.next \in Nat \ {0} /\ DOMAIN m = DOMAIN Fresh
      /\ DOMAIN m.active \subseteq 1..(m.next - 1)
  BY DEF Kept, Written, Shape
<1>2. /\ DOMAIN moved = DOMAIN m.active
      /\ \A id \in DOMAIN m.active :
           /\ moved[id] \in Request /\ moved[id].ip = m.active[id].ip
           /\ moved[id].key = IF mac # NoMac /\ Known(m.clients, ip) /\ m.active[id].key = ip
                              THEN mac ELSE m.active[id].key
  <2>1. \A id \in DOMAIN m.active : m.active[id] \in Request
    BY <1>1 DEF Written
  <2>2. QED
    BY <2>1, RekeyIs
<1>3. /\ r.next = m.next + 1 /\ r.requests = m.requests + 1 /\ DOMAIN r = DOMAIN Fresh
      /\ r.successful = m.successful /\ r.failed = m.failed /\ r.bytes = m.bytes
      /\ r.boots = m.boots /\ r.starts = m.starts /\ r.recovered = m.recovered
      /\ r.recent = m.recent /\ r.clients = touched
  BY <1>1 DEF Registered, Fresh
<1>4. /\ DOMAIN r.active = DOMAIN m.active \cup {m.next}
      /\ \A id \in DOMAIN m.active : r.active[id] = moved[id]
      /\ r.active[m.next] = [ip |-> ip, key |-> key, image |-> image, bytes |-> 0]
  BY <1>1, <1>2 DEF Registered, KeyOf, Fresh
<1>formed. Formed(r)
  <2>1. r = [field \in DOMAIN r |-> r[field]]
    BY DEF Registered
  <2>2. r.active = [id \in DOMAIN r.active |-> r.active[id]]
    BY <1>1 DEF Registered, Fresh
  <2>3. QED
    BY <2>1, <2>2 DEF Formed
<1> HIDE DEF r, moved, touched
<1>5. /\ Remembered(touched) /\ Len(touched) <= MaxClients
      /\ \A count \in Counters :
           Held(touched, count) <= Held(m.clients, count) + IF count = "requests" THEN 1 ELSE 0
      /\ Cardinality(Keys) <= MaxClients =>
           /\ \A k \in Keys : Known(touched, k) <=>
                (Known(m.clients, k) /\ (mac # NoMac => k # ip)) \/ k = key
           /\ \A count \in Counters :
                Held(touched, count) = Held(m.clients, count) + IF count = "requests" THEN 1 ELSE 0
  BY <1>1, TouchIs DEF Written, touched
<1>6. key \in Keys /\ (key = ip \/ key \in Macs) /\ (mac = NoMac => key = ip)
  BY DEF KeyOf, Keys
<1> HIDE DEF key
<1>7. Written(r)
  <2>1. Shape(r) /\ r.next <= MaxRequests + 1
    <3>1. Shape(m) /\ MaxRequests \in Nat /\ m.next \in 1..MaxRequests
      BY <1>1 DEF Written, Ids, MonitorAssumption
    <3>2. Shape(r)
      BY <1>3, <1>4, <3>1 DEF Shape
    <3>3. QED
      BY <1>3, <3>1, <3>2
  <2>2. \A id \in DOMAIN r.active : r.active[id] \in Request
    BY <1>2, <1>4, <1>6 DEF Request, MonitorAssumption
  <2>3. r.recent \in Seq(Entry(r))
    <3>1. Entry(m) \subseteq Entry(r)
      BY <1>1, <1>3 DEF Entry
    <3>2. QED
      BY <1>1, <1>3, <3>1, SeqMonotonic DEF Written
  <2>4. Once(r)
    <3>1. \A i \in DOMAIN m.recent : m.recent[i].id # m.next
      <4>1. \A i \in DOMAIN m.recent : m.recent[i] \in Entry(m)
        BY <1>1, ElementOfSeq, LenProperties DEF Written
      <4>2. \A e \in Entry(m) : e.id # m.next
        BY <1>1 DEF Entry
      <4>3. QED
        BY <4>1, <4>2
    <3>2. QED
      BY <1>1, <1>3, <1>4, <3>1 DEF Written, Once
  <2>5. QED
    BY <1>formed, <1>1, <1>3, <1>5, <2>1, <2>2, <2>3, <2>4 DEF Written
<1>counted. \A count \in Counters :
             /\ r[count] = m[count] + IF count = "requests" THEN 1 ELSE 0
             /\ m[count] \in Nat
  <2>1. m.requests \in Nat /\ m.bytes \in Nat /\ m.boots \in Nat
    BY <1>1 DEF Written, Shape
  <2>2. QED
    BY <1>3, <2>1 DEF Counters
<1>bounded. Bounded(r)
  <2>1. \A count \in Counters :
          /\ Held(m.clients, count) <= m[count]
          /\ Held(m.clients, count) \in Nat /\ Held(touched, count) \in Nat
    BY <1>1, <1>5, HeldType DEF Kept, Bounded, Written
  <2>2. QED
    BY <1>3, <1>5, <1>counted, <2>1 DEF Bounded
<1>8. ASSUME Cardinality(Keys) <= MaxClients
      PROVE  Attributed(r)
  <2>1. Owned(m) /\ Follows(m.active) /\ Balanced(m)
    BY <1>8 DEF Kept, Attributed
  <2>2. \A id \in DOMAIN m.active : m.active[id].key \in Keys
    BY <1>1 DEF Written, Request
  <2>3. Owned(r)
    <3>1. ASSUME NEW id \in DOMAIN m.active
          PROVE  /\ Known(touched, moved[id].key)
                 /\ moved[id].key = moved[id].ip \/ moved[id].key \in Macs
      BY <1>2, <1>5, <1>6, <1>8, <2>1, <2>2 DEF Owned, KeyOf, key
    <3>2. Known(touched, key)
      BY <1>5, <1>6, <1>8
    <3>3. QED
      BY <1>3, <1>4, <1>6, <3>1, <3>2 DEF Owned
  <2>4. Follows(r.active)
    <3>1. SUFFICES ASSUME NEW a \in DOMAIN r.active, NEW b \in DOMAIN r.active, a < b,
                          r.active[a].ip = r.active[b].ip, r.active[b].key \in Macs
                   PROVE  r.active[a].key \in Macs
      BY DEF Follows
    <3>2. a \in DOMAIN m.active
      BY <1>1, <1>4, <3>1
    <3>3. CASE b = m.next
      <4>1. mac # NoMac /\ m.active[a].ip = ip /\ mac \in Macs
        BY <1>2, <1>4, <1>6, <3>1, <3>2, <3>3 DEF MonitorAssumption
      <4>2. Known(m.clients, m.active[a].key) /\ (m.active[a].key = ip \/ m.active[a].key \in Macs)
        BY <2>1, <3>2, <4>1 DEF Owned
      <4>3. QED
        BY <1>2, <1>4, <3>2, <4>1, <4>2
    <3>4. CASE b \in DOMAIN m.active /\ m.active[b].key \in Macs
      <4>1. m.active[a].key \in Macs /\ m.active[a].key # ip
        BY <1>2, <1>4, <2>1, <3>1, <3>2, <3>4 DEF Follows, MonitorAssumption
      <4>2. QED
        BY <1>2, <1>4, <3>2, <4>1
    <3>5. CASE b \in DOMAIN m.active /\ m.active[b].key \notin Macs
      <4>1. mac # NoMac /\ mac \in Macs /\ Known(m.clients, ip) /\ m.active[b].key = ip
        BY <1>2, <1>4, <3>1, <3>5
      <4>2. m.active[b].ip = ip /\ m.active[a].ip = ip
        BY <1>2, <1>4, <2>1, <3>1, <3>2, <3>5, <4>1 DEF Owned
      <4>3. m.active[a].key = ip \/ m.active[a].key \in Macs
        BY <2>1, <3>2, <4>2 DEF Owned
      <4>4. QED
        BY <1>2, <1>4, <3>2, <4>1, <4>3
    <3>6. QED
      BY <1>4, <3>3, <3>4, <3>5
  <2>5. Balanced(r)
    BY <1>3, <1>5, <1>8, <1>counted, <2>1 DEF Balanced
  <2>6. QED
    BY <2>3, <2>4, <2>5 DEF Attributed
<1>9. QED
  BY <1>7, <1>8, <1>bounded DEF Kept, r

LEMMA HeldPlus ==
  ASSUME NEW cs, Remembered(cs), NEW ds, Remembered(ds), Len(ds) = Len(cs),
         NEW count \in Counters, NEW g,
         \A i \in DOMAIN cs : g[i] \in Nat /\ ds[i][count] = cs[i][count] + g[i]
  PROVE  Held(ds, count) = Held(cs, count) + SumTo(g, Len(cs))
<1> DEFINE n == Len(cs)
           f == [i \in 1..n |-> cs[i][count]]
           h == [i \in 1..n |-> ds[i][count]]
<1>1. n \in Nat /\ DOMAIN cs = 1..n /\ DOMAIN ds = 1..n /\ \A i \in 1..n : cs[i] \in Client
  BY LenProperties DEF Remembered
<1>2. IntsTo(f, n) /\ IntsTo(g, n) /\ \A i \in 1..n : h[i] = f[i] + g[i]
  <2>1. \A i \in 1..n : cs[i][count] \in Nat
    BY <1>1, CountersOf
  <2>2. \A i \in 1..n : f[i] = cs[i][count] /\ h[i] = ds[i][count]
    OBVIOUS
  <2> HIDE DEF f, h
  <2>3. QED
    BY <1>1, <2>1, <2>2 DEF IntsTo
<1>3. Held(cs, count) = SumTo(f, n) /\ Held(ds, count) = SumTo(h, n)
  BY <1>1 DEF Held
<1> HIDE DEF f, h, n
<1>4. SumTo(h, n) = SumTo(f, n) + SumTo(g, n)
  BY <1>1, <1>2, SumPlus
<1>5. QED
  BY <1>3, <1>4 DEF n

\* Clients whose counters grow stay the clients they are.
LEMMA GrownIs ==
  ASSUME NEW cs, Remembered(cs), NEW ds, DOMAIN ds = DOMAIN cs, ds = [i \in DOMAIN cs |-> ds[i]],
         \A i \in DOMAIN cs : ds[i] \in Client /\ ds[i].key = cs[i].key
  PROVE  /\ Remembered(ds) /\ Len(ds) = Len(cs)
         /\ \A k : Known(ds, k) <=> Known(cs, k)
<1>1. Len(cs) \in Nat /\ DOMAIN cs = 1..Len(cs)
  BY LenProperties DEF Remembered
<1>2. ds \in [1..Len(cs) -> Client]
  BY <1>1
<1>3. ds \in Seq(Client) /\ Len(ds) = Len(cs)
  BY <1>1, <1>2, ListOf
<1>4. Remembered(ds)
  BY <1>3 DEF Remembered
<1>5. \A k : Known(ds, k) <=> Known(cs, k)
  BY DEF Known
<1>6. QED
  BY <1>3, <1>4, <1>5

LEMMA CreditIs ==
  ASSUME NEW cs, Remembered(cs), NEW key \in Keys, NEW bytes \in Nat, NEW boots \in Nat
  PROVE  LET ds == Credit(cs, key, bytes, boots)
         IN  /\ Remembered(ds) /\ Len(ds) = Len(cs)
             /\ \A k : Known(ds, k) <=> Known(cs, k)
             /\ Held(ds, "requests") = Held(cs, "requests")
             /\ Held(ds, "bytes") <= Held(cs, "bytes") + bytes
             /\ Held(ds, "boots") <= Held(cs, "boots") + boots
             /\ Known(cs, key) =>
                  /\ Held(ds, "bytes") = Held(cs, "bytes") + bytes
                  /\ Held(ds, "boots") = Held(cs, "boots") + boots
<1> DEFINE ds == Credit(cs, key, bytes, boots)
           n == Len(cs)
           p == Position(cs, key)
           more(c) == [c EXCEPT !.bytes = @ + bytes, !.boots = @ + boots]
<1>1. n \in Nat /\ DOMAIN cs = 1..n /\ \A i \in 1..n : cs[i] \in Client
  BY LenProperties DEF Remembered
<1>2. ASSUME NEW c \in Client
      PROVE  /\ more(c).key = c.key /\ more(c).requests = c.requests
             /\ more(c).bytes = c.bytes + bytes /\ more(c).boots = c.boots + boots
  BY DEF Client
<1>3. ASSUME NEW c \in Client
      PROVE  more(c) \in Client
  <2>1. c.bytes + bytes \in Nat /\ c.boots + boots \in Nat
    BY DEF Client
  <2>2. [c EXCEPT !.bytes = c.bytes + bytes] \in Client
    BY <2>1 DEF Client
  <2>3. \A x \in Client : [x EXCEPT !.boots = c.boots + boots] \in Client
    BY <2>1 DEF Client
  <2>4. QED
    BY <2>2, <2>3
<1>4. /\ DOMAIN ds = 1..n /\ ds = [i \in DOMAIN cs |-> ds[i]]
      /\ \A i \in 1..n :
           ds[i] = IF cs[i].key = key THEN more(cs[i]) ELSE cs[i]
  BY <1>1 DEF Credit
<1> HIDE DEF more
<1>5. \A i \in 1..n : ds[i] \in Client /\ ds[i].key = cs[i].key
  BY <1>1, <1>2, <1>3, <1>4
<1> HIDE DEF ds
<1>6. Remembered(ds) /\ Len(ds) = n /\ \A k : Known(ds, k) <=> Known(cs, k)
  BY <1>1, <1>4, <1>5, GrownIs
<1>7. ASSUME NEW count \in Counters, NEW v \in Nat,
             \A i \in 1..n : ds[i][count] = cs[i][count] + IF cs[i].key = key THEN v ELSE 0
      PROVE  Held(ds, count) = Held(cs, count) + IF Known(cs, key) THEN v ELSE 0
  <2> DEFINE g == [i \in 1..n |-> IF cs[i].key = key THEN v ELSE 0]
  <2>1. \A i \in 1..n : g[i] \in Nat /\ ds[i][count] = cs[i][count] + g[i]
    BY <1>7
  <2>2. SumTo(g, n) = IF Known(cs, key) THEN v ELSE 0
    <3>1. CASE Known(cs, key)
      <4>1. p \in 1..n /\ cs[p].key = key /\ \A i \in 1..n : cs[i].key = key => i = p
        BY <1>1, <3>1, CountsOf DEF Remembered
      <4> HIDE DEF p, n
      <4>2. p \in Nat \ {0} /\ v \in Int /\ p <= n /\ \A i \in 1..n : g[i] = IF i = p THEN v ELSE 0
        BY <1>1, <4>1
      <4> HIDE DEF g
      <4>3. QED
        BY <1>1, <3>1, <4>2, SumOne
    <3>2. CASE ~Known(cs, key)
      <4>1. 1 \in Nat \ {0} /\ 0 \in Int /\ \A i \in 1..n : g[i] = IF i = 1 THEN 0 ELSE 0
        BY <1>1, <3>2 DEF Known
      <4> HIDE DEF g, n
      <4>2. SumTo(g, n) = IF 1 <= n THEN 0 ELSE 0
        BY <1>1, <4>1, SumOne
      <4>3. QED
        BY <3>2, <4>2
    <3>3. QED
      BY <3>1, <3>2
  <2> HIDE DEF g
  <2>3. Held(ds, count) = Held(cs, count) + SumTo(g, n)
    BY <1>1, <1>6, <2>1, HeldPlus
  <2>4. QED
    BY <2>2, <2>3
<1>8. /\ Held(ds, "requests") = Held(cs, "requests") + IF Known(cs, key) THEN 0 ELSE 0
      /\ Held(ds, "bytes") = Held(cs, "bytes") + IF Known(cs, key) THEN bytes ELSE 0
      /\ Held(ds, "boots") = Held(cs, "boots") + IF Known(cs, key) THEN boots ELSE 0
  <2>1. \A i \in 1..n :
          /\ ds[i]["requests"] = cs[i]["requests"] + IF cs[i].key = key THEN 0 ELSE 0
          /\ ds[i]["bytes"] = cs[i]["bytes"] + IF cs[i].key = key THEN bytes ELSE 0
          /\ ds[i]["boots"] = cs[i]["boots"] + IF cs[i].key = key THEN boots ELSE 0
    <3>1. \A i \in 1..n : cs[i].requests \in Nat /\ cs[i].bytes \in Nat /\ cs[i].boots \in Nat
      BY <1>1 DEF Client
    <3>2. QED
      BY <1>1, <1>2, <1>4, <3>1
  <2>2. "requests" \in Counters /\ "bytes" \in Counters /\ "boots" \in Counters /\ 0 \in Nat
    BY DEF Counters
  <2> HIDE DEF n
  <2>3. Held(ds, "requests") = Held(cs, "requests") + IF Known(cs, key) THEN 0 ELSE 0
    BY <1>7, <2>1, <2>2
  <2>4. Held(ds, "bytes") = Held(cs, "bytes") + IF Known(cs, key) THEN bytes ELSE 0
    BY <1>7, <2>1, <2>2
  <2>5. Held(ds, "boots") = Held(cs, "boots") + IF Known(cs, key) THEN boots ELSE 0
    BY <1>7, <2>1, <2>2
  <2>6. QED
    BY <2>3, <2>4, <2>5
<1>9. Held(cs, "requests") \in Nat /\ Held(cs, "bytes") \in Nat /\ Held(cs, "boots") \in Nat
  BY HeldType DEF Counters
<1> HIDE DEF n, p
<1>10. /\ Held(ds, "requests") = Held(cs, "requests")
       /\ Held(ds, "bytes") <= Held(cs, "bytes") + bytes
       /\ Held(ds, "boots") <= Held(cs, "boots") + boots
  BY <1>8, <1>9
<1>11. QED
  BY <1>6, <1>8, <1>10 DEF ds, n

LEMMA RequestParts ==
  ASSUME MonitorAssumption, NEW request \in Request
  PROVE  request.key \in Keys /\ request.bytes \in Nat
BY DEF Request, MonitorAssumption

LEMMA SettledKept ==
  ASSUME MonitorAssumption, NEW m, Kept(m), NEW id \in DOMAIN m.active, NEW ok \in BOOLEAN,
         NEW boot \in Nat
  PROVE  Kept(Settled(m, id, ok, boot))
<1> DEFINE s == Settled(m, id, ok, boot)
           request == m.active[id]
           new == <<[id |-> id, ok |-> ok]>>
<1>1. /\ Written(m) /\ m.next \in Nat \ {0} /\ DOMAIN m = DOMAIN Fresh
      /\ DOMAIN m.active \subseteq 1..(m.next - 1)
  BY DEF Kept, Written, Shape
<1>2. request.key \in Keys /\ request.bytes \in Nat
  <2>1. request \in Request
    BY <1>1 DEF Written
  <2> HIDE DEF request
  <2>2. QED
    BY <2>1, RequestParts
<1>3. /\ s.next = m.next /\ s.requests = m.requests /\ DOMAIN s = DOMAIN Fresh
      /\ s.successful = (IF ok THEN m.successful + 1 ELSE m.successful)
      /\ s.failed = (IF ok THEN m.failed ELSE m.failed + 1)
      /\ s.bytes = m.bytes + request.bytes /\ s.boots = m.boots + boot
      /\ s.starts = m.starts /\ s.recovered = m.recovered
  BY <1>1 DEF Settled, Fresh
<1>4. /\ s.clients = Credit(m.clients, request.key, request.bytes, boot)
      /\ s.recent = Recent(new \o m.recent) /\ s.active = Popped(m.active, id)
  BY <1>1 DEF Settled, Fresh
<1>5. DOMAIN s.active = DOMAIN m.active \ {id} /\ \A i \in DOMAIN s.active : s.active[i] = m.active[i]
  BY <1>4 DEF Popped
<1>formed. Formed(s)
  <2>1. s = [field \in DOMAIN s |-> s[field]]
    BY DEF Settled
  <2>2. s.active = [i \in DOMAIN s.active |-> s.active[i]]
    BY <1>4 DEF Popped
  <2>3. QED
    BY <2>1, <2>2 DEF Formed
<1> HIDE DEF s, request
<1>6. /\ Remembered(s.clients) /\ Len(s.clients) = Len(m.clients)
      /\ \A k : Known(s.clients, k) <=> Known(m.clients, k)
      /\ Held(s.clients, "requests") = Held(m.clients, "requests")
      /\ Held(s.clients, "bytes") <= Held(m.clients, "bytes") + request.bytes
      /\ Held(s.clients, "boots") <= Held(m.clients, "boots") + boot
      /\ Known(m.clients, request.key) =>
           /\ Held(s.clients, "bytes") = Held(m.clients, "bytes") + request.bytes
           /\ Held(s.clients, "boots") = Held(m.clients, "boots") + boot
  <2> DEFINE ds == Credit(m.clients, request.key, request.bytes, boot)
  <2>1. Remembered(m.clients)
    BY <1>1 DEF Written
  <2>2. /\ Remembered(ds) /\ Len(ds) = Len(m.clients)
        /\ \A k : Known(ds, k) <=> Known(m.clients, k)
        /\ Held(ds, "requests") = Held(m.clients, "requests")
        /\ Held(ds, "bytes") <= Held(m.clients, "bytes") + request.bytes
        /\ Held(ds, "boots") <= Held(m.clients, "boots") + boot
        /\ Known(m.clients, request.key) =>
             /\ Held(ds, "bytes") = Held(m.clients, "bytes") + request.bytes
             /\ Held(ds, "boots") = Held(m.clients, "boots") + boot
    BY <1>2, <2>1, CreditIs
  <2> HIDE DEF ds
  <2>3. s.clients = ds
    BY <1>4 DEF ds
  <2>4. QED
    BY <2>2, <2>3
<1>7. Written(s)
  <2>1. Shape(s) /\ s.next <= MaxRequests + 1
    <3>1. Shape(m) /\ m.next <= MaxRequests + 1
      BY <1>1 DEF Written
    <3>2. QED
      BY <1>3, <1>5, <3>1 DEF Shape
  <2>2. \A i \in DOMAIN s.active : s.active[i] \in Request
    BY <1>1, <1>5 DEF Written
  <2>3. /\ new \in Seq(Entry(m)) /\ DistinctIds(new) /\ \A i \in DOMAIN new : new[i].id = id
    BY <1>1 DEF Entry, DistinctIds
  <2>4. /\ DistinctIds(m.recent) /\ m.recent \in Seq(Entry(m))
        /\ \A j \in DOMAIN m.recent : m.recent[j].id \notin DOMAIN m.active
    BY <1>1 DEF Written, Once, DistinctIds
  <2> HIDE DEF new
  <2>5. /\ s.recent \in Seq(Entry(m)) /\ Len(s.recent) <= MaxRecent /\ DistinctIds(s.recent)
        /\ \A k \in DOMAIN s.recent :
             \/ \E i \in DOMAIN new : s.recent[k] = new[i]
             \/ \E j \in DOMAIN m.recent : s.recent[k] = m.recent[j]
    <3> DEFINE E == Entry(m)
               old == m.recent
               h == Recent(new \o old)
    <3>1. \A i \in DOMAIN new, j \in DOMAIN m.recent : new[i].id # m.recent[j].id
      BY <2>3, <2>4
    <3>2. /\ h \in Seq(E) /\ Len(h) <= MaxRecent /\ DistinctIds(h)
          /\ \A k \in DOMAIN h :
               (\E i \in DOMAIN new : h[k] = new[i]) \/ (\E j \in DOMAIN old : h[k] = old[j])
      <4>1. /\ new \in Seq(E) /\ old \in Seq(E) /\ DistinctIds(new) /\ DistinctIds(old)
            /\ \A i \in DOMAIN new, j \in DOMAIN old : new[i].id # old[j].id
        BY <2>3, <2>4, <3>1
      <4> HIDE DEF E, old
      <4>2. QED
        BY <4>1, HistoryIs
    <3>3. s.recent = h
      BY <1>4
    <3> HIDE DEF h
    <3>4. QED
      BY <3>2, <3>3 DEF E, old
  <2>6. Once(s)
    <3>1. \A k \in DOMAIN s.recent : s.recent[k].id \notin DOMAIN s.active
      BY <1>5, <2>3, <2>4, <2>5
    <3>2. QED
      BY <2>5, <3>1 DEF Once, DistinctIds
  <2>7. Entry(s) = Entry(m)
    BY <1>3 DEF Entry
  <2>8. s.bytes \in Nat /\ s.boots \in Nat /\ s.starts \in Nat /\ s.recovered \in Nat
    <3>1. m.bytes \in Nat /\ m.boots \in Nat /\ m.starts \in Nat /\ m.recovered \in Nat
      BY <1>1 DEF Written
    <3>2. QED
      BY <1>2, <1>3, <3>1
  <2>9. QED
    BY <1>formed, <1>1, <1>6, <2>1, <2>2, <2>5, <2>6, <2>7, <2>8 DEF Written
<1>bounded. Bounded(s)
  <2>1. /\ Held(m.clients, "requests") <= m.requests /\ Held(m.clients, "bytes") <= m.bytes
        /\ Held(m.clients, "boots") <= m.boots
    BY DEF Kept, Bounded, Counters
  <2>2. /\ Held(m.clients, "bytes") \in Nat /\ Held(m.clients, "boots") \in Nat
        /\ Held(s.clients, "bytes") \in Nat /\ Held(s.clients, "boots") \in Nat
        /\ m.bytes \in Nat /\ m.boots \in Nat
    BY <1>1, <1>6, HeldType DEF Written, Counters
  <2>3. Held(s.clients, "requests") <= s.requests
    BY <1>3, <1>6, <2>1
  <2>4. Held(s.clients, "bytes") <= s.bytes
    <3>1. /\ s.bytes = m.bytes + request.bytes /\ request.bytes \in Nat
          /\ Held(s.clients, "bytes") <= Held(m.clients, "bytes") + request.bytes
      BY <1>2, <1>3, <1>6
    <3>2. QED
      BY <2>1, <2>2, <3>1
  <2>5. Held(s.clients, "boots") <= s.boots
    BY <1>3, <1>6, <2>1, <2>2
  <2>6. QED
    BY <2>3, <2>4, <2>5 DEF Bounded, Counters
<1>8. ASSUME Cardinality(Keys) <= MaxClients
      PROVE  Attributed(s)
  <2>1. Owned(m) /\ Follows(m.active) /\ Balanced(m)
    BY <1>8 DEF Kept, Attributed
  <2>2. Owned(s)
    BY <1>5, <1>6, <2>1 DEF Owned
  <2>3. Follows(s.active)
    BY <1>5, <2>1 DEF Follows
  <2>4. Known(m.clients, request.key)
    BY <2>1 DEF Owned, request
  <2>5. Balanced(s)
    BY <1>3, <1>6, <2>1, <2>4 DEF Balanced, Counters
  <2>6. QED
    BY <2>2, <2>3, <2>5 DEF Attributed
<1>9. QED
  BY <1>7, <1>8, <1>bounded DEF Kept, s

\* The bytes that the requests S had sent.
SentOf(m, S) == [i \in 1..(m.next - 1) |-> IF i \in S THEN m.active[i].bytes ELSE 0]

LEMMA SentIs ==
  ASSUME MonitorAssumption, NEW m, Written(m), NEW S \in SUBSET DOMAIN m.active
  PROVE  /\ m.next - 1 \in Nat /\ Sent(m, S) \in Nat
         /\ \A i \in 1..(m.next - 1) : SentOf(m, S)[i] \in Nat
<1>1. m.next - 1 \in Nat /\ \A i \in DOMAIN m.active : m.active[i].bytes \in Nat
  <2>1. m.next \in Nat \ {0} /\ \A i \in DOMAIN m.active : m.active[i] \in Request
    BY DEF Written, Shape
  <2>2. QED
    BY <2>1, RequestParts
<1>2. \A i \in 1..(m.next - 1) : SentOf(m, S)[i] \in Nat
  BY <1>1 DEF SentOf
<1>3. QED
  BY <1>1, <1>2, SumNat DEF Sent, SentOf

\* What the interrupted requests had sent is what the clients they are counted on sent,
\* and more where such a client has been forgotten.
LEMMA SentByClient ==
  ASSUME MonitorAssumption, NEW m, Written(m)
  PROVE  LET byClient == SumTo([c \in 1..Len(m.clients) |->
                                  Sent(m, ChargedTo(m, m.clients[c].key))], Len(m.clients))
         IN  /\ byClient \in Nat /\ byClient <= Sent(m, DOMAIN m.active)
             /\ Owned(m) => byClient = Sent(m, DOMAIN m.active)
<1> DEFINE n == Len(m.clients)
           k == m.next - 1
           t == [c \in 1..n |-> SentOf(m, ChargedTo(m, m.clients[c].key))]
           u == [i \in 1..k |-> [c \in 1..n |-> t[c][i]]]
           rows == [c \in 1..n |-> Sent(m, ChargedTo(m, m.clients[c].key))]
           columns == [i \in 1..k |-> SumTo(u[i], n)]
           all == SentOf(m, DOMAIN m.active)
<1>1. /\ n \in Nat /\ DOMAIN m.clients = 1..n /\ Remembered(m.clients)
      /\ \A c \in 1..n : ChargedTo(m, m.clients[c].key) \in SUBSET DOMAIN m.active
  BY LenProperties DEF Written, Remembered, ChargedTo
<1>2. k \in Nat /\ \A c \in 1..n : IntsTo(t[c], k) /\ rows[c] = SumTo(t[c], k)
  <2>1. ASSUME NEW c \in 1..n
        PROVE  IntsTo(SentOf(m, ChargedTo(m, m.clients[c].key)), k)
    BY <1>1, SentIs DEF IntsTo
  <2>2. k \in Nat
    BY SentIs
  <2>3. QED
    BY <2>1, <2>2 DEF Sent, SentOf
<1>3. SumTo(rows, n) = SumTo(columns, k)
  <2>1. /\ \A i \in 1..k : columns[i] = SumTo(u[i], n)
        /\ \A c \in 1..n, i \in 1..k : u[i][c] = t[c][i]
    OBVIOUS
  <2>2. n \in Nat /\ k \in Nat
    BY <1>1, <1>2
  <2> HIDE DEF t, u, n, k, rows, columns
  <2>3. Tabled(t, u, rows, columns, n, k)
    BY <1>2, <2>1 DEF Tabled
  <2>4. QED
    BY <2>2, <2>3, SumByColumns
<1>4. ASSUME NEW i \in 1..k
      PROVE  /\ all[i] \in Nat /\ columns[i] \in Nat /\ columns[i] <= all[i]
             /\ Owned(m) => columns[i] = all[i]
  <2>1. all[i] \in Nat
    BY SentIs
  <2>2. \A c \in 1..n : u[i][c] =
          IF i \in DOMAIN m.active /\ m.active[i].key = m.clients[c].key
          THEN m.active[i].bytes ELSE 0
    BY DEF SentOf, ChargedTo
  <2>3. CASE i \notin DOMAIN m.active \/ ~Known(m.clients, m.active[i].key)
    <3>1. \A c \in 1..n : u[i][c] = 0
      BY <1>1, <2>2, <2>3 DEF Known
    <3>2. Owned(m) => all[i] = 0
      BY <2>3 DEF SentOf, Owned
    <3> HIDE DEF u, n, all
    <3>3. 1 \in Nat \ {0} /\ 0 \in Int /\ \A c \in 1..n : u[i][c] = IF c = 1 THEN 0 ELSE 0
      BY <3>1
    <3>4. SumTo(u[i], n) = IF 1 <= n THEN 0 ELSE 0
      BY <1>1, <3>3, SumOne
    <3>5. QED
      BY <2>1, <3>2, <3>4
  <2>4. CASE i \in DOMAIN m.active /\ Known(m.clients, m.active[i].key)
    <3> DEFINE p == Position(m.clients, m.active[i].key)
               v == m.active[i].bytes
    <3>1. m.active[i].key \in Keys /\ v \in Nat
      <4>1. m.active[i] \in Request
        BY <2>4 DEF Written
      <4>2. QED
        BY <4>1, RequestParts
    <3>2. p \in 1..n /\ m.clients[p].key = m.active[i].key
      BY <1>1, <2>4, <3>1, CountsOf
    <3>3. \A c \in 1..n : m.clients[c].key = m.active[i].key => c = p
      BY <1>1, <3>2 DEF Remembered
    <3>4. all[i] = v
      BY <2>4 DEF SentOf
    <3> HIDE DEF u, n, p, v, all
    <3>5. \A c \in 1..n : u[i][c] = IF c = p THEN v ELSE 0
      BY <2>2, <2>4, <3>2, <3>3 DEF v
    <3>6. p \in Nat \ {0} /\ p <= n /\ v \in Int
      BY <1>1, <3>1, <3>2
    <3>7. SumTo(u[i], n) = v
      BY <1>1, <3>5, <3>6, SumOne
    <3>8. QED
      BY <2>1, <3>4, <3>7
  <2>5. QED
    BY <2>3, <2>4
<1>5. /\ SumTo(columns, k) \in Nat /\ SumTo(columns, k) <= SumTo(all, k)
      /\ Owned(m) => SumTo(columns, k) = SumTo(all, k)
  <2> HIDE DEF columns, all, k
  <2>1. /\ IntsTo(all, k) /\ IntsTo(columns, k) /\ \A i \in 1..k : columns[i] <= all[i]
        /\ \A i \in 1..k : columns[i] \in Nat
        /\ Owned(m) => \A i \in 1..k : columns[i] = all[i]
    BY <1>4 DEF IntsTo
  <2>2. SumTo(columns, k) \in Nat /\ SumTo(columns, k) <= SumTo(all, k)
    BY <1>2, <2>1, SumNat, SumLess
  <2>3. Owned(m) => SumTo(columns, k) = SumTo(all, k)
    BY <1>2, <2>1, SumSame
  <2>4. QED
    BY <2>2, <2>3
<1>6. SumTo(all, k) = Sent(m, DOMAIN m.active)
  BY DEF Sent, SentOf
<1>7. QED
  BY <1>3, <1>5, <1>6

LEMMA RecoveredKept ==
  ASSUME MonitorAssumption, NEW m, Kept(m)
  PROVE  Kept(Recovered(m)) /\ Recovered(m).bytes = m.bytes + Sent(m, DOMAIN m.active)
<1> DEFINE r == Recovered(m)
           lost == DOMAIN m.active
           ids == Descending(lost)
           new == [k \in DOMAIN ids |-> [id |-> ids[k], ok |-> FALSE]]
           ds == [c \in DOMAIN m.clients |->
                    [m.clients[c] EXCEPT !.bytes = @ + Sent(m, ChargedTo(m, m.clients[c].key))]]
<1>1. /\ Written(m) /\ m.next \in Nat \ {0} /\ DOMAIN m = DOMAIN Fresh
      /\ lost \subseteq 1..(m.next - 1) /\ Shape(m) /\ m.next <= MaxRequests + 1
  BY DEF Kept, Written, Shape
<1>2. IsFiniteSet(lost) /\ Cardinality(lost) \in Nat
  BY <1>1, InFlightFinite
<1>3. /\ r.next = m.next /\ r.requests = m.requests /\ DOMAIN r = DOMAIN Fresh
      /\ r.successful = m.successful /\ r.failed = m.failed + Cardinality(lost)
      /\ r.boots = m.boots /\ r.starts = m.starts /\ r.recovered = m.recovered + Cardinality(lost)
      /\ r.active = <<>> /\ r.recent = Recent(new \o m.recent)
  BY <1>1 DEF Recovered, Fresh
<1>4. r.bytes = m.bytes + Sent(m, lost) /\ r.clients = ds
  <2>1. r.bytes = m.bytes + Sent(m, lost)
    BY <1>1 DEF Recovered, Fresh
  <2>2. r.clients = ds
    BY <1>1 DEF Recovered, Fresh
  <2>3. QED
    BY <2>1, <2>2
<1>5. DOMAIN r.active = {}
  BY <1>3
<1>formed. Formed(r)
  <2>1. r = [field \in DOMAIN r |-> r[field]]
    BY DEF Recovered
  <2>2. QED
    BY <1>3, <2>1, NoneActive DEF Formed
<1> HIDE DEF r
<1>6. Sent(m, lost) \in Nat /\ \A key : Sent(m, ChargedTo(m, key)) \in Nat
  BY <1>1, SentIs DEF ChargedTo
<1>7. /\ Len(m.clients) \in Nat /\ DOMAIN m.clients = 1..Len(m.clients) /\ Remembered(m.clients)
      /\ \A c \in DOMAIN m.clients : m.clients[c] \in Client
  BY <1>1, LenProperties DEF Written, Remembered
<1>8. ASSUME NEW c \in Client, NEW v \in Nat
      PROVE  LET d == [c EXCEPT !.bytes = @ + v]
             IN  /\ d \in Client /\ d.key = c.key /\ d.bytes = c.bytes + v
                 /\ d.requests = c.requests /\ d.boots = c.boots
  <2>1. c.bytes + v \in Nat
    BY DEF Client
  <2>2. QED
    BY <2>1 DEF Client
<1>9. \A c \in DOMAIN m.clients :
        /\ ds[c] \in Client /\ ds[c].key = m.clients[c].key
        /\ ds[c].bytes = m.clients[c].bytes + Sent(m, ChargedTo(m, m.clients[c].key))
        /\ ds[c].requests = m.clients[c].requests /\ ds[c].boots = m.clients[c].boots
  BY <1>6, <1>7, <1>8
<1>10. DOMAIN ds = DOMAIN m.clients /\ ds = [c \in DOMAIN m.clients |-> ds[c]]
  OBVIOUS
<1> HIDE DEF ds
<1>11. Remembered(ds) /\ Len(ds) = Len(m.clients)
  BY <1>7, <1>9, <1>10, GrownIs
<1>12. Written(r)
  <2>1. Shape(r) /\ r.next <= MaxRequests + 1
    BY <1>1, <1>2, <1>3, <1>5 DEF Shape
  <2>2. r.bytes \in Nat /\ r.boots \in Nat /\ r.starts \in Nat /\ r.recovered \in Nat
    <3>1. m.bytes \in Nat /\ m.boots \in Nat /\ m.starts \in Nat /\ m.recovered \in Nat
      BY <1>1 DEF Written
    <3>2. QED
      BY <1>2, <1>3, <1>4, <1>6, <3>1
  <2>3. /\ ids \in [1..Cardinality(lost) -> lost]
        /\ \A i, j \in 1..Cardinality(lost) : ids[i] = ids[j] => i = j
    <3>1. lost \in SUBSET Int
      BY <1>1
    <3> HIDE DEF lost
    <3>2. QED
      BY <1>2, <3>1, DescendingIs
  <2> HIDE DEF ids
  <2>4. /\ new \in Seq(Entry(m)) /\ DistinctIds(new) /\ \A i \in DOMAIN new : new[i].id \in lost
    <3>1. DOMAIN ids = 1..Cardinality(lost) /\ \A i \in DOMAIN ids : ids[i] \in lost
      BY <2>3
    <3>2. new \in [1..Cardinality(lost) -> Entry(m)]
      BY <1>1, <3>1 DEF Entry
    <3>3. new \in Seq(Entry(m))
      BY <1>2, <3>2, ListOf
    <3>4. QED
      BY <2>3, <3>1, <3>3 DEF DistinctIds
  <2>5. /\ DistinctIds(m.recent) /\ m.recent \in Seq(Entry(m))
        /\ \A j \in DOMAIN m.recent : m.recent[j].id \notin lost
    BY <1>1 DEF Written, Once, DistinctIds
  <2> HIDE DEF new
  <2>6. r.recent \in Seq(Entry(m)) /\ Len(r.recent) <= MaxRecent /\ DistinctIds(r.recent)
    <3>1. \A i \in DOMAIN new, j \in DOMAIN m.recent : new[i].id # m.recent[j].id
      BY <2>4, <2>5
    <3>2. QED
      BY <1>3, <2>4, <2>5, <3>1, HistoryIs
  <2>7. Once(r) /\ Entry(r) = Entry(m)
    BY <1>3, <1>5, <2>6 DEF Once, DistinctIds, Entry
  <2>8. Len(r.clients) <= MaxClients
    BY <1>1, <1>4, <1>11 DEF Written
  <2>9. QED
    BY <1>formed, <1>4, <1>5, <1>11, <2>1, <2>2, <2>6, <2>7, <2>8 DEF Written
<1>13. /\ Held(ds, "bytes") <= Held(m.clients, "bytes") + Sent(m, lost)
       /\ Owned(m) => Held(ds, "bytes") = Held(m.clients, "bytes") + Sent(m, lost)
       /\ Held(ds, "requests") = Held(m.clients, "requests")
       /\ Held(ds, "boots") = Held(m.clients, "boots")
  <2> DEFINE n == Len(m.clients)
             g == [c \in 1..n |-> Sent(m, ChargedTo(m, m.clients[c].key))]
             none == [c \in 1..n |-> 0]
  <2>3. /\ SumTo(g, n) \in Nat /\ SumTo(g, n) <= Sent(m, lost)
        /\ Owned(m) => SumTo(g, n) = Sent(m, lost)
    BY <1>1, SentByClient
  <2>4. SumTo(none, n) = 0
    <3>1. 1 \in Nat \ {0} /\ 0 \in Int /\ \A c \in 1..n : none[c] = IF c = 1 THEN 0 ELSE 0
      OBVIOUS
    <3> HIDE DEF none, n
    <3>2. SumTo(none, n) = IF 1 <= n THEN 0 ELSE 0
      BY <1>7, <3>1, SumOne DEF n
    <3>3. QED
      BY <3>2
  <2>5. \A c \in DOMAIN m.clients :
          /\ g[c] \in Nat /\ ds[c]["bytes"] = m.clients[c]["bytes"] + g[c]
          /\ none[c] = 0
    BY <1>6, <1>7, <1>9
  <2>6. \A c \in DOMAIN m.clients :
          /\ none[c] \in Nat /\ ds[c]["requests"] = m.clients[c]["requests"] + none[c]
          /\ ds[c]["boots"] = m.clients[c]["boots"] + none[c]
    BY <1>7, <1>9, <2>5 DEF Client
  <2> HIDE DEF g, none
  <2>7. ASSUME NEW count \in Counters, NEW h,
               \A c \in DOMAIN m.clients : h[c] \in Nat /\ ds[c][count] = m.clients[c][count] + h[c]
        PROVE  Held(ds, count) = Held(m.clients, count) + SumTo(h, Len(m.clients))
    <3> DEFINE cs == m.clients
    <3>1. /\ Remembered(cs) /\ Remembered(ds) /\ Len(ds) = Len(cs)
          /\ \A i \in DOMAIN cs : h[i] \in Nat /\ ds[i][count] = cs[i][count] + h[i]
      BY <1>7, <1>11, <2>7
    <3> HIDE DEF cs
    <3>2. Held(ds, count) = Held(cs, count) + SumTo(h, Len(cs))
      BY <2>7, <3>1, HeldPlus
    <3>3. QED
      BY <3>2 DEF cs
  <2>8. "bytes" \in Counters /\ "requests" \in Counters /\ "boots" \in Counters
    BY DEF Counters
  <2>9. Held(ds, "bytes") = Held(m.clients, "bytes") + SumTo(g, Len(m.clients))
    BY <2>5, <2>7, <2>8
  <2>10. /\ Held(ds, "requests") = Held(m.clients, "requests") + SumTo(none, Len(m.clients))
         /\ Held(ds, "boots") = Held(m.clients, "boots") + SumTo(none, Len(m.clients))
    BY <2>6, <2>7, <2>8
  <2>11. /\ Held(m.clients, "requests") \in Nat /\ Held(m.clients, "boots") \in Nat
         /\ Held(m.clients, "bytes") \in Nat
    BY <1>7, <2>8, HeldType
  <2>12. QED
    BY <1>6, <2>3, <2>4, <2>9, <2>10, <2>11
<1>14. Bounded(r)
  <2>1. /\ Held(m.clients, "requests") <= m.requests /\ Held(m.clients, "bytes") <= m.bytes
        /\ Held(m.clients, "boots") <= m.boots
    BY DEF Kept, Bounded, Counters
  <2>2. /\ Held(m.clients, "bytes") \in Nat /\ Held(ds, "bytes") \in Nat /\ m.bytes \in Nat
    BY <1>1, <1>7, <1>11, HeldType DEF Written, Counters
  <2>3. QED
    BY <1>3, <1>4, <1>6, <1>13, <2>1, <2>2 DEF Bounded, Counters
<1>15. ASSUME Cardinality(Keys) <= MaxClients
       PROVE  Attributed(r)
  <2>1. Owned(m) /\ Balanced(m)
    BY <1>15 DEF Kept, Attributed
  <2>2. Owned(r) /\ Follows(r.active)
    BY <1>5 DEF Owned, Follows
  <2>3. Balanced(r)
    BY <1>3, <1>4, <1>13, <2>1 DEF Balanced, Counters
  <2>4. QED
    BY <2>2, <2>3 DEF Attributed
<1>16. QED
  BY <1>4, <1>12, <1>14, <1>15 DEF Kept, r

LEMMA RestartedKept ==
  ASSUME MonitorAssumption, NEW m, Kept(m)
  PROVE  Kept([m EXCEPT !.starts = @ + 1])
<1> DEFINE n == [m EXCEPT !.starts = @ + 1]
<1>1. Written(m) /\ Shape(m) /\ DOMAIN m = DOMAIN Fresh
  BY DEF Kept, Written, Shape
<1>formed. Formed(n)
  <2>1. n = [field \in DOMAIN n |-> n[field]]
    OBVIOUS
  <2>2. n.active = m.active
    BY <1>1 DEF Fresh
  <2> HIDE DEF n
  <2>3. QED
    BY <1>1, <2>1, <2>2 DEF Formed, Written
<1>2. /\ DOMAIN n = DOMAIN Fresh /\ n.next = m.next /\ n.requests = m.requests
      /\ n.successful = m.successful /\ n.failed = m.failed /\ n.active = m.active
      /\ n.bytes = m.bytes /\ n.boots = m.boots /\ n.starts = m.starts + 1
      /\ n.recovered = m.recovered /\ n.clients = m.clients /\ n.recent = m.recent
  BY <1>1 DEF Fresh
<1> HIDE DEF n
<1>3. Written(n)
  <2>1. Shape(n)
    BY <1>1, <1>2 DEF Shape
  <2>2. n.next <= MaxRequests + 1 /\ n.starts \in Nat
    <3>1. m.starts \in Nat /\ m.next <= MaxRequests + 1
      BY <1>1 DEF Written
    <3>2. QED
      BY <1>2, <3>1
  <2>3. Entry(n) = Entry(m) /\ (Once(m) => Once(n))
    BY <1>2 DEF Entry, Once
  <2>4. QED
    BY <1>formed, <1>1, <1>2, <2>1, <2>2, <2>3 DEF Written
<1>4. (Attributed(m) => Attributed(n)) /\ (Bounded(m) => Bounded(n))
  BY <1>2 DEF Attributed, Owned, Balanced, Bounded, Counters
<1>5. QED
  BY <1>3, <1>4 DEF Kept, n

LEMMA AddedKept ==
  ASSUME MonitorAssumption, NEW m, Kept(m), NEW id \in DOMAIN m.active, m.active[id].bytes < MaxSent
  PROVE  Kept([m EXCEPT !.active[id].bytes = @ + 1])
<1> DEFINE n == [m EXCEPT !.active[id].bytes = @ + 1]
<1>1. Written(m) /\ Shape(m) /\ DOMAIN m = DOMAIN Fresh
  BY DEF Kept, Written, Shape
<1>2. /\ DOMAIN n = DOMAIN Fresh /\ n.next = m.next /\ n.requests = m.requests
      /\ n.successful = m.successful /\ n.failed = m.failed
      /\ n.bytes = m.bytes /\ n.boots = m.boots /\ n.starts = m.starts
      /\ n.recovered = m.recovered /\ n.clients = m.clients /\ n.recent = m.recent
      /\ n.active = [m.active EXCEPT ![id].bytes = @ + 1]
  BY <1>1 DEF Fresh
<1>formed. Formed(n)
  <2>1. n = [field \in DOMAIN n |-> n[field]]
    OBVIOUS
  <2>2. n.active = [i \in DOMAIN n.active |-> n.active[i]]
    BY <1>2
  <2> HIDE DEF n
  <2>3. QED
    BY <2>1, <2>2 DEF Formed
<1>3. DOMAIN n.active = DOMAIN m.active
  BY <1>2
<1>4. \A i \in DOMAIN m.active : m.active[i] \in Request
  BY <1>1 DEF Written
<1>5. /\ n.active[id] = [m.active[id] EXCEPT !.bytes = @ + 1]
      /\ \A i \in DOMAIN m.active \ {id} : n.active[i] = m.active[i]
  BY <1>2
<1> HIDE DEF n
<1>6. /\ n.active[id] \in Request /\ n.active[id].ip = m.active[id].ip
      /\ n.active[id].key = m.active[id].key
  <2>1. m.active[id].bytes + 1 \in 0..MaxSent
    BY <1>4 DEF Request, MonitorAssumption
  <2>2. QED
    BY <1>4, <1>5, <2>1 DEF Request
<1>7. \A i \in DOMAIN m.active : /\ n.active[i] \in Request /\ n.active[i].ip = m.active[i].ip
                                 /\ n.active[i].key = m.active[i].key
  BY <1>4, <1>5, <1>6
<1>8. Written(n)
  BY <1>formed, <1>1, <1>2, <1>3, <1>7 DEF Written, Shape, Once, Entry
<1>9. Attributed(m) => Attributed(n)
  <2>1. Owned(m) => Owned(n)
    BY <1>2, <1>3, <1>7 DEF Owned
  <2>2. Follows(m.active) => Follows(n.active)
    BY <1>3, <1>7 DEF Follows
  <2>3. Balanced(m) => Balanced(n)
    BY <1>2 DEF Balanced, Counters
  <2>4. QED
    BY <2>1, <2>2, <2>3 DEF Attributed
<1>10. Bounded(n)
  BY <1>2 DEF Kept, Bounded, Counters
<1>11. QED
  BY <1>8, <1>9, <1>10 DEF Kept, n

(***************************************************************************)
(* Every document the server holds or has written is kept so.              *)
(***************************************************************************)
Valid   == file \notin {NoFile, Invalid}
KeptInv ==
  /\ Kept(mem) /\ (Valid => Kept(file))
  /\ DOMAIN doc = Threads /\ \A t \in Threads : Kept(doc[t])

\* What the constructor makes of the file.
Restarted == Recovered([file EXCEPT !.starts = @ + 1])
Started   == IF file \in {NoFile, Invalid} THEN Fresh ELSE Restarted

LEMMA KeptStep ==
  ASSUME MonitorAssumption, LedgerInv, KeptInv, [Next]_vars
  PROVE  KeptInv'
<1> USE DEF KeptInv, Valid
<1>1. CASE UNCHANGED <<mem, file, doc>>
  BY <1>1
<1>2. CASE Start
  <2>1. mem' = Started /\ doc' = doc /\ file' \in {file, Started, NoFile}
    BY <1>2 DEF Start, Started, Restarted
  <2>2. Kept(Started)
    BY FreshKept, RestartedKept, RecoveredKept DEF Started, Restarted
  <2>3. QED
    BY <2>1, <2>2
<1>3. CASE Crash \/ StartUnread
  BY <1>3, FreshKept DEF Crash, StartUnread
<1>4. ASSUME NEW t \in Threads, NEW ip \in Ips, NEW mac \in Macs \cup {NoMac}, NEW image \in BOOLEAN,
             Begin(t, ip, mac, image)
      PROVE  KeptInv'
  <2>1. mem' = Registered(mem, ip, mac, image) /\ mem.next \in Ids /\ UNCHANGED <<file, doc>>
    BY <1>4 DEF Begin, ServingOnly
  <2>2. QED
    BY <2>1, RegisteredKept
<1>5. ASSUME NEW t \in Threads, AddBytes(t)
      PROVE  KeptInv'
  <2>1. /\ mem' = [mem EXCEPT !.active[rid[t]].bytes = @ + 1] /\ mem.active[rid[t]].bytes < MaxSent
        /\ UNCHANGED <<file, doc>> /\ pc[t] = "serve"
    BY <1>5 DEF AddBytes, ServingOnly
  <2>2. rid[t] \in DOMAIN mem.active
    BY <2>1 DEF LedgerInv, RequestsKnown, Pending
  <2>3. QED
    BY <2>1, <2>2, AddedKept
<1>6. ASSUME NEW t \in Threads, NEW interrupted \in BOOLEAN, Finish(t, interrupted)
      PROVE  KeptInv'
  <2> DEFINE ok   == Successful(reply[t], mem.active[rid[t]].bytes, interrupted)
             boot == IF ok /\ reply[t] = "full" /\ mem.active[rid[t]].image THEN 1 ELSE 0
  <2>1. mem' = Settled(mem, rid[t], ok, boot) /\ UNCHANGED <<file, doc>> /\ pc[t] = "serve"
    BY <1>6 DEF Finish, ServingOnly
  <2>2. rid[t] \in DOMAIN mem.active /\ boot \in Nat /\ ok \in BOOLEAN
    BY <2>1 DEF LedgerInv, RequestsKnown, Pending, Successful
  <2> HIDE DEF ok, boot
  <2>3. Kept(Settled(mem, rid[t], ok, boot))
    BY <2>2, SettledKept
  <2>4. QED
    BY <2>1, <2>3
<1>7. ASSUME NEW t \in Threads, Snapshot(t)
      PROVE  KeptInv'
  BY <1>7 DEF Snapshot
<1>8. ASSUME NEW t \in Threads, Commit(t)
      PROVE  KeptInv'
  BY <1>8, FreshKept DEF Commit
<1>9. ASSUME NEW t \in Threads, \/ Accept(t) \/ NothingToCount(t) \/ Leave(t)
                                \/ \E kind : Respond(t, kind)
      PROVE  KeptInv'
  BY <1>1, <1>9 DEF Accept, NothingToCount, Leave, Respond, ServingOnly
<1>10. CASE UNCHANGED vars \/ Reject
  BY <1>1, <1>10 DEF vars, Reject
<1>11. QED
  BY <1>2, <1>3, <1>4, <1>5, <1>6, <1>7, <1>8, <1>9, <1>10 DEF Next, Handler, Ending

LEMMA KeptHolds == Spec => []KeptInv
<1>1. Init => KeptInv
  BY MonitorAssumption, FreshKept DEF Init, KeptInv, Valid
<1>2. LedgerInv /\ KeptInv /\ [Next]_vars => KeptInv'
  BY MonitorAssumption, KeptStep
<1>3. QED
  BY <1>1, <1>2, LedgerHolds, PTL DEF Spec

\* No request is settled twice: what the history holds is not in flight, and in it once, in
\* memory and on disk. A request that was in flight when the server died is settled by the
\* recovery, and by nothing else.
THEOREM HistoryOnce == Spec => []SettledOnce
<1>1. KeptInv => SettledOnce
  BY DEF KeptInv, Valid, Kept, Written, SettledOnce
<1>2. QED
  BY <1>1, KeptHolds, PTL

\* _touch_client's merging, finish and the recovery never charge the clients with more than
\* the server did, and while there is room for every client with exactly that.
THEOREM Attribution == Spec => []AllAttributed
<1>1. KeptInv => AllAttributed
  <2>1. ASSUME NEW m, Kept(m)
        PROVE  Charged(m)
    <3>1. \A count : Total(m, count) = Held(m.clients, count)
      BY DEF Total, Held
    <3>2. QED
      BY <2>1, <3>1 DEF Kept, Attributed, Balanced, Bounded, Charged, Counters
  <2>2. QED
    BY <2>1 DEF KeptInv, Valid, AllAttributed
<1>2. QED
  BY <1>1, KeptHolds, PTL

\* While there is room for every client, a download in flight follows the client that named
\* its MAC: the record it is counted on is always there to be found. (Without room it may be
\* gone, and the download stays with the address.)
THEOREM DownloadsFollow == Cardinality(Keys) <= MaxClients => (Spec => []InFlightFollows)
<1> SUFFICES ASSUME Cardinality(Keys) <= MaxClients PROVE Spec => []InFlightFollows
  OBVIOUS
<1>1. KeptInv => InFlightFollows
  BY DEF KeptInv, Kept, Attributed, Follows, InFlightFollows
<1>2. QED
  BY <1>1, KeptHolds, PTL

(***************************************************************************)
(* Types.                                                                  *)
(***************************************************************************)
StepTypes ==
  /\ up \in BOOLEAN /\ perr \in BOOLEAN /\ overlooked \in BOOLEAN /\ plock \in Threads \cup {Free}
  /\ reply \in [Threads -> Reply] /\ rid \in [Threads -> 0..MaxRequests]
  /\ rejected \in 0..MaxRejected /\ crashes \in 0..MaxCrashes /\ failures \in 0..MaxFailures

LEMMA StepTypesStep ==
  ASSUME MonitorAssumption, StepTypes, [Next]_vars
  PROVE  StepTypes'
<1> USE DEF StepTypes
<1>1. /\ MaxRequests \in Nat /\ MaxCrashes \in Nat /\ MaxFailures \in Nat /\ MaxRejected \in Nat
      /\ \A n \in Nat : 0 \in 0..n /\ \A i \in 0..n : i < n => i + 1 \in 0..n
  BY DEF MonitorAssumption
<1>2. CASE UNCHANGED vars
  BY <1>2 DEF vars, threadVars, poolVars, boundVars
<1>3. CASE Start \/ StartUnread
  <2>1. /\ up' = TRUE /\ perr' \in BOOLEAN /\ overlooked' \in BOOLEAN /\ UNCHANGED <<plock, reply, rid, rejected, crashes>>
        /\ failures' = failures \/ (failures < MaxFailures /\ failures' = failures + 1)
    BY <1>3 DEF Start, StartUnread, threadVars, poolVars
  <2>2. QED
    BY <1>1, <2>1
<1>4. CASE Crash
  <2>1. /\ up' = FALSE /\ perr' = FALSE /\ overlooked' = FALSE /\ plock' = Free /\ rejected' = 0
        /\ rid' = [t \in Threads |-> 0] /\ reply' = [t \in Threads |-> "none"]
        /\ crashes < MaxCrashes /\ crashes' = crashes + 1 /\ failures' = failures
    BY <1>4 DEF Crash
  <2>2. QED
    BY <1>1, <2>1 DEF Reply
<1>5. CASE Reject
  BY <1>1, <1>5 DEF Reject, threadVars, boundVars
<1>6. ASSUME NEW t \in Threads, Accept(t) \/ Leave(t)
      PROVE  StepTypes'
  BY <1>1, <1>6 DEF Accept, Leave, boundVars, Reply
<1>7. ASSUME NEW t \in Threads, \/ NothingToCount(t) \/ AddBytes(t)
                                \/ \E interrupted \in BOOLEAN : Finish(t, interrupted)
      PROVE  StepTypes'
  BY <1>7 DEF NothingToCount, AddBytes, Finish, ServingOnly, threadVars, poolVars, boundVars
<1>8. ASSUME NEW t \in Threads, NEW ip, NEW mac, NEW image, Begin(t, ip, mac, image)
      PROVE  StepTypes'
  BY <1>1, <1>8 DEF Begin, ServingOnly, poolVars, boundVars, Ids, Reply
<1>9. ASSUME NEW t \in Threads, NEW kind \in {"full", "short", "error"}, Respond(t, kind)
      PROVE  StepTypes'
  BY <1>9 DEF Respond, ServingOnly, poolVars, boundVars, Reply
<1>10. ASSUME NEW t \in Threads, Snapshot(t)
       PROVE  StepTypes'
  BY <1>10 DEF Snapshot, poolVars, boundVars
<1>11. ASSUME NEW t \in Threads, Commit(t)
       PROVE  StepTypes'
  <2>1. /\ perr' \in BOOLEAN /\ overlooked' \in BOOLEAN /\ plock' = Free
        /\ UNCHANGED <<up, rid, reply, rejected, crashes>>
        /\ failures' = failures \/ (failures < MaxFailures /\ failures' = failures + 1)
    BY <1>11 DEF Commit, PersistReleased, poolVars
  <2>2. QED
    BY <1>1, <2>1
<1>12. QED
  BY <1>2, <1>3, <1>4, <1>5, <1>6, <1>7, <1>8, <1>9, <1>10, <1>11 DEF Next, Handler, Ending

LEMMA StepTypesHold == Spec => []StepTypes
<1>1. Init => StepTypes
  <2>1. /\ MaxRequests \in Nat /\ MaxCrashes \in Nat /\ MaxFailures \in Nat /\ MaxRejected \in Nat
        /\ \A n \in Nat : 0 \in 0..n
    BY MonitorAssumption DEF MonitorAssumption
  <2>2. QED
    BY <2>1 DEF Init, StepTypes, Reply
<1>2. StepTypes /\ [Next]_vars => StepTypes'
  BY MonitorAssumption, StepTypesStep
<1>3. QED
  BY <1>1, <1>2, PTL DEF Spec

LEMMA KeptDocument ==
  ASSUME MonitorAssumption, NEW m, Kept(m)
  PROVE  Document(m)
<1>1. /\ Shape(m) /\ m.next <= MaxRequests + 1 /\ MaxRequests \in Nat
      /\ m.bytes \in Nat /\ m.boots \in Nat /\ m.starts \in Nat /\ m.recovered \in Nat
      /\ Remembered(m.clients) /\ Len(m.clients) <= MaxClients
      /\ \A id \in DOMAIN m.active : m.active[id] \in Request
      /\ m.recent \in Seq(Entry(m)) /\ Len(m.recent) <= MaxRecent
  BY DEF Kept, Written, MonitorAssumption
<1>2. m.next \in 1..(MaxRequests + 1) /\ DOMAIN m.active \subseteq 1..(m.next - 1)
  <2>1. m.next \in Nat \ {0} /\ DOMAIN m.active \subseteq 1..(m.next - 1)
    BY <1>1 DEF Shape
  <2>2. QED
    BY <1>1, <2>1
<1>3. {m.requests, m.successful, m.failed, m.bytes, m.boots, m.starts, m.recovered} \subseteq Nat
  BY <1>1 DEF Shape
<1>4. \A i \in DOMAIN m.clients : m.clients[i] \in Client
  BY <1>1, ElementOfSeq, LenProperties DEF Remembered
<1>5. \A i \in DOMAIN m.recent : m.recent[i] \in [id : 1..(m.next - 1), ok : BOOLEAN]
  <2>1. \A i \in DOMAIN m.recent : m.recent[i] \in Entry(m)
    BY <1>1, ElementOfSeq, LenProperties
  <2>2. QED
    BY <2>1 DEF Entry
<1>6. QED
  BY <1>1, <1>2, <1>3, <1>4, <1>5 DEF Document, Remembered

\* Every document keeps its bounds, in memory, on disk and on the way there: at most
\* max_clients distinct clients, at most max_requests entries of history, and only requests
\* in flight and in the history that were given out before.
THEOREM MonitorTypes == Spec => []TypeOK
<1>1. KeptInv /\ SlotInv /\ StepTypes => TypeOK
  <2>1. SUFFICES ASSUME KeptInv, SlotInv, StepTypes PROVE TypeOK
    OBVIOUS
  <2>2. /\ Document(mem) /\ (file \notin {NoFile, Invalid} => Document(file))
        /\ \A t \in Threads : Document(doc[t])
    BY <2>1, MonitorAssumption, KeptDocument DEF KeptInv, Valid
  <2>3. slots \in 0..MaxWorkers
    <3>1. Cardinality(Busy) \in Nat /\ slots + Cardinality(Busy) = MaxWorkers /\ slots \in Nat
      BY <2>1, MonitorAssumption, BusyFinite DEF SlotInv, SlotsConserved, Busy
    <3>2. QED
      BY <3>1, MonitorAssumption DEF MonitorAssumption
  <2>4. QED
    BY <2>1, <2>2, <2>3 DEF StepTypes, SlotInv, TypeOK
<1>2. Spec => []SlotInv
  BY SlotInvHolds
<1>3. QED
  BY <1>1, <1>2, KeptHolds, StepTypesHold, PTL

(***************************************************************************)
(* The order of the documents: what is in the file has been in the document *)
(* being written, and that in memory. Who holds the persistence lock took   *)
(* its snapshot after the last commit.                                     *)
(***************************************************************************)
Precedes(a, b) ==
  /\ b.next >= a.next /\ b.requests >= a.requests /\ b.successful >= a.successful
  /\ b.failed >= a.failed /\ b.bytes >= a.bytes /\ b.starts >= a.starts
OrderInv ==
  /\ up /\ Valid /\ ~overlooked => Precedes(file, mem)
  /\ \A t \in Threads : plock = t =>
       Precedes(doc[t], mem) /\ (Valid /\ ~overlooked => Precedes(file, doc[t]))

LEMMA KeptNumbers ==
  ASSUME NEW m, Kept(m)
  PROVE  /\ m.next \in Nat /\ m.requests \in Nat /\ m.successful \in Nat /\ m.failed \in Nat
         /\ m.bytes \in Nat /\ m.starts \in Nat /\ DOMAIN m = DOMAIN Fresh
BY DEF Kept, Written, Shape

LEMMA PrecedesSelf ==
  ASSUME NEW m, Kept(m)
  PROVE  Precedes(m, m)
BY KeptNumbers DEF Precedes

LEMMA PrecedesAll ==
  ASSUME NEW a, NEW b, NEW c, Kept(a), Kept(b), Kept(c), Precedes(a, b), Precedes(b, c)
  PROVE  Precedes(a, c)
<1>1. /\ a.next \in Nat /\ b.next \in Nat /\ c.next \in Nat
      /\ a.requests \in Nat /\ b.requests \in Nat /\ c.requests \in Nat
      /\ a.successful \in Nat /\ b.successful \in Nat /\ c.successful \in Nat
      /\ a.failed \in Nat /\ b.failed \in Nat /\ c.failed \in Nat
      /\ a.bytes \in Nat /\ b.bytes \in Nat /\ c.bytes \in Nat
      /\ a.starts \in Nat /\ b.starts \in Nat /\ c.starts \in Nat
  BY KeptNumbers
<1>2. QED
  BY <1>1 DEF Precedes

\* A document is one of Documents, so that it is neither of the other values of file.
LEMMA KeptIsDocument ==
  ASSUME MonitorAssumption, NEW m, Kept(m)
  PROVE  m \notin {NoFile, Invalid}
<1>1. /\ Written(m) /\ Shape(m) /\ Formed(m) /\ m.next \in 1..(MaxRequests + 1)
      /\ MaxRequests \in Nat
  <2>1. Written(m) /\ MaxRequests \in Nat
    BY DEF Kept, MonitorAssumption
  <2>2. Shape(m) /\ Formed(m) /\ m.next <= MaxRequests + 1
    BY <2>1 DEF Written
  <2>3. m.next \in Nat \ {0}
    BY <2>2 DEF Shape
  <2>4. QED
    BY <2>1, <2>2, <2>3
<1>2. 1..(m.next - 1) \subseteq Ids
  BY <1>1 DEF Ids
<1>3. m.active \in UNION {[S -> Request] : S \in SUBSET Ids}
  <2>1. DOMAIN m.active \in SUBSET Ids
    BY <1>1, <1>2 DEF Shape
  <2>2. m.active \in [DOMAIN m.active -> Request]
    BY <1>1 DEF Formed, Written
  <2>3. QED
    BY <2>1, <2>2
<1>4. m.recent \in Seq([id : Ids, ok : BOOLEAN])
  <2>1. Entry(m) \subseteq [id : Ids, ok : BOOLEAN] /\ m.recent \in Seq(Entry(m))
    BY <1>1, <1>2 DEF Entry, Written
  <2> DEFINE old == Entry(m)
             new == [id : Ids, ok : BOOLEAN]
  <2>2. old \subseteq new /\ m.recent \in Seq(old)
    BY <2>1
  <2> HIDE DEF old, new
  <2>3. m.recent \in Seq(new)
    BY <2>2, SeqMonotonic
  <2>4. QED
    BY <2>3 DEF new
<1>5. m.clients \in Seq(Client)
  BY <1>1 DEF Written, Remembered
<1>6. /\ m.next \in Nat /\ m.requests \in Nat /\ m.successful \in Nat /\ m.failed \in Nat
      /\ m.bytes \in Nat /\ m.boots \in Nat /\ m.starts \in Nat /\ m.recovered \in Nat
  BY <1>1 DEF Written, Shape
<1>7. m = [next |-> m.next, requests |-> m.requests, successful |-> m.successful,
           failed |-> m.failed, bytes |-> m.bytes, boots |-> m.boots, starts |-> m.starts,
           recovered |-> m.recovered, clients |-> m.clients, active |-> m.active,
           recent |-> m.recent]
  BY <1>1 DEF Formed, Shape, Fresh
<1>8. m \in Documents
  BY <1>3, <1>4, <1>5, <1>6, <1>7 DEF Documents
<1>9. QED
  BY <1>8, FileAssumption DEF FileAssumption

\* Every operation goes on from where the document stood.
LEMMA GoesOn ==
  ASSUME MonitorAssumption, NEW m, Kept(m)
  PROVE  /\ \A ip, mac, image : Precedes(m, Registered(m, ip, mac, image))
         /\ \A id \in DOMAIN m.active, ok \in BOOLEAN : \A boot :
              Precedes(m, Settled(m, id, ok, boot))
         /\ \A id : Precedes(m, [m EXCEPT !.active[id].bytes = @ + 1])
         /\ Precedes(m, Recovered([m EXCEPT !.starts = @ + 1]))
<1>1. /\ m.next \in Nat /\ m.requests \in Nat /\ m.successful \in Nat /\ m.failed \in Nat
      /\ m.bytes \in Nat /\ m.starts \in Nat /\ DOMAIN m = DOMAIN Fresh
  BY KeptNumbers
<1>2. ASSUME NEW ip, NEW mac, NEW image
      PROVE  Precedes(m, Registered(m, ip, mac, image))
  <2> DEFINE r == Registered(m, ip, mac, image)
  <2>1. /\ r.next = m.next + 1 /\ r.requests = m.requests + 1 /\ r.successful = m.successful
        /\ r.failed = m.failed /\ r.bytes = m.bytes /\ r.starts = m.starts
    BY <1>1 DEF Registered, Fresh
  <2> HIDE DEF r
  <2>2. QED
    BY <1>1, <2>1 DEF Precedes, r
<1>3. ASSUME NEW id \in DOMAIN m.active, NEW ok \in BOOLEAN, NEW boot
      PROVE  Precedes(m, Settled(m, id, ok, boot))
  <2> DEFINE s == Settled(m, id, ok, boot)
  <2>1. /\ s.next = m.next /\ s.requests = m.requests
        /\ s.successful = (IF ok THEN m.successful + 1 ELSE m.successful)
        /\ s.failed = (IF ok THEN m.failed ELSE m.failed + 1)
        /\ s.bytes = m.bytes + m.active[id].bytes /\ s.starts = m.starts
    BY <1>1 DEF Settled, Fresh
  <2>2. m.active[id].bytes \in Nat
    BY DEF Kept, Written, Request, MonitorAssumption
  <2> HIDE DEF s
  <2>3. QED
    BY <1>1, <2>1, <2>2 DEF Precedes, s
<1>4. ASSUME NEW id
      PROVE  Precedes(m, [m EXCEPT !.active[id].bytes = @ + 1])
  <2> DEFINE n == [m EXCEPT !.active[id].bytes = @ + 1]
  <2>1. /\ n.next = m.next /\ n.requests = m.requests /\ n.successful = m.successful
        /\ n.failed = m.failed /\ n.bytes = m.bytes /\ n.starts = m.starts
    BY <1>1 DEF Fresh
  <2> HIDE DEF n
  <2>2. QED
    BY <1>1, <2>1 DEF Precedes, n
<1>5. Precedes(m, Recovered([m EXCEPT !.starts = @ + 1]))
  <2> DEFINE n == [m EXCEPT !.starts = @ + 1]
             r == Recovered(n)
  <2>1. /\ DOMAIN n = DOMAIN Fresh /\ n.next = m.next /\ n.requests = m.requests
        /\ n.successful = m.successful /\ n.failed = m.failed /\ n.bytes = m.bytes
        /\ n.starts = m.starts + 1
    BY <1>1 DEF Fresh
  <2>2. Kept(n)
    BY RestartedKept
  <2> HIDE DEF n
  <2>3. r.bytes = n.bytes + Sent(n, DOMAIN n.active) /\ Sent(n, DOMAIN n.active) \in Nat
    BY <2>2, RecoveredKept, SentIs DEF Kept
  <2>4. Cardinality(DOMAIN n.active) \in Nat
    BY <2>2, InFlightFinite DEF Kept, Written
  <2>5. /\ r.next = n.next /\ r.requests = n.requests /\ r.successful = n.successful
        /\ r.failed = n.failed + Cardinality(DOMAIN n.active) /\ r.starts = n.starts
    BY <2>1 DEF Recovered, Fresh
  <2> HIDE DEF r
  <2>6. Precedes(m, r)
    BY <1>1, <2>1, <2>3, <2>4, <2>5 DEF Precedes
  <2>7. QED
    BY <2>6 DEF n, r
<1>6. QED
  BY <1>2, <1>3, <1>4, <1>5

NeverBack == Valid /\ ~overlooked /\ ~StartUnread => Valid' /\ Precedes(file, file')

LEMMA OrderStep ==
  ASSUME MonitorAssumption, LedgerInv, KeptInv, KeptInv', OrderInv, [Next]_vars
  PROVE  OrderInv' /\ NeverBack
<1> USE DEF Valid
<1>1. \A t \in Threads : plock = t => up
  BY DEF LedgerInv, LockedSteps, ThreadTypes
<1>2. ASSUME Valid
      PROVE  Kept(file) /\ Precedes(file, file)
  BY <1>2, PrecedesSelf DEF KeptInv
<1>3. ASSUME UNCHANGED <<up, mem, file, plock, doc, overlooked>>
      PROVE  OrderInv' /\ NeverBack
  BY <1>2, <1>3 DEF OrderInv, NeverBack
\* Memory goes on; file and documents stay.
<1>4. ASSUME UNCHANGED <<up, file, plock, doc, overlooked>>, Precedes(mem, mem')
      PROVE  OrderInv' /\ NeverBack
  <2>1. up /\ Valid /\ ~overlooked => Precedes(file, mem')
    BY <1>2, <1>4, PrecedesAll DEF OrderInv, KeptInv
  <2>2. \A t \in Threads : plock = t => Precedes(doc[t], mem')
    BY <1>4, PrecedesAll DEF OrderInv, KeptInv
  <2>3. QED
    BY <1>2, <1>4, <2>1, <2>2 DEF OrderInv, NeverBack
<1>5. CASE Start
  <2>1. /\ ~up /\ mem' = Started /\ file' \in {file, Started, NoFile} /\ UNCHANGED <<plock, doc>>
        /\ Valid => file' \in {file, Started}
    BY <1>5 DEF Start, Started, Restarted
  <2>2. Precedes(Started, Started)
    BY <2>1, PrecedesSelf DEF KeptInv
  <2>3. Valid => Precedes(file, Started)
    BY <1>2, GoesOn DEF Started, Restarted
  <2>4. Valid => Started \notin {NoFile, Invalid}
    BY <2>1, KeptIsDocument DEF KeptInv
  <2>5. OrderInv'
    BY <1>1, <2>1, <2>2, <2>3 DEF OrderInv, Started
  <2>6. NeverBack
    BY <1>2, <2>1, <2>3, <2>4 DEF NeverBack
  <2>7. QED
    BY <2>5, <2>6
<1>unread. CASE StartUnread
  <2>1. /\ ~up /\ mem' = Fresh /\ UNCHANGED <<plock, doc>>
        /\ file' \in {Fresh, NoFile} \/ overlooked' = TRUE
    BY <1>unread DEF StartUnread
  <2>2. Precedes(Fresh, Fresh)
    BY FreshKept, PrecedesSelf
  <2>3. QED
    BY <1>1, <1>unread, <2>1, <2>2 DEF OrderInv, NeverBack
<1>6. CASE Crash
  <2>1. ~up' /\ plock' = Free /\ file' = file
    BY <1>6 DEF Crash
  <2>2. QED
    BY <1>2, <2>1 DEF OrderInv, NeverBack, MonitorAssumption
<1>7. ASSUME NEW t \in Threads, Snapshot(t)
      PROVE  OrderInv' /\ NeverBack
  <2>1. /\ plock' = t /\ doc' = [doc EXCEPT ![t] = mem] /\ UNCHANGED <<up, mem, file, overlooked>>
        /\ pc[t] \in {"begun", "settled"}
    BY <1>7 DEF Snapshot
  <2>2. up /\ doc'[t] = mem /\ Precedes(mem, mem)
    BY <2>1, ActiveIsUp, PrecedesSelf DEF KeptInv
  <2>3. QED
    BY <1>2, <2>1, <2>2 DEF OrderInv, NeverBack
<1>8. ASSUME NEW t \in Threads, Commit(t)
      PROVE  OrderInv' /\ NeverBack
  <2>1. /\ plock' = Free /\ UNCHANGED <<up, mem>>
        /\ file' = doc[t] \/ UNCHANGED <<file, overlooked>>
        /\ pc[t] \in {"writeBegun", "writeSettled"}
    BY <1>8 DEF Commit, PersistReleased
  <2>2. plock = t /\ Kept(doc[t])
    BY <2>1 DEF LedgerInv, LockedSteps, KeptInv
  <2>3. /\ Precedes(doc[t], mem) /\ (Valid /\ ~overlooked => Precedes(file, doc[t]))
        /\ doc[t] \notin {NoFile, Invalid}
    BY <2>2, KeptIsDocument DEF OrderInv
  <2>4. QED
    BY <1>2, <2>1, <2>3 DEF OrderInv, NeverBack, MonitorAssumption
<1>9. ASSUME NEW t \in Threads, NEW ip, NEW mac, NEW image, Begin(t, ip, mac, image)
      PROVE  OrderInv' /\ NeverBack
  <2>1. mem' = Registered(mem, ip, mac, image) /\ UNCHANGED <<up, file, plock, doc, overlooked>>
    BY <1>9 DEF Begin, ServingOnly
  <2>2. Precedes(mem, mem')
    BY <2>1, GoesOn DEF KeptInv
  <2>3. QED
    BY <1>4, <2>1, <2>2
<1>10. ASSUME NEW t \in Threads, AddBytes(t)
       PROVE  OrderInv' /\ NeverBack
  <2>1. mem' = [mem EXCEPT !.active[rid[t]].bytes = @ + 1] /\ UNCHANGED <<up, file, plock, doc, overlooked>>
    BY <1>10 DEF AddBytes, ServingOnly
  <2>2. Precedes(mem, mem')
    BY <2>1, GoesOn DEF KeptInv
  <2>3. QED
    BY <1>4, <2>1, <2>2
<1>11. ASSUME NEW t \in Threads, NEW interrupted \in BOOLEAN, Finish(t, interrupted)
       PROVE  OrderInv' /\ NeverBack
  <2> DEFINE ok   == Successful(reply[t], mem.active[rid[t]].bytes, interrupted)
             boot == IF ok /\ reply[t] = "full" /\ mem.active[rid[t]].image THEN 1 ELSE 0
  <2>1. mem' = Settled(mem, rid[t], ok, boot) /\ UNCHANGED <<up, file, plock, doc, overlooked>> /\ pc[t] = "serve"
    BY <1>11 DEF Finish, ServingOnly
  <2>2. rid[t] \in DOMAIN mem.active /\ ok \in BOOLEAN
    BY <2>1 DEF LedgerInv, RequestsKnown, Pending, Successful
  <2> HIDE DEF ok, boot
  <2>3. Precedes(mem, mem')
    BY <2>1, <2>2, GoesOn DEF KeptInv
  <2>4. QED
    BY <1>4, <2>1, <2>3
<1>12. ASSUME NEW t \in Threads, \/ Accept(t) \/ NothingToCount(t) \/ Leave(t)
                                 \/ \E kind : Respond(t, kind)
       PROVE  OrderInv' /\ NeverBack
  BY <1>3, <1>12 DEF Accept, NothingToCount, Leave, Respond, ServingOnly
<1>13. CASE UNCHANGED vars \/ Reject
  BY <1>3, <1>13 DEF vars, Reject
<1>14. QED
  BY <1>5, <1>unread, <1>6, <1>7, <1>8, <1>9, <1>10, <1>11, <1>12, <1>13 DEF Next, Handler, Ending

\* The state file never goes back: not by a slower handler's older snapshot, a restart, a
\* recovery or a write that fails half-way; only by a start that could not read it, and by
\* the first commit after such a start if the file was not even set aside.
THEOREM NeverOlder == Spec => FileMonotone
<1>1. Init => OrderInv
  BY MonitorAssumption DEF Init, OrderInv, Valid, MonitorAssumption
<1>2. /\ LedgerInv /\ KeptInv /\ KeptInv' /\ OrderInv /\ [Next]_vars => OrderInv'
      /\ LedgerInv /\ KeptInv /\ KeptInv' /\ OrderInv /\ [Next]_vars => NeverBack
  BY MonitorAssumption, OrderStep
<1>3. NeverBack =>
        (file \notin {NoFile, Invalid} /\ ~overlooked /\ ~StartUnread =>
           /\ file' \notin {NoFile, Invalid}
           /\ file'.next >= file.next /\ file'.requests >= file.requests
           /\ file'.successful >= file.successful /\ file'.failed >= file.failed
           /\ file'.bytes >= file.bytes /\ file'.starts >= file.starts)
  BY DEF NeverBack, Valid, Precedes
<1>4. QED
  BY <1>1, <1>2, <1>3, LedgerHolds, KeptHolds, PTL DEF Spec, FileMonotone
=============================================================================
