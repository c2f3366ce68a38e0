------------------------ MODULE SchedulerQueueProofs ------------------------
(***************************************************************************)
(* TLAPS proofs about SchedulerQueue, for any number of PIDs, any size of  *)
(* the queue, of the heap and of the backlog.                              *)
(*                                                                         *)
(* The four safety invariants are not inductive one by one: an update or a *)
(* removal is harmless to the history blocks only because the index it     *)
(* uses is inside the array and because no other entry has the same block  *)
(* or the same PID.  IInv adds where the loop index can be (LoopLocals),   *)
(* what the daemon is serving (ServesClient), and how the decision in      *)
(* flight and the affinity of each process relate to the queue             *)
(* (ChoiceInFlight, MaskTracked).                                          *)
(*                                                                         *)
(* The second part shows that SchedulerQueue implements ProcessRegistry:   *)
(* the map is read off the array slot by slot (View), so a step that       *)
(* changes one slot, appends one, or shifts the slots after one, changes   *)
(* the map at one process.                                                 *)
(***************************************************************************)
EXTENDS SchedulerQueue, SequenceTheorems, FiniteSetTheorems, TLAPS

LoopLocals ==
  /\ pc \notin Walking => i = 0
  /\ pc \in {"choose", "apply", "settle"} => i < size
  /\ pc \in {"apply", "settle"} => chosen \in Coresets

ServesClient ==
  /\ pc \in Serving => conns # <<>>
  /\ pc = "read_data" => Head0.from \in Pids

ChoiceInFlight ==
  pc = "apply" =>
    /\ chosen = P_CORESET => current.has_last_on_p /\ current.last_on_p
    /\ chosen = E_CORESET => current.has_last_on_p /\ ~ current.last_on_p
    /\ chosen = ALL_CORESET => Truthful(current)

MaskTracked ==
  \A p \in Pids : mask[p] # "inherited" =>
     /\ is_process_alive(p)
     /\ pc # "exit" => Queued(p)

QInv == /\ TypeOK
        /\ OneEntryPerPid
        /\ HistoryOwnership
        /\ PassSkipsNobody
        /\ LoopLocals
        /\ ServesClient

PInv == ChoiceInFlight /\ MaskTracked /\ HysteresisMatchesMask

IInv == QInv /\ PInv
-----------------------------------------------------------------------------
(* What the find loop of add_to_queue returns.                             *)
LEMMA FoundEntry ==
  ASSUME OneEntryPerPid, NEW p \in Pids, Queued(p)
  PROVE  /\ IndexOf(p) \in Live
         /\ queue[IndexOf(p)].pid = p
         /\ EntryOf(p) = queue[IndexOf(p)]
<1>1. PICK j \in Live : queue[j].pid = p
  BY DEF Queued
<1>2. \A k \in Live : queue[k].pid = p => j <= k
  BY <1>1 DEF OneEntryPerPid, Live
<1> QED
  BY <1>1, <1>2 DEF IndexOf, EntryOf

LEMMA ClosedConnection ==
  ASSUME NEW m \in Connection, NEW c
  PROVE  Closed(m, c) \in Connection /\ Closed(m, c).from = m.from
BY DEF Closed, Connection

LEMMA AdvancedConnection ==
  ASSUME NEW m \in Connection, m.open
  PROVE  Advanced(m) \in Connection /\ Advanced(m).from = m.from
<1>1. m.sent + 1 \in 0 .. 2
  BY DEF Connection, Parts
<1>2. (m.sent + 1 < Parts(m.from)) \in BOOLEAN
  OBVIOUS
<1> QED
  BY <1>1, <1>2 DEF Advanced, Connection

(* The clients and the processes leave the daemon alone; what they do to   *)
(* the connections keeps the head in place and its sender.                 *)
LEMMA EnvironmentKeepsQInv ==
  ASSUME QInv, Environment
  PROVE  QInv'
<1> USE DEF QInv
<1>1. /\ UNCHANGED daemon
      /\ UNCHANGED pc
  BY DEF Environment, Spawn, Die, Reap, Connect, BrokenPipe, RequestShutdown, Write
<1>2. /\ OneEntryPerPid'
      /\ HistoryOwnership'
      /\ PassSkipsNobody'
      /\ LoopLocals'
  BY <1>1 DEF daemon, OneEntryPerPid, HistoryOwnership, PassSkipsNobody,
              LoopLocals, Live, Slots, Consumed
<1>3. /\ conns' \in Seq(Connection)
      /\ conns # <<>> => conns' # <<>> /\ conns'[1].from = conns[1].from
  <2>1. CASE UNCHANGED conns
    BY <2>1 DEF TypeOK
  <2>2. CASE \E p \in Pids : conns' = HangUp(p)
    <3>1. PICK p \in Pids : conns' = HangUp(p)
      BY <2>2
    <3>2. \A k \in 1 .. Len(conns) :
            /\ Closed(conns[k], p) \in Connection
            /\ Closed(conns[k], p).from = conns[k].from
      BY ClosedConnection, ElementOfSeq DEF TypeOK
    <3>3. conns' \in [1 .. Len(conns) -> Connection]
      BY <3>1, <3>2, LenProperties DEF TypeOK, HangUp
    <3>4. conns' \in Seq(Connection) /\ Len(conns') = Len(conns)
      BY <3>3, SeqDef, LenProperties DEF TypeOK
    <3>5. conns # <<>> => conns'[1].from = conns[1].from
      BY <3>1, <3>2, LenProperties DEF TypeOK, HangUp
    <3> QED
      BY <3>4, <3>5, EmptySeq, LenProperties DEF TypeOK
  <2>3. CASE \E c \in Clients, f \in BOOLEAN : conns' = Append(conns, Opened(c, f))
    <3>1. PICK c \in Clients, f \in BOOLEAN : conns' = Append(conns, Opened(c, f))
      BY <2>3
    <3>2. Opened(c, f) \in Connection
      BY DEF Opened, Connection, Parts
    <3> QED
      BY <3>1, <3>2 DEF TypeOK
  <2>4. CASE \E c \in Clients : Write(c)
    <3>1. PICK c \in Clients : Write(c)
      BY <2>4
    <3>2. PICK k \in DOMAIN conns :
             conns[k].open /\ conns' = [conns EXCEPT ![k] = Advanced(@)]
      BY <3>1 DEF Write
    <3>3. k \in 1 .. Len(conns) /\ conns[k] \in Connection
      BY <3>2, LenProperties, ElementOfSeq DEF TypeOK
    <3>4. Advanced(conns[k]) \in Connection /\ Advanced(conns[k]).from = conns[k].from
      BY <3>2, <3>3, AdvancedConnection
    <3> DEFINE m == Advanced(conns[k])
    <3>5. conns' = [conns EXCEPT ![k] = m] /\ m \in Connection
      BY <3>2, <3>4
    <3> HIDE DEF m
    <3>6. conns \in Seq(Connection) /\ 1 \in 1 .. Len(conns)
      BY <3>3, LenProperties DEF TypeOK
    <3>7. /\ conns' \in Seq(Connection)
          /\ Len(conns') = Len(conns)
          /\ conns'[1] = IF 1 = k THEN m ELSE conns[1]
      BY <3>3, <3>5, <3>6, ExceptSeq
    <3>8. conns' # <<>>
      BY <3>3, <3>7, EmptySeq
    <3> QED
      BY <3>3, <3>4, <3>7, <3>8 DEF m
  <2> QED
    BY <2>1, <2>2, <2>3, <2>4
    DEF Environment, Spawn, Die, Reap, Connect, BrokenPipe, RequestShutdown,
        Clients, TypeOK
<1>4. ServesClient'
  BY <1>1, <1>3 DEF ServesClient, Head0, Serving
<1>5. /\ proc' \in [Pids -> {"none", "running", "zombie"}]
      /\ booted' \in [Pids -> BOOLEAN]
      /\ mask' \in [Pids -> Coresets \cup {"inherited"}]
      /\ astray' \subseteq Pids
      /\ stopAsked' \in BOOLEAN
  BY DEF Environment, Spawn, Die, Reap, Connect, BrokenPipe, RequestShutdown,
         Write, system, TypeOK
<1>6. TypeOK'
  BY <1>1, <1>3, <1>5 DEF TypeOK, daemon, Slots
<1> QED
  BY <1>2, <1>4, <1>6

(* The steps of the daemon that leave the array and the heap as they are.  *)
LEMMA QuietStepsKeepQInv ==
  ASSUME QInv,
         \/ Accept \/ StartPass \/ ReadPid \/ ShortRead \/ AddRefused
         \/ UpdateNoMemory \/ CheckAlive \/ ChooseStartup \/ Apply \/ EndPass
  PROVE  QInv'
<1> USE DEF QInv
<1>1. UNCHANGED <<queue, size, heap>>
  BY DEF Accept, StartPass, ReadPid, ShortRead, AddRefused, UpdateNoMemory,
         CheckAlive, ChooseStartup, Apply, EndPass, daemon
<1>2. OneEntryPerPid' /\ HistoryOwnership'
  BY <1>1 DEF OneEntryPerPid, HistoryOwnership, Live, Slots
<1>3. /\ pc' \in {"accept", "exit"} \cup Serving \cup Walking
      /\ i' \in Nat
      /\ chosen' \in Coresets \cup {NULL}
  BY DEF Accept, StartPass, ReadPid, ShortRead, AddRefused, UpdateNoMemory,
         Adding, CheckAlive, ChooseStartup, Apply, EndPass, daemon, TypeOK,
         Serving, Walking, Coresets
<1>4. conns' \in Seq(Connection)
  <2>1. CASE UNCHANGED conns
    BY <2>1 DEF TypeOK
  <2>2. CASE conns' = Tail(conns) /\ pc \in Serving
    BY <2>2, HeadTailProperties DEF TypeOK, ServesClient
  <2> QED
    BY <2>1, <2>2
    DEF Accept, StartPass, ReadPid, ShortRead, AddRefused, UpdateNoMemory,
        Adding, CheckAlive, ChooseStartup, Apply, EndPass, Serving
<1>5. mask' \in [Pids -> Coresets \cup {"inherited"}]
  <2>1. CASE UNCHANGED mask
    BY <2>1 DEF TypeOK
  <2>2. CASE Apply
    BY <2>2 DEF Apply, Applied, ApplyFailed, ApplySkipped, TypeOK, LoopLocals
  <2> QED
    BY <2>1, <2>2
    DEF Accept, StartPass, ReadPid, ShortRead, AddRefused, UpdateNoMemory,
        CheckAlive, ChooseStartup, EndPass, system
<1>6. UNCHANGED <<proc, booted, stopAsked>>
  BY DEF Accept, StartPass, ReadPid, ShortRead, AddRefused, UpdateNoMemory,
         CheckAlive, ChooseStartup, Apply, EndPass, system
<1>11. astray' \subseteq Pids
  <2>1. CASE UNCHANGED astray
    BY <2>1 DEF TypeOK
  <2>2. CASE Apply
    <3>1. current.pid \in Pids
      BY <2>2 DEF Apply, OneEntryPerPid, LoopLocals, Live, current, TypeOK
    <3> QED
      BY <2>2, <3>1 DEF Apply, Applied, ApplyFailed, ApplySkipped, TypeOK
  <2> QED
    BY <2>1, <2>2
    DEF Accept, StartPass, ReadPid, ShortRead, AddRefused, UpdateNoMemory,
        CheckAlive, ChooseStartup, EndPass, system
<1>7. TypeOK'
  BY <1>1, <1>3, <1>4, <1>5, <1>6, <1>11 DEF TypeOK, Slots
<1>8. PassSkipsNobody'
  BY <1>1
  DEF PassSkipsNobody, LoopLocals, Live, Consumed, Walking, TypeOK,
      Accept, StartPass, ReadPid, ShortRead, AddRefused, UpdateNoMemory, Adding,
      CheckAlive, ChooseStartup, Apply, EndPass, daemon
<1>9. LoopLocals'
  BY <1>1
  DEF LoopLocals, Coresets, Walking, Serving, TypeOK,
      Accept, StartPass, ReadPid, ShortRead, AddRefused, UpdateNoMemory, Adding,
      CheckAlive, ChooseStartup, Apply, EndPass, daemon
<1>10. ServesClient'
  BY DEF ServesClient, Serving, Head0,
         Accept, StartPass, ReadPid, ShortRead, AddRefused, UpdateNoMemory,
         Adding, CheckAlive, ChooseStartup, Apply, EndPass, daemon
<1> QED
  BY <1>2, <1>7, <1>8, <1>9, <1>10

LEMMA AppendedEntry ==
  ASSUME NEW e \in QueueEntry, Head0 \in Connection
  PROVE  /\ Appended(e) \in QueueEntry
         /\ Appended(e).pid = e.pid
         /\ Appended(e).history = e.history
         /\ Appended(e).capacity = e.capacity
         /\ Appended(e).count = e.count + 1
<1>1. Head0.startup \in BOOLEAN /\ e.count + 1 \in Nat
  BY DEF Connection, QueueEntry
<1> DEFINE f == Head0.startup
<1>2. Appended(e) = [e EXCEPT !.count = e.count + 1, !.startup_flag = f]
  BY DEF Appended
<1> HIDE DEF f
<1> QED
  BY <1>1, <1>2 DEF QueueEntry, f

(* The steps of add_to_queue that store a sample, or part of an entry.     *)
LEMMA AddStepsKeepQInv ==
  ASSUME QInv, Update \/ UpdateGrow \/ Insert \/ InsertNoMemory
  PROVE  QInv'
<1> USE DEF QInv
<1> DEFINE p == Head0.from
<1>1. /\ p \in Pids
      /\ Head0 \in Connection
      /\ conns' \in Seq(Connection)
      /\ pc' = "accept"
      /\ i = 0 /\ i' = 0
      /\ UNCHANGED <<chosen, proc, booted, mask, astray, stopAsked>>
  <2>1. Adding /\ UNCHANGED <<i, chosen, system>>
    BY DEF Update, UpdateGrow, Insert, InsertNoMemory
  <2>2. conns # <<>> /\ conns \in Seq(Connection)
    BY <2>1 DEF Adding, ServesClient, Serving, TypeOK
  <2>3. conns[1] \in Connection /\ Tail(conns) \in Seq(Connection)
    BY <2>2, HeadTailProperties, EmptySeq, ElementOfSeq
  <2> QED
    BY <2>1, <2>2, <2>3
    DEF Adding, ServesClient, LoopLocals, Walking, system, Head0
<1>2. PassSkipsNobody' /\ LoopLocals' /\ ServesClient'
  BY <1>1 DEF PassSkipsNobody, LoopLocals, ServesClient, Walking, Serving
<1>3. SUFFICES /\ queue' \in [Slots -> QueueEntry]
               /\ size' \in 0 .. MaxQueue
               /\ heap' \in [Blocks -> Nat]
               /\ OneEntryPerPid'
               /\ HistoryOwnership'
  BY <1>1, <1>2 DEF TypeOK, Slots, Serving, Walking, Coresets
<1>4. /\ MaxQueue \in Nat /\ InitialCap \in Nat /\ InitialCap > 0
      /\ NULL \notin Blocks
      /\ Live \subseteq Slots
      /\ size \in Nat
      /\ queue \in [Slots -> QueueEntry]
      /\ heap \in [Blocks -> Nat]
  BY SizesAssumption, NamesAssumption DEF Live, Slots, TypeOK
<1>5. CASE Update
  <2> DEFINE j == IndexOf(p)
             e == queue[j]
  <2>1. /\ j \in Live /\ e.pid = p /\ EntryOf(p) = e
        /\ e \in QueueEntry
        /\ e.count < e.capacity
    BY <1>1, <1>4, <1>5, FoundEntry DEF Update, pid
  <2>2. queue' = [queue EXCEPT ![j] = Appended(e)] /\ UNCHANGED <<size, heap>>
    BY <1>5 DEF Update, pid
  <2> HIDE DEF j, e
  <2>3. queue' \in [Slots -> QueueEntry]
    BY <1>1, <1>4, <2>1, <2>2, AppendedEntry
  <2>4. \A k \in Slots : /\ queue'[k].pid = queue[k].pid
                         /\ queue'[k].history = queue[k].history
                         /\ queue'[k].capacity = queue[k].capacity
                         /\ k # j => queue'[k] = queue[k]
    BY <1>1, <1>4, <2>1, <2>2, AppendedEntry DEF e
  <2>5. queue'[j].count = e.count + 1
    BY <1>1, <1>4, <2>1, <2>2, AppendedEntry
  <2>6. OneEntryPerPid'
    BY <1>4, <2>2, <2>4 DEF OneEntryPerPid, Live
  <2>7. \A k \in Live : queue'[k].count <= queue'[k].capacity
    BY <1>4, <2>1, <2>4, <2>5 DEF HistoryOwnership, QueueEntry, e
  <2>8. HistoryOwnership'
    BY <1>4, <2>2, <2>4, <2>7 DEF HistoryOwnership, Live, Slots
  <2> QED
    BY <1>4, <2>2, <2>3, <2>6, <2>8 DEF TypeOK
<1>6. CASE UpdateGrow
  <2> DEFINE j == IndexOf(p)
             e == queue[j]
             n == IF e.capacity = 0 THEN InitialCap ELSE 2 * e.capacity
             g(b) == [e EXCEPT !.history = b, !.capacity = n]
  <2>1. /\ j \in Live /\ e.pid = p /\ EntryOf(p) = e
        /\ e \in QueueEntry
        /\ e.count >= e.capacity
    BY <1>1, <1>4, <1>6, FoundEntry DEF UpdateGrow, pid
  <2>2. PICK b \in Free \cup {e.history} :
           /\ heap' = [heap EXCEPT ![e.history] = 0, ![b] = n]
           /\ queue' = [queue EXCEPT ![j] = Appended(g(b))]
           /\ UNCHANGED size
    BY <1>6, <2>1 DEF UpdateGrow, pid
  <2> HIDE DEF j
  <2>3. /\ e.history \in Blocks /\ b \in Blocks
        /\ heap[e.history] = e.capacity
        /\ e.capacity > 0 /\ e.capacity \in Nat /\ e.count = e.capacity
        /\ n = 2 * e.capacity /\ n \in Nat
    BY <2>1, <2>2 DEF HistoryOwnership, Free, QueueEntry
  <2> HIDE DEF e, n
  <2>4. /\ g(b) \in QueueEntry
        /\ g(b).pid = p /\ g(b).history = b
        /\ g(b).capacity = n /\ g(b).count = e.count
    BY <2>1, <2>3 DEF QueueEntry
  <2> HIDE DEF g
  <2> USE DEF e
  <2>5. queue' \in [Slots -> QueueEntry]
    BY <1>1, <1>4, <2>1, <2>2, <2>4, AppendedEntry
  <2>6. \A k \in Slots \ {j} : queue'[k] = queue[k]
    BY <1>4, <2>1, <2>2
  <2>7. /\ queue'[j].pid = p /\ queue'[j].history = b
        /\ queue'[j].capacity = n /\ queue'[j].count = e.count + 1
    BY <1>1, <1>4, <2>1, <2>2, <2>4, AppendedEntry
  <2>8. /\ heap' \in [Blocks -> Nat]
        /\ heap'[b] = n
        /\ \A c \in Blocks \ {b, e.history} : heap'[c] = heap[c]
        /\ b # e.history => heap'[e.history] = 0
    BY <1>4, <2>2, <2>3
  <2>9. OneEntryPerPid'
    BY <1>4, <2>1, <2>2, <2>6, <2>7 DEF OneEntryPerPid, Live
  <2>10. \A k \in Live \ {j} : /\ queue[k].history # e.history
                              /\ queue[k].history # b
    BY <1>4, <2>1, <2>2 DEF HistoryOwnership, Free
  <2>11. /\ \A k \in Live : /\ queue'[k].history \in Blocks
                           /\ heap'[queue'[k].history] = queue'[k].capacity
                           /\ queue'[k].capacity > 0
                           /\ queue'[k].count <= queue'[k].capacity
    BY <1>4, <2>1, <2>3, <2>6, <2>7, <2>8, <2>10 DEF HistoryOwnership
  <2>12. \A k \in Slots \ Live : queue'[k].history = NULL
    BY <2>1, <2>6 DEF HistoryOwnership
  <2>13. \A k, m \in Live : queue'[k].history = queue'[m].history => k = m
    BY <1>4, <2>1, <2>6, <2>7, <2>10 DEF HistoryOwnership
  <2>14. \A c \in Blocks : heap'[c] # 0 => \E k \in Live : queue'[k].history = c
    <3> SUFFICES ASSUME NEW c \in Blocks, heap'[c] # 0
                 PROVE  \E k \in Live : queue'[k].history = c
      OBVIOUS
    <3>1. CASE c = b
      BY <2>1, <2>7, <3>1
    <3>2. CASE c # b
      <4>1. heap[c] # 0 /\ c # e.history
        BY <2>8, <3>2
      <4>2. PICK k \in Live : queue[k].history = c
        BY <4>1 DEF HistoryOwnership
      <4> QED
        BY <1>4, <2>6, <4>1, <4>2
    <3> QED
      BY <3>1, <3>2
  <2>15. Live' = Live
    BY <2>2 DEF Live
  <2>16. HistoryOwnership'
    BY <2>11, <2>12, <2>13, <2>14, <2>15 DEF HistoryOwnership, Slots
  <2> QED
    BY <2>2, <2>5, <2>8, <2>9, <2>16 DEF TypeOK
<1>7. CASE Insert
  <2> DEFINE e(b) == [init_queue_entry EXCEPT !.pid = p, !.history = b,
                        !.capacity = InitialCap, !.count = 1,
                        !.startup_flag = Head0.startup]
  <2>1. PICK b \in Free :
           /\ heap' = [heap EXCEPT ![b] = InitialCap]
           /\ queue' = [queue EXCEPT ![size] = e(b)]
    BY <1>7 DEF Insert, pid
  <2>2. /\ size' = size + 1 /\ size < MaxQueue /\ ~ Queued(p)
        /\ b \in Blocks /\ heap[b] = 0
    BY <1>7 DEF Insert, Free, pid
  <2>3. Head0.startup \in BOOLEAN
    BY <1>1 DEF Connection
  <2>4. /\ e(b) \in QueueEntry
        /\ e(b).pid = p /\ e(b).history = b
        /\ e(b).capacity = InitialCap /\ e(b).count = 1
    BY <1>1, <1>4, <2>2, <2>3 DEF init_queue_entry, QueueEntry
  <2> HIDE DEF e
  <2>5. size \in Slots /\ size \notin Live /\ Live' = Live \cup {size}
        /\ Live' \subseteq Slots
    BY <1>4, <2>2 DEF Slots, Live
  <2>6. /\ queue' \in [Slots -> QueueEntry]
        /\ queue'[size] = e(b)
        /\ \A k \in Slots \ {size} : queue'[k] = queue[k]
    BY <1>4, <2>1, <2>4, <2>5
  <2>7. /\ heap' \in [Blocks -> Nat]
        /\ heap'[b] = InitialCap
        /\ \A c \in Blocks \ {b} : heap'[c] = heap[c]
    BY <1>4, <2>1, <2>2
  <2>8. OneEntryPerPid'
    BY <1>1, <1>4, <2>2, <2>4, <2>5, <2>6 DEF OneEntryPerPid, Queued
  <2>9. \A k \in Live : queue[k].history # b
    BY <2>2 DEF HistoryOwnership
  <2>10. /\ \A k \in Live' : /\ queue'[k].history \in Blocks
                            /\ heap'[queue'[k].history] = queue'[k].capacity
                            /\ queue'[k].capacity > 0
                            /\ queue'[k].count <= queue'[k].capacity
    BY <1>4, <2>2, <2>4, <2>5, <2>6, <2>7, <2>9 DEF HistoryOwnership
  <2>11. \A k \in Slots \ Live' : queue'[k].history = NULL
    BY <2>5, <2>6 DEF HistoryOwnership
  <2>12. \A k, m \in Live' : queue'[k].history = queue'[m].history => k = m
    BY <1>4, <2>4, <2>5, <2>6, <2>9 DEF HistoryOwnership
  <2>13. \A c \in Blocks : heap'[c] # 0 => \E k \in Live' : queue'[k].history = c
    BY <1>4, <2>4, <2>5, <2>6, <2>7 DEF HistoryOwnership
  <2>14. HistoryOwnership'
    BY <2>10, <2>11, <2>12, <2>13 DEF HistoryOwnership, Slots
  <2> QED
    BY <1>4, <2>2, <2>6, <2>7, <2>8, <2>14
<1>8. CASE InsertNoMemory
  <2> DEFINE e == [init_queue_entry EXCEPT !.pid = p]
  <2>1. /\ queue' = [queue EXCEPT ![size] = e]
        /\ size < MaxQueue
        /\ UNCHANGED <<size, heap>>
    BY <1>8 DEF InsertNoMemory, pid
  <2>2. e \in QueueEntry /\ e.history = NULL
    BY <1>1, <1>4 DEF init_queue_entry, QueueEntry
  <2> HIDE DEF e
  <2>3. size \in Slots /\ size \notin Live /\ Live' = Live
    BY <1>4, <2>1 DEF Slots, Live
  <2>4. /\ queue' \in [Slots -> QueueEntry]
        /\ queue'[size] = e
        /\ \A k \in Slots \ {size} : queue'[k] = queue[k]
    BY <1>4, <2>1, <2>2, <2>3
  <2>5. OneEntryPerPid'
    BY <1>4, <2>3, <2>4 DEF OneEntryPerPid
  <2>6. HistoryOwnership'
    BY <1>4, <2>1, <2>2, <2>3, <2>4 DEF HistoryOwnership, Slots
  <2> QED
    BY <1>4, <2>1, <2>4, <2>5, <2>6 DEF TypeOK
<1> QED
  BY <1>5, <1>6, <1>7, <1>8

(* remove_queue_entry: the entry at the index goes, those behind it move   *)
(* down one slot, and its block is the only one that is freed.             *)
LEMMA RemoveKeepsQInv ==
  ASSUME QInv, DropDead
  PROVE  QInv'
<1> USE DEF QInv
<1>1. /\ MaxQueue \in Nat
      /\ size \in Nat /\ size > 0 /\ size <= MaxQueue
      /\ i \in Nat /\ i < size
      /\ queue \in [Slots -> QueueEntry]
      /\ heap \in [Blocks -> Nat]
      /\ NULL \notin Blocks
  BY SizesAssumption, NamesAssumption DEF DropDead, TypeOK
<1>2. /\ size' = size - 1
      /\ pc' = "check" /\ pc \in {"check", "choose"}
      /\ UNCHANGED <<i, chosen, conns, proc, booted, mask, astray, stopAsked>>
      /\ heap' = [b \in Blocks |-> IF b = queue[i].history THEN 0 ELSE heap[b]]
      /\ queue' = [j \in Slots |->
                     IF j = size - 1 THEN init_queue_entry
                     ELSE IF i <= j /\ j < size - 1 THEN queue[j + 1]
                     ELSE queue[j]]
  BY DEF DropDead, remove_queue_entry, system
<1>3. init_queue_entry \in QueueEntry /\ init_queue_entry.history = NULL
  BY DEF init_queue_entry, QueueEntry
<1>4. /\ queue' \in [Slots -> QueueEntry]
      /\ heap' \in [Blocks -> Nat]
      /\ size' \in 0 .. MaxQueue
  BY <1>1, <1>2, <1>3 DEF Slots
<1>5. TypeOK'
  BY <1>2, <1>4 DEF TypeOK, Slots, Walking
<1> DEFINE from(j) == IF j < i THEN j ELSE j + 1
<1>6. \A j \in Live' : /\ j \in Slots /\ from(j) \in Live /\ from(j) # i
                      /\ queue'[j] = queue[from(j)]
  BY <1>1, <1>2 DEF Live, Slots
<1>7. \A j, k \in Live' : from(j) = from(k) => j = k
  BY <1>1, <1>2 DEF Live
<1>8. \A k \in Live \ {i} : \E j \in Live' : from(j) = k
  <2> SUFFICES ASSUME NEW k \in Live \ {i}
               PROVE  \E j \in Live' : from(j) = k
    OBVIOUS
  <2>1. CASE k < i
    BY <1>1, <1>2, <2>1 DEF Live
  <2>2. CASE k > i
    <3>1. k - 1 \in Live' /\ from(k - 1) = k
      BY <1>1, <1>2, <2>2 DEF Live
    <3> QED
      BY <3>1
  <2> QED
    BY <1>1, <2>1, <2>2 DEF Live
<1>9. \A j \in Slots \ Live' : queue'[j].history = NULL
  BY <1>1, <1>2, <1>3 DEF HistoryOwnership, Live, Slots
<1> HIDE DEF from
<1>10. OneEntryPerPid'
  BY <1>6, <1>7 DEF OneEntryPerPid
<1>11. i \in Live
  BY <1>1 DEF Live
<1>12. \A j \in Live' : queue'[j].history # queue[i].history
  BY <1>6, <1>11 DEF HistoryOwnership
<1>13. \A j \in Live' : /\ queue'[j].history \in Blocks
                       /\ heap'[queue'[j].history] = queue'[j].capacity
                       /\ queue'[j].capacity > 0
                       /\ queue'[j].count <= queue'[j].capacity
  <2> SUFFICES ASSUME NEW j \in Live'
               PROVE  /\ queue'[j].history \in Blocks
                      /\ heap'[queue'[j].history] = queue'[j].capacity
                      /\ queue'[j].capacity > 0
                      /\ queue'[j].count <= queue'[j].capacity
    OBVIOUS
  <2>1. PICK k \in Live : queue'[j] = queue[k]
    BY <1>6
  <2>2. \A b \in Blocks : b # queue[i].history => heap'[b] = heap[b]
    BY <1>2
  <2> QED
    BY <1>12, <2>1, <2>2 DEF HistoryOwnership
<1>14. \A j, k \in Live' : queue'[j].history = queue'[k].history => j = k
  BY <1>6, <1>7 DEF HistoryOwnership
<1>15. \A b \in Blocks : heap'[b] # 0 => \E j \in Live' : queue'[j].history = b
  <2> SUFFICES ASSUME NEW b \in Blocks, heap'[b] # 0
               PROVE  \E j \in Live' : queue'[j].history = b
    OBVIOUS
  <2>1. b # queue[i].history /\ heap[b] # 0
    BY <1>2
  <2>2. PICK k \in Live \ {i} : queue[k].history = b
    BY <2>1 DEF HistoryOwnership
  <2> QED
    BY <1>6, <1>8, <2>2
<1>16. HistoryOwnership'
  BY <1>9, <1>13, <1>14, <1>15 DEF HistoryOwnership, Slots
<1>17. PassSkipsNobody'
  <2>1. \A j \in Live' : j < i => queue'[j] = queue[j] /\ j \in Live
    BY <1>1, <1>6, <1>2 DEF from
  <2> QED
    BY <1>2, <2>1 DEF PassSkipsNobody, Consumed, Walking
<1>18. LoopLocals' /\ ServesClient'
  BY <1>2 DEF LoopLocals, ServesClient, Walking, Serving
<1> QED
  BY <1>5, <1>10, <1>16, <1>17, <1>18

(* The decision and the end of an iteration write to the entry at the      *)
(* index, none of the fields that tie it to its process and its block.     *)
LEMMA IterationKeepsQInv ==
  ASSUME QInv, Settle \/ \E s \in Scores : Choose(s)
  PROVE  QInv'
<1> USE DEF QInv
<1>1. /\ i \in Live /\ i \in Slots /\ i \in Nat /\ Live \subseteq Slots
      /\ queue \in [Slots -> QueueEntry]
      /\ pc \in {"choose", "settle"}
      /\ UNCHANGED <<size, heap, conns, proc, booted, mask, astray, stopAsked>>
  <2>1. /\ pc \in {"choose", "settle"}
        /\ UNCHANGED <<size, heap, conns, proc, booted, mask, astray, stopAsked>>
    BY DEF Settle, Choose, system
  <2>2. /\ i \in Nat /\ i < size /\ size \in 0 .. MaxQueue
        /\ queue \in [Slots -> QueueEntry] /\ MaxQueue \in Nat
    BY <2>1, SizesAssumption DEF LoopLocals, TypeOK
  <2> QED
    BY <2>1, <2>2 DEF Live, Slots
<1>2. PICK e \in QueueEntry :
         /\ queue' = [queue EXCEPT ![i] = e]
         /\ e.pid = queue[i].pid /\ e.history = queue[i].history
         /\ e.capacity = queue[i].capacity
         /\ e.count \in {0, queue[i].count}
         /\ pc = "settle" => Consumed(e)
  <2>1. CASE Settle
    <3> DEFINE e == [queue[i] EXCEPT !.startup_flag = FALSE,
                                     !.has_last_used = TRUE, !.count = 0]
    <3>1. /\ e \in QueueEntry /\ Consumed(e)
          /\ e.pid = queue[i].pid /\ e.history = queue[i].history
          /\ e.capacity = queue[i].capacity /\ e.count = 0
      BY <1>1 DEF QueueEntry, Consumed
    <3>2. queue' = [queue EXCEPT ![i] = e]
      BY <1>1, <2>1 DEF Settle
    <3> QED
      BY <3>1, <3>2
  <2>2. CASE \E s \in Scores : Choose(s)
    <3>1. PICK s \in Scores : Choose(s)
      BY <2>2
    <3> DEFINE d == choose_placement_coreset_model(current.last_on_p,
                                                   current.has_last_on_p, s)
               e == [queue[i] EXCEPT !.last_on_p = d.last_on_p,
                                     !.has_last_on_p = d.has_last_on_p]
    <3>2. d.last_on_p \in BOOLEAN /\ d.has_last_on_p \in BOOLEAN
      <4>1. /\ current.last_on_p \in BOOLEAN
            /\ current.has_last_on_p \in BOOLEAN
        BY <1>1 DEF current, QueueEntry
      <4>2. OnPAfter(current.last_on_p, current.has_last_on_p, s) \in BOOLEAN
        <5>1. s.yP \in Nat /\ s.yE \in Nat
          BY ScoresAssumption DEF Score
        <5>2. SideBefore(current.last_on_p, current.has_last_on_p, s) \in BOOLEAN
          <6>1. CASE current.has_last_on_p
            BY <4>1, <6>1, Zenon DEF SideBefore
          <6>2. CASE ~ current.has_last_on_p
            <7>1. SideBefore(current.last_on_p, current.has_last_on_p, s)
                    = (s.yP >= s.yE)
              BY <6>2, Zenon DEF SideBefore
            <7> QED
              BY <5>1, <7>1
          <6> QED
            BY <6>1, <6>2
        <5>3. /\ ClearlyBetter(s.yE, s.yP) \in BOOLEAN
              /\ ClearlyBetter(s.yP, s.yE) \in BOOLEAN
          BY <5>1 DEF ClearlyBetter, HYST
        <5> QED
          BY <5>2, <5>3, Zenon DEF OnPAfter
      <4> QED
        BY <4>1, <4>2 DEF choose_placement_coreset_model
    <3>3. queue' = [queue EXCEPT ![i] = e] /\ pc = "choose"
      BY <1>1, <3>1 DEF Choose
    <3> HIDE DEF d
    <3>4. /\ e \in QueueEntry
          /\ e.pid = queue[i].pid /\ e.history = queue[i].history
          /\ e.capacity = queue[i].capacity /\ e.count = queue[i].count
      BY <1>1, <3>2 DEF QueueEntry
    <3> QED
      BY <3>3, <3>4
  <2> QED
    BY <2>1, <2>2
<1>3. /\ queue' \in [Slots -> QueueEntry]
      /\ queue'[i] = e
      /\ \A k \in Slots \ {i} : queue'[k] = queue[k]
      /\ Live' = Live
  BY <1>1, <1>2 DEF Live
<1>4. /\ pc' \in {"check", "apply"} /\ i' \in Nat
      /\ chosen' \in Coresets \cup {NULL}
      /\ pc' = "apply" => i' = i /\ chosen' \in Coresets
      /\ pc' = "check" => i' = i + 1 /\ pc = "settle"
  <2>1. CASE Settle
    BY <1>1, <2>1 DEF Settle
  <2>2. CASE \E s \in Scores : Choose(s)
    <3>1. PICK s \in Scores : Choose(s)
      BY <2>2
    <3>2. choose_placement_coreset_model(current.last_on_p,
             current.has_last_on_p, s).chosen \in Coresets
      BY DEF choose_placement_coreset_model, Coresets
    <3> QED
      BY <1>1, <3>1, <3>2 DEF Choose
  <2> QED
    BY <2>1, <2>2
<1>5. TypeOK'
  BY <1>1, <1>3, <1>4 DEF TypeOK, Slots, Walking
<1>6. OneEntryPerPid'
  BY <1>1, <1>2, <1>3 DEF OneEntryPerPid
<1>7. HistoryOwnership'
  <2>1. \A k \in Slots : /\ queue'[k].history = queue[k].history
                         /\ queue'[k].capacity = queue[k].capacity
                         /\ queue'[k].count \in {0, queue[k].count}
    BY <1>2, <1>3
  <2>2. \A k \in Live : queue'[k].count <= queue'[k].capacity
    BY <1>1, <2>1 DEF HistoryOwnership, QueueEntry
  <2> QED
    BY <1>1, <1>3, <2>1, <2>2 DEF HistoryOwnership, Slots
<1>8. PassSkipsNobody'
  BY <1>1, <1>2, <1>3, <1>4 DEF PassSkipsNobody, Consumed, Walking, Live
<1>9. LoopLocals' /\ ServesClient'
  BY <1>1, <1>4 DEF LoopLocals, ServesClient, Walking, Serving, Live
<1> QED
  BY <1>5, <1>6, <1>7, <1>8, <1>9

(* cleanup_scheduler frees every block a slot points to, hence all.        *)
LEMMA StopKeepsQInv ==
  ASSUME QInv, Stop
  PROVE  QInv'
<1> USE DEF QInv
<1>1. /\ queue \in [Slots -> QueueEntry] /\ heap \in [Blocks -> Nat]
      /\ conns # <<>> /\ conns' = Tail(conns)
      /\ size' = 0 /\ pc' = "exit" /\ i' = 0
      /\ UNCHANGED <<chosen, proc, booted, mask, astray, stopAsked>>
      /\ MaxQueue \in Nat
  BY SizesAssumption
  DEF Stop, TypeOK, ServesClient, Serving, LoopLocals, Walking, system
<1>2. \A e \in QueueEntry : /\ free_queue_entry(e) \in QueueEntry
                            /\ free_queue_entry(e).history = NULL
  BY DEF free_queue_entry, QueueEntry
<1>3. /\ queue' \in [Slots -> QueueEntry]
      /\ \A j \in Slots : queue'[j].history = NULL
  BY <1>1, <1>2 DEF Stop
<1>4. heap' = [b \in Blocks |->
                IF \E j \in Slots : queue[j].history = b THEN 0 ELSE heap[b]]
  BY DEF Stop
<1>5. \A b \in Blocks : heap'[b] = 0
  <2> SUFFICES ASSUME NEW b \in Blocks, heap[b] # 0
               PROVE  \E j \in Slots : queue[j].history = b
    BY <1>4
  <2>1. Live \subseteq Slots
    BY SizesAssumption DEF Live, Slots, TypeOK
  <2> QED
    BY <2>1 DEF HistoryOwnership
<1>6. heap' \in [Blocks -> Nat]
  BY <1>1, <1>4
<1>7. conns' \in Seq(Connection)
  BY <1>1, HeadTailProperties DEF TypeOK
<1>8. TypeOK'
  BY <1>1, <1>3, <1>6, <1>7 DEF TypeOK, Slots
<1>9. Live' = {}
  BY <1>1 DEF Live
<1>10. OneEntryPerPid' /\ HistoryOwnership'
  BY <1>3, <1>5, <1>9 DEF OneEntryPerPid, HistoryOwnership, Slots
<1>11. PassSkipsNobody' /\ LoopLocals' /\ ServesClient'
  BY <1>1 DEF PassSkipsNobody, LoopLocals, ServesClient, Walking, Serving
<1> QED
  BY <1>8, <1>10, <1>11
-----------------------------------------------------------------------------
(* The placement half of the invariant.                                    *)

(* Steps that leave the entries, the processes and their affinity alone.   *)
LEMMA SameEntriesKeepPInv ==
  ASSUME PInv, UNCHANGED <<queue, size, proc, mask, astray>>,
         pc # "apply", pc # "exit",
         pc' = "apply" => i' = i /\ i \in Live /\ chosen' = ALL_CORESET
  PROVE  PInv'
<1>4. \A j \in Live : Truthful(queue[j]) /\ Truthful(queue[j])'
  BY DEF PInv, HysteresisMatchesMask, Deciding, Truthful, is_process_alive
<1>1. ChoiceInFlight'
  BY <1>4 DEF ChoiceInFlight, P_CORESET, E_CORESET, ALL_CORESET, current, Truthful
<1>2. MaskTracked'
  BY DEF PInv, MaskTracked, is_process_alive, Queued, Live
<1>3. HysteresisMatchesMask'
  BY <1>4 DEF HysteresisMatchesMask, Live
<1> QED
  BY <1>1, <1>2, <1>3 DEF PInv

(* A PID is reborn only after it was reaped, and then without affinity.    *)
LEMMA EnvironmentKeepsPInv ==
  ASSUME QInv, PInv, Environment
  PROVE  PInv'
<1>1. UNCHANGED <<queue, size, i, chosen, pc>>
  BY DEF Environment, Spawn, Die, Reap, Connect, BrokenPipe, RequestShutdown,
         Write, daemon
<1>2. /\ proc \in [Pids -> {"none", "running", "zombie"}]
      /\ mask \in [Pids -> Coresets \cup {"inherited"}]
      /\ \A j \in Live : queue[j].pid \in Pids
      /\ pc = "apply" => i \in Live
  BY DEF QInv, TypeOK, OneEntryPerPid, LoopLocals, Live
<1>3. \A p \in Pids : mask'[p] # "inherited" =>
                            /\ mask'[p] = mask[p]
                            /\ proc[p] # "none" /\ proc'[p] # "none"
  <2>1. CASE UNCHANGED <<proc, mask>>
    BY <1>2, <2>1 DEF is_process_alive, PInv, MaskTracked
  <2>2. CASE \E p \in Pids : Spawn(p) \/ Die(p) \/ BrokenPipe(p)
    <3>1. PICK p \in Pids : proc' = [proc EXCEPT ![p] = "running"]
                            \/ proc' = [proc EXCEPT ![p] = "zombie"]
      BY <2>2 DEF Spawn, Die, BrokenPipe
    <3>2. UNCHANGED mask
      BY <2>2 DEF Spawn, Die, BrokenPipe
    <3> QED
      BY <1>2, <3>1, <3>2 DEF is_process_alive, PInv, MaskTracked
  <2>3. CASE \E p \in Pids : Reap(p)
    <3>1. PICK p \in Pids : Reap(p)
      BY <2>3
    <3> QED
      BY <1>2, <3>1 DEF Reap, is_process_alive, PInv, MaskTracked
  <2> QED
    BY <2>1, <2>2, <2>3
    DEF Environment, Connect, RequestShutdown, Write, system
(* An entry never learns anything from the environment, and a process that *)
(* is born under an entry is astray.                                       *)
<1>7. ASSUME NEW j \in Live, Truthful(queue[j])
      PROVE  Truthful(queue[j])'
  <2> DEFINE q == queue[j].pid
  <2>1. q \in Pids /\ Queued(q)
    BY <1>2 DEF Queued
  <2>2. SUFFICES ASSUME proc'[q] # "none", q \notin astray'
                 PROVE  proc[q] # "none" /\ q \notin astray /\ mask'[q] = mask[q]
    BY <1>1, <1>7, <2>1 DEF Truthful, is_process_alive
  <2>3. CASE UNCHANGED <<proc, mask, astray>>
    BY <2>2, <2>3
  <2>4. ASSUME NEW p \in Pids, Spawn(p)
        PROVE  proc[q] # "none" /\ q \notin astray /\ mask'[q] = mask[q]
    BY <1>2, <2>1, <2>2, <2>4 DEF Spawn
  <2>5. ASSUME NEW p \in Pids, Die(p) \/ BrokenPipe(p) \/ Reap(p)
        PROVE  proc[q] # "none" /\ q \notin astray /\ mask'[q] = mask[q]
    <3>1. Die(p) => proc' = [proc EXCEPT ![p] = "zombie"] /\ proc[p] = "running"
      BY DEF Die
    <3>2. Reap(p) => proc' = [proc EXCEPT ![p] = "none"]
                     /\ mask' = [mask EXCEPT ![p] = "inherited"]
      BY DEF Reap
    <3>3. BrokenPipe(p) => proc' = [proc EXCEPT ![p] = "zombie"] /\ proc[p] = "running"
      BY DEF BrokenPipe
    <3>4. astray' = astray /\ (Die(p) \/ BrokenPipe(p) => mask' = mask)
      BY <2>5 DEF Die, BrokenPipe, Reap
    <3> QED
      BY <1>2, <2>1, <2>2, <2>5, <3>1, <3>2, <3>3, <3>4
  <2> QED
    BY <2>3, <2>4, <2>5
    DEF Environment, Connect, RequestShutdown, Write, system
<1>4. ChoiceInFlight'
  <2>1. PICK j : j = i
    OBVIOUS
  <2>2. pc = "apply" /\ Truthful(queue[j]) => Truthful(queue[j])'
    BY <1>2, <1>7, <2>1
  <2>3. pc = "apply" /\ Truthful(current) => Truthful(current)'
    BY <1>1, <2>1, <2>2 DEF Truthful, current, is_process_alive
  <2> QED
    BY <1>1, <2>3 DEF PInv, ChoiceInFlight, current
<1>5. MaskTracked'
  <2>1. \A p : Queued(p)' <=> Queued(p)
    BY <1>1 DEF Queued, Live
  <2> QED
    BY <1>1, <1>3, <2>1 DEF PInv, MaskTracked, is_process_alive, Queued, Live
<1>6. HysteresisMatchesMask'
  BY <1>1, <1>7 DEF PInv, HysteresisMatchesMask, Live, Deciding
<1> QED
  BY <1>4, <1>5, <1>6 DEF PInv

(* Same process and hysteresis flags in every entry that was live.         *)
SameSide(e, f) == /\ e.pid = f.pid
                  /\ e.last_on_p = f.last_on_p
                  /\ e.has_last_on_p = f.has_last_on_p

(* An entry with the same process and flags is as truthful.                *)
LEMMA SameSideSameTruth ==
  ASSUME UNCHANGED <<proc, mask, astray>>, NEW j,
         SameSide(queue'[j], queue[j]), Truthful(queue[j])
  PROVE  Truthful(queue[j])'
BY DEF Truthful, SameSide, is_process_alive

(* add_to_queue: a new entry is for a process that was never placed.       *)
LEMMA AddStepsKeepPInv ==
  ASSUME QInv, PInv, Update \/ UpdateGrow \/ Insert \/ InsertNoMemory
  PROVE  PInv'
<1> DEFINE p == Head0.from
<1>1. /\ pc' = "accept" /\ pc = "read_data" /\ p \in Pids
      /\ UNCHANGED <<proc, mask, astray>>
      /\ queue \in [Slots -> QueueEntry] /\ Live \subseteq Slots
      /\ OneEntryPerPid /\ size \in Nat /\ MaxQueue \in Nat
      /\ size <= MaxQueue
  <2>1. Adding /\ UNCHANGED system
    BY DEF Update, UpdateGrow, Insert, InsertNoMemory
  <2>2. /\ queue \in [Slots -> QueueEntry] /\ OneEntryPerPid
        /\ size \in Nat /\ MaxQueue \in Nat /\ size <= MaxQueue
    BY SizesAssumption DEF QInv, TypeOK
  <2>3. Live \subseteq Slots
    BY <2>2 DEF Live, Slots
  <2> QED
    BY <2>1, <2>2, <2>3 DEF Adding, system, QInv, ServesClient
<1>2. ChoiceInFlight'
  BY <1>1 DEF ChoiceInFlight
<1>3. CASE Update \/ UpdateGrow \/ InsertNoMemory
  <2>1. Live' = Live /\ \A j \in Live : SameSide(queue'[j], queue[j])
    <3>1. CASE Update
      <4> DEFINE k == IndexOf(p)
      <4>1. k \in Live /\ queue' = [queue EXCEPT ![k] = Appended(queue[k])]
        BY <1>1, <3>1, FoundEntry DEF Update, pid
      <4>2. SameSide(Appended(queue[k]), queue[k])
        BY <1>1, <4>1 DEF SameSide, Appended, QueueEntry
      <4> HIDE DEF k
      <4>3. UNCHANGED size
        BY <3>1 DEF Update
      <4> QED
        BY <1>1, <4>1, <4>2, <4>3 DEF SameSide, Live
    <3>2. CASE UpdateGrow
      <4> DEFINE k == IndexOf(p)
                 g(b, n) == [queue[k] EXCEPT !.history = b, !.capacity = n]
      <4>1. k \in Live /\ UNCHANGED size
        BY <1>1, <3>2, FoundEntry DEF UpdateGrow, pid
      <4>2. PICK b, n : queue' = [queue EXCEPT ![k] = Appended(g(b, n))]
        BY <3>2 DEF UpdateGrow, pid
      <4> HIDE DEF k
      <4>3. SameSide(Appended(g(b, n)), queue[k])
        BY <1>1, <4>1 DEF SameSide, Appended, QueueEntry
      <4> HIDE DEF g
      <4> QED
        BY <1>1, <4>1, <4>2, <4>3 DEF SameSide, Live
    <3>3. CASE InsertNoMemory
      BY <1>1, <3>3 DEF InsertNoMemory, SameSide, Live, Slots
    <3> QED
      BY <1>3, <3>1, <3>2, <3>3
  <2>2. \A q : Queued(q) => Queued(q)'
    BY <2>1 DEF Queued, SameSide
  <2>3. MaskTracked'
    BY <1>1, <2>2 DEF PInv, MaskTracked, is_process_alive
  <2>4. HysteresisMatchesMask'
    <3>1. \A j \in Live : Truthful(queue[j])
      BY <1>1 DEF PInv, HysteresisMatchesMask, Deciding
    <3>2. \A j \in Live : Truthful(queue[j])'
      BY <1>1, <2>1, <3>1, SameSideSameTruth
    <3> QED
      BY <2>1, <3>2 DEF HysteresisMatchesMask
  <2> QED
    BY <1>2, <2>3, <2>4 DEF PInv
<1>4. CASE Insert
  <2>1. /\ ~ Queued(p) /\ Live' = Live \cup {size} /\ size \in Slots
        /\ \A j \in Live : queue'[j] = queue[j]
        /\ queue'[size].pid = p /\ ~ queue'[size].has_last_on_p
    <3>1. PICK b \in Free :
             queue' = [queue EXCEPT ![size] =
                         [init_queue_entry EXCEPT !.pid = p, !.history = b,
                            !.capacity = InitialCap, !.count = 1,
                            !.startup_flag = Head0.startup]]
      BY <1>4 DEF Insert, pid
    <3>2. ~ Queued(p) /\ size < MaxQueue /\ size' = size + 1
      BY <1>4 DEF Insert, pid
    <3>3. size \in Slots /\ size \notin Live /\ Live' = Live \cup {size}
      BY <1>1, <3>2 DEF Slots, Live
    <3> QED
      BY <1>1, <3>1, <3>2, <3>3 DEF init_queue_entry
  <2>2. mask[p] = "inherited"
    BY <1>1, <2>1 DEF PInv, MaskTracked
  <2>3. \A q : Queued(q) => Queued(q)'
    BY <2>1 DEF Queued
  <2>4. MaskTracked'
    BY <1>1, <2>3 DEF PInv, MaskTracked, is_process_alive
  <2>5. HysteresisMatchesMask'
    <3>1. \A j \in Live : Truthful(queue[j])'
      BY <1>1, <2>1
      DEF PInv, HysteresisMatchesMask, Deciding, Truthful, is_process_alive
    <3>2. ASSUME NEW j, j = size PROVE Truthful(queue[j])'
      BY <1>1, <2>1, <2>2, <3>2 DEF Truthful, P_CORESET, E_CORESET
    <3> QED
      BY <2>1, <3>1, <3>2 DEF HysteresisMatchesMask
  <2> QED
    BY <1>2, <2>4, <2>5 DEF PInv
<1> QED
  BY <1>3, <1>4

(* A removed process is dead, so it has no affinity to account for.        *)
LEMMA RemoveKeepsPInv ==
  ASSUME QInv, PInv, DropDead
  PROVE  PInv'
<1>1. /\ size \in Nat /\ i \in Nat /\ i < size /\ size <= MaxQueue
      /\ MaxQueue \in Nat
      /\ size' = size - 1 /\ pc' = "check" /\ pc # "exit" /\ pc # "apply"
      /\ UNCHANGED <<proc, mask, astray>>
      /\ proc[queue[i].pid] = "none"
      /\ queue' = [j \in Slots |->
                     IF j = size - 1 THEN init_queue_entry
                     ELSE IF i <= j /\ j < size - 1 THEN queue[j + 1]
                     ELSE queue[j]]
  BY SizesAssumption
  DEF DropDead, remove_queue_entry, system, QInv, TypeOK, is_process_alive, current
<1>2. \A j \in Live' : \E k \in Live : queue'[j] = queue[k]
  <2>1. \A j \in Live' : queue'[j] = queue[IF j < i THEN j ELSE j + 1]
    BY <1>1 DEF Live, Slots
  <2>2. \A j \in Live' : (IF j < i THEN j ELSE j + 1) \in Live
    BY <1>1 DEF Live
  <2> QED
    BY <2>1, <2>2
<1>3. \A k \in Live \ {i} : \E j \in Live' : queue'[j] = queue[k]
  <2> SUFFICES ASSUME NEW k \in Live \ {i}
               PROVE  \E j \in Live' : queue'[j] = queue[k]
    OBVIOUS
  <2>1. CASE k < i
    <3>1. k \in Live' /\ queue'[k] = queue[k]
      BY <1>1, <2>1 DEF Live, Slots
    <3> QED
      BY <3>1
  <2>2. CASE k > i
    <3>1. k - 1 \in Live' /\ queue'[k - 1] = queue[k]
      BY <1>1, <2>2 DEF Live, Slots
    <3> QED
      BY <3>1
  <2> QED
    BY <1>1, <2>1, <2>2 DEF Live
<1>4. ChoiceInFlight'
  BY <1>1 DEF ChoiceInFlight
<1>5. MaskTracked'
  <2> SUFFICES ASSUME NEW p \in Pids, mask'[p] # "inherited"
               PROVE  proc'[p] # "none" /\ Queued(p)'
    BY DEF MaskTracked, is_process_alive
  <2>1. proc[p] # "none" /\ Queued(p)
    BY <1>1 DEF PInv, MaskTracked, is_process_alive
  <2>2. PICK k \in Live : queue[k].pid = p
    BY <2>1 DEF Queued
  <2>3. k # i
    BY <1>1, <2>1, <2>2
  <2> QED
    BY <1>1, <1>3, <2>1, <2>2, <2>3 DEF Queued
<1>6. HysteresisMatchesMask'
  BY <1>1, <1>2
  DEF PInv, HysteresisMatchesMask, is_process_alive, Deciding, Truthful
<1> QED
  BY <1>4, <1>5, <1>6 DEF PInv

(* The decision writes the flags, Apply makes the affinity follow them,    *)
(* and the end of the iteration and of the daemon touch neither.           *)
LEMMA PassKeepsPInv ==
  ASSUME QInv, PInv, Apply \/ Settle \/ Stop \/ \E s \in Scores : Choose(s)
  PROVE  PInv'
<1>1. /\ queue \in [Slots -> QueueEntry] /\ Live \subseteq Slots
      /\ OneEntryPerPid
      /\ mask \in [Pids -> Coresets \cup {"inherited"}]
  BY SizesAssumption DEF QInv, TypeOK, Live, Slots
<1>2. pc \in {"choose", "apply", "settle"} => i \in Live /\ i \in Slots
  BY <1>1 DEF QInv, TypeOK, LoopLocals, Live
<1>3. CASE Apply
  <2> DEFINE p == queue[i].pid
  <2>1. /\ i \in Live /\ p \in Pids /\ pc' = "settle" /\ pc = "apply"
        /\ UNCHANGED <<queue, size, proc, i>> /\ chosen \in Coresets
    BY <1>1, <1>2, <1>3 DEF Apply, daemon, OneEntryPerPid, QInv, LoopLocals
  <2>2. \/ /\ proc[p] # "none" /\ mask' = [mask EXCEPT ![p] = chosen]
           /\ astray' = IF ASide THEN astray \ {p} ELSE astray
        \/ /\ proc[p] # "none" /\ mask' = mask
           /\ astray' = IF ASide THEN astray \cup {p} ELSE astray
        \/ /\ proc[p] = "none" /\ mask' = mask /\ astray' = astray
    BY <1>3 DEF Apply, Applied, ApplyFailed, ApplySkipped, is_process_alive, current
  <2>3. MaskTracked'
    BY <1>1, <2>1, <2>2 DEF PInv, MaskTracked, is_process_alive, Queued, Live
  <2>4. Truthful(queue[i])'
    <3>1. CASE chosen = ALL_CORESET
      <4>1. Truthful(queue[i]) /\ ~ ASide
        BY <2>1, <3>1
        DEF PInv, ChoiceInFlight, current, ASide, P_CORESET, E_CORESET, ALL_CORESET
      <4> QED
        BY <1>1, <2>1, <2>2, <3>1, <4>1 DEF Truthful, is_process_alive
    <3>2. CASE ASide
      <4>1. \/ chosen = P_CORESET /\ queue[i].has_last_on_p /\ queue[i].last_on_p
            \/ chosen = E_CORESET /\ queue[i].has_last_on_p /\ ~ queue[i].last_on_p
        BY <2>1, <3>2 DEF PInv, ChoiceInFlight, current, ASide
      <4>2. proc[p] = "none" \/ p \in astray' \/ mask'[p] = chosen
        BY <1>1, <2>1, <2>2, <3>2
      <4> QED
        BY <2>1, <4>1, <4>2 DEF Truthful, is_process_alive, P_CORESET, E_CORESET
    <3> QED
      BY <2>1, <3>1, <3>2 DEF Coresets, ASide
  <2>5. ASSUME NEW j \in Live, j # i
        PROVE  Truthful(queue[j])'
    <3>1. queue[j].pid # p /\ Truthful(queue[j])
      BY <1>1, <2>1, <2>5 DEF OneEntryPerPid, PInv, HysteresisMatchesMask, Deciding
    <3> DEFINE q == queue[j].pid
    <3>2. /\ proc' = proc /\ queue' = queue /\ q \in Pids
          /\ mask'[q] = mask[q] /\ (q \in astray' <=> q \in astray)
      <4>1. q \in Pids
        BY <1>1 DEF OneEntryPerPid
      <4> HIDE DEF q
      <4>2. q # p
        BY <3>1 DEF q
      <4> QED
        BY <1>1, <2>1, <2>2, <4>1, <4>2
    <3> QED
      BY <3>1, <3>2 DEF Truthful, is_process_alive
  <2>6. HysteresisMatchesMask'
    BY <2>1, <2>4, <2>5 DEF HysteresisMatchesMask, Live
  <2> QED
    BY <2>1, <2>3, <2>6 DEF PInv, ChoiceInFlight
<1>4. CASE Settle
  <2>1. /\ i \in Live /\ pc = "settle" /\ pc' = "check" /\ Live' = Live
        /\ UNCHANGED <<size, proc, mask, astray>>
        /\ \A j \in Live : SameSide(queue'[j], queue[j])
    BY <1>1, <1>2, <1>4 DEF Settle, system, Live, SameSide, QueueEntry
  <2>2. \A q : Queued(q) => Queued(q)'
    BY <2>1 DEF Queued, SameSide
  <2>3. MaskTracked'
    BY <2>1, <2>2 DEF PInv, MaskTracked, is_process_alive
  <2>4. HysteresisMatchesMask'
    <3>1. \A j \in Live : Truthful(queue[j])
      BY <2>1 DEF PInv, HysteresisMatchesMask, Deciding
    <3>2. \A j \in Live : Truthful(queue[j])'
      BY <2>1, <3>1, SameSideSameTruth
    <3> QED
      BY <2>1, <3>2 DEF HysteresisMatchesMask
  <2> QED
    BY <2>1, <2>3, <2>4 DEF PInv, ChoiceInFlight
<1>5. CASE Stop
  <2>1. pc' = "exit" /\ Live' = {} /\ UNCHANGED <<proc, mask, astray>>
    BY <1>5 DEF Stop, Live, system
  <2> QED
    BY <2>1
    DEF PInv, ChoiceInFlight, MaskTracked, HysteresisMatchesMask, is_process_alive
<1>6. CASE \E s \in Scores : Choose(s)
  <2>1. PICK s \in Scores : Choose(s)
    BY <1>6
  <2> DEFINE d == choose_placement_coreset_model(current.last_on_p,
                                                 current.has_last_on_p, s)
             e == [queue[i] EXCEPT !.last_on_p = d.last_on_p,
                                   !.has_last_on_p = d.has_last_on_p]
  <2>2. /\ d.chosen = P_CORESET => d.last_on_p /\ d.has_last_on_p
        /\ d.chosen = E_CORESET => ~ d.last_on_p /\ d.has_last_on_p
        /\ d.chosen = ALL_CORESET => /\ d.last_on_p = current.last_on_p
                                     /\ d.has_last_on_p = current.has_last_on_p
    BY DEF choose_placement_coreset_model, P_CORESET, E_CORESET, ALL_CORESET
  <2>3. /\ pc = "choose" /\ pc' = "apply" /\ i' = i /\ chosen' = d.chosen
        /\ queue' = [queue EXCEPT ![i] = e]
        /\ UNCHANGED <<size, proc, mask, astray>> /\ Live' = Live
    BY <1>1, <1>2, <2>1 DEF Choose, system, Live
  <2> HIDE DEF d
  <2>4. /\ queue'[i].pid = queue[i].pid
        /\ queue'[i].last_on_p = d.last_on_p
        /\ queue'[i].has_last_on_p = d.has_last_on_p
        /\ \A j \in Live \ {i} : queue'[j] = queue[j]
    BY <1>1, <1>2, <2>3 DEF QueueEntry
  <2> HIDE DEF e
  <2>9. \A j \in Live : Truthful(queue[j])
    BY <2>3 DEF PInv, HysteresisMatchesMask, Deciding
  <2>5. ChoiceInFlight'
    <3>1. ASSUME NEW j, j = i, d.chosen = ALL_CORESET
          PROVE  Truthful(queue[j])'
      <4>1. SameSide(queue'[j], queue[j]) /\ Truthful(queue[j])
        BY <1>2, <2>2, <2>3, <2>4, <2>9, <3>1 DEF SameSide, current
      <4> QED
        BY <2>3, <4>1, SameSideSameTruth
    <3>2. chosen' = ALL_CORESET => Truthful(current)'
      <4>1. PICK j : j = i
        OBVIOUS
      <4>2. d.chosen = ALL_CORESET => Truthful(queue[j])'
        BY <3>1, <4>1
      <4> QED
        BY <2>3, <4>1, <4>2 DEF Truthful, current, is_process_alive
    <3> QED
      BY <2>2, <2>3, <2>4, <3>2 DEF ChoiceInFlight, current
  <2>6. \A q : Queued(q) => Queued(q)'
    BY <2>3, <2>4 DEF Queued
  <2>7. MaskTracked'
    BY <2>3, <2>6 DEF PInv, MaskTracked, is_process_alive
  <2>8. HysteresisMatchesMask'
    BY <2>3, <2>4, <2>9 DEF HysteresisMatchesMask, Truthful, is_process_alive, Deciding
  <2> QED
    BY <2>5, <2>7, <2>8 DEF PInv
<1> QED
  BY <1>3, <1>4, <1>5, <1>6
-----------------------------------------------------------------------------
LEMMA InitEstablishesIInv ==
  ASSUME Init
  PROVE  IInv
<1>1. init_queue_entry \in QueueEntry /\ init_queue_entry.history = NULL
  BY DEF init_queue_entry, QueueEntry
<1>2. Live = {}
  BY DEF Init, Live
<1>3. <<>> \in Seq(Connection)
  BY EmptySeq
<1>4. TypeOK
  <2>1. /\ queue \in [Slots -> QueueEntry] /\ size \in 0 .. MaxQueue
        /\ heap \in [Blocks -> Nat] /\ i \in Nat /\ conns \in Seq(Connection)
    BY <1>1, <1>3, SizesAssumption DEF Init
  <2>2. /\ proc \in [Pids -> {"none", "running", "zombie"}]
        /\ booted \in [Pids -> BOOLEAN]
        /\ mask \in [Pids -> Coresets \cup {"inherited"}]
    BY DEF Init
  <2> QED
    BY <2>1, <2>2 DEF Init, TypeOK
<1>5. QInv
  BY <1>1, <1>2, <1>4
  DEF Init, QInv, OneEntryPerPid, HistoryOwnership, PassSkipsNobody, LoopLocals,
      ServesClient, Walking, Serving
<1>6. PInv
  BY <1>2 DEF Init, PInv, ChoiceInFlight, MaskTracked, HysteresisMatchesMask
<1> QED
  BY <1>5, <1>6 DEF IInv

LEMMA NextKeepsIInv ==
  ASSUME IInv, [Next]_vars
  PROVE  IInv'
<1> USE DEF IInv
<1>1. CASE UNCHANGED vars
  <2>1. QInv'
    <3>1. TypeOK'
      BY <1>1 DEF vars, QInv, TypeOK, Slots
    <3>2. OneEntryPerPid' /\ HistoryOwnership'
      BY <1>1 DEF vars, QInv, OneEntryPerPid, HistoryOwnership, Live, Slots
    <3>3. PassSkipsNobody' /\ LoopLocals' /\ ServesClient'
      BY <1>1
      DEF vars, QInv, PassSkipsNobody, LoopLocals, ServesClient, Live, Consumed, Head0
    <3> QED
      BY <3>1, <3>2, <3>3 DEF QInv
  <2>2. ChoiceInFlight'
    BY <1>1 DEF vars, PInv, ChoiceInFlight, current, Truthful, is_process_alive
  <2>3. MaskTracked'
    BY <1>1 DEF vars, PInv, MaskTracked, Queued, Live, is_process_alive
  <2>4. HysteresisMatchesMask'
    BY <1>1
    DEF vars, PInv, HysteresisMatchesMask, Live, Truthful, is_process_alive, Deciding
  <2> QED
    BY <2>1, <2>2, <2>3, <2>4 DEF PInv
<1>2. CASE Environment
  BY <1>2, EnvironmentKeepsQInv, EnvironmentKeepsPInv
<1>3. CASE \/ Accept \/ StartPass \/ ReadPid \/ ShortRead \/ AddRefused
           \/ UpdateNoMemory \/ CheckAlive \/ ChooseStartup \/ EndPass
  <2>1. QInv'
    BY <1>3, QuietStepsKeepQInv
  <2>2. /\ UNCHANGED <<queue, size, proc, mask, astray>>
        /\ pc # "apply" /\ pc # "exit"
        /\ pc' = "apply" => i' = i /\ i \in Live /\ chosen' = ALL_CORESET
    BY <1>3
    DEF QInv, LoopLocals, TypeOK, Live, Accept, StartPass, ReadPid, ShortRead, AddRefused, UpdateNoMemory,
        Adding, CheckAlive, ChooseStartup, EndPass, daemon, system
  <2> QED
    BY <2>1, <2>2, SameEntriesKeepPInv
<1>4. CASE Update \/ UpdateGrow \/ Insert \/ InsertNoMemory
  BY <1>4, AddStepsKeepQInv, AddStepsKeepPInv
<1>5. CASE DropDead
  BY <1>5, RemoveKeepsQInv, RemoveKeepsPInv
<1>6. CASE Apply
  BY <1>6, QuietStepsKeepQInv, PassKeepsPInv
<1>7. CASE Settle \/ \E s \in Scores : Choose(s)
  BY <1>7, IterationKeepsQInv, PassKeepsPInv
<1>8. CASE Stop
  BY <1>8, StopKeepsQInv, PassKeepsPInv
<1> QED
  BY <1>1, <1>2, <1>3, <1>4, <1>5, <1>6, <1>7, <1>8
  DEF Next, Daemon, add_to_queue, process_queue

LEMMA Inductive == Spec => []IInv
<1>1. Init => IInv
  BY InitEstablishesIInv
<1>2. IInv /\ [Next]_vars => IInv'
  BY NextKeepsIInv
<1> QED
  BY <1>1, <1>2, PTL DEF Spec

(* Every variable keeps its type: in particular queue_size stays within    *)
(* the array and no message is longer than its format.                     *)
THEOREM TypeCorrect == Spec => []TypeOK
<1>1. IInv => TypeOK
  BY DEF IInv, QInv
<1> QED
  BY <1>1, Inductive, PTL

(* No PID ever has two entries in the queue.                               *)
THEOREM PidsAreUnique == Spec => []OneEntryPerPid
<1>1. IInv => OneEntryPerPid
  BY DEF IInv, QInv
<1> QED
  BY <1>1, Inductive, PTL

(* The history blocks are neither leaked, nor shared, nor overrun, for all *)
(* sizes and whenever malloc or realloc fails.                             *)
THEOREM HistoriesAreOwned == Spec => []HistoryOwnership
<1>1. IInv => HistoryOwnership
  BY DEF IInv, QInv
<1> QED
  BY <1>1, Inductive, PTL

(* A pass that removes entries while it walks still visits all the others. *)
THEOREM NobodyIsSkipped == Spec => []PassSkipsNobody
<1>1. IInv => PassSkipsNobody
  BY DEF IInv, QInv
<1> QED
  BY <1>1, Inductive, PTL

(* The flags of a living process that is not astray say P exactly if it is *)
(* on the P side and E exactly if it is on the E side: nothing leaves an   *)
(* entry with the flags of another or takes its own away                   *)
(* (scheduler.c:246-257, 906-930, 957, 1173-1203, 1305).                   *)
THEOREM HysteresisIsTruthful == Spec => []HysteresisMatchesMask
<1>1. IInv => HysteresisMatchesMask
  BY DEF IInv, PInv
<1> QED
  BY <1>1, Inductive, PTL

-----------------------------------------------------------------------------
(* The refinement of ProcessRegistry.                                      *)

(* The map an array of n entries stands for.                               *)
PidsIn(qu, n) == {p \in Pids : \E j \in 0 .. n - 1 : qu[j].pid = p}
EntryIn(qu, n, p) ==
  qu[CHOOSE j \in 0 .. n - 1 : /\ qu[j].pid = p
                               /\ \A k \in 0 .. n - 1 : qu[k].pid = p => j <= k]
View(qu, n) == [p \in PidsIn(qu, n) |-> Summary(EntryIn(qu, n, p))]
Unique(qu, n) ==
  \A j, k \in 0 .. n - 1 : /\ qu[j].pid \in Pids
                           /\ qu[j].pid = qu[k].pid => j = k

Extended(f, p, x) == [q \in DOMAIN f \cup {p} |-> IF q = p THEN x ELSE f[q]]
Without(f, p)     == [q \in DOMAIN f \ {p} |-> f[q]]

theMap == [p \in Tracked |-> Summary(EntryOf(p))]

LEMMA MapIsView ==
  /\ theMap = View(queue, size)
  /\ theMap' = View(queue', size')
  /\ OneEntryPerPid = Unique(queue, size)
  /\ OneEntryPerPid' = Unique(queue', size')
  /\ Tracked = PidsIn(queue, size)
BY DEF theMap, View, PidsIn, EntryIn, Tracked, Queued, EntryOf, IndexOf, Live,
       OneEntryPerPid, Unique

LEMMA EntryAt ==
  ASSUME NEW qu, NEW n \in Nat, Unique(qu, n), NEW j \in 0 .. n - 1
  PROVE  /\ qu[j].pid \in PidsIn(qu, n)
         /\ EntryIn(qu, n, qu[j].pid) = qu[j]
         /\ View(qu, n)[qu[j].pid] = Summary(qu[j])
<1>1. qu[j].pid \in PidsIn(qu, n)
  BY DEF PidsIn, Unique
<1>2. \A k \in 0 .. n - 1 : qu[k].pid = qu[j].pid => k = j
  BY DEF Unique
<1>3. EntryIn(qu, n, qu[j].pid) = qu[j]
  <2>1. \A k \in 0 .. n - 1 : qu[k].pid = qu[j].pid => j <= k
    BY <1>2
  <2> QED
    BY <1>2, <2>1 DEF EntryIn
<1> QED
  BY <1>1, <1>3 DEF View

(* Two arrays stand for the same map when they have the same processes     *)
(* with the same entries.                                                  *)
LEMMA ViewsAgree ==
  ASSUME NEW qu, NEW n \in Nat, Unique(qu, n), NEW f,
         f = [p \in DOMAIN f |-> f[p]],
         DOMAIN f = PidsIn(qu, n),
         \A j \in 0 .. n - 1 : f[qu[j].pid] = Summary(qu[j])
  PROVE  f = View(qu, n)
<1>1. \A p \in PidsIn(qu, n) : f[p] = View(qu, n)[p]
  <2> TAKE p \in PidsIn(qu, n)
  <2>1. PICK j \in 0 .. n - 1 : qu[j].pid = p
    BY DEF PidsIn
  <2> QED
    BY <2>1, EntryAt
<1> QED
  BY <1>1 DEF View

LEMMA OneSlotChanges ==
  ASSUME NEW qu, NEW new, NEW n \in Nat, Unique(qu, n), NEW k \in 0 .. n - 1,
         new[k].pid = qu[k].pid,
         \A j \in (0 .. n - 1) \ {k} : new[j] = qu[j]
  PROVE  View(new, n) = [View(qu, n) EXCEPT ![qu[k].pid] = Summary(new[k])]
<1> DEFINE f == [View(qu, n) EXCEPT ![qu[k].pid] = Summary(new[k])]
<1>1. \A j \in 0 .. n - 1 : new[j].pid = qu[j].pid
  OBVIOUS
<1>2. Unique(new, n) /\ PidsIn(new, n) = PidsIn(qu, n)
  BY <1>1 DEF Unique, PidsIn
<1>3. DOMAIN f = PidsIn(qu, n) /\ f = [p \in DOMAIN f |-> f[p]]
  BY DEF View
<1>4. \A j \in 0 .. n - 1 : f[new[j].pid] = Summary(new[j])
  <2> TAKE j \in 0 .. n - 1
  <2>1. CASE j = k
    BY <2>1, <1>3, EntryAt
  <2>2. CASE j # k
    <3>1. qu[j].pid # qu[k].pid
      BY <2>2 DEF Unique
    <3>2. f[qu[j].pid] = View(qu, n)[qu[j].pid]
      BY <3>1, EntryAt DEF View
    <3> QED
      BY <2>2, <3>2, <1>1, EntryAt
  <2> QED
    BY <2>1, <2>2
<1> HIDE DEF f
<1>5. View(new, n) = f
  BY <1>2, <1>3, <1>4, ViewsAgree
<1> QED
  BY <1>5 DEF f

LEMMA SlotIsAppended ==
  ASSUME NEW qu, NEW new, NEW n \in Nat, NEW m, m = n + 1, Unique(qu, n),
         \A j \in 0 .. n - 1 : new[j] = qu[j],
         new[n].pid \in Pids \ PidsIn(qu, n)
  PROVE  View(new, m) = Extended(View(qu, n), new[n].pid, Summary(new[n]))
<1> DEFINE p == new[n].pid
           f == [q \in PidsIn(qu, n) \cup {p} |->
                   IF q = p THEN Summary(new[n]) ELSE View(qu, n)[q]]
<1>1. 0 .. n + 1 - 1 = (0 .. n - 1) \cup {n} /\ n + 1 \in Nat
  OBVIOUS
<1>2. \A j \in 0 .. n - 1 : new[j].pid # p
  BY DEF PidsIn
<1>3. Unique(new, n + 1)
  BY <1>1, <1>2 DEF Unique
<1>4. PidsIn(new, n + 1) = PidsIn(qu, n) \cup {p}
  BY <1>1 DEF PidsIn
<1>5. \A j \in 0 .. n : f[new[j].pid] = Summary(new[j])
  <2> TAKE j \in 0 .. n
  <2>1. CASE j = n
    BY <2>1
  <2>2. CASE j # n
    <3>1. j \in 0 .. n - 1
      BY <2>2
    <3> QED
      BY <3>1, <1>2, EntryAt
  <2> QED
    BY <2>1, <2>2
<1>6. DOMAIN f = PidsIn(new, n + 1) /\ f = [q \in DOMAIN f |-> f[q]]
  BY <1>4
<1> HIDE DEF f
<1>7. View(new, n + 1) = f
  BY <1>1, <1>3, <1>5, <1>6, ViewsAgree
<1> QED
  BY <1>7 DEF f, Extended, View

LEMMA SlotIsRemoved ==
  ASSUME NEW qu, NEW new, NEW n \in Nat, NEW m, m = n - 1, Unique(qu, n),
         NEW k \in 0 .. n - 1,
         \A j \in 0 .. n - 2 : new[j] = IF j < k THEN qu[j] ELSE qu[j + 1]
  PROVE  View(new, m) = Without(View(qu, n), qu[k].pid)
<1> DEFINE old(j) == IF j < k THEN j ELSE j + 1
           p == qu[k].pid
           f == [q \in PidsIn(qu, n) \ {p} |-> View(qu, n)[q]]
<1>1. n - 1 \in Nat /\ 0 .. n - 1 - 1 = 0 .. n - 2
  OBVIOUS
<1>2. \A j \in 0 .. n - 2 : /\ old(j) \in 0 .. n - 1
                            /\ old(j) # k
                            /\ new[j] = qu[old(j)]
  OBVIOUS
<1>3. \A j, l \in 0 .. n - 2 : old(j) = old(l) => j = l
  OBVIOUS
<1>4. \A l \in (0 .. n - 1) \ {k} : \E j \in 0 .. n - 2 : l = old(j)
  <2> TAKE l \in (0 .. n - 1) \ {k}
  <2>1. CASE l < k
    <3>1. l \in 0 .. n - 2 /\ old(l) = l
      BY <2>1
    <3> QED
      BY <3>1
  <2>2. CASE ~ l < k
    <3>1. l - 1 \in 0 .. n - 2 /\ old(l - 1) = l
      BY <2>2
    <3> QED
      BY <3>1
  <2> QED
    BY <2>1, <2>2
<1> HIDE DEF old
<1>5. Unique(new, n - 1)
  BY <1>1, <1>2, <1>3 DEF Unique
<1>6. PidsIn(new, n - 1) = PidsIn(qu, n) \ {p}
  BY <1>1, <1>2, <1>4 DEF PidsIn, Unique
<1>7. \A j \in 0 .. n - 2 : f[new[j].pid] = Summary(new[j])
  <2> TAKE j \in 0 .. n - 2
  <2>1. qu[old(j)].pid # p
    BY <1>2 DEF Unique
  <2> QED
    BY <2>1, <1>2, EntryAt
<1>8. DOMAIN f = PidsIn(new, n - 1) /\ f = [q \in DOMAIN f |-> f[q]]
  BY <1>6
<1> HIDE DEF f
<1>9. View(new, n - 1) = f
  BY <1>1, <1>5, <1>7, <1>8, ViewsAgree
<1> QED
  BY <1>9 DEF f, Without, View
-----------------------------------------------------------------------------
(* The map has as many processes as the array has entries.                 *)
LEMMA MapFits ==
  ASSUME QInv
  PROVE  Cardinality(Tracked) \in Nat /\ Cardinality(Tracked) <= size
<1> DEFINE f == [j \in Live |-> queue[j].pid]
<1>1. size \in Nat
  BY SizesAssumption DEF QInv, TypeOK
<1>2. f \in Surjection(Live, Tracked)
  BY DEF QInv, OneEntryPerPid, Tracked, Queued, Surjection
<1>3. IsFiniteSet(Live) /\ Cardinality(Live) = size
  BY <1>1, FS_Interval DEF Live
<1>4. IsFiniteSet(Tracked) /\ Cardinality(Tracked) <= Cardinality(Live)
  BY <1>2, <1>3, FS_Surjection
<1> QED
  BY <1>3, <1>4, FS_CardinalityType

LEMMA SameCardinality ==
  ASSUME NEW S
  PROVE  Registry!Cardinality(S) = Cardinality(S)
BY DEF Registry!Cardinality, Cardinality

theLiving == {p \in Pids : is_process_alive(p)}
theServed == {queue[j].pid : j \in {k \in Live : k < i}}
thePhase  == IF pc \in Walking THEN "passing"
             ELSE IF pc = "exit" THEN "stopped" ELSE "listening"

LEMMA InitImplements == ASSUME Init PROVE Registry!Init
<1>1. Live = {} /\ Tracked = {}
  BY DEF Init, Live, Tracked, Queued
<1> QED
  BY <1>1 DEF Init, Registry!Init, Registry!Nobody, Walking, is_process_alive

LEMMA EnvironmentImplements ==
  ASSUME Environment
  PROVE  Registry!LiveAndDie
<1>1. UNCHANGED <<queue, size, i, pc>>
  BY DEF Environment, Spawn, Die, Reap, Connect, BrokenPipe, RequestShutdown,
         Write, daemon
<1>2. theMap' = theMap
  BY <1>1 DEF theMap, Tracked, Queued, EntryOf, IndexOf, Live
<1>3. theServed' = theServed /\ thePhase' = thePhase
  BY <1>1 DEF theServed, thePhase, Live, Walking
<1>4. theLiving' \in SUBSET Pids
  BY DEF theLiving
<1> QED
  BY <1>2, <1>3, <1>4
  DEF theMap, theServed, thePhase, theLiving, Registry!LiveAndDie

(* The steps that only move the daemon.                                    *)
LEMMA QuietStepsImplement ==
  ASSUME QInv,
         \/ Accept \/ StartPass \/ ReadPid \/ ShortRead \/ AddRefused
         \/ UpdateNoMemory \/ CheckAlive \/ ChooseStartup \/ Apply \/ EndPass
  PROVE  Registry!Next \/ UNCHANGED Registry!vars
<1>1. UNCHANGED <<queue, size, proc>>
  BY DEF Accept, StartPass, ReadPid, ShortRead, AddRefused, UpdateNoMemory,
         CheckAlive, ChooseStartup, Apply, EndPass, daemon, system
<1>2. theMap' = theMap /\ theLiving' = theLiving
  BY <1>1 DEF theMap, Tracked, Queued, EntryOf, IndexOf, Live, theLiving,
              is_process_alive
<1>3. CASE EndPass
  <2>1. thePhase = "passing" /\ thePhase' = "listening"
    BY <1>3 DEF EndPass, thePhase, Walking
  <2>2. theServed' = {}
    BY <1>1, <1>3 DEF EndPass, theServed, Live
  <2>3. Tracked \subseteq theServed
    BY <1>3 DEF EndPass, Tracked, Queued, theServed, QInv, TypeOK, Live
  <2>4. Registry!Known \ theServed = {}
    BY <2>3 DEF Registry!Known
  <2>5. Registry!EndPass
    BY <1>2, <2>1, <2>2, <2>4
    DEF theMap, theServed, thePhase, theLiving, Registry!EndPass,
        Registry!Unserved
  <2> QED
    BY <2>5 DEF Registry!Next
<1>4. CASE StartPass
  <2>1. thePhase = "listening" /\ thePhase' = "passing"
    BY <1>4 DEF StartPass, thePhase, Walking
  <2>2. theServed' = theServed
    BY <1>1, <1>4 DEF StartPass, theServed, Live, daemon
  <2>3. Registry!BeginPass
    BY <1>2, <2>1, <2>2
    DEF theMap, theServed, thePhase, theLiving, Registry!BeginPass
  <2> QED
    BY <2>3 DEF Registry!Next
<1>5. CASE ~ EndPass /\ ~ StartPass
  <2>1. thePhase' = thePhase
    BY <1>5 DEF Accept, ReadPid, ShortRead, AddRefused, UpdateNoMemory, Adding,
                CheckAlive, ChooseStartup, Apply, thePhase, Walking
  <2>2. i' = i
    BY <1>5 DEF Accept, ReadPid, ShortRead, AddRefused, UpdateNoMemory,
                CheckAlive, ChooseStartup, Apply, daemon
  <2>3. theServed' = theServed
    BY <1>1, <2>2 DEF theServed, Live
  <2> QED
    BY <1>2, <2>1, <2>3
    DEF theMap, theServed, thePhase, theLiving, Registry!vars
<1> QED
  BY <1>3, <1>4, <1>5

LEMMA AddImplements ==
  ASSUME QInv, QInv', Update \/ UpdateGrow \/ Insert \/ InsertNoMemory
  PROVE  Registry!Next \/ UNCHANGED Registry!vars
<1> DEFINE p == Head0.from
           flag == Head0.startup
<1>1. /\ p \in Pids /\ flag \in BOOLEAN
      /\ p \in theLiving
      /\ thePhase = "listening" /\ thePhase' = "listening"
      /\ theLiving' = theLiving
      /\ i = 0 /\ i' = 0
  <2>1. /\ pc = "read_data" /\ pc' = "accept" /\ i' = i /\ proc' = proc
        /\ is_process_alive(p)
    BY DEF Update, UpdateGrow, Insert, InsertNoMemory, Adding, system, pid
  <2>2. p \in Pids /\ i = 0
    BY <2>1 DEF QInv, ServesClient, LoopLocals, Walking
  <2>3. flag \in BOOLEAN
    <3>1. conns # <<>> /\ conns \in Seq(Connection)
      BY <2>1 DEF QInv, ServesClient, Serving, TypeOK
    <3>2. Head0 \in Connection
      BY <3>1 DEF Head0
    <3> QED
      BY <3>2 DEF Connection
  <2> QED
    BY <2>1, <2>2, <2>3
    DEF thePhase, Walking, theLiving, is_process_alive
<1>2. /\ size \in Nat /\ size' \in Nat
      /\ queue \in [Slots -> QueueEntry]
      /\ MaxQueue \in Nat /\ size <= MaxQueue
      /\ Unique(queue, size) /\ Unique(queue', size')
  BY MapIsView, SizesAssumption DEF QInv, TypeOK
<1>3. theServed = {} /\ theServed' = {}
  <2>1. \A k \in Live : ~ k < i
    BY <1>1, <1>2 DEF Live
  <2>2. \A k \in Live' : ~ k < i'
    BY <1>1, <1>2 DEF Live
  <2> QED
    BY <2>1, <2>2 DEF theServed
<1>4. ASSUME Update \/ UpdateGrow
      PROVE  Registry!Store(p, flag)
  <2> DEFINE k == IndexOf(p)
  <2>1. k \in Live /\ k \in Slots /\ queue[k].pid = p /\ p \in Tracked
    <3>1. Queued(p) /\ OneEntryPerPid
      BY <1>4 DEF Update, UpdateGrow, pid, QInv
    <3> QED
      BY <3>1, <1>1, <1>2, FoundEntry DEF Live, Slots, Tracked
  <2>2. PICK old : /\ queue' = [queue EXCEPT ![k] = Appended(old)]
                   /\ old.pid = queue[k].pid
                   /\ Summary(old) = Summary(queue[k])
                   /\ DOMAIN old = DOMAIN queue[k]
                   /\ old \in QueueEntry
    <3>1. queue[k] \in QueueEntry
      BY <1>2, <2>1
    <3>2. CASE Update
      BY <3>1, <3>2, <2>1, <1>2 DEF Update, pid
    <3>3. CASE UpdateGrow
      <4>1. PICK b \in Free \cup {queue[k].history}, cap \in Nat :
               queue' = [queue EXCEPT ![k] =
                  Appended([queue[k] EXCEPT !.history = b, !.capacity = cap])]
        <5>1. EntryOf(p) = queue[k]
          BY DEF EntryOf
        <5>2. /\ 2 * queue[k].capacity \in Nat /\ InitialCap \in Nat
          BY <3>1, SizesAssumption DEF QueueEntry
        <5> QED
          BY <3>3, <5>1, <5>2 DEF UpdateGrow, pid
      <4>2. [queue[k] EXCEPT !.history = b, !.capacity = cap] \in QueueEntry
        BY <3>1, <4>1 DEF QueueEntry, Free
      <4> QED
        BY <4>1, <4>2, <3>1 DEF Summary, QueueEntry
    <3> QED
      BY <1>4, <3>2, <3>3
  <2>3. /\ size' = size
        /\ queue'[k] = Appended(old)
        /\ queue'[k].pid = p
        /\ \A j \in (0 .. size - 1) \ {k} : queue'[j] = queue[j]
    <3>1. Appended(old).pid = old.pid
      BY <2>2 DEF Appended, QueueEntry
    <3>2. size' = size
      BY <1>4 DEF Update, UpdateGrow
    <3>3. k \in Slots /\ 0 .. size - 1 \subseteq Slots
      BY <1>2, <2>1 DEF Slots
    <3> HIDE DEF k
    <3>4. queue'[k] = Appended(old)
      BY <1>2, <2>2, <3>3
    <3>5. \A j \in (0 .. size - 1) \ {k} : queue'[j] = queue[j]
      BY <1>2, <2>2, <3>3
    <3> QED
      BY <2>1, <2>2, <3>1, <3>2, <3>4, <3>5
  <2>4. theMap' = [theMap EXCEPT ![p] = Summary(queue'[k])]
    BY <1>2, <2>1, <2>3, MapIsView, OneSlotChanges DEF Live
  <2>5. theMap[p] = Summary(queue[k])
    BY <1>2, <2>1, MapIsView, EntryAt DEF Live
  <2>6. Summary(queue'[k]) = [theMap[p] EXCEPT !.samples = @ + 1,
                                               !.startup = flag]
    <3>1. Summary(Appended(old)) = [Summary(old) EXCEPT !.samples = @ + 1,
                                                        !.startup = flag]
      <4>1. /\ Appended(old).count = old.count + 1
            /\ Appended(old).startup_flag = flag
            /\ Appended(old).has_last_used = old.has_last_used
            /\ Appended(old).last_on_p = old.last_on_p
            /\ Appended(old).has_last_on_p = old.has_last_on_p
        BY <2>2 DEF Appended, QueueEntry
      <4> DEFINE r == [samples |-> old.count + 1, startup |-> flag,
                       used |-> old.has_last_used, on_p |-> old.last_on_p,
                       placed |-> old.has_last_on_p]
      <4>2. Summary(Appended(old)) = r
        BY <4>1 DEF Summary
      <4>3. [Summary(old) EXCEPT !.samples = @ + 1, !.startup = flag] = r
        <5>1. Summary(old).samples = old.count
          BY DEF Summary
        <5>2. [Summary(old) EXCEPT !.samples = old.count + 1] =
                [samples |-> old.count + 1, startup |-> old.startup_flag,
                 used |-> old.has_last_used, on_p |-> old.last_on_p,
                 placed |-> old.has_last_on_p]
          BY DEF Summary
        <5>3. [[samples |-> old.count + 1, startup |-> old.startup_flag,
                 used |-> old.has_last_used, on_p |-> old.last_on_p,
                 placed |-> old.has_last_on_p] EXCEPT !.startup = flag] = r
          OBVIOUS
        <5> QED
          BY <5>1, <5>2, <5>3
      <4> QED
        BY <4>2, <4>3
    <3> QED
      BY <2>2, <2>3, <2>5, <3>1
  <2>7. theMap' = [theMap EXCEPT ![p].samples = @ + 1, ![p].startup = flag]
    BY <2>4, <2>6 DEF theMap
  <2>8. p \in theLiving \cap DOMAIN theMap
    BY <1>1, <2>1 DEF theMap
  <2> QED
    BY <1>1, <1>3, <2>7, <2>8
    DEF theMap, theServed, thePhase, theLiving, Registry!Store, Registry!Known
<1>5. ASSUME Insert
      PROVE  Registry!Register(p, flag)
  <2> DEFINE new == [samples |-> 1, startup |-> flag, used |-> FALSE,
                     on_p |-> TRUE, placed |-> FALSE]
  <2>1. size' = size + 1 /\ size < MaxQueue /\ p \notin Tracked
    BY <1>5 DEF Insert, Tracked, pid
  <2>2. /\ queue'[size].pid = p
        /\ Summary(queue'[size]) = new
        /\ \A j \in 0 .. size - 1 : queue'[j] = queue[j]
    <3>1. PICK b : queue' = [queue EXCEPT ![size] =
                               [init_queue_entry EXCEPT !.pid = p,
                                  !.history = b, !.capacity = InitialCap,
                                  !.count = 1, !.startup_flag = flag]]
      BY <1>5 DEF Insert, pid
    <3>2. /\ size \in Slots
          /\ \A j \in 0 .. size - 1 : j \in Slots /\ j # size
      BY <1>2, <2>1 DEF Slots
    <3>3. queue'[size] = [init_queue_entry EXCEPT !.pid = p,
                            !.history = b, !.capacity = InitialCap,
                            !.count = 1, !.startup_flag = flag]
      BY <1>2, <3>1, <3>2
    <3> QED
      BY <1>2, <3>1, <3>2, <3>3 DEF init_queue_entry, Summary
  <2>3. theMap' = [q \in Tracked \cup {p} |->
                      IF q = p THEN new ELSE theMap[q]]
    <3>1. queue'[size].pid \in Pids \ PidsIn(queue, size)
      BY <1>1, <2>1, <2>2, MapIsView
    <3>2. View(queue', size') = Extended(View(queue, size), queue'[size].pid,
                                         Summary(queue'[size]))
      <4>1. \A j \in 0 .. size - 1 : queue'[j] = queue[j]
        BY <2>2
      <4>2. size \in Nat /\ size' = size + 1 /\ Unique(queue, size)
        BY <1>2, <2>1
      <4> QED
        BY <4>1, <4>2, <3>1, SlotIsAppended
    <3> QED
      BY <2>1, <2>2, <3>2, MapIsView DEF Extended, theMap
  <2>4. Cardinality(Tracked) < MaxQueue
    BY <1>2, <2>1, MapFits
  <2>5. DOMAIN theMap = Tracked
    BY DEF theMap
  <2> HIDE DEF p, flag
  <2> QED
    BY <1>1, <1>3, <2>1, <2>3, <2>4, <2>5, SameCardinality
    DEF theMap, theServed, thePhase, theLiving, Registry!Register,
        Registry!Known
<1>6. CASE InsertNoMemory
  <2>1. size' = size /\ \A j \in Live : queue'[j] = queue[j]
    BY <1>2, <1>6 DEF InsertNoMemory, Live, Slots
  <2>2. theMap' = theMap
    <3>1. PidsIn(queue', size) = PidsIn(queue, size)
      BY <2>1 DEF PidsIn, Live
    <3>2. View(queue', size) = View(queue, size)
      <4>1. \A j \in 0 .. size - 1 :
               View(queue, size)[queue'[j].pid] = Summary(queue'[j])
        BY <1>2, <2>1, EntryAt DEF Live
      <4>2. LET f == View(queue, size)
            IN  DOMAIN f = PidsIn(queue', size) /\ f = [q \in DOMAIN f |-> f[q]]
        BY <3>1 DEF View
      <4> QED
        BY <1>2, <2>1, <4>1, <4>2, ViewsAgree
    <3> QED
      BY <2>1, <3>2, MapIsView
  <2> QED
    BY <1>1, <1>3, <2>2
    DEF theMap, theServed, thePhase, theLiving, Registry!vars
<1> QED
  BY <1>1, <1>4, <1>5, <1>6 DEF Registry!Next
LEMMA MapChangesAt ==
  ASSUME size \in Nat, size' = size, Unique(queue, size),
         NEW k \in 0 .. size - 1, queue'[k].pid = queue[k].pid,
         \A j \in (0 .. size - 1) \ {k} : queue'[j] = queue[j]
  PROVE  theMap' = [theMap EXCEPT ![queue[k].pid] = Summary(queue'[k])]
BY MapIsView, OneSlotChanges

WithSide(s, side, placed) == [s EXCEPT !.on_p = side, !.placed = placed]
WithUse(s, startup, used) == [s EXCEPT !.samples = 0, !.startup = startup,
                                       !.used = used]

LEMMA SideOfSummary ==
  ASSUME NEW e, NEW f, NEW side, NEW placed,
         f.count = e.count, f.startup_flag = e.startup_flag,
         f.has_last_used = e.has_last_used,
         f.last_on_p = side, f.has_last_on_p = placed
  PROVE  Summary(f) = WithSide(Summary(e), side, placed)
<1> DEFINE r == [samples |-> e.count, startup |-> e.startup_flag,
                 used |-> e.has_last_used, on_p |-> side,
                 placed |-> e.has_last_on_p]
<1>1. [Summary(e) EXCEPT !.on_p = side] = r
  BY DEF Summary
<1>2. Summary(f) = [r EXCEPT !.placed = placed]
  BY DEF Summary
<1> QED
  BY <1>1, <1>2 DEF WithSide

LEMMA UseOfSummary ==
  ASSUME NEW e, NEW f, NEW startup, NEW used,
         f.count = 0, f.startup_flag = startup,
         f.has_last_used = used, f.last_on_p = e.last_on_p,
         f.has_last_on_p = e.has_last_on_p
  PROVE  Summary(f) = WithUse(Summary(e), startup, used)
<1> DEFINE r1 == [samples |-> 0, startup |-> e.startup_flag,
                  used |-> e.has_last_used, on_p |-> e.last_on_p,
                  placed |-> e.has_last_on_p]
           r2 == [samples |-> 0, startup |-> startup,
                  used |-> e.has_last_used, on_p |-> e.last_on_p,
                  placed |-> e.has_last_on_p]
<1>1. [Summary(e) EXCEPT !.samples = 0] = r1
  BY DEF Summary
<1>2. [r1 EXCEPT !.startup = startup] = r2
  OBVIOUS
<1>3. Summary(f) = [r2 EXCEPT !.used = used]
  BY DEF Summary
<1> QED
  BY <1>1, <1>2, <1>3 DEF WithUse

LEMMA PassImplements ==
  ASSUME QInv, QInv', DropDead \/ Settle \/ \E s \in Scores : Choose(s)
  PROVE  Registry!Next
<1> DEFINE p == queue[i].pid
<1>1. /\ size \in Nat /\ MaxQueue \in Nat /\ size <= MaxQueue
      /\ queue \in [Slots -> QueueEntry]
      /\ Unique(queue, size) /\ Unique(queue', size')
      /\ i \in 0 .. size - 1 /\ i \in Slots /\ 0 .. size - 1 \subseteq Slots
  <2>1. i < size
    BY DEF DropDead, Settle, Choose, QInv, LoopLocals
  <2> QED
    BY <2>1, MapIsView, SizesAssumption DEF QInv, TypeOK, Slots
<1>2. /\ thePhase = "passing" /\ thePhase' = "passing"
      /\ theLiving' = theLiving
  BY DEF DropDead, Settle, Choose, thePhase, Walking, theLiving,
         is_process_alive, system
<1>3. /\ p \in Pids /\ p \in DOMAIN theMap
      /\ theMap[p] = Summary(queue[i])
      /\ p \notin theServed
  <2>1. p \notin theServed
    BY <1>1 DEF theServed, Unique, Live
  <2> QED
    BY <1>1, <2>1, MapIsView, EntryAt DEF Unique, View
<1>4. /\ Registry!Unserved = DOMAIN theMap \ theServed
  BY <1>2 DEF thePhase, theMap, theServed, Registry!Unserved, Registry!Known
<1>5. ASSUME NEW s \in Scores, Choose(s)
      PROVE  \E side, placed \in BOOLEAN : Registry!Decide(p, side, placed)
  <2> DEFINE d == choose_placement_coreset_model(current.last_on_p,
                                                current.has_last_on_p, s)
  <2>1. d.last_on_p \in BOOLEAN /\ d.has_last_on_p \in BOOLEAN
    <3>1. queue'[i].last_on_p = d.last_on_p
          /\ queue'[i].has_last_on_p = d.has_last_on_p
      <4>1. queue[i] \in QueueEntry
        BY <1>1
      <4> HIDE DEF d
      <4>2. PICK e : e = d
        OBVIOUS
      <4>3. queue'[i] = [[queue[i] EXCEPT !.last_on_p = e.last_on_p]
                                   EXCEPT !.has_last_on_p = e.has_last_on_p]
        BY <1>1, <1>5, <4>2 DEF Choose, d
      <4> QED
        BY <4>1, <4>2, <4>3 DEF QueueEntry
    <3>2. queue'[i] \in QueueEntry
      <4>1. queue' \in [Slots -> QueueEntry]
        BY DEF QInv, TypeOK
      <4> QED
        BY <4>1, <1>1
    <3> HIDE DEF d
    <3> QED
      BY <3>1, <3>2 DEF QueueEntry
  <2> HIDE DEF d
  <2>2. /\ size' = size /\ i' = i
        /\ queue' = [queue EXCEPT ![i].last_on_p = d.last_on_p,
                                  ![i].has_last_on_p = d.has_last_on_p]
        /\ p \in theLiving /\ ~ queue[i].startup_flag
    BY <1>3, <1>5 DEF Choose, d, theLiving, current
  <2>3. /\ queue'[i].pid = p
        /\ Summary(queue'[i]) = [Summary(queue[i]) EXCEPT !.on_p = d.last_on_p,
                                   !.placed = d.has_last_on_p]
        /\ \A j \in (0 .. size - 1) \ {i} : queue'[j] = queue[j]
    <3>1. /\ queue'[i].pid = queue[i].pid
          /\ queue'[i].count = queue[i].count
          /\ queue'[i].startup_flag = queue[i].startup_flag
          /\ queue'[i].has_last_used = queue[i].has_last_used
          /\ queue'[i].last_on_p = d.last_on_p
          /\ queue'[i].has_last_on_p = d.has_last_on_p
      BY <1>1, <2>2 DEF QueueEntry
    <3>2. \A j \in (0 .. size - 1) \ {i} : queue'[j] = queue[j]
      BY <1>1, <2>2
    <3>3. Summary(queue'[i]) = [Summary(queue[i]) EXCEPT !.on_p = d.last_on_p,
                                  !.placed = d.has_last_on_p]
      <4> DEFINE side == d.last_on_p
                 placed == d.has_last_on_p
      <4>1. /\ queue'[i].last_on_p = side
            /\ queue'[i].has_last_on_p = placed
        BY <3>1
      <4> HIDE DEF side, placed
      <4>2. Summary(queue'[i]) = WithSide(Summary(queue[i]), side, placed)
        BY <3>1, <4>1, SideOfSummary
      <4> QED
        BY <4>2 DEF side, placed, WithSide
    <3> QED
      BY <3>1, <3>2, <3>3
  <2>4. theMap' = [theMap EXCEPT ![p] = Summary(queue'[i])]
    BY <1>1, <2>2, <2>3, MapChangesAt
  <2>5. theMap' = [theMap EXCEPT ![p].on_p = d.last_on_p,
                                 ![p].placed = d.has_last_on_p]
    BY <1>3, <2>3, <2>4 DEF theMap
  <2>6. ~ theMap[p].startup
    BY <1>3, <2>2 DEF Summary
  <2>7. theServed' = theServed
    BY <1>1, <2>2, <2>3 DEF theServed, Live
  <2>8. Registry!Decide(p, d.last_on_p, d.has_last_on_p)
    BY <1>2, <1>3, <1>4, <2>2, <2>5, <2>6, <2>7
    DEF theMap, theServed, thePhase, theLiving, Registry!Decide
  <2> QED
    BY <2>1, <2>8
<1>6. ASSUME Settle
      PROVE  \E q \in Pids : Registry!Settle(q)
  <2>1. /\ size' = size /\ i' = i + 1
        /\ queue' = [queue EXCEPT ![i].startup_flag = FALSE,
                                  ![i].has_last_used = TRUE,
                                  ![i].count = 0]
    BY <1>6 DEF Settle
  <2>2. /\ queue'[i].pid = p
        /\ Summary(queue'[i]) = [Summary(queue[i]) EXCEPT !.samples = 0,
                                   !.startup = FALSE, !.used = TRUE]
        /\ \A j \in (0 .. size - 1) \ {i} : queue'[j] = queue[j]
    <3>1. /\ queue'[i].pid = queue[i].pid
          /\ queue'[i].count = 0
          /\ queue'[i].startup_flag = FALSE
          /\ queue'[i].has_last_used = TRUE
          /\ queue'[i].last_on_p = queue[i].last_on_p
          /\ queue'[i].has_last_on_p = queue[i].has_last_on_p
      BY <1>1, <2>1 DEF QueueEntry
    <3>2. \A j \in (0 .. size - 1) \ {i} : queue'[j] = queue[j]
      BY <1>1, <2>1
    <3>3. Summary(queue'[i]) = [Summary(queue[i]) EXCEPT !.samples = 0,
                                  !.startup = FALSE, !.used = TRUE]
      <4>1. PICK no, yes : no = FALSE /\ yes = TRUE
        OBVIOUS
      <4>2. Summary(queue'[i]) = WithUse(Summary(queue[i]), no, yes)
        <5>1. /\ queue'[i].startup_flag = no
              /\ queue'[i].has_last_used = yes
              /\ queue'[i].count = 0
              /\ queue'[i].last_on_p = queue[i].last_on_p
              /\ queue'[i].has_last_on_p = queue[i].has_last_on_p
          BY <3>1, <4>1
        <5> QED
          BY <5>1, UseOfSummary
      <4> QED
        BY <4>1, <4>2 DEF WithUse
    <3> QED
      BY <3>1, <3>2, <3>3
  <2>3. theMap' = [theMap EXCEPT ![p] = Summary(queue'[i])]
    BY <1>1, <2>1, <2>2, MapChangesAt
  <2>4. theMap' = [theMap EXCEPT ![p].samples = 0, ![p].startup = FALSE,
                                 ![p].used = TRUE]
    BY <1>3, <2>2, <2>3 DEF theMap
  <2>5. theServed' = theServed \cup {p}
    <3>1. {k \in Live' : k < i'} = {k \in Live : k < i} \cup {i}
      BY <1>1, <2>1 DEF Live
    <3>2. \A k \in Live : queue'[k].pid = queue[k].pid
      BY <2>2 DEF Live
    <3> QED
      BY <1>1, <3>1, <3>2 DEF theServed, Live
  <2> QED
    BY <1>2, <1>3, <1>4, <2>4, <2>5
    DEF theMap, theServed, thePhase, theLiving, Registry!Settle
<1>7. ASSUME DropDead
      PROVE  Registry!Drop(p)
  <2>1. /\ size' = size - 1 /\ i' = i
        /\ p \notin theLiving
        /\ queue' = [j \in Slots |->
                       IF j = size - 1 THEN init_queue_entry
                       ELSE IF i <= j /\ j < size - 1 THEN queue[j + 1]
                       ELSE queue[j]]
    BY <1>7 DEF DropDead, remove_queue_entry, theLiving, current
  <2>2. \A j \in 0 .. size - 2 :
           queue'[j] = IF j < i THEN queue[j] ELSE queue[j + 1]
    <3> TAKE j \in 0 .. size - 2
    <3>1. j \in Slots /\ j # size - 1 /\ j < size - 1 /\ (i <= j <=> ~ j < i)
      BY <1>1
    <3> QED
      BY <2>1, <3>1
  <2>3. theMap' = Without(theMap, p)
    BY <1>1, <2>1, <2>2, MapIsView, SlotIsRemoved
  <2>4. theServed' = theServed
    <3>1. {k \in Live' : k < i'} = {k \in Live : k < i}
      BY <1>1, <2>1 DEF Live
    <3>2. \A k \in Live : k < i => queue'[k].pid = queue[k].pid
      BY <1>1, <2>2 DEF Live
    <3> QED
      BY <3>1, <3>2 DEF theServed
  <2>5. DOMAIN theMap = Tracked
    BY DEF theMap
  <2> QED
    BY <1>2, <1>3, <1>4, <2>1, <2>3, <2>4
    DEF theMap, theServed, thePhase, theLiving, Without, Registry!Drop,
        Registry!Known
<1>8. CASE \E s \in Scores : Choose(s)
  <2>1. PICK side, placed \in BOOLEAN : Registry!Decide(p, side, placed)
    BY <1>5, <1>8
  <2> HIDE DEF p
  <2> QED
    BY <1>3, <2>1 DEF Registry!Next
<1>9. CASE Settle
  BY <1>6, <1>9, Zenon DEF Registry!Next
<1>10. CASE DropDead
  <2>1. Registry!Drop(p)
    BY <1>7, <1>10
  <2>2. p \in Pids
    BY <1>3
  <2> HIDE DEF p
  <2> QED
    BY <2>1, <2>2, Zenon DEF Registry!Next
<1> QED
  BY <1>8, <1>9, <1>10

LEMMA StopImplements ==
  ASSUME QInv, Stop
  PROVE  Registry!Stop
<1>1. /\ thePhase = "listening" /\ thePhase' = "stopped"
      /\ size' = 0 /\ i' = i /\ i = 0 /\ proc' = proc
  BY DEF Stop, thePhase, Walking, system, QInv, LoopLocals
<1>2. Tracked' = {}
  BY <1>1 DEF Tracked, Queued, Live
<1>3. theMap' = Registry!Nobody
  BY <1>2 DEF theMap, Registry!Nobody
<1>4. theServed = {} /\ theServed' = {}
  <2>1. size \in Nat
    BY SizesAssumption DEF QInv, TypeOK
  <2> QED
    BY <1>1, <2>1 DEF theServed, Live
<1> QED
  BY <1>1, <1>3, <1>4
  DEF theMap, theServed, thePhase, theLiving, is_process_alive, Registry!Stop
-----------------------------------------------------------------------------
(* The queue of the daemon implements the map of processes, whatever the   *)
(* order of the messages, deaths and rebirths, whatever malloc and realloc *)
(* return, and for all sizes.                                              *)
THEOREM QueueImplementsRegistry == Spec => ImplementsRegistry
<1>1. Init => Registry!Init
  BY InitImplements
<1>2. ASSUME IInv, IInv', [Next]_vars
      PROVE  [Registry!Next]_(Registry!vars)
  <2>1. CASE UNCHANGED vars
    <3>1. theMap' = theMap /\ theServed' = theServed /\ thePhase' = thePhase
          /\ theLiving' = theLiving
      BY <2>1 DEF vars, theMap, Tracked, Queued, EntryOf, IndexOf, Live,
                  theServed, thePhase, Walking, theLiving, is_process_alive
    <3> QED
      BY <3>1 DEF theMap, theServed, thePhase, theLiving, Registry!vars
  <2>2. CASE Next
    <3>1. QInv /\ QInv'
      BY <1>2 DEF IInv
    <3>2. CASE Environment
      BY <3>2, EnvironmentImplements DEF Registry!Next
    <3>3. CASE Daemon
      BY <3>1, <3>3, QuietStepsImplement, AddImplements, PassImplements,
         StopImplements
      DEF Daemon, add_to_queue, process_queue, Registry!Next
    <3> QED
      BY <2>2, <3>2, <3>3 DEF Next
  <2> QED
    BY <1>2, <2>1, <2>2
<1>3. Spec => []IInv
  BY Inductive
<1> QED
  BY <1>1, <1>2, <1>3, PTL DEF Spec, ImplementsRegistry, Registry!Spec
=============================================================================
