--------------------------- MODULE SchedulerQueue ---------------------------
(***************************************************************************)
(* The scheduler daemon (scheduler.c): one thread that drains the          *)
(* connections pending on /tmp/scheduler_socket into a queue with one      *)
(* entry per PID, then walks the queue, drops the dead, decides a coreset  *)
(* for each of the living and applies it; a message with pid -1 stops it.  *)
(*                                                                         *)
(* Around it run the monitored processes, which start, die, are reaped and *)
(* have their PID reused at any moment, their monitors (send_to_scheduler  *)
(* of libmonitor.c), which write the pid and then the rest of the message, *)
(* and the shutdown_scheduler client.                                      *)
(*                                                                         *)
(* A sample (MonitorData) is abstracted to whether it is the startup       *)
(* notification; what its counters and those of the history lead to is the *)
(* Score that Choose draws.  The heap is kept: which history block each    *)
(* slot of the array points to, and how large the block is.                *)
(***************************************************************************)
EXTENDS Placement, Sequences, FiniteSets

CONSTANTS Pids,          \* the PIDs the kernel hands out to workloads
          Shutdown,      \* the shutdown_scheduler client (its message is pid -1)
          NoPid,         \* pid 0 of an empty slot
          Blocks,        \* addresses malloc can return
          NULL,
          MaxQueue,      \* MAX_QUEUE_SIZE
          InitialCap,    \* the history capacity of a new entry, 4 in the code
          Backlog,       \* the backlog of listen()
          Scores,        \* the predictions the samples can lead to
          MaxPending     \* bound: samples of one PID not yet consumed by a pass

ASSUME SizesAssumption == /\ MaxQueue \in Nat \ {0}
                          /\ InitialCap \in Nat \ {0}
                          /\ Backlog \in Nat
                          /\ MaxPending \in Nat \ {0}
ASSUME NamesAssumption == /\ Shutdown \notin Pids
                          /\ NoPid \notin Pids
                          /\ NULL \notin Blocks
ASSUME ScoresAssumption == Scores \subseteq Score

VARIABLES
  (* the daemon *)
  queue,     \* queue[MAX_QUEUE_SIZE]
  size,      \* queue_size
  heap,      \* the capacity of each history block, 0 when it is not allocated
  pc,        \* where the daemon is in main() or process_queue()
  i,         \* the index of process_queue's loop
  chosen,    \* chosen_coreset, a local of the iteration
  (* the socket *)
  conns,     \* accept order; the head is client_fd while pc \in Serving
  (* the system around it *)
  proc,      \* the state of each PID
  booted,    \* has its monitor sent the startup notification
  mask,      \* the affinity its main thread has, "inherited" at the start
  astray,    \* history: the processes whose entry cannot know it (see below)
  stopAsked  \* has shutdown_scheduler been run

daemon == <<queue, size, heap, i, chosen>>
system == <<proc, booted, mask, astray, stopAsked>>
vars   == <<queue, size, heap, pc, i, chosen, conns, proc, booted, mask, astray,
            stopAsked>>

Slots   == 0 .. MaxQueue - 1
Live    == 0 .. size - 1
Clients == Pids \cup {Shutdown}
Serving == {"read_pid", "read_data"}
Walking == {"check", "choose", "apply", "settle"}
Free    == {b \in Blocks : heap[b] = 0}

QueueEntry == [pid : Pids \cup {NoPid}, history : Blocks \cup {NULL},
               count : Nat, capacity : Nat, has_last_used : BOOLEAN,
               startup_flag : BOOLEAN, last_on_p : BOOLEAN,
               has_last_on_p : BOOLEAN]

(* A message has a pid, and unless it is the shutdown request the rest.    *)
Parts(c) == IF c = Shutdown THEN 1 ELSE 2

Connection ==
  {m \in [from : Clients, startup : BOOLEAN, sent : 0 .. 2, open : BOOLEAN] :
     m.open => m.sent < Parts(m.from)}

init_queue_entry ==
  [pid |-> NoPid, history |-> NULL, count |-> 0, capacity |-> 0,
   has_last_used |-> FALSE, startup_flag |-> FALSE, last_on_p |-> TRUE,
   has_last_on_p |-> FALSE]

(* kill(pid, 0): a zombie still answers *)
is_process_alive(p) == proc[p] # "none"

\* Mutant: the search of add_to_queue stops one entry short.
QueuedBeforeLast(p) == \E j \in Live : j # size - 1 /\ queue[j].pid = p

Queued(p)  == \E j \in Live : queue[j].pid = p
IndexOf(p) == CHOOSE j \in Live : /\ queue[j].pid = p
                                  /\ \A k \in Live : queue[k].pid = p => j <= k
EntryOf(p) == queue[IndexOf(p)]
Tracked    == {p \in Pids : Queued(p)}

Unconsumed(p) == Cardinality({k \in DOMAIN conns : conns[k].from = p})
                 + (IF Queued(p) THEN EntryOf(p).count ELSE 0)

Init == /\ queue = [j \in Slots |-> init_queue_entry]
        /\ size = 0
        /\ heap = [b \in Blocks |-> 0]
        /\ pc = "accept"
        /\ i = 0
        /\ chosen = NULL
        /\ conns = <<>>
        /\ proc = [p \in Pids |-> "none"]
        /\ booted = [p \in Pids |-> FALSE]
        /\ mask = [p \in Pids |-> "inherited"]
        /\ astray = {}
        /\ stopAsked = FALSE
-----------------------------------------------------------------------------
(* The processes.  A PID is free again once its zombie is reaped.  If its  *)
(* entry has not been dropped by then, the next process takes it over, and *)
(* nothing the daemon looks at tells the two apart.                        *)

Spawn(p) ==
  /\ proc[p] = "none"
  /\ proc' = [proc EXCEPT ![p] = "running"]
  /\ astray' = IF Queued(p) THEN astray \cup {p} ELSE astray \ {p}
  /\ UNCHANGED <<daemon, pc, conns, booted, mask, stopAsked>>

(* The kernel closes the sockets of a process that ends.                   *)
Closed(m, c) == IF m.from = c THEN [m EXCEPT !.open = FALSE] ELSE m
HangUp(c) == [k \in DOMAIN conns |-> Closed(conns[k], c)]

Die(p) ==
  /\ proc[p] = "running"
  /\ proc' = [proc EXCEPT ![p] = "zombie"]
  /\ booted' = [booted EXCEPT ![p] = FALSE]
  /\ conns' = HangUp(p)
  /\ UNCHANGED <<daemon, pc, mask, astray, stopAsked>>

Reap(p) ==
  /\ proc[p] = "zombie"
  /\ proc' = [proc EXCEPT ![p] = "none"]
  /\ mask' = [mask EXCEPT ![p] = "inherited"]
  /\ UNCHANGED <<daemon, pc, conns, booted, astray, stopAsked>>
-----------------------------------------------------------------------------
(* The clients of the socket.                                              *)

Accepted == IF pc \in Serving THEN 1 ELSE 0
RoomInBacklog == Len(conns) - Accepted <= Backlog
Sending(c) == \E k \in DOMAIN conns : conns[k].from = c /\ conns[k].open

Opened(c, flag) == [from |-> c, startup |-> flag, sent |-> 0, open |-> TRUE]

(* send_to_scheduler up to connect(): the first message of a process is    *)
(* its startup notification, the others are its windows.                   *)
Connect(p) ==
  /\ proc[p] = "running"
  /\ pc # "exit"
  /\ ~ Sending(p)
  /\ RoomInBacklog
  /\ Unconsumed(p) < MaxPending
  /\ conns' = Append(conns, Opened(p, ~ booted[p]))
  /\ booted' = [booted EXCEPT ![p] = TRUE]
  /\ UNCHANGED <<daemon, pc, proc, mask, astray, stopAsked>>

RequestShutdown ==
  /\ ~ stopAsked
  /\ pc # "exit"
  /\ RoomInBacklog
  /\ conns' = Append(conns, Opened(Shutdown, FALSE))
  /\ stopAsked' = TRUE
  /\ UNCHANGED <<daemon, pc, proc, booted, mask, astray>>

\* Mutant: the client does not close its end after the last write.
AdvancedNotClosed(m) == [m EXCEPT !.sent = @ + 1]

(* The pid, then the startup flag and the data, which the daemon's two     *)
(* reads add up; after the last write the client closes its end.           *)
Advanced(m) == [m EXCEPT !.sent = @ + 1, !.open = m.sent + 1 < Parts(m.from)]

Write(c) ==
  /\ pc # "exit"
  /\ \E k \in DOMAIN conns :
       /\ conns[k].from = c
       /\ conns[k].open
       /\ conns' = [conns EXCEPT ![k] = Advanced(@)]
  /\ UNCHANGED <<daemon, pc, system>>

(* A write() after the daemon has gone raises SIGPIPE, which libmonitor    *)
(* neither ignores nor suppresses.                                         *)
BrokenPipe(p) ==
  /\ pc = "exit"
  /\ proc[p] = "running"
  /\ Sending(p)
  /\ proc' = [proc EXCEPT ![p] = "zombie"]
  /\ booted' = [booted EXCEPT ![p] = FALSE]
  /\ conns' = HangUp(p)
  /\ UNCHANGED <<daemon, pc, mask, astray, stopAsked>>
-----------------------------------------------------------------------------
(* main(): the accept loop.  Head0 is the connection being served.         *)

Head0 == conns[1]

Accept ==
  /\ pc = "accept"
  /\ conns # <<>>
  /\ pc' = "read_pid"
  /\ UNCHANGED <<daemon, conns, system>>

(* EAGAIN: the pass starts *)
StartPass ==
  /\ pc = "accept"
  /\ conns = <<>>
  /\ pc' = "check"
  /\ UNCHANGED <<daemon, conns, system>>

(* read() blocks until the field is there or the peer has closed.          *)
ReadPid ==
  /\ pc = "read_pid"
  /\ Head0.sent >= 1
  /\ Head0.from \in Pids
  /\ pc' = "read_data"
  /\ UNCHANGED <<daemon, conns, system>>

\* Mutant: only the read of the pid is checked.
ShortReadOfPid ==
  /\ pc = "read_pid"
  /\ Head0.sent = 0
  /\ ~ Head0.open
  /\ conns' = Tail(conns)
  /\ pc' = "accept"
  /\ UNCHANGED <<daemon, system>>

ShortRead ==
  /\ \/ pc = "read_pid"  /\ Head0.sent = 0
     \/ pc = "read_data" /\ Head0.sent < 2
  /\ ~ Head0.open
  /\ conns' = Tail(conns)
  /\ pc' = "accept"
  /\ UNCHANGED <<daemon, system>>

free_queue_entry(e) ==
  [e EXCEPT !.history = NULL, !.count = 0, !.capacity = 0, !.pid = NoPid,
            !.has_last_used = FALSE, !.startup_flag = FALSE]

(* pid = -1: cleanup_scheduler and return.  What is left in conns are the  *)
(* clients' ends of connections nobody will read.                          *)
Stop ==
  /\ pc = "read_pid"
  /\ Head0.sent >= 1
  /\ Head0.from = Shutdown
  /\ conns' = Tail(conns)
  /\ heap' = [b \in Blocks |->
                IF \E j \in Slots : queue[j].history = b THEN 0 ELSE heap[b]]
  /\ queue' = [j \in Slots |-> free_queue_entry(queue[j])]
  /\ size' = 0
  /\ pc' = "exit"
  /\ UNCHANGED <<i, chosen, system>>
-----------------------------------------------------------------------------
(* The message is complete: add_to_queue(pid, data, startup_flag), then    *)
(* close(client_fd).                                                       *)

pid == Head0.from

Adding == /\ pc = "read_data"
          /\ Head0.sent = 2
          /\ pc' = "accept"
          /\ conns' = Tail(conns)

(* kill() says ESRCH, or the array is full *)
AddRefused ==
  /\ Adding
  /\ \/ ~ is_process_alive(pid)
     \/ ~ Queued(pid) /\ size >= MaxQueue
  /\ UNCHANGED <<daemon, system>>

Appended(e) == [e EXCEPT !.count = @ + 1, !.startup_flag = Head0.startup]

(* The entry exists and its history has room.                              *)
Update ==
  /\ Adding
  /\ is_process_alive(pid)
  /\ Queued(pid)
  /\ EntryOf(pid).count < EntryOf(pid).capacity
  /\ queue' = [queue EXCEPT ![IndexOf(pid)] = Appended(@)]
  /\ UNCHANGED <<size, heap, i, chosen, system>>

(* It has none: realloc, in place or to another block, or the sample is    *)
(* lost.                                                                   *)
UpdateGrow ==
  LET e == EntryOf(pid)
      new_capacity == IF e.capacity = 0 THEN InitialCap ELSE 2 * e.capacity
  IN  /\ Adding
      /\ is_process_alive(pid)
      /\ Queued(pid)
      /\ e.count >= e.capacity
      /\ \E b \in Free \cup {e.history} :
           /\ heap' = [heap EXCEPT ![e.history] = 0, ![b] = new_capacity]
           /\ queue' = [queue EXCEPT ![IndexOf(pid)] =
                          Appended([@ EXCEPT !.history = b,
                                             !.capacity = new_capacity])]
      /\ UNCHANGED <<size, i, chosen, system>>

UpdateNoMemory ==
  /\ Adding
  /\ is_process_alive(pid)
  /\ Queued(pid)
  /\ EntryOf(pid).count >= EntryOf(pid).capacity
  /\ UNCHANGED <<daemon, system>>

Insert ==
  /\ Adding
  /\ is_process_alive(pid)
  /\ ~ Queued(pid)
  /\ size < MaxQueue
  /\ \E b \in Free :
       /\ heap' = [heap EXCEPT ![b] = InitialCap]
       /\ queue' = [queue EXCEPT ![size] =
                      [init_queue_entry EXCEPT !.pid = pid, !.history = b,
                         !.capacity = InitialCap, !.count = 1,
                         !.startup_flag = Head0.startup]]
  /\ size' = size + 1
  /\ UNCHANGED <<i, chosen, system>>

(* malloc fails after the pid has been written to the slot past the end.   *)
InsertNoMemory ==
  /\ Adding
  /\ is_process_alive(pid)
  /\ ~ Queued(pid)
  /\ size < MaxQueue
  /\ queue' = [queue EXCEPT ![size] = [init_queue_entry EXCEPT !.pid = pid]]
  /\ UNCHANGED <<size, heap, i, chosen, system>>

add_to_queue == AddRefused \/ Update \/ UpdateGrow \/ UpdateNoMemory
                \/ Insert \/ InsertNoMemory
-----------------------------------------------------------------------------
(* process_queue(): one iteration of its loop in four steps, separated by  *)
(* everything other processes can do meanwhile.                            *)

current == queue[i]

\* Mutants: the slot freed by the shift is not reset, the shift starts one
\* entry late, and the fields added last are not shifted.
remove_without_reset(k) ==
  /\ heap' = [b \in Blocks |-> IF b = queue[k].history THEN 0 ELSE heap[b]]
  /\ queue' = [j \in Slots |-> IF k <= j /\ j < size - 1 THEN queue[j + 1]
                              ELSE queue[j]]
  /\ size' = size - 1
remove_off_by_one(k) ==
  /\ heap' = [b \in Blocks |-> IF b = queue[k].history THEN 0 ELSE heap[b]]
  /\ queue' = [j \in Slots |->
                 IF j = size - 1 THEN init_queue_entry
                 ELSE IF k < j /\ j < size - 1 THEN queue[j + 1]
                 ELSE queue[j]]
  /\ size' = size - 1

remove_forgetting_hysteresis(k) ==
  /\ heap' = [b \in Blocks |-> IF b = queue[k].history THEN 0 ELSE heap[b]]
  /\ queue' = [j \in Slots |->
                 IF j = size - 1 THEN init_queue_entry
                 ELSE IF k <= j /\ j < size - 1
                 THEN [queue[j + 1] EXCEPT !.last_on_p = queue[j].last_on_p,
                                           !.has_last_on_p = queue[j].has_last_on_p]
                 ELSE queue[j]]
  /\ size' = size - 1

remove_queue_entry(k) ==
  /\ heap' = [b \in Blocks |-> IF b = queue[k].history THEN 0 ELSE heap[b]]
  /\ queue' = [j \in Slots |->
                 IF j = size - 1 THEN init_queue_entry
                 ELSE IF k <= j /\ j < size - 1 THEN queue[j + 1]
                 ELSE queue[j]]
  /\ size' = size - 1

\* Mutant: the loop index moves on although the next entry moved under it.
DropDeadAndAdvance ==
  /\ pc \in {"check", "choose"}
  /\ i < size
  /\ ~ is_process_alive(current.pid)
  /\ remove_queue_entry(i)
  /\ i' = i + 1
  /\ pc' = "check"
  /\ UNCHANGED <<chosen, conns, system>>

(* Found dead before or after the ratios are computed: the next entry has  *)
(* moved to index i.                                                       *)
DropDead ==
  /\ pc \in {"check", "choose"}
  /\ i < size
  /\ ~ is_process_alive(current.pid)
  /\ remove_queue_entry(i)
  /\ pc' = "check"
  /\ UNCHANGED <<i, chosen, conns, system>>

CheckAlive ==
  /\ pc = "check"
  /\ i < size
  /\ is_process_alive(current.pid)
  /\ pc' = "choose"
  /\ UNCHANGED <<daemon, conns, system>>

ChooseStartup ==
  /\ pc = "choose"
  /\ is_process_alive(current.pid)
  /\ current.startup_flag
  /\ chosen' = ALL_CORESET
  /\ pc' = "apply"
  /\ UNCHANGED <<queue, size, heap, i, conns, system>>

Choose(s) ==
  LET d == choose_placement_coreset_model(current.last_on_p,
                                          current.has_last_on_p, s)
  IN  /\ pc = "choose"
      /\ is_process_alive(current.pid)
      /\ ~ current.startup_flag
      /\ chosen' = d.chosen
      /\ queue' = [queue EXCEPT ![i].last_on_p = d.last_on_p,
                                ![i].has_last_on_p = d.has_last_on_p]
      /\ pc' = "apply"
      /\ UNCHANGED <<size, heap, i, conns, system>>

(* set_affinity_for_all_threads, for the main thread: nothing if the       *)
(* process has died meanwhile; set_affinity may fail, and then the flags   *)
(* have moved to a side that the process has not.                          *)
ASide == chosen \in {P_CORESET, E_CORESET}

Applied ==
  /\ is_process_alive(current.pid)
  /\ mask' = [mask EXCEPT ![current.pid] = chosen]
  /\ astray' = IF ASide THEN astray \ {current.pid} ELSE astray

ApplyFailed ==
  /\ is_process_alive(current.pid)
  /\ astray' = IF ASide THEN astray \cup {current.pid} ELSE astray
  /\ UNCHANGED mask

ApplySkipped ==
  /\ ~ is_process_alive(current.pid)
  /\ UNCHANGED <<mask, astray>>

Apply ==
  /\ pc = "apply"
  /\ Applied \/ ApplyFailed \/ ApplySkipped
  /\ pc' = "settle"
  /\ UNCHANGED <<daemon, conns, proc, booted, stopAsked>>

\* Mutant: the history is not emptied.
SettleKeepingSamples ==
  /\ pc = "settle"
  /\ queue' = [queue EXCEPT ![i].startup_flag = FALSE,
                            ![i].has_last_used = TRUE]
  /\ i' = i + 1
  /\ chosen' = NULL
  /\ pc' = "check"
  /\ UNCHANGED <<size, heap, conns, system>>

(* after usleep(50 ms): the samples are consumed, the loop moves on        *)
Settle ==
  /\ pc = "settle"
  /\ queue' = [queue EXCEPT ![i].startup_flag = FALSE,
                            ![i].has_last_used = TRUE,
                            ![i].count = 0]
  /\ i' = i + 1
  /\ chosen' = NULL
  /\ pc' = "check"
  /\ UNCHANGED <<size, heap, conns, system>>

\* Mutant: the next pass goes on from where this one ended.
EndPassKeepingIndex ==
  /\ pc = "check"
  /\ i >= size
  /\ pc' = "accept"
  /\ UNCHANGED <<queue, size, heap, i, chosen, conns, system>>

(* the loop ends; usleep(100 ms) and back to accept                        *)
EndPass ==
  /\ pc = "check"
  /\ i >= size
  /\ i' = 0
  /\ pc' = "accept"
  /\ UNCHANGED <<queue, size, heap, chosen, conns, system>>

process_queue == \/ DropDead \/ CheckAlive \/ ChooseStartup
                 \/ \E s \in Scores : Choose(s)
                 \/ Apply \/ Settle \/ EndPass
-----------------------------------------------------------------------------
Daemon == Accept \/ StartPass \/ ReadPid \/ ShortRead \/ Stop
          \/ add_to_queue \/ process_queue

Environment == \/ \E p \in Pids : \/ Spawn(p) \/ Die(p) \/ Reap(p)
                                  \/ Connect(p) \/ BrokenPipe(p)
               \/ RequestShutdown
               \/ \E c \in Clients : Write(c)

Next == Daemon \/ Environment

Spec == Init /\ [][Next]_vars

(* The daemon is a loop that is never blocked but in read(), and a client  *)
(* that has connected goes on to write its message.                        *)
FairSpec == /\ Spec
            /\ WF_vars(Daemon)
            /\ \A c \in Clients : WF_vars(Write(c))
-----------------------------------------------------------------------------
TypeOK ==
  /\ queue \in [Slots -> QueueEntry]
  /\ size \in 0 .. MaxQueue
  /\ heap \in [Blocks -> Nat]
  /\ pc \in {"accept", "exit"} \cup Serving \cup Walking
  /\ i \in Nat
  /\ chosen \in Coresets \cup {NULL}
  /\ conns \in Seq(Connection)
  /\ proc \in [Pids -> {"none", "running", "zombie"}]
  /\ booted \in [Pids -> BOOLEAN]
  /\ mask \in [Pids -> Coresets \cup {"inherited"}]
  /\ astray \subseteq Pids
  /\ stopAsked \in BOOLEAN

(* No PID has two entries, however its messages, deaths and rebirths       *)
(* interleave with the drain and the pass (scheduler.c:906, 935).          *)
OneEntryPerPid ==
  \A j, k \in Live : /\ queue[j].pid \in Pids
                     /\ queue[j].pid = queue[k].pid => j = k

(* Every live entry owns a history block of its own of the capacity it     *)
(* believes in, nothing past queue_size points to memory, and every        *)
(* allocated block is reachable: shifting, growing and cleaning up the     *)
(* array neither leaks, nor frees twice, nor writes past a block           *)
(* (scheduler.c:246-257, 910-922, 942-955, 1480-1492).                     *)
HistoryOwnership ==
  /\ \A j \in Live : /\ queue[j].history \in Blocks
                     /\ heap[queue[j].history] = queue[j].capacity
                     /\ queue[j].capacity > 0
                     /\ queue[j].count <= queue[j].capacity
  /\ \A j \in Slots \ Live : queue[j].history = NULL
  /\ \A j, k \in Live : queue[j].history = queue[k].history => j = k
  /\ \A b \in Blocks : heap[b] # 0 => \E j \in Live : queue[j].history = b

(* A pass skips nobody: everything before the loop index has had its       *)
(* samples consumed, although entries are removed under the index          *)
(* (scheduler.c:1242-1250).                                                *)
Consumed(e) == e.count = 0 /\ e.has_last_used /\ ~ e.startup_flag
PassSkipsNobody ==
  pc \in Walking => \A j \in Live : j < i => Consumed(queue[j])

(* The hysteresis flags of an entry say on which side the process really   *)
(* is: P, E, or on none yet (scheduler.c:246-257, 906-930, 957, 1173-1203, *)
(* 1305).  No entry gets the flags of another when the array is shifted or *)
(* a slot is used again, no message resets them, and a process on one side *)
(* is never compared as if it were on the other.  Between Choose and Apply *)
(* the flags are ahead; with ALL_CORESET they keep the side of before.     *)
(* Astray are a process that was born under the PID and the entry of a     *)
(* dead one, and a process whose last set_affinity for a side failed: the  *)
(* code notices neither.  The next side that is applied brings it back.    *)
Deciding(j) == pc = "apply" /\ j = i
Truthful(e) ==
  is_process_alive(e.pid) /\ e.pid \notin astray /\ mask[e.pid] # ALL_CORESET =>
    /\ mask[e.pid] = P_CORESET <=> e.has_last_on_p /\ e.last_on_p
    /\ mask[e.pid] = E_CORESET <=> e.has_last_on_p /\ ~ e.last_on_p
HysteresisMatchesMask == \A j \in Live : ~ Deciding(j) => Truthful(queue[j])

(* The array, searched linearly, shifted under the loop index, with blocks *)
(* that are grown, moved and freed, implements the map of ProcessRegistry: *)
(* a message changes the entry of its own process only, and a pass settles *)
(* every living process once and drops only the dead, whatever dies, is    *)
(* reaped or reborn between its steps (scheduler.c:246-257, 899-960,       *)
(* 1239-1329).                                                             *)
Summary(e) == [samples |-> e.count, startup |-> e.startup_flag,
               used |-> e.has_last_used, on_p |-> e.last_on_p,
               placed |-> e.has_last_on_p]

Registry == INSTANCE ProcessRegistry WITH
  Capacity <- MaxQueue,
  entry    <- [p \in Tracked |-> Summary(EntryOf(p))],
  alive    <- {p \in Pids : is_process_alive(p)},
  phase    <- IF pc \in Walking THEN "passing"
              ELSE IF pc = "exit" THEN "stopped" ELSE "listening",
  served   <- {queue[j].pid : j \in {k \in Live : k < i}}

ImplementsRegistry == Registry!Spec

(* A shutdown request that has reached the socket is obeyed, whatever the  *)
(* load, the deaths and the half-written messages before it                *)
(* (scheduler.c:1587-1592).                                                *)
ShutdownPending == \E k \in DOMAIN conns : conns[k].from = Shutdown
ShutdownIsObeyed == ShutdownPending ~> pc = "exit"

(* The drain loop ends only when the backlog is empty.  Monitors sleep     *)
(* 100 ms between two messages, so it does; nothing in the code bounds it. *)
DrainsEnd == []<>(pc \in {"check", "exit"})

(* If drains end, the entry of a process that is gone for good is dropped, *)
(* and a stored sample gets used for a placement or dies with its entry.   *)
DeadAreForgotten ==
  DrainsEnd => \A p \in Pids :
    (Queued(p) /\ proc[p] = "none") ~> (~ Queued(p) \/ proc[p] # "none")
SamplesAreUsed ==
  DrainsEnd => \A p \in Pids :
    (Queued(p) /\ EntryOf(p).count > 0) ~> (~ Queued(p) \/ EntryOf(p).count = 0)
=============================================================================
