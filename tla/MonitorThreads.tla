--------------------------- MODULE MonitorThreads ---------------------------
(***************************************************************************)
(* libmonitor.c inside one workload.  Every thread made by the interposed  *)
(* pthread_create runs thread_wrapper, which takes a slot of thread_data,  *)
(* opens perf counters for it and gives both back when the thread returns; *)
(* pthread_exit and clone are interposed too; and the monitor thread       *)
(* sweeps the table every 100 ms (output_results).  One mutex guards the   *)
(* table.  The constructor has run in the initial state; the destructor    *)
(* finish_monitor runs when the process exits.                             *)
(*                                                                         *)
(* A perf group stands for the fds that perf_monitor_open_thread opens for *)
(* a thread.  Critical sections that call nothing that can be observed are *)
(* one step, taken when the mutex is free; the sweep is a step per slot.   *)
(* The sweep's counters and ratios are left out.                           *)
(***************************************************************************)
EXTENDS Naturals, FiniteSets

CONSTANTS Tids,          \* the thread ids the kernel hands out in the process
          Main,          \* the id of its first thread
          Monitor,       \* the monitor thread, as the holder of the mutex
          Groups,        \* the perf groups that can be open at a time
          NULL,
          MAX_THREADS,
          TrainingMode,  \* g_training_mode /\ g_forced_set_ready
          RawThreads,    \* does the workload call clone, or cancel threads
          PthreadExits,  \* does it call pthread_exit
          StatFails      \* can the stat of a living thread be unusable: a CPU
                         \* outside CORESET, or a name with a space in it

ASSUME SizesAssumption == MAX_THREADS \in Nat \ {0}
ASSUME NamesAssumption == Main \in Tids /\ Monitor \notin Tids
                          /\ NULL \notin Tids \cup {Monitor} \cup Groups \cup Nat
ASSUME FlagsAssumption == /\ TrainingMode \in BOOLEAN /\ RawThreads \in BOOLEAN
                          /\ PthreadExits \in BOOLEAN /\ StatFails \in BOOLEAN

VARIABLES
  thread_data,   \* the table
  thread_count,  \* how much of it has ever been used
  mutex,         \* who holds it across steps: Monitor or NULL
  perf,          \* the thread each open group counts, NULL when it is closed
  life,          \* where each thread is
  idx,           \* the local of thread_wrapper, while it is between its two
                 \* critical sections: the slot it was given
  unregistered,  \* children of clone() the parent has not yet registered
  pc,            \* the monitor thread
  cur,           \* the index of its sweep
  phase          \* the process: up, exit() called, destructors done, gone

table  == <<thread_data, thread_count, perf>>
app    == <<life, idx, unregistered>>
sweep  == <<mutex, pc, cur>>
vars   == <<thread_data, thread_count, mutex, perf, life, idx, unregistered,
            pc, cur, phase>>

Slots == 0 .. MAX_THREADS - 1
Used  == 0 .. thread_count - 1

ThreadData == [tid : Tids \cup {NULL}, active : BOOLEAN,
               mon_initialized : BOOLEAN, mon : Groups \cup {NULL}]

Zeroed == [tid |-> NULL, active |-> FALSE, mon_initialized |-> FALSE, mon |-> NULL]

Exists(t) == life[t] # "none"
Opened    == {g \in Groups : perf[g] # NULL}
Held(k)   == thread_data[k].mon     \* the group of slot k
AllEnded  == \A t \in Tids : ~ Exists(t)
-----------------------------------------------------------------------------
(* alloc_thread_slot: the first inactive slot, else a new one, else none.  *)
(* The memset drops whatever the slot still referred to.                   *)

\* Mutant: a slot whose counters could not be opened counts as free.
NotOpened == {k \in Used : ~ thread_data[k].mon_initialized}

Inactive == {k \in Used : ~ thread_data[k].active}

\* Mutant: no limit.
SlotForUnbounded ==
  IF Inactive # {} THEN CHOOSE k \in Inactive : \A j \in Inactive : k <= j
                   ELSE thread_count

SlotFor == IF Inactive # {} THEN CHOOSE k \in Inactive : \A j \in Inactive : k <= j
           ELSE IF thread_count < MAX_THREADS THEN thread_count
           ELSE NULL

alloc_thread_slot(t) ==
  IF SlotFor = NULL
  THEN UNCHANGED <<thread_data, thread_count>>
  ELSE /\ thread_data' = [thread_data EXCEPT ![SlotFor] =
                            [Zeroed EXCEPT !.tid = t, !.active = TRUE]]
       /\ thread_count' = IF SlotFor = thread_count THEN thread_count + 1
                                                     ELSE thread_count

(* find_thread_index, and pthread_exit's loop: the first active slot of t  *)
SlotsOf(t) == {k \in Used : thread_data[k].active /\ thread_data[k].tid = t}
find_thread_index(t) ==
  IF SlotsOf(t) = {} THEN NULL
                     ELSE CHOOSE k \in SlotsOf(t) : \A j \in SlotsOf(t) : k <= j

(* What is left of the open groups once perf_monitor_close has run on slot *)
(* k.                                                                      *)
PerfClosed(k) == [g \in Groups |-> IF thread_data[k].mon_initialized /\ g = Held(k)
                                   THEN NULL ELSE perf[g]]

\* Mutant: mon_initialized survives the close.
StillInitialized(td) == td

Closed(td) == [td EXCEPT !.mon_initialized = FALSE, !.mon = NULL]

(* open_or_reopen_thread_perf: close, open, start.  No event of the thread *)
(* may open, which is no error; a start that fails leaves the slot closed. *)
open_or_reopen_thread_perf(k) ==
  LET td == thread_data[k]
  IN  \/ \E g \in {f \in Groups : PerfClosed(k)[f] = NULL} :
           /\ Exists(td.tid)
           /\ perf' = [PerfClosed(k) EXCEPT ![g] = td.tid]
           /\ thread_data' = [thread_data EXCEPT ![k].mon_initialized = TRUE,
                                                 ![k].mon = g]
      \/ /\ perf' = PerfClosed(k)
         /\ thread_data' = [thread_data EXCEPT ![k].mon_initialized = TRUE,
                                               ![k].mon = NULL]
      \/ /\ perf' = PerfClosed(k)
         /\ thread_data' = [thread_data EXCEPT ![k] = Closed(@)]
-----------------------------------------------------------------------------
(* init_monitor has registered the main thread and tried to open its perf. *)

Init == /\ \E g \in Groups \cup {NULL}, ok \in BOOLEAN :
             /\ g # NULL => ok
             /\ thread_data = [k \in Slots |->
                  IF k = 0 THEN [tid |-> Main, active |-> TRUE,
                                 mon_initialized |-> ok, mon |-> g]
                           ELSE Zeroed]
             /\ perf = [h \in Groups |-> IF h = g THEN Main ELSE NULL]
        /\ thread_count = 1
        /\ mutex = NULL
        /\ life = [t \in Tids |-> IF t = Main THEN "running" ELSE "none"]
        /\ idx = [t \in Tids |-> NULL]
        /\ unregistered = {}
        /\ pc = "sleep"
        /\ cur = 0
        /\ phase = "up"

Up == phase # "gone"
-----------------------------------------------------------------------------
(* thread_wrapper *)

(* pthread_create, called by a thread of the workload.  The id of the      *)
(* first thread is not reused.                                             *)
Create(t) ==
  /\ Up /\ ~ AllEnded
  /\ t # Main /\ ~ Exists(t)
  /\ life' = [life EXCEPT ![t] = "born"]
  /\ UNCHANGED <<table, idx, unregistered, sweep, phase>>

Alloc(t) ==
  /\ Up /\ mutex = NULL
  /\ life[t] = "born"
  /\ alloc_thread_slot(t)
  /\ idx' = [idx EXCEPT ![t] = SlotFor]
  /\ life' = [life EXCEPT ![t] = IF SlotFor = NULL THEN "untracked" ELSE "placed"]
  /\ UNCHANGED <<perf, unregistered, sweep, phase>>

(* The mutex was released meanwhile: slot idx may be another thread's now. *)
Open(t) ==
  /\ Up /\ mutex = NULL
  /\ life[t] = "placed"
  /\ open_or_reopen_thread_perf(idx[t])
  /\ life' = [life EXCEPT ![t] = "running"]
  /\ idx' = [idx EXCEPT ![t] = NULL]
  /\ UNCHANGED <<thread_count, unregistered, sweep, phase>>

InRoutine(t) == life[t] \in {"running", "untracked"}

\* Mutant: the slot is given back, its counters are not.
ReturnWithoutClose(t) ==
  LET k == find_thread_index(t)
  IN  /\ Up /\ mutex = NULL
      /\ t # Main /\ InRoutine(t)
      /\ thread_data' = IF k = NULL THEN thread_data
                        ELSE [thread_data EXCEPT ![k].active = FALSE]
      /\ life' = [life EXCEPT ![t] = "leaving"]
      /\ UNCHANGED <<thread_count, perf, idx, unregistered, sweep, phase>>

\* Mutant: the counters are closed, the slot stays active.
ReturnKeepingSlot(t) ==
  LET k == find_thread_index(t)
  IN  /\ Up /\ mutex = NULL
      /\ t # Main /\ InRoutine(t)
      /\ IF k = NULL
         THEN UNCHANGED <<thread_data, perf>>
         ELSE /\ perf' = PerfClosed(k)
              /\ thread_data' = [thread_data EXCEPT ![k] = Closed(@)]
      /\ life' = [life EXCEPT ![t] = "leaving"]
      /\ UNCHANGED <<thread_count, idx, unregistered, sweep, phase>>

(* start_routine has returned.  The main thread has no wrapper.            *)
Return(t) ==
  LET k == find_thread_index(t)
  IN  /\ Up /\ mutex = NULL
      /\ t # Main /\ InRoutine(t)
      /\ IF k = NULL
         THEN UNCHANGED <<thread_data, perf>>
         ELSE /\ perf' = PerfClosed(k)
              /\ thread_data' = [thread_data EXCEPT ![k] =
                   [IF @.mon_initialized THEN Closed(@) ELSE @ EXCEPT !.active = FALSE]]
      /\ life' = [life EXCEPT ![t] = "leaving"]
      /\ UNCHANGED <<thread_count, idx, unregistered, sweep, phase>>

\* Mutant: the slot is left to the next sweep.
PthreadExitNotInterposed(t) ==
  /\ PthreadExits
  /\ Up
  /\ InRoutine(t)
  /\ life' = [life EXCEPT ![t] = "leaving"]
  /\ UNCHANGED <<table, idx, unregistered, sweep, phase>>

(* The interposed pthread_exit does not come back to thread_wrapper.  The  *)
(* main thread cannot call it once it is inside exit().                    *)
PthreadExit(t) ==
  LET k == find_thread_index(t)
  IN  /\ PthreadExits
      /\ Up /\ mutex = NULL
      /\ t = Main => phase = "up"
      /\ InRoutine(t)
      /\ thread_data' = IF k = NULL THEN thread_data
                        ELSE [thread_data EXCEPT ![k].active = FALSE]
      /\ life' = [life EXCEPT ![t] = "leaving"]
      /\ UNCHANGED <<thread_count, perf, idx, unregistered, sweep, phase>>

End(t) ==
  /\ Up
  /\ life[t] = "leaving"
  /\ life' = [life EXCEPT ![t] = "none"]
  /\ UNCHANGED <<table, idx, unregistered, sweep, phase>>
-----------------------------------------------------------------------------
(* Threads that end without passing through the library: the children of   *)
(* the interposed clone, registered by their parent, and cancelled ones.   *)

(* Of one id at most one child at a time waits for its parent, a bound on  *)
(* how often an id is reused within one call of clone().                   *)
CloneThread(t) ==
  /\ RawThreads
  /\ Up /\ ~ AllEnded
  /\ t # Main /\ ~ Exists(t) /\ t \notin unregistered
  /\ life' = [life EXCEPT ![t] = "cloned"]
  /\ unregistered' = unregistered \cup {t}
  /\ UNCHANGED <<table, idx, sweep, phase>>

Register(t) ==
  /\ Up /\ mutex = NULL
  /\ t \in unregistered
  /\ alloc_thread_slot(t)
  /\ unregistered' = unregistered \ {t}
  /\ UNCHANGED <<perf, life, idx, sweep, phase>>

Vanish(t) ==
  /\ RawThreads
  /\ Up
  /\ t # Main /\ (life[t] = "cloned" \/ InRoutine(t))
  /\ life' = [life EXCEPT ![t] = "none"]
  /\ UNCHANGED <<table, idx, unregistered, sweep, phase>>
-----------------------------------------------------------------------------
(* start_monitor_loop: one window.  kill(target_pid, 0) asks about the     *)
(* process the loop runs in, so the loop never ends.                       *)

StartWindow ==
  /\ Up
  /\ pc = "sleep" /\ mutex = NULL
  /\ mutex' = Monitor
  /\ pc' = "repin"
  /\ UNCHANGED <<table, app, cur, phase>>

(* Training only: the active threads are pinned again; a thread that no    *)
(* longer exists makes training_apply_affinity call exit(1) with the mutex *)
(* held, and the destructor waits for it.                                  *)
Repin ==
  /\ Up
  /\ pc = "repin"
  /\ pc' = IF TrainingMode /\ \E k \in Used : /\ thread_data[k].active
                                              /\ ~ Exists(thread_data[k].tid)
           THEN "aborting" ELSE "sweep"
  /\ UNCHANGED <<table, app, mutex, cur, phase>>

Sweeping == /\ Up
            /\ pc = "sweep"
            /\ cur < thread_count
            /\ cur' = cur + 1
            /\ UNCHANGED <<app, mutex, pc, thread_count, phase>>

\* Mutant: the counters are closed but the slot stays active.
SweepLostStillActive ==
  /\ Sweeping
  /\ thread_data[cur].active
  /\ StatFails \/ ~ Exists(thread_data[cur].tid)
  /\ perf' = PerfClosed(cur)
  /\ thread_data' = [thread_data EXCEPT ![cur] = Closed(@)]

(* get_thread_cpu fails *)
SweepLost ==
  /\ Sweeping
  /\ thread_data[cur].active
  /\ StatFails \/ ~ Exists(thread_data[cur].tid)
  /\ perf' = PerfClosed(cur)
  /\ thread_data' = [thread_data EXCEPT ![cur] =
       [IF @.mon_initialized THEN Closed(@) ELSE @ EXCEPT !.active = FALSE]]

(* never opened, or the thread has moved to the other core type            *)
SweepReopen ==
  /\ Sweeping
  /\ thread_data[cur].active
  /\ Exists(thread_data[cur].tid)
  /\ open_or_reopen_thread_perf(cur)

(* skipped, or its counters are read *)
SweepRead ==
  /\ Sweeping
  /\ thread_data[cur].active => /\ Exists(thread_data[cur].tid)
                                /\ thread_data[cur].mon_initialized
  /\ UNCHANGED <<thread_data, perf>>

\* Mutant: the unlock is missing.
EndSweepLocked ==
  /\ Up
  /\ pc = "sweep"
  /\ cur = thread_count
  /\ cur' = 0
  /\ pc' = "send"
  /\ UNCHANGED <<table, app, mutex, phase>>

EndSweep ==
  /\ Up
  /\ pc = "sweep"
  /\ cur = thread_count
  /\ cur' = 0
  /\ mutex' = NULL
  /\ pc' = "send"
  /\ UNCHANGED <<table, app, phase>>

(* the dataset row and send_to_scheduler *)
Send ==
  /\ Up
  /\ pc = "send"
  /\ pc' = "sleep"
  /\ UNCHANGED <<table, app, mutex, cur, phase>>

MonitorLoop == StartWindow \/ Repin \/ SweepLost \/ SweepReopen \/ SweepRead
               \/ EndSweep \/ Send
-----------------------------------------------------------------------------
(* The main thread returns; exit() runs the destructor and ends the        *)
(* process, under whatever its other threads are doing.                    *)

CallExit ==
  /\ phase = "up"
  /\ life[Main] = "running"
  /\ phase' = "exiting"
  /\ UNCHANGED <<table, app, sweep>>

finish_monitor ==
  /\ phase = "exiting"
  /\ mutex = NULL
  /\ perf' = [g \in Groups |->
                IF \E k \in Used : thread_data[k].mon_initialized /\ Held(k) = g
                THEN NULL ELSE perf[g]]
  /\ thread_data' = [k \in Slots |->
                       IF k \in Used
                       THEN [IF thread_data[k].mon_initialized
                             THEN Closed(thread_data[k]) ELSE thread_data[k]
                             EXCEPT !.active = FALSE]
                       ELSE thread_data[k]]
  /\ phase' = "finished"
  /\ UNCHANGED <<thread_count, app, sweep>>

Gone ==
  /\ phase = "finished"
  /\ phase' = "gone"
  /\ UNCHANGED <<table, app, sweep>>

Threads == \E t \in Tids : \/ Create(t) \/ Alloc(t) \/ Open(t) \/ Return(t)
                           \/ PthreadExit(t) \/ End(t)
                           \/ CloneThread(t) \/ Register(t) \/ Vanish(t)

Next == Threads \/ MonitorLoop \/ CallExit \/ finish_monitor \/ Gone

Spec == Init /\ [][Next]_vars

(* The monitor thread is never starved, and as it sleeps 100 ms between    *)
(* two windows exit() gets the mutex it waits for.                         *)
FairSpec == /\ Spec
            /\ WF_vars(MonitorLoop)
            /\ SF_vars(finish_monitor)
            /\ WF_vars(Gone)
-----------------------------------------------------------------------------
TypeOK ==
  /\ thread_data \in [Slots -> ThreadData]
  /\ thread_count \in 0 .. MAX_THREADS
  /\ mutex \in {NULL, Monitor}
  /\ perf \in [Groups -> Tids \cup {NULL}]
  /\ life \in [Tids -> {"none", "born", "placed", "running", "untracked",
                    "leaving", "cloned"}]
  /\ idx \in [Tids -> Slots \cup {NULL}]
  /\ unregistered \subseteq Tids
  /\ pc \in {"sleep", "repin", "sweep", "send", "aborting"}
  /\ cur \in Nat
  /\ phase \in {"up", "exiting", "finished", "gone"}

(* The fds a slot would close or read are open, count the thread the slot  *)
(* is for, and belong to no other slot: whoever opened them, under         *)
(* whatever stale index, the library closes no fd that may be the          *)
(* application's by now, and sums up no other thread's counters            *)
(* (libmonitor.c:786-789, 935, 1186).                                      *)
SlotOwnsItsGroup ==
  /\ \A k \in Used : Held(k) # NULL => perf[Held(k)] = thread_data[k].tid
  /\ \A j, k \in Used : Held(j) # NULL /\ Held(j) = Held(k) => j = k

(* No thread is counted twice in a window: two active slots never name the *)
(* same thread, although slots and thread ids are both reused              *)
(* (libmonitor.c:904, 934-939).  Threads that end behind the library's     *)
(* back void this.                                                         *)
NoThreadTwice ==
  ~ RawThreads =>
    \A j, k \in Used : /\ thread_data[j].active /\ thread_data[k].active
                       /\ thread_data[j].tid = thread_data[k].tid
                       => j = k

(* A thread that got a slot keeps one for as long as it runs, unless a     *)
(* sweep could not read its stat: then it is never looked at again         *)
(* (libmonitor.c:453-463).                                                 *)
Initialised == phase \in {"up", "exiting"}
TrackedWhileRunning ==
  ~ StatFails /\ Initialised =>
    \A t \in Tids : life[t] \in {"placed", "running"} => SlotsOf(t) # {}

(* Every open group is held by an active slot, so that a sweep, a return   *)
(* or the destructor will close it: nothing leaks, provided no thread      *)
(* leaves by pthread_exit and no sweep drops a living thread               *)
(* (libmonitor.c:797-806, 935, 967).                                       *)
NoLeak ==
  ~ PthreadExits /\ ~ StatFails /\ Initialised =>
    \A g \in Opened : \E k \in Used : /\ thread_data[k].active
                                      /\ thread_data[k].mon_initialized
                                      /\ Held(k) = g

(* A training run is never aborted, with the mutex held for ever, for a    *)
(* thread that ended through thread_wrapper or pthread_exit: its slot is   *)
(* given back before its id is (libmonitor.c:424-430, 763).                *)
NeverAborts == ~ RawThreads => pc # "aborting"

(* The slot of a thread that has ended, however it did, is given back.     *)
DeadSlot(k) == /\ k \in Used
               /\ thread_data[k].active
               /\ ~ Exists(thread_data[k].tid)
DeadSlotsSwept ==
  \A k \in Slots :
    DeadSlot(k) ~> \/ ~ DeadSlot(k)
                   \/ phase = "gone" \/ pc = "aborting"

(* A process that calls exit() ends: the destructor gets its mutex.        *)
ExitIsReached ==
  ~ (RawThreads /\ TrainingMode) => (phase = "exiting" ~> phase = "gone")
-----------------------------------------------------------------------------
(* What comments of libmonitor.c say, and the code does not do.            *)

(* "cleanup on thread exit" (libmonitor.c:797): a thread that has left     *)
(* through the library, by returning or by pthread_exit, leaves nothing    *)
(* open.                                                                   *)
CleanOnThreadExit ==
  ~ RawThreads /\ Initialised => \A g \in Opened : Exists(perf[g])

(* "Target process %d has terminated, exiting monitor loop"                *)
(* (libmonitor.c:998): once the last thread of the workload has ended, the *)
(* loop ends and the process with it.                                      *)
LoopEndsWithItsProcess == AllEnded ~> phase = "gone"
=============================================================================
