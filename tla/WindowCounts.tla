---------------------------- MODULE WindowCounts ----------------------------
(***************************************************************************)
(* What the windows of libmonitor.c report of one slot of thread_data: the *)
(* differences, from one sweep to the next, of one of the values of        *)
(* total_values and of the I/O counters, while the thread migrates between *)
(* P- and E-cores, its perf group is reopened and the slot is reused.      *)
(*                                                                         *)
(* A group counts on the cores of one type only (page faults, a software   *)
(* event, on all).  A CPU is its core type; both ways of asking for it,    *)
(* is_pcore and detect_pcore_sysfs, are taken to agree.  Which thread has  *)
(* the slot, and where the mutex is, is the matter of MonitorThreads: here *)
(* it is free while the monitor sleeps.  Ratios and the dataset file are   *)
(* left out.                                                               *)
(***************************************************************************)
EXTENDS Integers

CONSTANTS Values,      \* the entries of total_values looked at, one per behaviour
          NULL,
          CallsFail,   \* can perf_event_open, ioctl, read and /proc fail
          MaxEvents,   \* bound: events on one core type
          MaxIo,       \* bound: bytes of I/O of the process
          SignBit      \* of a 64-bit integer: 2^63

ASSUME ValuesAssumption == Values \subseteq {"INST_RETIRED", "CACHE_MISSES",
                                             "UOPS_RETIRED", "PAGE_FAULTS"}
ASSUME NamesAssumption == NULL \notin {"P", "E"}
ASSUME FailAssumption == CallsFail \in BOOLEAN
ASSUME BoundsAssumption == /\ MaxEvents \in Nat /\ MaxIo \in Nat \ {0} /\ SignBit \in Nat
                           /\ 2 * MaxEvents < SignBit /\ MaxIo < SignBit

VARIABLES
  value,       \* the one this behaviour is about
  core,        \* where the thread of the slot runs
  done,        \* how often the event has happened, on each core type
  tio, pio,    \* the I/O of the thread, and of the process
  life,        \* the thread: none, placed (has the slot), hinted (asked for
  hint,        \*   its CPU), running; and the core type it was told, till then
  td,          \* the slot
  cnt, on,     \* its counter in the kernel, and whether that is enabled
  pc, now,     \* the sweep, and its pcore_now
  win, win_io, \* total_values_p and _e, io_p_delta and io_e_delta
  initial_io, final_io,
  reported,    \* the sum of all windows sent, per core type
  io_reported, io_sent,  \* of their thread I/O, and of their io_delta (the
               \*   latter if no call fails)
  torn,        \* an io file of the thread could be opened but not be read:
               \*   io_reported is kept no longer
  mark         \* done when the counter was last enabled after being read

world   == <<value, core, done, tio, pio>>
thread  == <<life, hint>>
kernel  == <<cnt, on>>
windows == <<win, win_io>>
process == <<initial_io, final_io>>
history == <<reported, io_reported, io_sent, torn>>
vars    == <<value, core, done, tio, pio, life, hint, td, cnt, on, pc, now, win,
             win_io, initial_io, final_io, reported, io_reported, io_sent, torn, mark>>

Sides == {"P", "E"}
None  == [s \in Sides |-> 0]
Sum(f) == f["P"] + f["E"]

\* Subtraction of two uint64_t, and the cast of its result to long long.
Modulus == 2 * SignBit
Minus(a, b) == (a - b) % Modulus
Signed(n)   == IF n < SignBit THEN n ELSE n - Modulus

ThreadData == [active : BOOLEAN, mon_initialized : BOOLEAN, last_pcore : Sides,
               pmu : Sides, fd : BOOLEAN, prev : Nat,
               io_initialized : BOOLEAN, prev_io : Nat]

Zeroed == [active |-> FALSE, mon_initialized |-> FALSE, last_pcore |-> "E",
           pmu |-> "E", fd |-> FALSE, prev |-> 0,
           io_initialized |-> FALSE, prev_io |-> 0]
-----------------------------------------------------------------------------
(* setup_event_attr: what a group for a core type can count.               *)
Programmed ==
  LET both == {"INST_RETIRED", "CORE_CYCLES", "REF_CYCLES", "MEM_LOADS",
               "MEM_STORES", "MEM_STALL_CYCLES", "PAGE_FAULTS"}
  IN  [P |-> both \cup {"L3_LOAD_HIT", "L3_LOAD_MISS"},
       E |-> both \cup {"CACHE_LOAD_HIT", "CACHE_LOAD_MISS", "UOPS_RETIRED"}]

(* The event whose difference goes into the value.                         *)
Source(s) ==
  IF value # "CACHE_MISSES" THEN value
  ELSE IF s = "P" THEN "L3_LOAD_MISS" ELSE "CACHE_LOAD_MISS"

Available(s) == Source(s) \in Programmed[s]

(* The kernel: does a group for core type s count what happens on core c.  *)
CountsOn(s, c) == value = "PAGE_FAULTS" \/ s = c

(* A counter that is closed, or forgotten with its slot, is gone.          *)
NoCounter == cnt' = 0 /\ on' = FALSE /\ mark' = None

perf_monitor_close(slot) == [slot EXCEPT !.mon_initialized = FALSE, !.fd = FALSE]

Opened(s) == IF ~ Available(s) THEN {FALSE}
             ELSE IF CallsFail THEN BOOLEAN ELSE {TRUE}

\* Mutant: the core type the group was opened for is not remembered.
OpenForgettingType(s) ==
  \E fd \in Opened(s) :
    /\ td' = [td EXCEPT !.mon_initialized = TRUE, !.pmu = s, !.fd = fd, !.prev = 0]
    /\ cnt' = 0 /\ on' = TRUE
    /\ mark' = done
    /\ UNCHANGED done

\* Mutant: no baseline is read, the one of the previous group stays.
OpenWithoutBaseline(s) ==
  \E fd \in Opened(s) :
    /\ td' = [td EXCEPT !.mon_initialized = TRUE, !.last_pcore = s, !.pmu = s,
                        !.fd = fd]
    /\ cnt' = 0 /\ on' = TRUE
    /\ mark' = done
    /\ UNCHANGED done

(* Close, open, reset and enable, and read a baseline: up to one event may *)
(* happen in between.                                                      *)
open_or_reopen_thread_perf(s) ==
  \/ \E early \in {0, 1}, fd \in Opened(s) :
       LET counted == IF fd /\ CountsOn(s, core) THEN early ELSE 0
       IN  /\ done[core] + early <= MaxEvents
           /\ done' = [done EXCEPT ![core] = @ + early]
           /\ cnt' = counted /\ on' = TRUE
           /\ mark' = done'
           /\ \E base \in {counted} \cup (IF CallsFail THEN {0} ELSE {}) :
                td' = [td EXCEPT !.mon_initialized = TRUE, !.last_pcore = s,
                                 !.pmu = s, !.fd = fd, !.prev = base]
  \/ /\ CallsFail
     /\ td' = perf_monitor_close(td)
     /\ NoCounter
     /\ UNCHANGED done

MutexFree == pc = "sleep"
-----------------------------------------------------------------------------
(* init_monitor has registered the main thread and tried to open a group   *)
(* for the core type it was told.                                          *)

Init ==
  /\ value \in Values
  /\ core \in Sides
  /\ done = None /\ mark = None
  /\ tio = 1 /\ pio = 1           \* what the loader has read
  /\ life = "running"
  /\ \E s \in Sides :
       td \in {[Zeroed EXCEPT !.active = TRUE, !.mon_initialized = TRUE,
                              !.last_pcore = s, !.pmu = s, !.fd = fd] :
                 fd \in Opened(s)}
             \cup (IF CallsFail THEN {[Zeroed EXCEPT !.active = TRUE]} ELSE {})
  /\ cnt = 0 /\ on = td.mon_initialized
  /\ hint = NULL
  /\ pc = "sleep" /\ now = NULL
  /\ win = None /\ win_io = None
  /\ initial_io \in {pio} \cup (IF CallsFail THEN {0} ELSE {})
  /\ final_io = 0
  /\ reported = None /\ io_reported = 0 /\ io_sent = 0 /\ torn = FALSE
-----------------------------------------------------------------------------
(* The thread of the slot.  The next one comes when it has gone.           *)

Happen ==
  /\ life # "none"
  /\ done[core] < MaxEvents
  /\ done' = [done EXCEPT ![core] = @ + 1]
  /\ cnt' = IF td.fd /\ on /\ CountsOn(td.pmu, core) THEN cnt + 1 ELSE cnt
  /\ UNCHANGED <<value, core, tio, pio, thread, td, on, pc, now, windows, process,
                 history, mark>>

DoIo ==
  /\ life # "none"
  /\ pio < MaxIo
  /\ tio' = tio + 1 /\ pio' = pio + 1
  /\ UNCHANGED <<value, core, done, thread, td, kernel, pc, now, windows, process,
                 history, mark>>

Migrate ==
  /\ life # "none"
  /\ core' \in Sides \ {core}
  /\ UNCHANGED <<value, done, tio, pio, thread, td, kernel, pc, now, windows,
                 process, history, mark>>

\* Mutant: the slot is taken over as it is.
PlaceWithoutMemset ==
  /\ MutexFree
  /\ life = "none"
  /\ life' = "placed"
  /\ core' \in Sides
  /\ tio' = 0
  /\ td' = [td EXCEPT !.active = TRUE]
  /\ NoCounter
  /\ UNCHANGED <<value, done, pio, hint, pc, now, windows, process, history>>

(* A new thread; alloc_thread_slot.                                        *)
Place ==
  /\ MutexFree
  /\ life = "none"
  /\ life' = "placed"
  /\ core' \in Sides
  /\ tio' = 0
  /\ td' = [Zeroed EXCEPT !.active = TRUE]
  /\ NoCounter
  /\ UNCHANGED <<value, done, pio, hint, pc, now, windows, process, history>>

(* sched_getcpu, before the mutex is taken again.                          *)
AskCpu ==
  /\ life = "placed"
  /\ hint' = core
  /\ life' = "hinted"
  /\ UNCHANGED <<world, td, kernel, pc, now, windows, process, history, mark>>

OpenOwn ==
  /\ MutexFree
  /\ life = "hinted"
  /\ open_or_reopen_thread_perf(hint)
  /\ life' = "running"
  /\ hint' = NULL
  /\ UNCHANGED <<value, core, tio, pio, pc, now, windows, process, history>>

(* A thread that the sweep has dropped finds no slot to give back.         *)
Return ==
  /\ MutexFree
  /\ life = "running"
  /\ life' = "none"
  /\ td' = IF ~ td.active THEN td
           ELSE [IF td.mon_initialized THEN perf_monitor_close(td) ELSE td
                 EXCEPT !.active = FALSE]
  /\ IF td.active THEN NoCounter ELSE UNCHANGED <<kernel, mark>>
  /\ UNCHANGED <<world, hint, pc, now, windows, process, history>>

PthreadExit ==
  /\ MutexFree
  /\ life = "running"
  /\ life' = "none"
  /\ td' = IF td.active THEN [td EXCEPT !.active = FALSE, !.io_initialized = FALSE]
                        ELSE td
  /\ UNCHANGED <<world, hint, kernel, pc, now, windows, process, history, mark>>

Thread == Happen \/ DoIo \/ Migrate \/ Place \/ AskCpu \/ OpenOwn \/ Return
          \/ PthreadExit
-----------------------------------------------------------------------------
(* One window of start_monitor_loop.                                       *)

(* A file that cannot be opened leaves final_io as it is, one that cannot  *)
(* be read leaves the zeroes of the memset.                                *)
get_process_io_stats ==
  /\ pc = "sleep"
  /\ final_io' \in {pio} \cup (IF CallsFail THEN {final_io, 0} ELSE {})
  /\ pc' = "cpu"
  /\ UNCHANGED <<world, thread, td, kernel, now, windows, initial_io, history, mark>>

Skip ==
  /\ pc = "cpu"
  /\ ~ td.active
  /\ pc' = "send"
  /\ UNCHANGED <<world, thread, td, kernel, now, windows, process, history, mark>>

get_thread_cpu ==
  /\ pc = "cpu"
  /\ td.active
  /\ now' = core
  /\ pc' = "io"
  /\ UNCHANGED <<world, thread, td, kernel, windows, process, history, mark>>

CpuFails ==
  /\ CallsFail
  /\ pc = "cpu"
  /\ td.active
  /\ td' = [IF td.mon_initialized THEN perf_monitor_close(td) ELSE td
            EXCEPT !.active = FALSE, !.io_initialized = FALSE]
  /\ NoCounter
  /\ pc' = "send"
  /\ UNCHANGED <<world, thread, now, windows, process, history>>

get_thread_io_stats ==
  /\ pc = "io"
  /\ td' = [td EXCEPT !.prev_io = tio, !.io_initialized = TRUE]
  /\ win_io' = IF ~ td.io_initialized THEN win_io
               ELSE [win_io EXCEPT ![now] = (@ + Minus(tio, td.prev_io)) % Modulus]
  /\ pc' = "perf"
  /\ UNCHANGED <<world, thread, kernel, now, win, process, history, mark>>

(* The file is open, but fgets gets nothing: the zeroes of the memset are  *)
(* returned as a success.                                                  *)
IoReadFails ==
  /\ CallsFail
  /\ pc = "io"
  /\ td' = [td EXCEPT !.prev_io = 0, !.io_initialized = TRUE]
  /\ win_io' = IF ~ td.io_initialized THEN win_io
               ELSE [win_io EXCEPT ![now] = (@ + Minus(0, td.prev_io)) % Modulus]
  /\ torn' = TRUE /\ io_reported' = 0
  /\ pc' = "perf"
  /\ UNCHANGED <<world, thread, kernel, now, win, process, reported, io_sent, mark>>

(* The file cannot be opened.                                              *)
IoFails ==
  /\ CallsFail
  /\ pc = "io"
  /\ td' = [td EXCEPT !.io_initialized = FALSE]
  /\ pc' = "perf"
  /\ UNCHANGED <<world, thread, kernel, now, windows, process, history, mark>>

Reopen ==
  /\ pc = "perf"
  /\ ~ td.mon_initialized \/ td.last_pcore # now
  /\ open_or_reopen_thread_perf(now)
  /\ pc' = "send"
  /\ UNCHANGED <<value, core, tio, pio, thread, now, windows, process, history>>

(* perf_monitor_read up to the read, and the difference.  A counter that   *)
(* is not open, or whose read fails, is 0.                                 *)
Readings == IF ~ td.fd THEN {0} ELSE {cnt} \cup (IF CallsFail THEN {0} ELSE {})

\* Mutant: the difference is not cast to long long.
DifferenceUnsigned(curr) == Minus(curr, td.prev)

Difference(curr) == Signed(Minus(curr, td.prev))

\* Mutant: prev is not moved on.
perf_monitor_read_keeping_prev ==
  /\ pc = "perf"
  /\ td.mon_initialized /\ td.last_pcore = now
  /\ \E curr \in Readings : win' = [win EXCEPT ![now] = @ + Difference(curr)]
  /\ on' = FALSE
  /\ pc' = "resume"
  /\ UNCHANGED <<world, thread, td, cnt, now, win_io, process, history, mark>>

Read ==
  /\ pc = "perf"
  /\ td.mon_initialized /\ td.last_pcore = now
  /\ \E curr \in Readings :
       /\ win' = [win EXCEPT ![now] = @ + Difference(curr)]
       /\ td' = [td EXCEPT !.prev = curr]
  /\ on' = FALSE
  /\ pc' = "resume"
  /\ UNCHANGED <<world, thread, cnt, now, win_io, process, history, mark>>

(* perf_monitor_read, PERF_EVENT_IOC_ENABLE                                *)
Resume ==
  /\ pc = "resume"
  /\ on' \in {TRUE} \cup (IF CallsFail THEN {FALSE} ELSE {})
  /\ mark' = done
  /\ pc' = "send"
  /\ UNCHANGED <<world, thread, td, cnt, now, windows, process, history>>

\* Mutant: initial_io stays what it was at the start.
SendSinceStart ==
  /\ pc = "send"
  /\ io_sent' = IF CallsFail THEN 0 ELSE (io_sent + Minus(final_io, initial_io)) % Modulus
  /\ reported' = [s \in Sides |-> reported[s] + win[s]]
  /\ io_reported' = IF torn THEN 0 ELSE io_reported + Sum(win_io)
  /\ win' = None /\ win_io' = None
  /\ pc' = "sleep" /\ now' = NULL
  /\ UNCHANGED <<world, thread, td, kernel, process, torn, mark>>

(* The end of output_results: the window is complete and goes out.         *)
Send ==
  /\ pc = "send"
  /\ io_sent' = IF CallsFail THEN 0 ELSE (io_sent + Minus(final_io, initial_io)) % Modulus
  /\ initial_io' = final_io
  /\ reported' = [s \in Sides |-> reported[s] + win[s]]
  /\ io_reported' = IF torn THEN 0 ELSE io_reported + Sum(win_io)
  /\ win' = None /\ win_io' = None
  /\ pc' = "sleep" /\ now' = NULL
  /\ UNCHANGED <<world, thread, td, kernel, final_io, torn, mark>>

MonitorLoop == get_process_io_stats \/ Skip \/ get_thread_cpu \/ CpuFails
               \/ get_thread_io_stats \/ IoReadFails \/ IoFails \/ Reopen \/ Read
               \/ Resume \/ Send

Next == Thread \/ MonitorLoop

Spec == Init /\ [][Next]_vars

(* The monitor thread is never starved.                                    *)
FairSpec == Spec /\ WF_vars(MonitorLoop)
-----------------------------------------------------------------------------
TypeOK ==
  /\ value \in Values /\ core \in Sides
  /\ done \in [Sides -> 0 .. MaxEvents] /\ mark \in [Sides -> 0 .. MaxEvents]
  /\ tio \in 0 .. MaxIo /\ pio \in 0 .. MaxIo
  /\ life \in {"none", "placed", "hinted", "running"} /\ hint \in Sides \cup {NULL}
  /\ td \in ThreadData
  /\ cnt \in 0 .. 2 * MaxEvents /\ on \in BOOLEAN
  /\ pc \in {"sleep", "cpu", "io", "perf", "resume", "send"}
  /\ now \in Sides \cup {NULL}
  /\ win \in [Sides -> -(2 * MaxEvents) .. 2 * MaxEvents] /\ win_io \in [Sides -> Nat]
  /\ initial_io \in 0 .. MaxIo /\ final_io \in 0 .. MaxIo
  /\ reported \in [Sides -> Int] /\ io_reported \in Nat /\ io_sent \in Nat
  /\ torn \in BOOLEAN

(* Over all windows no event is reported twice or on the wrong core type,  *)
(* however the thread migrates and whatever fails: a failed read makes one *)
(* difference wrap around and the next one makes up for it                 *)
(* (libmonitor.c:516-560, perf_backend.c:363-383).  Page faults are        *)
(* counted on both core types, so only their sum is right.                 *)
NeverInvented ==
  IF value = "PAGE_FAULTS"
  THEN Sum(reported) + Sum(win) <= Sum(done)
  ELSE \A s \in Sides : reported[s] + win[s] <= done[s]

(* What the threads read and wrote is reported at most once, although      *)
(* slots change hands, baselines are taken anew when an io file cannot be  *)
(* opened and the differences are unsigned (libmonitor.c:482-509, 935).    *)
(* It is lost for good when such a file can be opened and then not be      *)
(* read: zeroes are taken for its contents (libmonitor.c:253-265), the     *)
(* difference wraps around and the next one starts from 0.                 *)
IoCountedOnce == ~ torn => io_reported + Sum(win_io) <= pio

(* io_delta, an unsigned difference, never wraps around: together the      *)
(* windows report what the process has transferred since the constructor,  *)
(* up to the last window.  A /proc/<pid>/io that cannot be opened, or not  *)
(* be read, voids this (libmonitor.c:269-290, 575-583, 993).               *)
ProcessIoCountedOnce == ~ CallsFail => io_sent = initial_io - 1 /\ io_sent < pio

(* "skip this window after reopen to avoid weird deltas"                   *)
(* (libmonitor.c:517): if no call fails, a window that is not skipped      *)
(* reports exactly what has happened on cores of the type the thread is    *)
(* reported under since the window before, or the reopening, enabled the   *)
(* counter.  Retired micro-ops are known on E-cores only.                  *)
HappenedSince(s) ==
  IF value = "PAGE_FAULTS" THEN Sum(done) - Sum(mark) ELSE done[s] - mark[s]
WindowIsExact ==
  [][ ~ CallsFail /\ pc = "perf" /\ pc' = "resume"
        => win'[now] - win[now] = IF value = "UOPS_RETIRED" /\ now = "P" THEN 0
                                  ELSE HappenedSince(now) ]_vars

(* A thread that stays on one core type is read again and again: it is not *)
(* reopened, and skipped, in every window (libmonitor.c:516).              *)
SettledThreadIsRead ==
  ~ CallsFail => \A s \in Sides :
    <>[](life = "running" /\ core = s) => []<>(pc = "resume")
=============================================================================
