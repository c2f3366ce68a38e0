------------------------------ MODULE Dataset -------------------------------
(***************************************************************************)
(* The training data: how a monitored process starts (init_monitor,        *)
(* libmonitor.c), what each window appends to DATASET_CSV, and how the end *)
(* of the process closes the file under the monitor thread.  The file is   *)
(* shared: LD_PRELOAD puts the library into taskset, into the workload     *)
(* that taskset becomes by exec, and into every command a workload runs,   *)
(* all with the same environment; any of them can be killed.               *)
(***************************************************************************)
EXTENDS Integers, Sequences

CONSTANTS Procs,       \* processes, one image each
          Envs,        \* environments they are started with
          MaxWindows,  \* bound: windows of one process
          MaxGap       \* bound: time units between two windows

VARIABLES env,     \* TRAINING_MODE, MONITOR_FORCE, DATASET_CSV, WARMUP_WINDOWS
          pc,      \* the main thread
          monitor, \* the monitor thread
          fp,      \* g_dataset_fp, and what it points at
          buffer,  \* what is printed and not yet flushed
          idx, t, dt,   \* g_window_idx, g_prev_exec_time_ms and the window's dt_ms
          file,    \* DATASET_CSV
          at,      \* history: when each window ended
          raced    \* history: a process saw an empty file while another was
                   \* about to write its header

window == <<idx, t, dt, at>>
vars == <<env, pc, monitor, fp, buffer, window, file, raced>>

Header == [kind |-> "header"]
Ended == {"exited", "killed"}
Up(p) == pc[p] \notin Ended \cup {"off"}

parse_force_mode(s) == CASE s \in {"P", "p"} -> "P"
                         [] s \in {"E", "e"} -> "E"
                         [] OTHER            -> "NONE"

Init == /\ env = [p \in Procs |-> CHOOSE e \in Envs : TRUE]
        /\ pc = [p \in Procs |-> "off"]
        /\ monitor = [p \in Procs |-> "none"]
        /\ fp = [p \in Procs |-> "NULL"]
        /\ buffer = [p \in Procs |-> <<>>]
        /\ idx = [p \in Procs |-> 0]
        /\ t = [p \in Procs |-> -1]
        /\ dt = [p \in Procs |-> 0]
        /\ file = <<>>
        /\ at = [p \in Procs |-> <<>>]
        /\ raced = FALSE

Main(p, label) == pc' = [pc EXCEPT ![p] = label]
Thread(p, label) == monitor' = [monitor EXCEPT ![p] = label]

-----------------------------------------------------------------------------
(* The constructor.  A forced class that has no CPU ends the process.      *)

init_monitor(p, e) ==
  /\ pc[p] = "off"
  /\ env' = [env EXCEPT ![p] = e]
  /\ Main(p, IF e.training /\ parse_force_mode(e.force) \in e.empty THEN "exited"
             ELSE IF e.training /\ e.dataset THEN "open" ELSE "spawn")
  /\ UNCHANGED <<monitor, fp, buffer, window, file, raced>>

OpenDataset(p) ==
  /\ pc[p] = "open"
  /\ \/ fp' = [fp EXCEPT ![p] = "open"] /\ Main(p, "size")
     \/ UNCHANGED fp /\ Main(p, "exited")
  /\ UNCHANGED <<env, monitor, buffer, window, file, raced>>

SizeCheck(p) ==
  /\ pc[p] = "size"
  /\ Main(p, IF file = <<>> THEN "header" ELSE "spawn")
  /\ raced' = (raced \/ (file = <<>> /\ \E q \in Procs \ {p} : pc[q] = "header"))
  /\ UNCHANGED <<env, monitor, fp, buffer, window, file>>

WriteHeader(p) ==
  /\ pc[p] = "header"
  /\ file' = Append(file, Header)
  /\ Main(p, "spawn")
  /\ UNCHANGED <<env, monitor, fp, buffer, window, raced>>

(* The baselines, the slot of the main thread and the startup notification *)
(* are in WindowCounts and MonitorThreads.                                 *)
Spawn(p) ==
  /\ pc[p] = "spawn"
  /\ \/ Main(p, "running") /\ Thread(p, "sleep")
     \/ Main(p, "exited") /\ UNCHANGED monitor
  /\ UNCHANGED <<env, fp, buffer, window, file, raced>>

-----------------------------------------------------------------------------
(* A window: output_results under the mutex, then the row outside it.      *)

Window(p) ==
  /\ monitor[p] = "sleep" /\ idx[p] < MaxWindows
  /\ \E gap \in 1..MaxGap :
       LET now == (IF t[p] < 0 THEN 0 ELSE t[p]) + gap IN
         /\ dt' = [dt EXCEPT ![p] = IF t[p] < 0 THEN 0 ELSE now - t[p]]
         /\ t' = [t EXCEPT ![p] = now]
         /\ at' = [at EXCEPT ![p] = Append(@, now)]
  /\ idx' = [idx EXCEPT ![p] = @ + 1]
  /\ Thread(p, "log")
  /\ UNCHANGED <<env, pc, fp, buffer, file, raced>>

Row(p) == [kind |-> "row", run |-> p, force |-> parse_force_mode(env[p].force),
           window_idx |-> idx[p], t_ms |-> t[p], dt_ms |-> dt[p]]

Check(p) ==
  /\ monitor[p] = "log"
  /\ Thread(p, IF env[p].training /\ fp[p] # "NULL" /\ idx[p] > env[p].warmup
               THEN "print" ELSE "sleep")
  /\ UNCHANGED <<env, pc, fp, buffer, window, file, raced>>

(* Use of a stream that fclose has freed: what is written is lost, or the  *)
(* process ends.                                                           *)
UseFreed(p) == /\ \/ UNCHANGED pc
                  \/ Main(p, "killed")
               /\ UNCHANGED <<buffer, file>>

PrintRow(p) ==
  /\ monitor[p] = "print"
  /\ IF fp[p] = "open"
     THEN buffer' = [buffer EXCEPT ![p] = Append(@, Row(p))] /\ UNCHANGED <<pc, file>>
     ELSE UseFreed(p)
  /\ Thread(p, "flush")
  /\ UNCHANGED <<env, fp, window, raced>>

Drain(p) == /\ file' = file \o buffer[p]
            /\ buffer' = [buffer EXCEPT ![p] = <<>>]

(* Mutant: the row stays in the buffer until the next one or the end.      *)
FlushForgotten(p) ==
  /\ monitor[p] = "flush"
  /\ Thread(p, "sleep")
  /\ UNCHANGED <<env, pc, fp, buffer, file, window, raced>>

(* fflush(NULL) flushes every stream: there is nothing left in this one.   *)
Flush(p) ==
  /\ monitor[p] = "flush"
  /\ \/ fp[p] = "open"  /\ Drain(p) /\ UNCHANGED pc
     \/ fp[p] = "freed" /\ UseFreed(p)
     \/ fp[p] = "NULL"  /\ UNCHANGED <<pc, buffer, file>>
  /\ Thread(p, "sleep")
  /\ UNCHANGED <<env, fp, window, raced>>

-----------------------------------------------------------------------------
(* The destructor: fclose flushes and frees the stream, then the pointer   *)
(* is cleared; the monitor thread goes on until the process is gone.       *)

finish_monitor(p) ==
  /\ pc[p] = "running"
  /\ IF fp[p] = "open"
     THEN fp' = [fp EXCEPT ![p] = "freed"] /\ Drain(p) /\ Main(p, "closed")
     ELSE Main(p, "leaving") /\ UNCHANGED <<fp, buffer, file>>
  /\ UNCHANGED <<env, monitor, window, raced>>

ClearPointer(p) ==
  /\ pc[p] = "closed"
  /\ fp' = [fp EXCEPT ![p] = "NULL"]
  /\ Main(p, "leaving")
  /\ UNCHANGED <<env, monitor, buffer, window, file, raced>>

Leave(p) == /\ pc[p] = "leaving"
            /\ Main(p, "exited")
            /\ Thread(p, "none")
            /\ UNCHANGED <<env, fp, buffer, window, file, raced>>

(* A signal, or an exec: no destructor runs, what is buffered is lost.     *)
Kill(p) == /\ Up(p)
           /\ Main(p, "killed")
           /\ Thread(p, "none")
           /\ UNCHANGED <<env, fp, buffer, window, file, raced>>

Next == \E p \in Procs :
          \/ \E e \in Envs : init_monitor(p, e)
          \/ OpenDataset(p) \/ SizeCheck(p) \/ WriteHeader(p) \/ Spawn(p)
          \/ pc[p] \notin Ended /\ (Window(p) \/ Check(p) \/ PrintRow(p) \/ Flush(p))
          \/ finish_monitor(p) \/ ClearPointer(p) \/ Leave(p) \/ Kill(p)

Spec == Init /\ [][Next]_vars
-----------------------------------------------------------------------------
RowsOf(p) == {i \in 1..Len(file) : file[i] # Header /\ file[i].run = p}
Logged(p) == {n \in 1..idx[p] : n > env[p].warmup}

TypeOK == /\ env \in [Procs -> Envs]
          /\ pc \in [Procs -> Ended \cup {"off", "open", "size", "header", "spawn",
                                          "running", "closed", "leaving"}]
          /\ monitor \in [Procs -> {"none", "sleep", "log", "print", "flush"}]
          /\ fp \in [Procs -> {"NULL", "open", "freed"}]
          /\ idx \in [Procs -> 0..MaxWindows]
          /\ \A p \in Procs : Len(buffer[p]) <= 1 /\ Len(at[p]) = idx[p]

(* What fit_models.py reads starts with the names of the columns, however  *)
(* many processes start at once and wherever they are killed; they are not *)
(* repeated among the rows unless two saw the file empty at the same time  *)
(* (libmonitor.c:1078-1114).                                               *)
HeaderFirst ==
  /\ file # <<>> => file[1] = Header
  /\ ~raced => \A i \in 2..Len(file) : file[i] # Header

(* The rows of a process are its windows after the warm-up, in order and   *)
(* without a gap; while it runs, and when it is killed, all but the one it *)
(* was writing are there (libmonitor.c:605-698, 1226-1229).                *)
RowsSurvive ==
  \A p \in Procs :
    /\ \A i, j \in RowsOf(p) : i < j => file[i].window_idx < file[j].window_idx
    /\ \A i \in RowsOf(p) : file[i].window_idx \in Logged(p)
    /\ \A n \in Logged(p) :
         \/ \E i \in RowsOf(p) : file[i].window_idx = n
         \/ /\ \A i \in RowsOf(p) : file[i].window_idx < n
            /\ fp[p] = "open" => n = idx[p] /\ monitor[p] # "sleep"

(* The rates of a row are taken over exactly the time since the window     *)
(* before it, logged or not, and only a run without a warm-up has a row    *)
(* (its first) that covers no time (libmonitor.c:594-597, 609-610).        *)
RatesCoverTheWindow ==
  \A i \in 2..Len(file) : file[i] # Header =>
    LET r == file[i]
        n == r.window_idx IN
      /\ n > 1 => r.dt_ms = at[r.run][n] - at[r.run][n - 1]
      /\ env[r.run].warmup >= 1 => r.dt_ms > 0

(* The data set a training leaves is complete, in order, and headed by the *)
(* names of its columns, through kills, exits and several processes on one *)
(* file (libmonitor.c:604-699, 1078-1114, 1215-1230).                      *)
DatasetIsSound == HeaderFirst /\ RowsSurvive /\ RatesCoverTheWindow
=============================================================================
