------------------------------ MODULE Affinity ------------------------------
(***************************************************************************)
(* Placing every thread of a process.  A pass of the daemon pins the main  *)
(* thread, walks /proc/<pid>/task and pins what it finds there             *)
(* (set_affinity_for_all_threads), sleeps, and walks again to log on which *)
(* cores the threads were last seen (summarize_psr_for_process).  The      *)
(* workload creates and ends threads all the while, the kernel gives the   *)
(* TIDs of the dead to new threads, of this process or of another.         *)
(*                                                                         *)
(* The kernel is external: a new thread inherits the mask of its creator;  *)
(* a thread that is pinned while it sleeps stays where it was last seen    *)
(* until it runs; readdir returns every entry that was there at opendir    *)
(* and still is, maybe those of threads that have ended since, and maybe   *)
(* those of threads created since.                                         *)
(***************************************************************************)
EXTENDS Naturals, FiniteSets

CONSTANTS Pid,            \* the main thread
          Others,         \* the TIDs of its other threads
          MaxCreated,     \* bound: threads created
          MaxDecisions,   \* bound: changes of the decision
          MaxFailures     \* bound: times opendir, or set_affinity, fails on
                          \* what is alive

ASSUME PidAssumption == Pid \notin Others
ASSUME BoundsAssumption == {MaxCreated, MaxDecisions, MaxFailures} \subseteq Nat

Tids == {Pid} \cup Others

P_CORESET == {"P"}
E_CORESET == {"E"}
ALL_CORESET == {"P", "E"}
Coresets == {P_CORESET, E_CORESET, ALL_CORESET}

VARIABLES task,           \* per TID: "free", "ours" or "other", a foreign task
          mask, cpu,      \* per TID: the kernel's mask, and where it last ran
          phase,          \* of the daemon's pass
          coreset,        \* the coreset the pass applies
          todo, listed,   \* the directory: still to return, and returned
          sum,            \* PsrSummary
          created, decisions, failures,   \* counters of the bounds
          pinned, born,   \* history: threads the walk pinned, or created by
                          \* one it had pinned; threads created since opendir
          refused,        \* history: threads of which the last set_affinity
                          \* of this pass failed
          walked          \* history: the walk of this pass is complete

kernel == <<task, mask, cpu>>
bounds == <<created, decisions, failures>>
daemon == <<phase, coreset, walked>>
dir == <<todo, listed>>
marks == <<pinned, born, refused>>
vars == <<kernel, daemon, dir, sum, bounds, marks>>

Ours == {t \in Tids : task[t] = "ours"}

is_process_alive(t) == task[t] # "free"          \* kill(t, 0)

NoThreads == [p_threads |-> 0, e_threads |-> 0, total_threads |-> 0]

Init == /\ task \in [Tids -> {"ours", "free"}] /\ task[Pid] = "ours"
        /\ mask = [t \in Tids |-> ALL_CORESET]
        /\ cpu = [t \in Tids |-> "P"]
        /\ phase = "idle"
        /\ coreset = ALL_CORESET
        /\ todo = {} /\ listed = {}
        /\ sum = NoThreads
        /\ created = 0 /\ decisions = 0 /\ failures = 0
        /\ pinned = {} /\ born = {} /\ refused = {} /\ walked = FALSE

-----------------------------------------------------------------------------
(* The workload and the kernel.                                            *)

Create(t, u) ==
  /\ task[t] = "ours" /\ task[u] = "free" /\ created < MaxCreated
  /\ created' = created + 1
  /\ task' = [task EXCEPT ![u] = "ours"]
  /\ mask' = [mask EXCEPT ![u] = mask[t]]
  /\ \E c \in mask[t] : cpu' = [cpu EXCEPT ![u] = c]
  /\ born' = born \cup {u}
  /\ pinned' = IF t \in pinned THEN pinned \cup {u} ELSE pinned \ {u}
  /\ refused' = refused \ {u}
  /\ UNCHANGED <<daemon, dir, sum, decisions, failures>>

Gone(T) ==
  /\ task' = [t \in Tids |-> IF t \in T THEN "free" ELSE task[t]]
  /\ pinned' = pinned \ T
  /\ born' = born \ T
  /\ refused' = refused \ T
  /\ todo' \in {todo, todo \ T}
  /\ mask' = [t \in Tids |-> IF t \in T THEN ALL_CORESET ELSE mask[t]]
  /\ cpu' = [t \in Tids |-> IF t \in T THEN "P" ELSE cpu[t]]
  /\ UNCHANGED <<daemon, listed, sum, bounds>>

Exit(t) == task[t] = "ours" /\ t # Pid /\ Gone({t})
ExitProcess == task[Pid] = "ours" /\ Gone(Ours)

(* A TID of a process that lives is taken by another process.              *)
Reuse(u) ==
  /\ task[u] = "free" /\ task[Pid] = "ours" /\ created < MaxCreated
  /\ created' = created + 1
  /\ task' = [task EXCEPT ![u] = "other"]
  /\ mask' = [mask EXCEPT ![u] = ALL_CORESET]
  /\ UNCHANGED <<cpu, daemon, dir, sum, decisions, failures, marks>>

Run(t) == /\ task[t] = "ours"
          /\ \E c \in mask[t] : cpu' = [cpu EXCEPT ![t] = c]
          /\ UNCHANGED <<task, mask, daemon, dir, sum, bounds, marks>>

-----------------------------------------------------------------------------
(* The pass.                                                               *)

(* A thread that has ended is ESRCH; of one that lives strdup may find no  *)
(* memory, or sched_setaffinity say EPERM or EINVAL: it stays as it is.    *)
set_affinity(t) ==
  \/ /\ task[t] = "free"
     /\ UNCHANGED <<kernel, pinned, refused, failures>>
  \/ /\ task[t] # "free"
     /\ mask' = [mask EXCEPT ![t] = coreset]
     /\ \E c \in coreset \cup {cpu[t]} : cpu' = [cpu EXCEPT ![t] = c]
     /\ pinned' = IF task[t] = "ours" THEN pinned \cup {t} ELSE pinned
     /\ refused' = refused \ {t}
     /\ UNCHANGED <<task, failures>>
  \/ /\ task[t] # "free" /\ failures < MaxFailures
     /\ failures' = failures + 1
     /\ refused' = IF task[t] = "ours" THEN refused \cup {t} ELSE refused
     /\ UNCHANGED <<kernel, pinned>>

(* Mutant: a decision that is the one before is not applied again.         *)
DecideOnlyOnChange(c) ==
  /\ phase = "idle" /\ c # coreset /\ decisions < MaxDecisions
  /\ decisions' = decisions + 1
  /\ coreset' = c
  /\ phase' = IF is_process_alive(Pid) THEN "main" ELSE "ended"
  /\ pinned' = {} /\ born' = {} /\ refused' = {} /\ walked' = FALSE
  /\ UNCHANGED <<kernel, dir, sum, created, failures>>

Decide(c) ==
  /\ phase = "idle"
  /\ c # coreset => decisions < MaxDecisions
  /\ decisions' = IF c = coreset THEN decisions ELSE decisions + 1
  /\ coreset' = c
  /\ phase' = IF is_process_alive(Pid) THEN "main" ELSE "ended"
  /\ pinned' = {} /\ born' = {} /\ refused' = {} /\ walked' = FALSE
  /\ UNCHANGED <<kernel, dir, sum, created, failures>>

(* Mutant: the main thread is left to the walk, which skips it.            *)
PinMainLeftToTheWalk == /\ phase = "main" /\ phase' = "open"
                        /\ UNCHANGED <<kernel, marks, coreset, walked, dir, sum, bounds>>

PinMain ==
  /\ phase = "main"
  /\ set_affinity(Pid)
  /\ phase' = "open"
  /\ UNCHANGED <<coreset, walked, dir, sum, created, decisions, born>>

opendir(next, failed) ==
  \/ /\ task[Pid] = "ours"
     /\ todo' = Ours /\ listed' = {}
     /\ phase' = next
     /\ UNCHANGED failures
  \/ /\ task[Pid] # "ours" /\ UNCHANGED failures                   \* ENOENT
     /\ todo' = {} /\ listed' = {}
     /\ phase' = failed
  \/ /\ task[Pid] = "ours" /\ failures < MaxFailures               \* EMFILE, ENOMEM
     /\ failures' = failures + 1
     /\ todo' = {} /\ listed' = {}
     /\ phase' = failed

OpenTasks ==
  /\ phase = "open"
  /\ opendir("walk", "sleep")
  /\ born' = {}
  /\ UNCHANGED <<kernel, coreset, walked, sum, created, decisions, pinned, refused>>

readdir(t) == /\ t \in todo
              /\ listed' = listed \cup {t}
              /\ \E new \in SUBSET (Ours \ listed') : todo' = (todo \ {t}) \cup new

PinEntry(t) ==
  /\ phase = "walk"
  /\ readdir(t)
  /\ IF t # Pid /\ is_process_alive(t) THEN set_affinity(t)
                                       ELSE UNCHANGED <<kernel, pinned, refused, failures>>
  /\ UNCHANGED <<daemon, sum, created, decisions, born>>

EndWalk ==
  /\ phase = "walk" /\ todo = {}
  /\ phase' = "sleep" /\ walked' = TRUE
  /\ listed' = {}
  /\ UNCHANGED <<kernel, coreset, todo, sum, bounds, marks>>

Summarize ==
  /\ phase = "sleep"
  /\ sum' = NoThreads
  /\ opendir("count", "idle")
  /\ UNCHANGED <<kernel, coreset, walked, created, decisions, marks>>

(* read_processor_from_tid fails for a thread that has ended; it finds the *)
(* one that has its TID now, whosever it is.                               *)
CountEntry(t) ==
  /\ phase = "count"
  /\ readdir(t)
  /\ IF task[t] = "free" THEN UNCHANGED sum
     ELSE sum' = [p_threads |-> sum.p_threads + (IF cpu[t] = "P" THEN 1 ELSE 0),
                  e_threads |-> sum.e_threads + (IF cpu[t] = "E" THEN 1 ELSE 0),
                  total_threads |-> sum.total_threads + 1]
  /\ UNCHANGED <<kernel, daemon, bounds, marks>>

EndPass ==
  /\ phase = "count" /\ todo = {}
  /\ phase' = "idle"
  /\ listed' = {} /\ sum' = NoThreads
  /\ UNCHANGED <<kernel, coreset, walked, todo, bounds, marks>>

Daemon == \/ \E c \in Coresets : Decide(c)
          \/ PinMain \/ OpenTasks
          \/ \E t \in Tids : PinEntry(t) \/ CountEntry(t)
          \/ EndWalk \/ Summarize \/ EndPass

Workload == \/ \E t \in Tids, u \in Others : Create(t, u)
            \/ \E t \in Tids : Exit(t) \/ Run(t)
            \/ ExitProcess
            \/ \E u \in Others : Reuse(u)

Next == Daemon \/ Workload

Spec == Init /\ [][Next]_vars

(* The daemon's loop is scheduled again and again; the workload owes       *)
(* nothing.                                                                *)
FairSpec == Spec /\ WF_vars(Daemon)
-----------------------------------------------------------------------------
TypeOK ==
  /\ task \in [Tids -> {"free", "ours", "other"}]
  /\ mask \in [Tids -> Coresets]
  /\ cpu \in [Tids -> ALL_CORESET]
  /\ phase \in {"idle", "main", "open", "walk", "sleep", "count", "ended"}
  /\ coreset \in Coresets
  /\ todo \subseteq Tids /\ listed \subseteq Tids
  /\ sum \in [p_threads : Nat, e_threads : Nat, total_threads : Nat]
  /\ created \in 0..MaxCreated /\ decisions \in 0..MaxDecisions
  /\ failures \in 0..MaxFailures
  /\ pinned \subseteq Tids /\ born \subseteq Tids /\ refused \subseteq Tids
  /\ walked \in BOOLEAN

(* What a walk misses: once it is over, a thread that may run outside the  *)
(* coreset is one set_affinity failed on, which nobody notices, or was     *)
(* created after the directory was opened, by a thread that was not yet    *)
(* pinned, or descends from one.  The main thread is tried before the      *)
(* directory is opened, and not again by the walk: if it is pinned nothing *)
(* it creates is missed (scheduler.c:798-801, 819-850).                    *)
Stray(t) == t \in born \ pinned

WalkMissesOnlyStrays ==
  walked \/ phase = "walk" =>
    \A t \in Ours : \/ mask[t] = coreset
                    \/ t \in refused \/ Stray(t)
                    \/ ~walked /\ t \in todo

(* When the workload stops creating threads, the decision settles and the  *)
(* calls do not fail for ever, every thread ends up inside the coreset:    *)
(* what one walk misses, the walk of the next pass finds                   *)
(* (scheduler.c:1305, 1327).                                               *)
AllThreadsSettle ==
  <>[](task[Pid] = "ours" => \A t \in Ours : mask[t] = coreset)
=============================================================================
