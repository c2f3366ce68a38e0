--------------------------- MODULE ProgramsProofs ---------------------------
(***************************************************************************)
(* TLAPS proofs about the programs of Programs.  Affinity, for any number  *)
(* of threads and any bounds: a walk over /proc/<pid>/task misses nothing  *)
(* but strays, whatever is created, ends, or has its id used again under   *)
(* it.  The classifiers, for every file, feature vector and unit of        *)
(* probability: what they take they give back, and what they answer is a   *)
(* distribution.                                                           *)
(***************************************************************************)
EXTENDS MeasurementProofs, RecordingProofs

-----------------------------------------------------------------------------
(* Affinity.                                                               *)

(* What was pinned in this pass is still a thread of the process, inside   *)
(* the coreset; a thread that was created since the directory was opened   *)
(* is one of the process too.                                              *)
PinnedStayInside ==
  /\ pinned \subseteq Ours
  /\ born \subseteq Ours
  /\ \A t \in pinned : mask[t] = coreset

(* A walk is complete only after its phase; from the moment the directory  *)
(* is opened the main thread has been tried, for its TID is not used again *)
(* while anything of the process is left to pin.                           *)
MainIsPinned ==
  /\ phase \in {"main", "open", "walk"} => ~ walked
  /\ phase \in {"open", "walk"} /\ task[Pid] = "ours" => Pid \in pinned \cup refused

(* Every thread has been reached, is about to be, or came later.           *)
Reached ==
  /\ phase = "walk" => \A t \in Ours : t \in pinned \cup refused \cup born \cup todo
  /\ walked => \A t \in Ours : t \in pinned \cup refused \cup born

IInv == TypeOK /\ PinnedStayInside /\ MainIsPinned /\ Reached

-----------------------------------------------------------------------------
(* Type correctness.                                                       *)

LEMMA TypeInit == Init => TypeOK
<1> SUFFICES ASSUME Init PROVE TypeOK
  OBVIOUS
<1>1. task \in [Tids -> {"free", "ours", "other"}]
  BY DEF Init
<1>2. mask \in [Tids -> Coresets]
  BY DEF Init, Coresets, ALL_CORESET
<1>3. cpu \in [Tids -> ALL_CORESET]
  BY DEF Init, ALL_CORESET
<1>4. sum \in [p_threads : Nat, e_threads : Nat, total_threads : Nat]
  BY DEF Init, NoThreads
<1>5. /\ created \in 0..MaxCreated /\ decisions \in 0..MaxDecisions
      /\ failures \in 0..MaxFailures
  BY BoundsAssumption DEF Init
<1> QED
  BY <1>1, <1>2, <1>3, <1>4, <1>5 DEF Init, TypeOK, Coresets

(* The three ways a call of set_affinity ends.                             *)
LEMMA SetAffinityCases ==
  ASSUME NEW t \in Tids, set_affinity(t)
  PROVE  \/ UNCHANGED <<task, mask, cpu, pinned, refused, failures>>
         \/ /\ UNCHANGED <<task, failures>>
            /\ mask' = [mask EXCEPT ![t] = coreset]
            /\ \E c \in coreset \cup {cpu[t]} : cpu' = [cpu EXCEPT ![t] = c]
            /\ pinned' = IF task[t] = "ours" THEN pinned \cup {t} ELSE pinned
            /\ refused' = refused \ {t}
         \/ /\ UNCHANGED <<task, mask, cpu, pinned>>
            /\ failures < MaxFailures /\ failures' = failures + 1
            /\ refused' = IF task[t] = "ours" THEN refused \cup {t} ELSE refused
BY DEF set_affinity, kernel

(* sched_setaffinity keeps the kernel's tables well formed.                *)
LEMMA SetAffinityTyped ==
  ASSUME TypeOK, NEW t \in Tids, set_affinity(t)
  PROVE  /\ task' = task
         /\ mask' \in [Tids -> Coresets]
         /\ cpu' \in [Tids -> ALL_CORESET]
         /\ pinned' \subseteq Tids /\ refused' \subseteq Tids
         /\ failures' \in 0..MaxFailures
<1>1. CASE UNCHANGED <<task, mask, cpu, pinned, refused, failures>>
  BY <1>1 DEF TypeOK
<1>2. CASE /\ UNCHANGED <<task, failures>>
           /\ mask' = [mask EXCEPT ![t] = coreset]
           /\ \E c \in coreset \cup {cpu[t]} : cpu' = [cpu EXCEPT ![t] = c]
           /\ pinned' = IF task[t] = "ours" THEN pinned \cup {t} ELSE pinned
           /\ refused' = refused \ {t}
  <2>1. PICK c \in coreset \cup {cpu[t]} : cpu' = [cpu EXCEPT ![t] = c]
    BY <1>2
  <2>2. c \in ALL_CORESET
    BY <2>1 DEF TypeOK, Coresets, P_CORESET, E_CORESET, ALL_CORESET
  <2>3. cpu' \in [Tids -> ALL_CORESET]
    BY <2>1, <2>2 DEF TypeOK
  <2>4. mask' \in [Tids -> Coresets]
    BY <1>2 DEF TypeOK
  <2> QED
    BY <1>2, <2>3, <2>4 DEF TypeOK
<1>3. CASE /\ UNCHANGED <<task, mask, cpu, pinned>>
           /\ failures < MaxFailures /\ failures' = failures + 1
           /\ refused' = IF task[t] = "ours" THEN refused \cup {t} ELSE refused
  BY <1>3, BoundsAssumption DEF TypeOK
<1> QED
  BY <1>1, <1>2, <1>3, SetAffinityCases

LEMMA ReaddirTyped ==
  ASSUME TypeOK, NEW t \in Tids, readdir(t)
  PROVE  todo' \subseteq Tids /\ listed' \subseteq Tids
BY DEF TypeOK, readdir, Ours

LEMMA OpendirTyped ==
  ASSUME TypeOK, NEW next, NEW failed, opendir(next, failed)
  PROVE  /\ todo' \subseteq Tids /\ listed' \subseteq Tids
         /\ phase' \in {next, failed}
         /\ failures' \in 0..MaxFailures
BY BoundsAssumption DEF TypeOK, opendir, Ours

LEMMA TypeStep == TypeOK /\ [Next]_vars => TypeOK'
<1> SUFFICES ASSUME TypeOK, [Next]_vars PROVE TypeOK'
  OBVIOUS
<1> USE BoundsAssumption
<1>1. ASSUME NEW t \in Tids, NEW u \in Others, Create(t, u) PROVE TypeOK'
  <2>1. t \in Tids /\ u \in Tids
    BY DEF Tids
  <2>2. mask[t] \subseteq ALL_CORESET
    BY <2>1 DEF TypeOK, Coresets, P_CORESET, E_CORESET, ALL_CORESET
  <2>3. cpu' \in [Tids -> ALL_CORESET]
    BY <1>1, <2>1, <2>2 DEF Create, TypeOK
  <2>4. /\ task' \in [Tids -> {"free", "ours", "other"}]
        /\ mask' \in [Tids -> Coresets]
    BY <1>1, <2>1 DEF Create, TypeOK
  <2>5. pinned' \subseteq Tids /\ born' \subseteq Tids /\ refused' \subseteq Tids
    BY <1>1, <2>1 DEF Create, TypeOK
  <2> QED
    BY <1>1, <2>3, <2>4, <2>5 DEF Create, TypeOK, daemon, dir
<1>2. ASSUME NEW T \in SUBSET Tids, Gone(T) PROVE TypeOK'
  <2>1. /\ task' \in [Tids -> {"free", "ours", "other"}]
        /\ mask' \in [Tids -> Coresets]
        /\ cpu' \in [Tids -> ALL_CORESET]
    BY <1>2 DEF Gone, TypeOK, Coresets, ALL_CORESET
  <2> QED
    BY <1>2, <2>1 DEF Gone, TypeOK, daemon, bounds
<1>3. ASSUME NEW u \in Others, Reuse(u) PROVE TypeOK'
  <2>1. u \in Tids
    BY DEF Tids
  <2>2. /\ task' \in [Tids -> {"free", "ours", "other"}]
        /\ mask' \in [Tids -> Coresets]
    BY <1>3, <2>1 DEF Reuse, TypeOK, Coresets
  <2> QED
    BY <1>3, <2>2 DEF Reuse, TypeOK, daemon, dir, marks
<1>4. ASSUME NEW t \in Tids, Run(t) PROVE TypeOK'
  <2>1. mask[t] \subseteq ALL_CORESET
    BY DEF TypeOK, Coresets, P_CORESET, E_CORESET, ALL_CORESET
  <2>2. cpu' \in [Tids -> ALL_CORESET]
    BY <1>4, <2>1 DEF Run, TypeOK
  <2> QED
    BY <1>4, <2>2 DEF Run, TypeOK, daemon, dir, bounds, marks
<1>5. ASSUME NEW c \in Coresets, Decide(c) PROVE TypeOK'
  <2>1. decisions' \in 0..MaxDecisions
    BY <1>5 DEF Decide, TypeOK
  <2>2. phase' \in {"main", "ended"} /\ coreset' \in Coresets
    BY <1>5 DEF Decide
  <2> QED
    BY <1>5, <2>1, <2>2 DEF Decide, TypeOK, kernel, dir
<1>6. CASE PinMain
  <2>1. Pid \in Tids
    BY DEF Tids
  <2> QED
    BY <1>6, <2>1, SetAffinityTyped DEF PinMain, TypeOK, dir
<1>7. CASE OpenTasks
  BY <1>7, OpendirTyped DEF OpenTasks, TypeOK, kernel
<1>8. ASSUME NEW t \in Tids, PinEntry(t) PROVE TypeOK'
  <2>1. todo' \subseteq Tids /\ listed' \subseteq Tids
    BY <1>8, ReaddirTyped DEF PinEntry
  <2>2. /\ task' = task
        /\ mask' \in [Tids -> Coresets]
        /\ cpu' \in [Tids -> ALL_CORESET]
        /\ pinned' \subseteq Tids /\ refused' \subseteq Tids
        /\ failures' \in 0..MaxFailures
    <3>1. CASE t # Pid /\ is_process_alive(t)
      BY <1>8, <3>1, SetAffinityTyped DEF PinEntry
    <3>2. CASE ~ (t # Pid /\ is_process_alive(t))
      BY <1>8, <3>2 DEF PinEntry, TypeOK, kernel
    <3> QED
      BY <3>1, <3>2
  <2> QED
    BY <1>8, <2>1, <2>2 DEF PinEntry, TypeOK, daemon
<1>9. CASE EndWalk
  BY <1>9 DEF EndWalk, TypeOK, kernel, bounds, marks
<1>10. CASE Summarize
  BY <1>10, OpendirTyped DEF Summarize, TypeOK, kernel, marks, NoThreads
<1>11. ASSUME NEW t \in Tids, CountEntry(t) PROVE TypeOK'
  <2>1. todo' \subseteq Tids /\ listed' \subseteq Tids
    BY <1>11, ReaddirTyped DEF CountEntry
  <2>2. sum' \in [p_threads : Nat, e_threads : Nat, total_threads : Nat]
    BY <1>11 DEF CountEntry, TypeOK
  <2> QED
    BY <1>11, <2>1, <2>2 DEF CountEntry, TypeOK, kernel, daemon, bounds, marks
<1>12. CASE EndPass
  BY <1>12 DEF EndPass, TypeOK, kernel, bounds, marks, NoThreads
<1>13. CASE UNCHANGED vars
  BY <1>13 DEF TypeOK, vars, kernel, daemon, dir, bounds, marks
<1>14. Ours \in SUBSET Tids /\ \A t \in Tids : {t} \in SUBSET Tids
  BY DEF Ours
<1> QED
  BY <1>1, <1>2, <1>3, <1>4, <1>5, <1>6, <1>7, <1>8, <1>9, <1>10, <1>11, <1>12,
     <1>13, <1>14 DEF Next, Daemon, Workload, Exit, ExitProcess

(* No other program touches what the pass and the workload share.          *)
LEMMA AffinitySteps == [ProgramNext]_all => [Next]_vars
BY DEF ProgramNext, all

(* Types of the daemon's pass and of the kernel's tables                   *)
(* (scheduler.c:335-397, 787-850).                                         *)
THEOREM AffinityTypeCorrect == ProgramSpec => []TypeOK
<1>1. ProgramInit => TypeOK
  BY TypeInit DEF ProgramInit
<1>2. TypeOK /\ [ProgramNext]_all => TypeOK'
  BY TypeStep, AffinitySteps
<1> QED
  BY <1>1, <1>2, PTL DEF ProgramSpec

-----------------------------------------------------------------------------
(* What the walk has reached.                                              *)

LEMMA ReachedInit == Init => PinnedStayInside /\ MainIsPinned /\ Reached
BY DEF Init, PinnedStayInside, MainIsPinned, Reached, Ours

(* sched_setaffinity pins a thread of the process or is refused, and takes *)
(* none out.                                                               *)
LEMMA SetAffinityPins ==
  ASSUME IInv, NEW t \in Tids, set_affinity(t)
  PROVE  /\ task' = task
         /\ pinned \cup refused \subseteq pinned' \cup refused' \cup {u \in Tids : task[u] # "ours"}
         /\ task[t] = "ours" => t \in pinned' \cup refused'
         /\ pinned' \subseteq Ours
         /\ \A u \in pinned' : mask'[u] = coreset
<1>1. /\ mask \in [Tids -> Coresets] /\ pinned \subseteq Tids /\ refused \subseteq Tids
      /\ pinned \subseteq Ours /\ \A u \in pinned : mask[u] = coreset
  BY DEF IInv, TypeOK, PinnedStayInside
<1>2. CASE task[t] = "free"
  BY <1>1, <1>2 DEF set_affinity, kernel
<1>3. CASE task[t] # "free"
  <2>1. task' = task
    BY <1>3 DEF set_affinity, kernel
  <2>2. CASE /\ mask' = [mask EXCEPT ![t] = coreset]
             /\ pinned' = IF task[t] = "ours" THEN pinned \cup {t} ELSE pinned
             /\ refused' = refused \ {t}
    BY <1>1, <2>1, <2>2 DEF Ours
  <2>3. CASE /\ mask' = mask /\ pinned' = pinned
             /\ refused' = IF task[t] = "ours" THEN refused \cup {t} ELSE refused
    BY <1>1, <2>1, <2>3
  <2> QED
    BY <1>3, <2>2, <2>3 DEF set_affinity, kernel
<1> QED
  BY <1>2, <1>3

(* A thread that comes.                                                    *)
LEMMA CreateReaches ==
  ASSUME IInv, NEW t \in Tids, NEW u \in Others, Create(t, u)
  PROVE  PinnedStayInside' /\ MainIsPinned' /\ Reached'
<1>1. u \in Tids /\ u # Pid
  BY PidAssumption DEF Tids
<1>2. /\ task' = [task EXCEPT ![u] = "ours"]
      /\ mask' = [mask EXCEPT ![u] = mask[t]]
      /\ born' = born \cup {u}
      /\ pinned' = IF t \in pinned THEN pinned \cup {u} ELSE pinned \ {u}
      /\ refused' = refused \ {u}
      /\ phase' = phase /\ coreset' = coreset /\ walked' = walked
      /\ todo' = todo
      /\ task[u] = "free"
  BY DEF Create, daemon, dir
<1>3. task \in [Tids -> {"free", "ours", "other"}] /\ mask \in [Tids -> Coresets]
  BY DEF IInv, TypeOK
<1>4. Ours' = Ours \cup {u} /\ u \notin Ours
  BY <1>1, <1>2, <1>3 DEF Ours
<1>5. u \notin pinned /\ pinned \subseteq Tids
  BY <1>4 DEF IInv, PinnedStayInside, TypeOK
<1>6. PinnedStayInside'
  <2>1. \A v \in pinned' : mask'[v] = coreset'
    <3> SUFFICES ASSUME NEW v \in pinned' PROVE mask'[v] = coreset'
      OBVIOUS
    <3>1. CASE v = u
      BY <1>1, <1>2, <1>3, <3>1, <1>5 DEF IInv, PinnedStayInside
    <3>2. CASE v # u
      BY <1>2, <1>3, <1>5, <3>2 DEF IInv, PinnedStayInside
    <3> QED
      BY <3>1, <3>2
  <2> QED
    BY <1>2, <1>4, <2>1 DEF IInv, PinnedStayInside
<1>7. MainIsPinned'
  BY <1>1, <1>2, <1>3 DEF IInv, MainIsPinned, Tids
<1>8. Reached'
  BY <1>2, <1>4, <1>5 DEF IInv, Reached
<1> QED
  BY <1>6, <1>7, <1>8

(* Threads that go.                                                        *)
LEMMA GoneReaches ==
  ASSUME IInv, NEW T \in SUBSET Tids, Gone(T)
  PROVE  PinnedStayInside' /\ MainIsPinned' /\ Reached'
<1>1. Ours' = Ours \ T
  BY DEF Gone, Ours
<1>2. \A t \in Tids \ T : mask'[t] = mask[t] /\ task'[t] = task[t]
  BY DEF Gone
<1>3. pinned \subseteq Tids
  BY DEF IInv, TypeOK
<1>4. /\ pinned' = pinned \ T /\ born' = born \ T /\ refused' = refused \ T
      /\ todo' \in {todo, todo \ T}
      /\ phase' = phase /\ coreset' = coreset /\ walked' = walked
  BY DEF Gone, daemon
<1>5. PinnedStayInside'
  BY <1>1, <1>2, <1>3, <1>4 DEF IInv, PinnedStayInside
<1>6. MainIsPinned'
  <2>1. task'[Pid] = "ours" => Pid \notin T /\ task[Pid] = "ours"
    BY <1>2 DEF Gone, Tids
  <2> QED
    BY <1>4, <2>1 DEF IInv, MainIsPinned
<1>7. Reached'
  BY <1>1, <1>4 DEF IInv, Reached
<1> QED
  BY <1>5, <1>6, <1>7

(* A TID of the dead that another process has now.                         *)
LEMMA ReuseReaches ==
  ASSUME IInv, NEW u \in Others, Reuse(u)
  PROVE  PinnedStayInside' /\ MainIsPinned' /\ Reached'
<1>1. u \in Tids /\ u # Pid
  BY PidAssumption DEF Tids
<1>2. /\ task' = [task EXCEPT ![u] = "other"]
      /\ mask' = [mask EXCEPT ![u] = ALL_CORESET]
      /\ pinned' = pinned /\ refused' = refused /\ born' = born /\ todo' = todo
      /\ phase' = phase /\ coreset' = coreset /\ walked' = walked
      /\ task[u] = "free"
  BY DEF Reuse, daemon, dir, marks
<1>3. /\ task \in [Tids -> {"free", "ours", "other"}] /\ mask \in [Tids -> Coresets]
      /\ pinned \subseteq Tids
  BY DEF IInv, TypeOK
<1>4. Ours' = Ours /\ u \notin Ours
  BY <1>1, <1>2, <1>3 DEF Ours
<1>5. PinnedStayInside'
  BY <1>2, <1>3, <1>4 DEF IInv, PinnedStayInside
<1>6. MainIsPinned'
  BY <1>1, <1>2, <1>3 DEF IInv, MainIsPinned, Tids
<1>7. Reached'
  BY <1>2, <1>4 DEF IInv, Reached
<1> QED
  BY <1>5, <1>6, <1>7

(* The directory is opened once the main thread has been tried.            *)
LEMMA OpenTasksReaches ==
  ASSUME IInv, OpenTasks
  PROVE  PinnedStayInside' /\ MainIsPinned' /\ Reached'
<1>1. /\ task' = task /\ mask' = mask /\ pinned' = pinned /\ born' = {}
      /\ refused' = refused
      /\ coreset' = coreset /\ walked' = walked /\ phase = "open"
      /\ (phase' = "walk" /\ todo' = Ours) \/ phase' = "sleep"
  BY DEF OpenTasks, opendir, kernel
<1>2. Ours' = Ours
  BY <1>1 DEF Ours
<1>3. ~ walked
  BY <1>1 DEF IInv, MainIsPinned
<1> QED
  BY <1>1, <1>2, <1>3 DEF IInv, PinnedStayInside, MainIsPinned, Reached

(* An entry of the directory: it is pinned or refused, or it is the main   *)
(* thread, which was tried before, or nothing of the process has that TID. *)
LEMMA PinEntryReaches ==
  ASSUME IInv, NEW t \in Tids, PinEntry(t)
  PROVE  PinnedStayInside' /\ MainIsPinned' /\ Reached'
<1>1. /\ phase = "walk" /\ phase' = phase /\ coreset' = coreset /\ walked' = walked
      /\ born' = born
      /\ todo \ {t} \subseteq todo'
  BY DEF PinEntry, daemon, readdir
<1>2. /\ task' = task
      /\ pinned \cup refused \subseteq pinned' \cup refused' \cup {u \in Tids : task[u] # "ours"}
      /\ task[t] = "ours" => t \in pinned' \cup refused'
      /\ pinned' \subseteq Ours
      /\ \A u \in pinned' : mask'[u] = coreset
  <2>1. CASE t # Pid /\ is_process_alive(t)
    BY <2>1, SetAffinityPins DEF PinEntry
  <2>2. CASE t = Pid
    BY <1>1, <2>2 DEF PinEntry, kernel, IInv, PinnedStayInside, MainIsPinned
  <2>3. CASE t # Pid /\ ~ is_process_alive(t)
    BY <2>3 DEF PinEntry, kernel, is_process_alive, IInv, PinnedStayInside
  <2> QED
    BY <2>1, <2>2, <2>3
<1>3. Ours' = Ours
  BY <1>2 DEF Ours
<1>4. PinnedStayInside'
  BY <1>1, <1>2, <1>3 DEF IInv, PinnedStayInside
<1>5. MainIsPinned'
  BY <1>1, <1>2 DEF IInv, MainIsPinned
<1>6. Reached'
  <2>1. ~ walked
    BY <1>1 DEF IInv, MainIsPinned
  <2>2. ASSUME NEW u \in Ours PROVE u \in pinned' \cup refused' \cup born' \cup todo'
    BY <1>1, <1>2 DEF IInv, Reached, Ours
  <2> QED
    BY <1>1, <1>3, <2>1, <2>2 DEF Reached
<1> QED
  BY <1>4, <1>5, <1>6

(* The steps that move no thread.                                          *)
LEMMA QuietReaches ==
  ASSUME IInv, task' = task, mask' = mask, pinned' = pinned, born' = born,
         refused' = refused, coreset' = coreset,
         \/ phase' = phase /\ walked' = walked /\ todo' = todo
         \/ phase' \notin {"main", "open", "walk"} /\ walked' = walked
         \/ phase' = "sleep" /\ phase = "walk" /\ todo = {}
  PROVE  PinnedStayInside' /\ MainIsPinned' /\ Reached'
<1>1. Ours' = Ours
  BY DEF Ours
<1> QED
  BY <1>1 DEF IInv, PinnedStayInside, MainIsPinned, Reached

LEMMA ReachedStep ==
  IInv /\ [Next]_vars => PinnedStayInside' /\ MainIsPinned' /\ Reached'
<1> SUFFICES ASSUME IInv, [Next]_vars
             PROVE  PinnedStayInside' /\ MainIsPinned' /\ Reached'
  OBVIOUS
<1>1. ASSUME NEW t \in Tids, Run(t)
      PROVE  PinnedStayInside' /\ MainIsPinned' /\ Reached'
  BY <1>1, QuietReaches DEF Run, daemon, dir, marks
<1>2. ASSUME NEW c \in Coresets, Decide(c)
      PROVE  PinnedStayInside' /\ MainIsPinned' /\ Reached'
  BY <1>2 DEF Decide, PinnedStayInside, MainIsPinned, Reached
<1>3. CASE PinMain
  <2>1. Pid \in Tids /\ set_affinity(Pid)
    BY <1>3 DEF Tids, PinMain
  <2>2. /\ task' = task /\ pinned' \subseteq Ours
        /\ task[Pid] = "ours" => Pid \in pinned' \cup refused'
        /\ \A u \in pinned' : mask'[u] = coreset
    BY <2>1, SetAffinityPins
  <2>3. Ours' = Ours
    BY <2>2 DEF Ours
  <2> QED
    BY <1>3, <2>2, <2>3 DEF PinMain, IInv, PinnedStayInside, MainIsPinned, Reached
<1>4. ASSUME NEW t \in Tids, CountEntry(t)
      PROVE  PinnedStayInside' /\ MainIsPinned' /\ Reached'
  BY <1>4, QuietReaches DEF CountEntry, kernel, daemon, marks
<1>5. CASE EndWalk
  BY <1>5, QuietReaches DEF EndWalk, kernel, marks
<1>6. CASE Summarize
  BY <1>6, QuietReaches DEF Summarize, opendir, kernel, marks
<1>7. CASE EndPass
  BY <1>7, QuietReaches DEF EndPass, kernel, marks
<1>8. CASE UNCHANGED vars
  BY <1>8, QuietReaches DEF vars, kernel, daemon, dir, marks
<1>9. Ours \in SUBSET Tids /\ \A t \in Tids : {t} \in SUBSET Tids
  BY DEF Ours
<1> QED
  BY <1>1, <1>2, <1>3, <1>4, <1>5, <1>6, <1>7, <1>8, <1>9, CreateReaches,
     GoneReaches, ReuseReaches, OpenTasksReaches, PinEntryReaches
     DEF Next, Daemon, Workload, Exit, ExitProcess

LEMMA Invariance == ProgramSpec => []IInv
<1>1. ProgramInit => IInv
  BY TypeInit, ReachedInit DEF IInv, ProgramInit
<1>2. IInv /\ [ProgramNext]_all => IInv'
  BY TypeStep, ReachedStep, AffinitySteps DEF IInv
<1> QED
  BY <1>1, <1>2, PTL DEF ProgramSpec

(* The walk of set_affinity_for_all_threads misses no thread that it could *)
(* have met: when it is over, a thread outside the coreset is one that     *)
(* set_affinity failed on, or was created after the directory was opened,  *)
(* by a thread the walk had not pinned, or descends from one               *)
(* (scheduler.c:787-850).                                                  *)
THEOREM WalkIsComplete == ProgramSpec => []WalkMissesOnlyStrays
<1>1. IInv => WalkMissesOnlyStrays
  BY DEF IInv, PinnedStayInside, MainIsPinned, Reached, WalkMissesOnlyStrays, Stray
<1> QED
  BY <1>1, Invariance, PTL

-----------------------------------------------------------------------------
(* The classifiers.  What is held before each step of a call, and after    *)
(* the last one.                                                           *)

InitHolds(v) ==
  CASE v = "cjson" ->
         <<{}, {"file"}, {"file", "text"}, {"text"}, {"text", "json"}, {"json"},
           {"json", "trees"}, {"trees"}>>
    [] v = "cjson_2step" ->
         <<{}, {"file"}, {"file", "text"}, {"text"}, {"text", "step1"}, {"step1"},
           {"file", "step1"}, {"file", "text", "step1"}, {"text", "step1"},
           {"text", "step1", "step2"}, {"step1", "step2"},
           {"step1", "step2", "feature_names"}>>
    [] v = "onnx" ->
         LET session == {"ort", "env", "options", "session1"}
             ready == session \cup {"allocator"} IN
         <<{}, {"ort"}, {"ort", "env"}, {"ort", "env", "options"}, session,
           session \cup {"memory_info"}, ready \cup {"memory_info"}, ready,
           ready \cup {"input1"}, ready \cup {"input1", "prob1"}>>
    [] v = "onnx_2step" ->
         LET session == {"ort", "env", "options", "session1"}
             both == session \cup {"session2"}
             ready == both \cup {"allocator"} IN
         <<{}, {"ort"}, {"ort", "env"}, {"ort", "env", "options"}, session, both,
           both \cup {"memory_info"}, ready \cup {"memory_info"}, ready,
           ready \cup {"input1"}, ready \cup {"input1", "prob1"},
           ready \cup {"input1", "prob1", "input2"},
           ready \cup {"input1", "prob1", "input2", "prob2"}>>

(* A classification adds to what its classifier owns, and gives it back.   *)
ClassifyAdds(v, step2) ==
  LET tensor == {"input_tensor"}
      out == tensor \cup {"output1"} IN
  CASE ~Forest!Onnx(v) -> <<{}, {}>>
    [] Forest!Onnx(v) /\ ~step2 ->
         <<{}, {"memory_info"}, tensor \cup {"memory_info"}, tensor, out, out, tensor, {}>>
    [] Forest!Onnx(v) /\ step2 ->
         <<{}, {"memory_info"}, tensor \cup {"memory_info"}, tensor, out, out,
           out \cup {"output2"}, out \cup {"output2"}, out, tensor, {}>>

(* What is left of it after a cleanup has dropped the first n.             *)
CleanupLeaves(v) ==
  CASE v = "cjson" -> <<{"trees"}, {}>>
    [] v = "cjson_2step" ->
         <<{"step1", "step2", "feature_names"}, {"step2", "feature_names"},
           {"feature_names"}, {}>>
    [] v = "onnx" ->
         LET runtime == {"ort", "env", "options"} IN
         <<runtime \cup {"session1", "allocator", "prob1", "input1"},
           runtime \cup {"session1", "allocator", "prob1"},
           runtime \cup {"session1", "allocator"}, runtime \cup {"session1"},
           runtime, {"ort", "env"}, {"ort"}, {}>>
    [] v = "onnx_2step" ->
         LET runtime == {"ort", "env", "options"}
             ready == runtime \cup {"session1", "session2", "allocator"} IN
         <<ready \cup {"prob1", "input1", "prob2", "input2"},
           ready \cup {"prob1", "prob2", "input2"}, ready \cup {"prob2", "input2"},
           ready \cup {"prob2"}, ready, runtime \cup {"session1", "session2"},
           runtime \cup {"session2"}, runtime, {"ort", "env"}, {"ort"}, {}>>

Working == {"init", "classify", "classify_step2", "cleanup"}

Holds(i) == CASE call = "init" -> InitHolds(variant)[i]
              [] call = "classify" -> Forest!Owned \cup ClassifyAdds(variant, FALSE)[i]
              [] call = "classify_step2" ->
                   Forest!Owned \cup ClassifyAdds(variant, TRUE)[i]
              [] call = "cleanup" -> CleanupLeaves(variant)[i]

(* Between two calls all or nothing; in a call what its steps so far have  *)
(* made of it, where a cleanup may also have found nothing.                *)
ClassifierInv ==
  /\ variant \in Forest!Variants /\ call \in Working \cup {"idle", "exited"}
  /\ call = "classify_step2" => variant = "onnx_2step"
  /\ call = "idle" => held \in {{}, Forest!Owned}
  /\ call \in Working => /\ step \in 1..Len(Forest!Steps) + 1
                         /\ \/ held = Holds(step)
                            \/ call = "cleanup" /\ held = {}

(* One step takes the set before it to the one after it, and uses nothing  *)
(* else; where it fails in a call that goes back to its caller, nothing is *)
(* left.                                                                   *)
Takes(s, before, after) ==
  /\ s.uses \subseteq before
  /\ \/ s.does \in {"get", "sure"} /\ after = before \cup {s.obj}
     \/ s.does = "use" /\ after = before
     \/ s.does = "drop" /\ s.obj \in before /\ after = before \ {s.obj}
  /\ s.does = "get" => \/ Forest!Onnx(variant) /\ s.obj # "ort"
                       \/ before \ s.undo = {}

Leads == /\ Len(Forest!Steps) \in Nat /\ DOMAIN Forest!Steps = 1..Len(Forest!Steps)
         /\ Holds(1) = (IF call = "init" THEN {} ELSE Forest!Owned)
         /\ Holds(Len(Forest!Steps) + 1) = (IF call = "cleanup" THEN {} ELSE Forest!Owned)
         /\ \A i \in 1..Len(Forest!Steps) :
              Takes(Forest!Steps[i], Holds(i), Holds(i + 1))
         /\ call = "cleanup" => \A i \in 1..Len(Forest!Steps) : Forest!Steps[i].does = "drop"

LEMMA InitLeads ==
  ASSUME variant \in Forest!Variants, call = "init"
  PROVE  Leads
<1> USE DEF Leads, Takes, Holds, Forest!Steps, Forest!Owned, InitHolds, Forest!InitOf,
            Forest!Get, Forest!Sure, Forest!Drop, Forest!OrExit, Forest!Parse,
            Forest!Session, Forest!NameOf, Forest!Onnx
<1>1. CASE variant = "cjson"
  BY <1>1, SMTT(30)
<1>2. CASE variant = "cjson_2step"
  BY <1>2, SMTT(30)
<1>3. CASE variant = "onnx"
  BY <1>3, SMTT(30)
<1>4. CASE variant = "onnx_2step"
  BY <1>4, SMTT(30)
<1> QED
  BY <1>1, <1>2, <1>3, <1>4 DEF Forest!Variants

LEMMA OnnxOwned ==
  ASSUME variant \in {"onnx", "onnx_2step"}
  PROVE  /\ {"ort", "session1", "input1", "prob1"} \subseteq Forest!Owned
         /\ variant = "onnx_2step" => {"session2", "input2", "prob2"} \subseteq Forest!Owned
         /\ "memory_info" \notin Forest!Owned /\ "input_tensor" \notin Forest!Owned
         /\ "output1" \notin Forest!Owned /\ "output2" \notin Forest!Owned
<1>1. CASE variant = "onnx"
  BY <1>1 DEF Forest!Owned
<1>2. CASE variant = "onnx_2step"
  BY <1>2 DEF Forest!Owned
<1> QED
  BY <1>1, <1>2

LEMMA ClassifyLeads ==
  ASSUME variant \in Forest!Variants, call \in {"classify", "classify_step2"},
         call = "classify_step2" => variant = "onnx_2step"
  PROVE  Leads
<1>1. CASE variant = "cjson" /\ call = "classify"
  <2>1. Forest!Steps =
          <<Forest!Use({"trees"})>>
    BY <1>1 DEF Forest!Steps, Forest!ClassifyOf, Forest!Onnx, Forest!Infer
  <2>2. /\ Holds(1) = Forest!Owned \cup {}
        /\ Holds(2) = Forest!Owned \cup {}
    BY <1>1 DEF Holds, ClassifyAdds, Forest!Onnx
  <2>3. /\ Takes(Forest!Steps[1], Holds(1), Holds(2))
    BY <1>1, <2>1, <2>2
       DEF Takes, Forest!OrExit, Forest!Use, Forest!Get, Forest!Drop, Forest!Owned
  <2>4. Len(Forest!Steps) = 1 /\ DOMAIN Forest!Steps = 1..1
    BY <2>1
  <2>5. ASSUME NEW i \in 1..1
        PROVE  Takes(Forest!Steps[i], Holds(i), Holds(i + 1))
    BY <2>3
  <2>6. Holds(1) = Forest!Owned /\ Holds(1 + 1) = Forest!Owned
    BY <2>2
  <2> QED
    BY <1>1, <2>4, <2>5, <2>6 DEF Leads
<1>2. CASE variant = "cjson_2step" /\ call = "classify"
  <2>1. Forest!Steps =
          <<Forest!Use({"step1", "step2", "feature_names"})>>
    BY <1>2 DEF Forest!Steps, Forest!ClassifyOf, Forest!Onnx, Forest!Infer
  <2>2. /\ Holds(1) = Forest!Owned \cup {}
        /\ Holds(2) = Forest!Owned \cup {}
    BY <1>2 DEF Holds, ClassifyAdds, Forest!Onnx
  <2>3. /\ Takes(Forest!Steps[1], Holds(1), Holds(2))
    BY <1>2, <2>1, <2>2
       DEF Takes, Forest!OrExit, Forest!Use, Forest!Get, Forest!Drop, Forest!Owned
  <2>4. Len(Forest!Steps) = 1 /\ DOMAIN Forest!Steps = 1..1
    BY <2>1
  <2>5. ASSUME NEW i \in 1..1
        PROVE  Takes(Forest!Steps[i], Holds(i), Holds(i + 1))
    BY <2>3
  <2>6. Holds(1) = Forest!Owned /\ Holds(1 + 1) = Forest!Owned
    BY <2>2
  <2> QED
    BY <1>2, <2>4, <2>5, <2>6 DEF Leads
<1>3. CASE variant \in {"onnx", "onnx_2step"} /\ call = "classify"
  <2>1. Forest!Steps =
          <<Forest!OrExit("memory_info", {"ort"}),
            Forest!OrExit("input_tensor", {"ort", "memory_info"}),
            Forest!Drop("memory_info", {"ort"}),
            Forest!OrExit("output1", {"ort", "session1", "input_tensor", "input1", "prob1"}),
            Forest!Use({"output1"}),
            Forest!Drop("output1", {"ort"}),
            Forest!Drop("input_tensor", {"ort"})>>
    BY <1>3 DEF Forest!Steps, Forest!ClassifyOf, Forest!Onnx, Forest!Infer
  <2>2. /\ Holds(1) = Forest!Owned \cup {}
        /\ Holds(2) = Forest!Owned \cup {"memory_info"}
        /\ Holds(3) = Forest!Owned \cup {"input_tensor", "memory_info"}
        /\ Holds(4) = Forest!Owned \cup {"input_tensor"}
        /\ Holds(5) = Forest!Owned \cup {"input_tensor", "output1"}
        /\ Holds(6) = Forest!Owned \cup {"input_tensor", "output1"}
        /\ Holds(7) = Forest!Owned \cup {"input_tensor"}
        /\ Holds(8) = Forest!Owned \cup {}
    BY <1>3 DEF Holds, ClassifyAdds, Forest!Onnx
  <2>3. /\ Takes(Forest!Steps[1], Holds(1), Holds(2))
        /\ Takes(Forest!Steps[2], Holds(2), Holds(3))
        /\ Takes(Forest!Steps[3], Holds(3), Holds(4))
        /\ Takes(Forest!Steps[4], Holds(4), Holds(5))
        /\ Takes(Forest!Steps[5], Holds(5), Holds(6))
        /\ Takes(Forest!Steps[6], Holds(6), Holds(7))
        /\ Takes(Forest!Steps[7], Holds(7), Holds(8))
    <3>1. Takes(Forest!Steps[1], Holds(1), Holds(2))
      BY <1>3, <2>1, <2>2, OnnxOwned
         DEF Takes, Forest!OrExit, Forest!Get, Forest!Use, Forest!Drop, Forest!Onnx
    <3>2. Takes(Forest!Steps[2], Holds(2), Holds(3))
      BY <1>3, <2>1, <2>2, OnnxOwned
         DEF Takes, Forest!OrExit, Forest!Get, Forest!Use, Forest!Drop, Forest!Onnx
    <3>3. Takes(Forest!Steps[3], Holds(3), Holds(4))
      BY <1>3, <2>1, <2>2, OnnxOwned
         DEF Takes, Forest!OrExit, Forest!Get, Forest!Use, Forest!Drop, Forest!Onnx
    <3>4. Takes(Forest!Steps[4], Holds(4), Holds(5))
      BY <1>3, <2>1, <2>2, OnnxOwned
         DEF Takes, Forest!OrExit, Forest!Get, Forest!Use, Forest!Drop, Forest!Onnx
    <3>5. Takes(Forest!Steps[5], Holds(5), Holds(6))
      BY <1>3, <2>1, <2>2, OnnxOwned
         DEF Takes, Forest!OrExit, Forest!Get, Forest!Use, Forest!Drop, Forest!Onnx
    <3>6. Takes(Forest!Steps[6], Holds(6), Holds(7))
      BY <1>3, <2>1, <2>2, OnnxOwned
         DEF Takes, Forest!OrExit, Forest!Get, Forest!Use, Forest!Drop, Forest!Onnx
    <3>7. Takes(Forest!Steps[7], Holds(7), Holds(8))
      BY <1>3, <2>1, <2>2, OnnxOwned
         DEF Takes, Forest!OrExit, Forest!Get, Forest!Use, Forest!Drop, Forest!Onnx
    <3> QED
      BY <3>1, <3>2, <3>3, <3>4, <3>5, <3>6, <3>7
  <2>4. Len(Forest!Steps) = 7 /\ DOMAIN Forest!Steps = 1..7
    BY <2>1
  <2>5. ASSUME NEW i \in 1..7
        PROVE  Takes(Forest!Steps[i], Holds(i), Holds(i + 1))
    BY <2>3
  <2>6. Holds(1) = Forest!Owned /\ Holds(7 + 1) = Forest!Owned
    BY <2>2
  <2> QED
    BY <1>3, <2>4, <2>5, <2>6 DEF Leads
<1>4. CASE variant = "onnx_2step" /\ call = "classify_step2"
  <2>1. Forest!Steps =
          <<Forest!OrExit("memory_info", {"ort"}),
            Forest!OrExit("input_tensor", {"ort", "memory_info"}),
            Forest!Drop("memory_info", {"ort"}),
            Forest!OrExit("output1", {"ort", "session1", "input_tensor", "input1", "prob1"}),
            Forest!Use({"output1"}),
            Forest!OrExit("output2", {"ort", "session2", "input_tensor", "input2", "prob2"}),
            Forest!Use({"output2"}),
            Forest!Drop("output2", {"ort"}),
            Forest!Drop("output1", {"ort"}),
            Forest!Drop("input_tensor", {"ort"})>>
    BY <1>4 DEF Forest!Steps, Forest!ClassifyOf, Forest!Onnx, Forest!Infer
  <2>2. /\ Holds(1) = Forest!Owned \cup {}
        /\ Holds(2) = Forest!Owned \cup {"memory_info"}
        /\ Holds(3) = Forest!Owned \cup {"input_tensor", "memory_info"}
        /\ Holds(4) = Forest!Owned \cup {"input_tensor"}
        /\ Holds(5) = Forest!Owned \cup {"input_tensor", "output1"}
        /\ Holds(6) = Forest!Owned \cup {"input_tensor", "output1"}
        /\ Holds(7) = Forest!Owned \cup {"input_tensor", "output1", "output2"}
        /\ Holds(8) = Forest!Owned \cup {"input_tensor", "output1", "output2"}
        /\ Holds(9) = Forest!Owned \cup {"input_tensor", "output1"}
        /\ Holds(10) = Forest!Owned \cup {"input_tensor"}
        /\ Holds(11) = Forest!Owned \cup {}
    BY <1>4 DEF Holds, ClassifyAdds, Forest!Onnx
  <2>3. /\ Takes(Forest!Steps[1], Holds(1), Holds(2))
        /\ Takes(Forest!Steps[2], Holds(2), Holds(3))
        /\ Takes(Forest!Steps[3], Holds(3), Holds(4))
        /\ Takes(Forest!Steps[4], Holds(4), Holds(5))
        /\ Takes(Forest!Steps[5], Holds(5), Holds(6))
        /\ Takes(Forest!Steps[6], Holds(6), Holds(7))
        /\ Takes(Forest!Steps[7], Holds(7), Holds(8))
        /\ Takes(Forest!Steps[8], Holds(8), Holds(9))
        /\ Takes(Forest!Steps[9], Holds(9), Holds(10))
        /\ Takes(Forest!Steps[10], Holds(10), Holds(11))
    <3>1. Takes(Forest!Steps[1], Holds(1), Holds(2))
      BY <1>4, <2>1, <2>2, OnnxOwned
         DEF Takes, Forest!OrExit, Forest!Get, Forest!Use, Forest!Drop, Forest!Onnx
    <3>2. Takes(Forest!Steps[2], Holds(2), Holds(3))
      BY <1>4, <2>1, <2>2, OnnxOwned
         DEF Takes, Forest!OrExit, Forest!Get, Forest!Use, Forest!Drop, Forest!Onnx
    <3>3. Takes(Forest!Steps[3], Holds(3), Holds(4))
      BY <1>4, <2>1, <2>2, OnnxOwned
         DEF Takes, Forest!OrExit, Forest!Get, Forest!Use, Forest!Drop, Forest!Onnx
    <3>4. Takes(Forest!Steps[4], Holds(4), Holds(5))
      BY <1>4, <2>1, <2>2, OnnxOwned
         DEF Takes, Forest!OrExit, Forest!Get, Forest!Use, Forest!Drop, Forest!Onnx
    <3>5. Takes(Forest!Steps[5], Holds(5), Holds(6))
      BY <1>4, <2>1, <2>2, OnnxOwned
         DEF Takes, Forest!OrExit, Forest!Get, Forest!Use, Forest!Drop, Forest!Onnx
    <3>6. Takes(Forest!Steps[6], Holds(6), Holds(7))
      BY <1>4, <2>1, <2>2, OnnxOwned
         DEF Takes, Forest!OrExit, Forest!Get, Forest!Use, Forest!Drop, Forest!Onnx
    <3>7. Takes(Forest!Steps[7], Holds(7), Holds(8))
      BY <1>4, <2>1, <2>2, OnnxOwned
         DEF Takes, Forest!OrExit, Forest!Get, Forest!Use, Forest!Drop, Forest!Onnx
    <3>8. Takes(Forest!Steps[8], Holds(8), Holds(9))
      BY <1>4, <2>1, <2>2, OnnxOwned
         DEF Takes, Forest!OrExit, Forest!Get, Forest!Use, Forest!Drop, Forest!Onnx
    <3>9. Takes(Forest!Steps[9], Holds(9), Holds(10))
      BY <1>4, <2>1, <2>2, OnnxOwned
         DEF Takes, Forest!OrExit, Forest!Get, Forest!Use, Forest!Drop, Forest!Onnx
    <3>10. Takes(Forest!Steps[10], Holds(10), Holds(11))
      BY <1>4, <2>1, <2>2, OnnxOwned
         DEF Takes, Forest!OrExit, Forest!Get, Forest!Use, Forest!Drop, Forest!Onnx
    <3> QED
      BY <3>1, <3>2, <3>3, <3>4, <3>5, <3>6, <3>7, <3>8, <3>9, <3>10
  <2>4. Len(Forest!Steps) = 10 /\ DOMAIN Forest!Steps = 1..10
    BY <2>1
  <2>5. ASSUME NEW i \in 1..10
        PROVE  Takes(Forest!Steps[i], Holds(i), Holds(i + 1))
    BY <2>3
  <2>6. Holds(1) = Forest!Owned /\ Holds(10 + 1) = Forest!Owned
    BY <2>2
  <2> QED
    BY <1>4, <2>4, <2>5, <2>6 DEF Leads
<1> QED
  BY <1>1, <1>2, <1>3, <1>4 DEF Forest!Variants

LEMMA CleanupLeads ==
  ASSUME variant \in Forest!Variants, call = "cleanup"
  PROVE  Leads
<1> USE DEF Leads, Takes, Holds, Forest!Steps, Forest!Owned, CleanupLeaves, Forest!CleanupOf,
            Forest!Drop
<1>1. CASE variant = "cjson"
  BY <1>1
<1>2. CASE variant = "cjson_2step"
  BY <1>2
<1>3. CASE variant = "onnx"
  BY <1>3
<1>4. CASE variant = "onnx_2step"
  BY <1>4
<1> QED
  BY <1>1, <1>2, <1>3, <1>4 DEF Forest!Variants

LEMMA CallsLead ==
  ASSUME ClassifierInv, call \in Working
  PROVE  Leads
BY InitLeads, ClassifyLeads, CleanupLeads DEF ClassifierInv, Working

(* How a call begins.                                                      *)
LEMMA Beginnings ==
  ASSUME NEW v \in Forest!Variants
  PROVE  /\ Len(Forest!InitOf(v)) \in Nat /\ InitHolds(v)[1] = {}
         /\ Len(Forest!CleanupOf(v)) \in Nat
         /\ Len(Forest!ClassifyOf(v, FALSE)) \in Nat /\ ClassifyAdds(v, FALSE)[1] = {}
         /\ v = "onnx_2step" => /\ Len(Forest!ClassifyOf(v, TRUE)) \in Nat
                                /\ ClassifyAdds(v, TRUE)[1] = {}
<1>1. CASE v = "cjson"
  BY <1>1
     DEF Forest!InitOf, InitHolds, Forest!CleanupOf, Forest!ClassifyOf,
         ClassifyAdds, Forest!Onnx
<1>2. CASE v = "cjson_2step"
  BY <1>2
     DEF Forest!InitOf, InitHolds, Forest!CleanupOf, Forest!ClassifyOf,
         ClassifyAdds, Forest!Onnx
<1>3. CASE v = "onnx"
  BY <1>3
     DEF Forest!InitOf, InitHolds, Forest!CleanupOf, Forest!ClassifyOf,
         ClassifyAdds, Forest!Onnx
<1>4. CASE v = "onnx_2step"
  BY <1>4
     DEF Forest!InitOf, InitHolds, Forest!CleanupOf, Forest!ClassifyOf,
         ClassifyAdds, Forest!Onnx
<1> QED
  BY <1>1, <1>2, <1>3, <1>4 DEF Forest!Variants

LEMMA CleanupBegins ==
  ASSUME variant \in Forest!Variants
  PROVE  CleanupLeaves(variant)[1] = Forest!Owned
<1>1. CASE variant = "cjson"
  BY <1>1 DEF CleanupLeaves, Forest!Owned
<1>2. CASE variant = "cjson_2step"
  BY <1>2 DEF CleanupLeaves, Forest!Owned
<1>3. CASE variant = "onnx"
  BY <1>3 DEF CleanupLeaves, Forest!Owned
<1>4. CASE variant = "onnx_2step"
  BY <1>4 DEF CleanupLeaves, Forest!Owned
<1> QED
  BY <1>1, <1>2, <1>3, <1>4 DEF Forest!Variants

(* A call is begun.                                                        *)
LEMMA BeginKeeps ==
  ASSUME ClassifierInv, NEW c \in Working, Forest!Begin(c),
         c = "init" => held = {},
         c \in {"classify", "classify_step2"} => held = Forest!Owned,
         c = "classify_step2" => variant = "onnx_2step"
  PROVE  ClassifierInv'
<1>1. /\ variant \in Forest!Variants /\ held \in {{}, Forest!Owned}
      /\ call' = c /\ step' = 1 /\ variant' = variant /\ held' = held
  BY DEF ClassifierInv, Forest!Begin
<1>2. Forest!Owned' = Forest!Owned
  BY <1>1 DEF Forest!Owned
<1>3. CASE c = "init"
  <2>1. Len(Forest!Steps)' \in Nat
    BY <1>1, <1>3, Beginnings DEF Forest!Steps
  <2>2. Holds(step)' = {}
    BY <1>1, <1>3, Beginnings DEF Holds
  <2>3. step' \in 1..Len(Forest!Steps)' + 1
    BY <1>1, <2>1
  <2> QED
    BY <1>1, <1>3, <2>2, <2>3 DEF ClassifierInv, Working
<1>4. CASE c = "classify"
  <2>1. Len(Forest!Steps)' \in Nat
    BY <1>1, <1>4, Beginnings DEF Forest!Steps
  <2>2. Holds(step)' = Forest!Owned
    BY <1>1, <1>2, <1>4, Beginnings DEF Holds
  <2>3. step' \in 1..Len(Forest!Steps)' + 1
    BY <1>1, <2>1
  <2> QED
    BY <1>1, <1>4, <2>2, <2>3 DEF ClassifierInv, Working
<1>5. CASE c = "classify_step2"
  <2>1. Len(Forest!Steps)' \in Nat
    BY <1>1, <1>5, Beginnings DEF Forest!Steps
  <2>2. Holds(step)' = Forest!Owned
    BY <1>1, <1>2, <1>5, Beginnings DEF Holds
  <2>3. step' \in 1..Len(Forest!Steps)' + 1
    BY <1>1, <2>1
  <2> QED
    BY <1>1, <1>5, <2>2, <2>3 DEF ClassifierInv, Working
<1>6. CASE c = "cleanup"
  <2>1. Len(Forest!Steps)' \in Nat
    BY <1>1, <1>6, Beginnings DEF Forest!Steps
  <2>2. Holds(step)' = Forest!Owned
    BY <1>1, <1>6, CleanupBegins DEF Holds
  <2>3. step' \in 1..Len(Forest!Steps)' + 1
    BY <1>1, <2>1
  <2> QED
    BY <1>1, <1>6, <2>2, <2>3 DEF ClassifierInv, Working
<1> QED
  BY <1>3, <1>4, <1>5, <1>6 DEF Working

LEMMA StepsAreOfACall ==
  ASSUME ClassifierInv, step \in DOMAIN Forest!Steps
  PROVE  call \in Working
<1>1. CASE call \notin Working
  <2>1. Forest!Steps = <<>>
    BY <1>1 DEF Forest!Steps, Working
  <2>2. DOMAIN <<>> = {}
    OBVIOUS
  <2> QED
    BY <2>1, <2>2
<1> QED
  BY <1>1

(* A call goes on to its next step.                                        *)
LEMMA GoKeeps ==
  ASSUME ClassifierInv, call \in Working, step \in 1..Len(Forest!Steps),
         step' = step + 1, call' = call, variant' = variant,
         \/ held' = Holds(step + 1)
         \/ call = "cleanup" /\ held' = {}
  PROVE  ClassifierInv'
<1>1. Forest!Steps' = Forest!Steps /\ Forest!Owned' = Forest!Owned
  BY DEF Forest!Steps, Forest!Owned
<1>2. Holds(step)' = Holds(step + 1)
  BY <1>1 DEF Holds
<1>3. Len(Forest!Steps) \in Nat
  BY CallsLead DEF Leads
<1>4. step' \in 1..Len(Forest!Steps) + 1
  BY <1>3
<1> QED
  BY <1>1, <1>2, <1>4 DEF ClassifierInv, Working

LEMMA ClassifierStep ==
  ASSUME ClassifierInv, Forest!Next
  PROVE  ClassifierInv'
<1>1. CASE Forest!CallInit
  BY <1>1, BeginKeeps DEF Forest!CallInit, Working
<1>2. CASE Forest!CallCleanup
  BY <1>2, BeginKeeps DEF Forest!CallCleanup, Working
<1>3. CASE Forest!Refuse
  BY <1>3 DEF Forest!Refuse, ClassifierInv, Holds, Forest!Steps, Forest!Owned
<1>4. ASSUME call = "idle", Forest!Initialized \subseteq held
      PROVE  held = Forest!Owned
  BY <1>4 DEF ClassifierInv, Forest!Initialized, Forest!Variants
<1>5. ASSUME NEW x \in Features, Forest!ClassifyForest(x)
      PROVE  ClassifierInv'
  BY <1>4, <1>5, BeginKeeps DEF Forest!ClassifyForest, Forest!Begin, Working
<1>6. ASSUME NEW p \in 0..UNIT, NEW q \in 0..UNIT, Forest!ClassifySession(p, q)
      PROVE  ClassifierInv'
  <2> DEFINE c == IF variant = "onnx_2step" /\ Forest!NeedsStep2(p) THEN "classify_step2"
                                                                    ELSE "classify"
  <2>1. Forest!Begin(c) /\ held = Forest!Owned
    BY <1>4, <1>6 DEF Forest!ClassifySession, Forest!Begin
  <2>2. c \in {"classify", "classify_step2"} /\ (c = "classify_step2" => variant = "onnx_2step")
    OBVIOUS
  <2> HIDE DEF c
  <2> QED
    BY <2>1, <2>2, BeginKeeps DEF Working
<1>7. ASSUME step \in DOMAIN Forest!Steps
      PROVE  /\ call \in Working /\ Leads /\ step \in 1..Len(Forest!Steps)
             /\ Takes(Forest!Steps[step], Holds(step), Holds(step + 1))
             /\ call # "cleanup" => held = Holds(step)
             /\ call = "cleanup" => Forest!Steps[step].does = "drop"
  <2>1. call \in Working
    BY <1>7, StepsAreOfACall
  <2> QED
    BY <1>7, <2>1, CallsLead DEF Leads, ClassifierInv
<1>8. CASE Forest!Take
  BY <1>7, <1>8, GoKeeps DEF Forest!Take, Forest!Go, Forest!Step, Takes
<1>9. CASE Forest!UseOrDrop
  <2>1. step \in DOMAIN Forest!Steps /\ (call = "cleanup" => held = Holds(step))
    BY <1>9 DEF Forest!UseOrDrop, ClassifierInv, Working
  <2> QED
    BY <1>7, <1>9, <2>1, GoKeeps DEF Forest!UseOrDrop, Forest!Go, Forest!Step, Takes
<1>10. CASE Forest!Skip
  <2>1. /\ step \in DOMAIN Forest!Steps /\ call = "cleanup"
        /\ Forest!Steps[step].obj \notin held /\ held' = held
    BY <1>10 DEF Forest!Skip, Forest!Step
  <2>2. held = {}
    BY <1>7, <2>1 DEF Takes, ClassifierInv
  <2> QED
    BY <1>7, <1>10, <2>1, <2>2, GoKeeps DEF Forest!Skip
<1>11. CASE Forest!Fail
  <2>1. /\ step \in DOMAIN Forest!Steps /\ Forest!Steps[step].does = "get"
        /\ variant' = variant /\ call' \in {"idle", "exited"}
        /\ call' = "idle" => /\ held' = held \ Forest!Steps[step].undo
                             /\ ~(Forest!Onnx(variant) /\ Forest!Steps[step].obj # "ort")
    BY <1>11 DEF Forest!Fail, Forest!Step
  <2>2. call' = "idle" => held' = {}
    BY <1>7, <2>1 DEF Takes
  <2> QED
    BY <2>1, <2>2 DEF ClassifierInv, Working
<1>12. CASE Forest!Return
  <2>1. /\ call \in Working /\ step = Len(Forest!Steps) + 1
        /\ call' = "idle" /\ variant' = variant /\ held' = held
    BY <1>12 DEF Forest!Return, ClassifierInv
  <2>2. held \in {{}, Forest!Owned}
    BY <2>1, CallsLead DEF Leads, ClassifierInv
  <2>3. Forest!Owned' = Forest!Owned
    BY <2>1 DEF Forest!Owned
  <2> QED
    BY <2>1, <2>2, <2>3 DEF ClassifierInv, Working
<1> QED
  BY <1>1, <1>2, <1>3, <1>5, <1>6, <1>8, <1>9, <1>10, <1>11, <1>12 DEF Forest!Next

LEMMA ClassifierInvImplies ==
  ASSUME ClassifierInv
  PROVE  Forest!ObjectsAreAccountedFor
<1>1. Forest!NothingLeftBehind
  BY DEF ClassifierInv, Forest!NothingLeftBehind
<1>2. ASSUME step \in DOMAIN Forest!Steps, call = "cleanup" => Forest!Step.obj \in held
      PROVE  Forest!Step.uses \subseteq held
  <2>1. call \in Working
    BY <1>2, StepsAreOfACall
  <2>2. Takes(Forest!Steps[step], Holds(step), Holds(step + 1))
    BY <1>2, <2>1, CallsLead DEF Leads
  <2>3. held = Holds(step)
    BY <1>2, <2>1 DEF ClassifierInv
  <2> QED
    BY <2>2, <2>3 DEF Takes, Forest!Step
<1> QED
  BY <1>1, <1>2 DEF Forest!ObjectsAreAccountedFor, Forest!NoUseOfTheDead

LEMMA ClassifierInitial ==
  ASSUME ProgramInit
  PROVE  ClassifierInv
BY DEF ProgramInit, Forest!Init, ClassifierInv, Working

LEMMA ClassifierKept ==
  ASSUME ClassifierInv, [ProgramNext]_all
  PROVE  ClassifierInv'
<1>1. CASE program = "classifiers" /\ Forest!Next
  BY <1>1, ClassifierStep
<1>2. CASE UNCHANGED classifiers
  BY <1>2 DEF classifiers, ClassifierInv, Holds, Forest!Steps, Forest!Owned
<1> QED
  BY <1>1, <1>2 DEF ProgramNext, all

(* What the classifiers take they give back, and they use nothing that is  *)
(* not there (libclassifier.c:136-159, libclassifier_2step.c:56-108,       *)
(* libclassifier_onnx_2step.c:60-85).                                      *)
THEOREM ObjectsAccounted == ProgramSpec => []ObjectsAreAccountedFor
<1>1. ProgramInit => ClassifierInv
  BY ClassifierInitial
<1>2. ClassifierInv /\ [ProgramNext]_all => ClassifierInv'
  BY ClassifierKept
<1>3. ClassifierInv => ObjectsAreAccountedFor
  BY ClassifierInvImplies DEF ObjectsAreAccountedFor
<1> QED
  BY <1>1, <1>2, <1>3, PTL DEF ProgramSpec

-----------------------------------------------------------------------------
(* The answers of the classifiers.  What a recursive sum over a sequence   *)
(* computes is shown by induction on the length, as the absence of a least *)
(* counterexample.                                                         *)

Adds(f, s) == /\ f \in [0..Len(s) -> Int] /\ f[0] = 0
              /\ \A i \in 1..Len(s) : f[i] = f[i - 1] + s[i]

LEMMA SumAdds ==
  ASSUME NEW s \in Seq(Int)
  PROVE  \E f : Adds(f, s) /\ Forest!Sum(s) = f[Len(s)]
<1> DEFINE n == Len(s)
           Upto(f, k) == /\ f \in [0..k -> Int] /\ f[0] = 0
                         /\ \A i \in 1..k : f[i] = f[i - 1] + s[i]
           S == {k \in Nat : k <= n => \E f : Upto(f, k)}
<1>1. n \in Nat /\ \A i \in 1..n : s[i] \in Int
  OBVIOUS
<1>2. 0 \in S
  <2>1. Upto([i \in 0..0 |-> 0], 0)
    OBVIOUS
  <2> QED
    BY <2>1
<1>3. ASSUME NEW k \in Nat, k \in S
      PROVE  k + 1 \in S
  <2> SUFFICES ASSUME k + 1 <= n
               PROVE  \E f : Upto(f, k + 1)
    BY SMTT(20)
  <2>1. PICK f : Upto(f, k)
    <3>1. k <= n
      BY <1>1
    <3> HIDE DEF Upto, n
    <3> QED
      BY <1>3, <3>1
  <2> DEFINE g == [i \in 0..k + 1 |-> IF i <= k THEN f[i] ELSE f[k] + s[k + 1]]
  <2>2. s[k + 1] \in Int /\ f[k] \in Int
    BY <1>1, <2>1
  <2>3. g \in [0..k + 1 -> Int] /\ g[0] = 0
    BY <2>1, <2>2
  <2>4. ASSUME NEW i \in 1..k + 1
        PROVE  g[i] = g[i - 1] + s[i]
    BY <2>1, <2>2
  <2>5. Upto(g, k + 1)
    BY <2>3, <2>4
  <2> QED
    BY <2>5
<1>4. PICK f : Upto(f, n)
  <2> HIDE DEF Upto
  <2>1. Nat \subseteq S
    <3> HIDE DEF S
    <3> QED
      BY <1>2, <1>3, Induction
  <2> QED
    BY <1>1, <2>1
<1> DEFINE Rec(g) == g = [m \in 0..n |-> IF m = 0 THEN 0 ELSE g[m - 1] + s[m]]
           upto == CHOOSE g : Rec(g)
<1>5. Rec(f)
  BY <1>1, <1>4
<1>6. Rec(upto)
  <2> HIDE DEF Rec
  <2> QED
    BY <1>5
<1>7. Forest!Sum(s) = upto[n]
  BY DEF Forest!Sum
<1> HIDE DEF upto
<1>8. \A k \in Nat : k \in {j \in Nat : j <= n => upto[j] = f[j]}
  <2> DEFINE T == {j \in Nat : j <= n => upto[j] = f[j]}
  <2>1. 0 \in T
    BY <1>1, <1>4, <1>6
  <2>2. ASSUME NEW k \in Nat, k \in T
        PROVE  k + 1 \in T
    BY <1>1, <1>4, <1>6, <2>2
  <2>3. Nat \subseteq T
    <3> HIDE DEF T
    <3> QED
      BY <2>1, <2>2, Induction
  <2> QED
    BY <2>3
<1>9. upto[n] = f[n]
  BY <1>1, <1>8
<1> QED
  BY <1>4, <1>7, <1>9 DEF Adds

LEMMA SumOfThree ==
  ASSUME NEW p \in [1..3 -> Int]
  PROVE  Forest!Sum(p) = p[1] + p[2] + p[3]
<1>1. p \in Seq(Int) /\ Len(p) = 3
  <2>1. \A m \in Nat : \A q \in [1..m -> Int] : q \in Seq(Int) /\ Len(q) = m
    OBVIOUS
  <2> QED
    BY <2>1
<1>2. PICK f : Adds(f, p) /\ Forest!Sum(p) = f[3]
  BY <1>1, SumAdds
<1>3. f[0] = 0 /\ f[1] = f[0] + p[1] /\ f[2] = f[1] + p[2] /\ f[3] = f[2] + p[3]
  BY <1>1, <1>2 DEF Adds
<1> QED
  BY <1>2, <1>3

(* The sums of three columns, whose rows are bounded on both sides.        *)
LEMMA SumsOfColumns ==
  ASSUME NEW n \in Nat, NEW U \in Nat,
         NEW a \in [1..n -> Nat], NEW b \in [1..n -> Nat], NEW c \in [1..n -> Nat],
         NEW d \in [1..n -> Nat],
         \A t \in 1..n : d[t] <= a[t] + b[t] + c[t] /\ a[t] + b[t] + c[t] <= U
  PROVE  /\ Forest!Sum(a) \in Nat /\ Forest!Sum(b) \in Nat /\ Forest!Sum(c) \in Nat
         /\ Forest!Sum(d) <= Forest!Sum(a) + Forest!Sum(b) + Forest!Sum(c)
         /\ Forest!Sum(a) + Forest!Sum(b) + Forest!Sum(c) <= U * n
<1>1. /\ a \in Seq(Int) /\ b \in Seq(Int) /\ c \in Seq(Int) /\ d \in Seq(Int)
      /\ Len(a) = n /\ Len(b) = n /\ Len(c) = n /\ Len(d) = n
  <2>1. \A q \in [1..n -> Nat] : q \in [1..n -> Int] /\ q \in Seq(Int) /\ Len(q) = n
    OBVIOUS
  <2> QED
    BY <2>1
<1>2. PICK f : Adds(f, a) /\ Forest!Sum(a) = f[n]
  BY <1>1, SumAdds
<1>3. PICK g : Adds(g, b) /\ Forest!Sum(b) = g[n]
  BY <1>1, SumAdds
<1>4. PICK h : Adds(h, c) /\ Forest!Sum(c) = h[n]
  BY <1>1, SumAdds
<1>5. PICK l : Adds(l, d) /\ Forest!Sum(d) = l[n]
  BY <1>1, SumAdds
<1> DEFINE T == {k \in Nat : k <= n =>
                   /\ f[k] \in Nat /\ g[k] \in Nat /\ h[k] \in Nat /\ l[k] \in Nat
                   /\ l[k] <= f[k] + g[k] + h[k] /\ f[k] + g[k] + h[k] <= U * k}
<1>6. 0 \in T
  BY <1>2, <1>3, <1>4, <1>5 DEF Adds
<1>7. ASSUME NEW k \in Nat, k \in T, k + 1 <= n
      PROVE  /\ f[k + 1] \in Nat /\ g[k + 1] \in Nat /\ h[k + 1] \in Nat /\ l[k + 1] \in Nat
             /\ l[k + 1] <= f[k + 1] + g[k + 1] + h[k + 1]
             /\ f[k + 1] + g[k + 1] + h[k + 1] <= U * (k + 1)
  <2>1. k + 1 \in 1..n /\ (k + 1) - 1 = k
    BY <1>7
  <2>2. /\ f[k + 1] = f[k] + a[k + 1] /\ g[k + 1] = g[k] + b[k + 1]
        /\ h[k + 1] = h[k] + c[k + 1] /\ l[k + 1] = l[k] + d[k + 1]
    BY <1>1, <1>2, <1>3, <1>4, <1>5, <2>1 DEF Adds
  <2>3. /\ a[k + 1] \in Nat /\ b[k + 1] \in Nat /\ c[k + 1] \in Nat /\ d[k + 1] \in Nat
        /\ d[k + 1] <= a[k + 1] + b[k + 1] + c[k + 1]
        /\ a[k + 1] + b[k + 1] + c[k + 1] <= U
    BY <2>1
  <2>4. /\ f[k] \in Nat /\ g[k] \in Nat /\ h[k] \in Nat /\ l[k] \in Nat
        /\ l[k] <= f[k] + g[k] + h[k] /\ f[k] + g[k] + h[k] <= U * k
    BY <1>7
  <2>5. PICK w \in Nat : w = U * k
    OBVIOUS
  <2>6. U * (k + 1) = w + U
    BY <2>5
  <2>7. f[k] + g[k] + h[k] <= w
    BY <2>4, <2>5
  <2> HIDE DEF T
  <2>8. ASSUME NEW x \in Nat, NEW y \in Nat, NEW z \in Nat, NEW v \in Nat,
               NEW p \in Nat, NEW q \in Nat, NEW r \in Nat, NEW s \in Nat,
               v <= x + y + z, x + y + z <= w, s <= p + q + r, p + q + r <= U
        PROVE  /\ v + s <= (x + p) + (y + q) + (z + r)
               /\ (x + p) + (y + q) + (z + r) <= w + U
               /\ x + p \in Nat /\ y + q \in Nat /\ z + r \in Nat /\ v + s \in Nat
    BY <2>8
  <2> DEFINE Bounded(x, y, z, v, p, q, r, s) ==
               /\ v + s <= (x + p) + (y + q) + (z + r)
               /\ (x + p) + (y + q) + (z + r) <= w + U
               /\ x + p \in Nat /\ y + q \in Nat /\ z + r \in Nat /\ v + s \in Nat
  <2>9. \A x, y, z, v, p, q, r, s \in Nat :
          v <= x + y + z /\ x + y + z <= w /\ s <= p + q + r /\ p + q + r <= U
            => Bounded(x, y, z, v, p, q, r, s)
    BY <2>8
  <2> HIDE DEF Bounded
  <2>10. Bounded(f[k], g[k], h[k], l[k], a[k + 1], b[k + 1], c[k + 1], d[k + 1])
    BY <2>3, <2>4, <2>7, <2>9, Zenon
  <2> USE DEF Bounded
  <2>11. /\ l[k] + d[k + 1] <= (f[k] + a[k + 1]) + (g[k] + b[k + 1]) + (h[k] + c[k + 1])
        /\ (f[k] + a[k + 1]) + (g[k] + b[k + 1]) + (h[k] + c[k + 1]) <= w + U
        /\ f[k] + a[k + 1] \in Nat /\ g[k] + b[k + 1] \in Nat
        /\ h[k] + c[k + 1] \in Nat /\ l[k] + d[k + 1] \in Nat
    BY <2>10
  <2> QED
    BY <2>2, <2>6, <2>11
<1>8. Nat \subseteq T
  <2>1. ASSUME NEW k \in Nat, k \in T PROVE k + 1 \in T
    BY <1>7, <2>1
  <2> HIDE DEF T
  <2> QED
    BY <1>6, <2>1, Induction
<1> QED
  BY <1>2, <1>3, <1>4, <1>5, <1>8

(* The class that is printed.                                              *)
LEMMA FirstOfThree ==
  ASSUME NEW p \in [1..3 -> Int]
  PROVE  /\ Forest!FirstLargest(p) \in 1..3
         /\ \A d \in 1..3 : p[d] <= p[Forest!FirstLargest(p)]
<1> DEFINE First(c) == /\ \A d \in DOMAIN p : p[d] <= p[c]
                       /\ \A d \in 1..c-1 : p[d] < p[c]
<1>1. p[1] \in Int /\ p[2] \in Int /\ p[3] \in Int /\ DOMAIN p = 1..3
  OBVIOUS
<1>2. \E c \in DOMAIN p : First(c)
  <2>1. CASE p[1] >= p[2] /\ p[1] >= p[3]
    <3>1. First(1)
      BY <1>1, <2>1
    <3> QED
      BY <1>1, <3>1
  <2>2. CASE p[1] < p[2] /\ p[2] >= p[3]
    <3>1. First(2)
      BY <1>1, <2>2
    <3> QED
      BY <1>1, <3>1
  <2>3. CASE p[1] < p[3] /\ p[2] < p[3]
    <3>1. First(3)
      BY <1>1, <2>3
    <3> QED
      BY <1>1, <3>1
  <2> QED
    BY <1>1, <2>1, <2>2, <2>3
<1>3. Forest!FirstLargest(p) = CHOOSE c \in DOMAIN p : First(c)
  BY DEF Forest!FirstLargest
<1> QED
  <2>1. Forest!FirstLargest(p) \in DOMAIN p /\ First(Forest!FirstLargest(p))
    <3> HIDE DEF First
    <3> QED
      BY <1>2, <1>3
  <2> QED
    BY <1>1, <2>1

LEMMA FirstOfTwo ==
  ASSUME NEW p \in [1..2 -> Int]
  PROVE  Forest!FirstLargest(p) \in 1..2
<1> DEFINE First(c) == /\ \A d \in DOMAIN p : p[d] <= p[c]
                       /\ \A d \in 1..c-1 : p[d] < p[c]
<1>1. p[1] \in Int /\ p[2] \in Int /\ DOMAIN p = 1..2
  OBVIOUS
<1>2. \E c \in DOMAIN p : First(c)
  <2>1. CASE p[1] >= p[2]
    <3>1. First(1)
      BY <1>1, <2>1
    <3> QED
      BY <1>1, <3>1
  <2>2. CASE p[1] < p[2]
    <3>1. First(2)
      BY <1>1, <2>2
    <3> QED
      BY <1>1, <3>1
  <2> QED
    BY <1>1, <2>1, <2>2
<1>3. Forest!FirstLargest(p) = CHOOSE c \in DOMAIN p : First(c)
  BY DEF Forest!FirstLargest
<1> QED
  <2> HIDE DEF First
  <2> QED
    BY <1>1, <1>2, <1>3

(* Every tree of a forest of two classes votes for one of them.            *)
LEMMA VotesAddUp ==
  ASSUME NEW f \in Binary, NEW x \in Features
  PROVE  /\ Forest!Votes(f, x, 0) \in Nat /\ Forest!Votes(f, x, 1) \in Nat
         /\ Len(f) \in Nat
         /\ Forest!Votes(f, x, 0) + Forest!Votes(f, x, 1) = Len(f)
<1> DEFINE n == Len(f)
           V(c) == {t \in DOMAIN f : Forest!evaluate_tree(f[t], x) = c}
<1>1. n \in Nat /\ DOMAIN f = 1..n
  BY ForestsAssumption
<1>2. ASSUME NEW t \in 1..n
      PROVE  Forest!evaluate_tree(f[t], x) \in {0, 1}
  <2>1. Forest!Leaf(f[t], x) \in [1..2 -> 0..UNIT]
    BY <1>1, ForestsAssumption
  <2>2. Forest!Leaf(f[t], x) \in [1..2 -> Int]
    BY <2>1, ForestsAssumption
  <2> QED
    BY <2>2, FirstOfTwo DEF Forest!evaluate_tree
<1>3. IsFiniteSet(1..n) /\ Cardinality(1..n) = n
  <2>1. 1 \in Int /\ n \in Int
    BY <1>1
  <2>2. IsFiniteSet(1..n) /\ Cardinality(1..n) = IF 1 > n THEN 0 ELSE n - 1 + 1
    <3> HIDE DEF n
    <3> QED
      BY <2>1, FS_Interval
  <2> QED
    BY <1>1, <2>2
<1>4. V(0) \in SUBSET (1..n) /\ V(1) \in SUBSET (1..n)
  BY <1>1
<1>5. V(0) \cup V(1) = 1..n /\ V(0) \cap V(1) = {}
  BY <1>1, <1>2
<1>6. Forest!Votes(f, x, 0) = Cardinality(V(0)) /\ Forest!Votes(f, x, 1) = Cardinality(V(1))
  BY Zenon DEF Forest!Votes, Forest!Cardinality, Cardinality
<1> HIDE DEF V, n
<1>7. IsFiniteSet(V(0)) /\ IsFiniteSet(V(1))
  <2>1. \A S : IsFiniteSet(S) => \A R \in SUBSET S : IsFiniteSet(R)
    BY FS_Subset
  <2> QED
    BY <1>3, <1>4, <2>1
<1>8. Cardinality(V(0)) \in Nat /\ Cardinality(V(1)) \in Nat
  BY <1>7, FS_CardinalityType
<1>9. Cardinality(1..n) = Cardinality(V(0)) + Cardinality(V(1)) - Cardinality({})
  <2>1. Cardinality(V(0) \cup V(1))
          = Cardinality(V(0)) + Cardinality(V(1)) - Cardinality(V(0) \cap V(1))
    BY <1>7, FS_Union
  <2> QED
    BY <1>5, <2>1
<1>10. Cardinality({}) = 0
  BY FS_EmptySet
<1> QED
  BY <1>1, <1>3, <1>6, <1>8, <1>9, <1>10 DEF n

(* Shares of the three classes that add up to one, as far as is sure; the  *)
(* class is a likeliest one, or the second step has not decided between    *)
(* the two others.                                                         *)
IsDistribution(a) ==
  /\ a.p \in [1..3 -> Nat] /\ a.class \in 1..3
  /\ a.sure <= a.p[1] + a.p[2] + a.p[3] /\ a.p[1] + a.p[2] + a.p[3] <= a.unit
Likeliest(a) == \A d \in 1..3 : a.p[d] <= a.p[a.class]
Undecided(a) == a.p[2] = a.p[3] /\ a.p[1] = 0
NotANumber == Forest!Answer(<<0, Forest!NaN, Forest!NaN>>, 0, 3)

(* What trees[] holds: in every node shares that add up to one, or none at *)
(* all, and in the leaves of the forest those of its file.                 *)
ArrayTyped == class_probs \in [1..NUM_TREES -> [0..MAX_NODES - 1 -> Forest!Shares({0, UNIT})]]

ForestLoaded ==
  /\ Len(forest) \in 0..NUM_TREES /\ DOMAIN forest = 1..Len(forest)
  /\ \A t \in DOMAIN forest :
       /\ Forest!IsTree(forest[t])
       /\ \A n \in DOMAIN forest[t].nodes :
            forest[t].nodes[n].leaf => class_probs[t][n] = forest[t].nodes[n].value

(* The shares at the end of a walk.                                        *)
LEMMA EndsOfWalks ==
  ASSUME ArrayTyped, ForestLoaded, NEW x \in Features, NEW t \in DOMAIN forest
  PROVE  LET v == class_probs[t][Forest!EndOfWalk(forest[t], x)]
         IN  /\ v \in [1..3 -> Nat] /\ v[1] + v[2] + v[3] <= UNIT
             /\ Forest!AtLeaf(forest[t], x) => v[1] + v[2] + v[3] = UNIT
<1> DEFINE e == Forest!EndOfWalk(forest[t], x)
           v == class_probs[t][e]
<1>1. e \in DOMAIN forest[t].nodes /\ e \in 0..MAX_NODES - 1
  BY DEF ForestLoaded, Forest!IsTree
<1>2. t \in 1..NUM_TREES /\ UNIT \in Nat
  BY ForestsAssumption DEF ForestLoaded
<1>3. Forest!AtLeaf(forest[t], x) = forest[t].nodes[e].leaf
  BY DEF Forest!AtLeaf
<1>4. forest[t].nodes[e].leaf =>
        v = forest[t].nodes[e].value /\ v \in Forest!Shares({UNIT})
  BY <1>1 DEF ForestLoaded, Forest!IsTree
<1> HIDE DEF e
<1>5. v \in Forest!Shares({0, UNIT})
  BY <1>1, <1>2 DEF ArrayTyped
<1> HIDE DEF v
<1>6. v \in [1..3 -> 0..UNIT] /\ v[1] + v[2] + v[3] \in {0, UNIT}
  BY <1>5 DEF Forest!Shares
<1>7. v \in [1..3 -> Nat] /\ v[1] + v[2] + v[3] <= UNIT
  BY <1>2, <1>6
<1>8. Forest!AtLeaf(forest[t], x) => v[1] + v[2] + v[3] = UNIT
  BY <1>3, <1>4 DEF Forest!Shares
<1> QED
  BY <1>7, <1>8 DEF v, e

LEMMA ForestAnswers ==
  ASSUME ArrayTyped, ForestLoaded, NEW x \in Features
  PROVE  LET r == Forest!predict_rf(forest, class_probs, x)
         IN  IsDistribution(r) /\ Likeliest(r)
<1> DEFINE n == Len(forest)
           V(t) == class_probs[t][Forest!EndOfWalk(forest[t], x)]
           a == [t \in 1..n |-> V(t)[1]]
           b == [t \in 1..n |-> V(t)[2]]
           c == [t \in 1..n |-> V(t)[3]]
           d == [t \in 1..n |-> IF Forest!AtLeaf(forest[t], x) THEN UNIT ELSE 0]
           p == [k \in 1..3 |-> Forest!Sum([t \in DOMAIN forest |-> V(t)[k]])]
           r == Forest!predict_rf(forest, class_probs, x)
<1>1. n \in Nat /\ DOMAIN forest = 1..n /\ UNIT \in Nat
  BY ForestsAssumption DEF ForestLoaded
<1>2. ASSUME NEW t \in 1..n
      PROVE  /\ V(t) \in [1..3 -> Nat] /\ V(t)[1] + V(t)[2] + V(t)[3] <= UNIT
             /\ Forest!AtLeaf(forest[t], x) => V(t)[1] + V(t)[2] + V(t)[3] = UNIT
  BY <1>1, EndsOfWalks
<1> HIDE DEF V
<1>3. /\ a \in [1..n -> Nat] /\ b \in [1..n -> Nat] /\ c \in [1..n -> Nat]
      /\ d \in [1..n -> Nat]
      /\ \A t \in 1..n : d[t] <= a[t] + b[t] + c[t] /\ a[t] + b[t] + c[t] <= UNIT
  <2>1. ASSUME NEW t \in 1..n
        PROVE  /\ a[t] \in Nat /\ b[t] \in Nat /\ c[t] \in Nat /\ d[t] \in Nat
               /\ d[t] <= a[t] + b[t] + c[t] /\ a[t] + b[t] + c[t] <= UNIT
    <3>1. V(t)[1] \in Nat /\ V(t)[2] \in Nat /\ V(t)[3] \in Nat
      BY <1>2
    <3>2. a[t] = V(t)[1] /\ b[t] = V(t)[2] /\ c[t] = V(t)[3]
      OBVIOUS
    <3>3. d[t] = IF Forest!AtLeaf(forest[t], x) THEN UNIT ELSE 0
      OBVIOUS
    <3> HIDE DEF a, b, c, d
    <3> QED
      BY <1>1, <1>2, <3>1, <3>2, <3>3
  <2> QED
    BY <2>1
<1>4. p[1] = Forest!Sum(a) /\ p[2] = Forest!Sum(b) /\ p[3] = Forest!Sum(c)
  BY <1>1
<1>5. r = IF Forest!Sum(p) > 0
            THEN [Forest!Answer(p, UNIT * n, Forest!FirstLargest(p)) EXCEPT !.sure = Forest!Sum(d)]
            ELSE Forest!Uniform
  BY <1>1 DEF Forest!predict_rf, V
<1> HIDE DEF a, b, c, d
<1>6. /\ Forest!Sum(a) \in Nat /\ Forest!Sum(b) \in Nat /\ Forest!Sum(c) \in Nat
      /\ Forest!Sum(d) <= Forest!Sum(a) + Forest!Sum(b) + Forest!Sum(c)
      /\ Forest!Sum(a) + Forest!Sum(b) + Forest!Sum(c) <= UNIT * n
  BY <1>1, <1>3, SumsOfColumns
<1>7. p \in [1..3 -> Nat]
  <2>1. \A k \in 1..3 : p[k] \in Nat
    <3> HIDE DEF p
    <3> QED
      BY <1>4, <1>6
  <2> QED
    BY <2>1
<1> HIDE DEF p, n, r
<1>8. CASE Forest!Sum(p) > 0
  <2>1. /\ r.p = p /\ r.unit = UNIT * n /\ r.sure = Forest!Sum(d)
        /\ r.class = Forest!FirstLargest(p)
    BY <1>5, <1>8 DEF Forest!Answer
  <2>2. p \in [1..3 -> Int]
    BY <1>7
  <2>3. r.class \in 1..3 /\ \A k \in 1..3 : p[k] <= p[r.class]
    BY <2>1, <2>2, FirstOfThree
  <2>4. IsDistribution(r) /\ Likeliest(r)
    BY <1>4, <1>6, <1>7, <2>1, <2>3 DEF IsDistribution, Likeliest
  <2> QED
    BY <2>4 DEF r
<1>9. CASE ~(Forest!Sum(p) > 0)
  <2>1. r = [p |-> <<1, 1, 1>>, unit |-> 3, sure |-> 3, class |-> 1]
    BY <1>5, <1>9 DEF Forest!Answer, Forest!Uniform
  <2>2. IsDistribution(r) /\ Likeliest(r)
    BY <2>1 DEF IsDistribution, Likeliest
  <2> QED
    BY <2>2 DEF r
<1> QED
  BY <1>8, <1>9

(* Two steps over n and n2 votes.                                          *)
LEMMA TwoStepsAnswer ==
  ASSUME NEW n \in Nat, NEW yes \in 0..n, NEW io \in Nat, NEW memory \in Nat, NEW n2 \in Nat,
         io + memory = n2, NEW tie \in BOOLEAN
  PROVE  LET a == Forest!TwoSteps(yes, n, io, memory, n2, tie)
         IN  /\ n2 # 0 => IsDistribution(a) /\ (Likeliest(a) \/ (tie /\ Undecided(a)))
             /\ n2 = 0 => tie \/ a = NotANumber \/ (IsDistribution(a) /\ Likeliest(a))
<1>1. CASE 2 * yes > n
  <2> DEFINE q == <<2 * yes, n - yes, n - yes>>
  <2>1. Forest!TwoSteps(yes, n, io, memory, n2, tie)
          = [p |-> q, unit |-> 2 * n, sure |-> 2 * n, class |-> 1]
    BY <1>1 DEF Forest!TwoSteps, Forest!Answer
  <2>2. q \in [1..3 -> Nat] /\ q[1] = 2 * yes /\ q[2] = n - yes /\ q[3] = n - yes
    OBVIOUS
  <2> HIDE DEF q
  <2>3. q[1] + q[2] + q[3] = 2 * n
    BY <2>2
  <2>4. \A d \in 1..3 : q[d] <= q[1]
    BY <1>1, <2>2
  <2> QED
    BY <2>1, <2>2, <2>3, <2>4 DEF IsDistribution, Likeliest, Undecided
<1>2. CASE ~(2 * yes > n) /\ n2 # 0
  <2> DEFINE c == IF io > memory THEN 2
                  ELSE IF io = memory /\ tie THEN 1 ELSE 3
  <2>1. Forest!TwoSteps(yes, n, io, memory, n2, tie)
          = [p |-> <<0, io, memory>>, unit |-> n2, sure |-> n2, class |-> c]
    BY <1>2 DEF Forest!TwoSteps, Forest!Answer, Forest!Share
  <2>2. \/ c = 2 /\ io > memory
        \/ c = 1 /\ io = memory /\ tie
        \/ c = 3 /\ memory >= io
    OBVIOUS
  <2> HIDE DEF c
  <2> DEFINE q == <<0, io, memory>>
  <2>3. /\ q \in [1..3 -> Nat] /\ q[1] = 0 /\ q[2] = io /\ q[3] = memory
    OBVIOUS
  <2>4. c \in 1..3 /\ q[1] + q[2] + q[3] = n2
    BY <2>2, <2>3
  <2>5. \/ \A d \in 1..3 : q[d] <= q[c]
        \/ tie /\ q[2] = q[3] /\ q[1] = 0
    BY <2>2, <2>3
  <2> HIDE DEF q
  <2>6. Forest!TwoSteps(yes, n, io, memory, n2, tie)
          = [p |-> q, unit |-> n2, sure |-> n2, class |-> c]
    BY <2>1 DEF q
  <2> QED
    BY <2>3, <2>4, <2>5, <2>6 DEF IsDistribution, Likeliest, Undecided
<1>3. CASE ~(2 * yes > n) /\ n2 = 0
  <2>1. io = 0 /\ memory = 0
    BY <1>3
  <2> QED
    BY <1>3, <2>1 DEF Forest!TwoSteps, Forest!Share, NotANumber
<1> QED
  BY <1>1, <1>2, <1>3

(* The two ties: the forests print Memory, the sessions Compute.           *)
LEMMA TwoStepsOfForests ==
  ASSUME NEW n \in Nat, NEW yes \in 0..n, NEW io \in Nat, NEW memory \in Nat, NEW n2 \in Nat,
         io + memory = n2
  PROVE  LET a == Forest!TwoSteps(yes, n, io, memory, n2, FALSE)
         IN  \/ IsDistribution(a) /\ Likeliest(a)
             \/ n2 = 0 /\ a = NotANumber
BY TwoStepsAnswer

LEMMA TwoStepsOfSessions ==
  ASSUME NEW n \in Nat, NEW yes \in 0..n, NEW io \in Nat, NEW memory \in Nat, NEW n2 \in Nat,
         io + memory = n2, n2 # 0
  PROVE  LET a == Forest!TwoSteps(yes, n, io, memory, n2, TRUE)
         IN  IsDistribution(a) /\ (Likeliest(a) \/ Undecided(a))
BY TwoStepsAnswer

(* What a classifier holds is what its file held, and its answer is one.   *)
ForestHeld ==
  /\ ArrayTyped
  /\ variant = "cjson" /\ "trees" \in held => ForestLoaded
  /\ variant = "cjson_2step" /\ "feature_names" \in held => forest \in Binary \X Binary

GoodAnswer(a) ==
  \/ /\ IsDistribution(a)
     /\ Likeliest(a) \/ (variant = "onnx_2step" /\ Undecided(a))
  \/ a = NotANumber /\ variant = "cjson_2step" /\ forest[2] = <<>>

AnswerInv == ClassifierInv /\ ForestHeld /\ (Forest!Answering => GoodAnswer(probs))

(* Which step reads which file.                                            *)
LEMMA FilesAreRead ==
  ASSUME ClassifierInv, step \in DOMAIN Forest!Steps,
         Forest!Steps[step].does \in {"get", "sure"}
  PROVE  /\ variant = "cjson" => Forest!Steps[step].obj # "feature_names"
         /\ variant = "cjson_2step" => Forest!Steps[step].obj # "trees"
<1>1. call \in Working /\ variant \in Forest!Variants
  BY StepsAreOfACall DEF ClassifierInv
<1>2. Leads /\ step \in 1..Len(Forest!Steps)
  BY <1>1, CallsLead DEF ClassifierInv, Leads
<1>3. call # "cleanup"
  BY <1>2 DEF Leads
<1>4. CASE call = "init" /\ variant = "cjson"
  <2>1. \A i \in 1..Len(Forest!Steps) : Forest!Steps[i].obj # "feature_names"
    BY <1>4 DEF Forest!Steps, Forest!InitOf, Forest!Get, Forest!Drop, Forest!Parse
  <2> QED
    BY <1>2, <1>4, <2>1
<1>5. CASE call = "init" /\ variant = "cjson_2step"
  <2>1. \A i \in 1..Len(Forest!Steps) : Forest!Steps[i].obj # "trees"
    BY <1>5 DEF Forest!Steps, Forest!InitOf, Forest!Get, Forest!Drop, Forest!Parse,
                Forest!Sure
  <2> QED
    BY <1>2, <1>5, <2>1
<1>6. CASE call = "classify" /\ variant = "cjson"
  <2>1. \A i \in 1..Len(Forest!Steps) : Forest!Steps[i].does = "use"
    BY <1>6
       DEF Forest!Steps, Forest!ClassifyOf, Forest!Use, Forest!Onnx, Forest!Get,
           Forest!Drop, Forest!OrExit, Forest!Infer
  <2> QED
    BY <1>2, <2>1
<1>7. CASE call = "classify" /\ variant = "cjson_2step"
  <2>1. \A i \in 1..Len(Forest!Steps) : Forest!Steps[i].does = "use"
    BY <1>7
       DEF Forest!Steps, Forest!ClassifyOf, Forest!Use, Forest!Onnx, Forest!Get,
           Forest!Drop, Forest!OrExit, Forest!Infer
  <2> QED
    BY <1>2, <2>1
<1> QED
  BY <1>1, <1>3, <1>4, <1>5, <1>6, <1>7 DEF Working, ClassifierInv

(* A load leaves the array typed, and the leaves of its file in it.        *)
LEMMA LoadIsSound ==
  ASSUME ArrayTyped, NEW f \in Forests, Forest!load_rf_model(f)
  PROVE  ArrayTyped' /\ ForestLoaded'
<1> DEFINE m == IF Len(f) > NUM_TREES THEN NUM_TREES ELSE Len(f)
           W(t, n) == t \in DOMAIN f /\ n \in DOMAIN f[t].nodes /\ f[t].nodes[n].leaf
<1>1. /\ forest' = [t \in 1..m |-> f[t]]
      /\ class_probs' = [t \in 1..NUM_TREES |-> [n \in 0..MAX_NODES - 1 |->
                           IF W(t, n) THEN f[t].nodes[n].value ELSE class_probs[t][n]]]
  BY DEF Forest!load_rf_model
<1>2. /\ Len(f) \in Nat /\ DOMAIN f = 1..Len(f) /\ NUM_TREES \in Nat
      /\ \A t \in DOMAIN f : Forest!IsTree(f[t])
      /\ UNIT \in Nat
  BY ForestsAssumption
<1>3. m \in 0..NUM_TREES /\ 1..m \subseteq DOMAIN f /\ 1..m \subseteq 1..NUM_TREES
  BY <1>2
<1> HIDE DEF m
<1>4. ASSUME NEW t \in 1..NUM_TREES, NEW n \in 0..MAX_NODES - 1
      PROVE  (IF W(t, n) THEN f[t].nodes[n].value ELSE class_probs[t][n])
               \in Forest!Shares({0, UNIT})
  <2>1. CASE W(t, n)
    <3>1. f[t].nodes[n].value \in Forest!Shares({UNIT})
      BY <1>2, <2>1 DEF Forest!IsTree
    <3> QED
      BY <2>1, <3>1 DEF Forest!Shares
  <2>2. CASE ~ W(t, n)
    BY <2>2 DEF ArrayTyped
  <2> QED
    BY <2>1, <2>2
<1>5. ArrayTyped'
  <2> HIDE DEF W
  <2> QED
    BY <1>1, <1>4 DEF ArrayTyped, Forest!Shares
<1>6. Len(forest') = m /\ DOMAIN forest' = 1..m
  <2> DEFINE S == {f[t] : t \in 1..m}
  <2>1. forest' \in [1..m -> S]
    BY <1>1
  <2>2. \A k \in Nat : \A q \in [1..k -> S] : Len(q) = k /\ DOMAIN q = 1..k
    <3> HIDE DEF S
    <3> QED
      OBVIOUS
  <2> QED
    BY <1>3, <2>1, <2>2
<1>7. ASSUME NEW t \in 1..m
      PROVE  /\ Forest!IsTree(forest'[t])
             /\ \A n \in DOMAIN forest'[t].nodes :
                  forest'[t].nodes[n].leaf => class_probs'[t][n] = forest'[t].nodes[n].value
  <2>1. forest'[t] = f[t] /\ t \in 1..NUM_TREES /\ t \in DOMAIN f
    BY <1>1, <1>3
  <2>2. Forest!IsTree(f[t]) /\ DOMAIN f[t].nodes \subseteq 0..MAX_NODES - 1
    BY <1>2, <2>1 DEF Forest!IsTree
  <2>3. ASSUME NEW n \in DOMAIN f[t].nodes, f[t].nodes[n].leaf
        PROVE  class_probs'[t][n] = f[t].nodes[n].value
    BY <1>1, <2>1, <2>2, <2>3
  <2> QED
    BY <2>1, <2>2, <2>3
<1> QED
  BY <1>3, <1>5, <1>6, <1>7 DEF ForestLoaded, Forest!IsTree

LEMMA AnswerStep ==
  ASSUME AnswerInv, Forest!Next
  PROVE  AnswerInv'
<1>1. ClassifierInv'
  BY ClassifierStep DEF AnswerInv
<1>2. variant' = variant
  BY DEF Forest!Next, Forest!CallInit, Forest!CallCleanup, Forest!Refuse,
         Forest!Begin, Forest!ClassifyForest, Forest!ClassifySession, Forest!Take,
         Forest!Fail, Forest!Skip, Forest!UseOrDrop, Forest!Return, Forest!Go
<1>3. variant # "cjson_2step" \/ forest' = forest =>
        \A a : GoodAnswer(a) => GoodAnswer(a)'
  BY <1>2 DEF GoodAnswer, IsDistribution, Likeliest, Undecided, NotANumber
<1>4. UNIT \in Nat \ {0}
  BY ForestsAssumption
<1>5. ASSUME call = "idle", Forest!Initialized \subseteq held
      PROVE  held = Forest!Owned
  BY <1>5 DEF AnswerInv, ClassifierInv, Forest!Initialized, Forest!Variants
<1>6. (Forest!Answering => GoodAnswer(probs))'
  <2>1. ASSUME NEW x \in Features, Forest!ClassifyForest(x), variant = "cjson"
        PROVE  GoodAnswer(probs)'
    <3>1. /\ ArrayTyped /\ ForestLoaded
          /\ probs' = Forest!predict_rf(forest, class_probs, x)
      BY <1>5, <2>1
         DEF Forest!ClassifyForest, Forest!Begin, AnswerInv, ForestHeld,
             Forest!Owned
    <3>2. GoodAnswer(Forest!predict_rf(forest, class_probs, x))
      BY <3>1, ForestAnswers DEF GoodAnswer
    <3> QED
      BY <1>3, <2>1, <3>1, <3>2
  <2>2. ASSUME NEW x \in Features, Forest!ClassifyForest(x), variant = "cjson_2step"
        PROVE  GoodAnswer(probs)'
    <3> DEFINE a == forest[1]
               b == forest[2]
               r == Forest!TwoSteps(Forest!Votes(a, x, 1), Len(a), Forest!Votes(b, x, 0),
                                    Forest!Votes(b, x, 1), Len(b), FALSE)
    <3>1. forest \in Binary \X Binary /\ probs' = r /\ forest' = forest
      BY <1>5, <2>2
         DEF Forest!ClassifyForest, Forest!Begin, AnswerInv, ForestHeld,
             Forest!Owned
    <3>2. a \in Binary /\ b \in Binary
      BY <3>1
    <3>3. b = forest[2]
      OBVIOUS
    <3> HIDE DEF a, b
    <3>4. /\ Forest!Votes(a, x, 1) \in 0..Len(a) /\ Len(a) \in Nat
          /\ Forest!Votes(b, x, 0) \in Nat /\ Forest!Votes(b, x, 1) \in Nat /\ Len(b) \in Nat
          /\ Forest!Votes(b, x, 0) + Forest!Votes(b, x, 1) = Len(b)
      <4>1. /\ Forest!Votes(a, x, 0) \in Nat /\ Forest!Votes(a, x, 1) \in Nat
            /\ Len(a) \in Nat
            /\ Forest!Votes(a, x, 0) + Forest!Votes(a, x, 1) = Len(a)
        BY <3>2, VotesAddUp
      <4>2. Forest!Votes(a, x, 1) \in 0..Len(a)
        BY <4>1
      <4> QED
        BY <3>2, <4>1, <4>2, VotesAddUp
    <3>5. \/ IsDistribution(r) /\ Likeliest(r)
          \/ Len(b) = 0 /\ r = NotANumber
      BY <3>4, TwoStepsOfForests
    <3>6. Len(b) = 0 => b = <<>>
      BY <3>2, ForestsAssumption
    <3> HIDE DEF r
    <3>7. GoodAnswer(r)
      BY <2>2, <3>3, <3>5, <3>6 DEF GoodAnswer
    <3> QED
      BY <1>3, <3>1, <3>7
  <2>3. ASSUME NEW p \in 0..UNIT, NEW q \in 0..UNIT, Forest!ClassifySession(p, q),
               variant = "onnx"
        PROVE  GoodAnswer(probs)'
    <3> DEFINE d == <<p, q, UNIT - p - q>>
               r == Forest!Answer(d, UNIT, Forest!FirstLargest(d))
    <3>1. probs' = r /\ p + q <= UNIT
      BY <2>3 DEF Forest!ClassifySession
    <3>2. p \in Nat /\ q \in Nat /\ UNIT - p - q \in Nat
      BY <1>4, <3>1
    <3>3. d \in [1..3 -> Nat] /\ d \in [1..3 -> Int] /\ d[1] + d[2] + d[3] = UNIT
      BY <1>4, <3>2
    <3> HIDE DEF d
    <3>4. /\ Forest!FirstLargest(d) \in 1..3
          /\ \A k \in 1..3 : d[k] <= d[Forest!FirstLargest(d)]
      BY <3>3, FirstOfThree
    <3>5. /\ r.p = d /\ r.unit = UNIT /\ r.sure = UNIT
          /\ r.class = Forest!FirstLargest(d)
      BY DEF Forest!Answer
    <3> HIDE DEF r
    <3>6. GoodAnswer(r)
      BY <1>4, <3>3, <3>4, <3>5 DEF GoodAnswer, IsDistribution, Likeliest
    <3> QED
      BY <1>3, <2>3, <3>1, <3>6
  <2>4. ASSUME NEW p \in 0..UNIT, NEW q \in 0..UNIT, Forest!ClassifySession(p, q),
               variant = "onnx_2step"
        PROVE  GoodAnswer(probs)'
    <3> DEFINE m == UNIT - q
               r == Forest!TwoSteps(p, UNIT, q, m, UNIT, TRUE)
    <3>1. probs' = r
      BY <2>4 DEF Forest!ClassifySession
    <3>2. q \in Nat /\ m \in Nat /\ q + m = UNIT
      BY <1>4
    <3> HIDE DEF m
    <3>3. IsDistribution(r) /\ (Likeliest(r) \/ Undecided(r))
      BY <1>4, <3>2, TwoStepsOfSessions
    <3> HIDE DEF r
    <3>4. GoodAnswer(r)
      BY <2>4, <3>3 DEF GoodAnswer
    <3> QED
      BY <1>3, <2>4, <3>1, <3>4
  <2>5. ASSUME Forest!Take, Forest!Answering
        PROVE  variant # "cjson_2step"
    <3> SUFFICES ASSUME variant = "cjson_2step" PROVE FALSE
      OBVIOUS
    <3>1. /\ step \in DOMAIN Forest!Steps
          /\ Forest!Steps[step].does \in {"get", "sure"}
      BY <2>5 DEF Forest!Take, Forest!Step
    <3>2. Forest!Steps = <<Forest!Use({"step1", "step2", "feature_names"})>>
      BY <2>5 DEF Forest!Answering, Forest!Steps, Forest!ClassifyOf, Forest!Onnx
    <3> QED
      BY <3>1, <3>2 DEF Forest!Use
  <2>6. CASE \/ Forest!CallInit \/ Forest!CallCleanup \/ Forest!Refuse
             \/ Forest!Fail \/ Forest!Return
    BY <2>6
       DEF Forest!CallInit, Forest!CallCleanup, Forest!Refuse, Forest!Begin,
           Forest!Fail, Forest!Return, Forest!Answering
  <2>7. CASE Forest!Take \/ Forest!Skip \/ Forest!UseOrDrop
    <3>1. probs' = probs /\ call' = call
      BY <2>7 DEF Forest!Take, Forest!Skip, Forest!UseOrDrop, Forest!Go
    <3>2. Forest!Answering => variant # "cjson_2step" \/ forest' = forest
      BY <2>5, <2>7 DEF Forest!Skip, Forest!UseOrDrop
    <3> QED
      BY <1>3, <3>1, <3>2 DEF AnswerInv, Forest!Answering
  <2>8. ASSUME NEW x \in Features, Forest!ClassifyForest(x)
        PROVE  variant \in {"cjson", "cjson_2step"}
    BY <2>8 DEF Forest!ClassifyForest
  <2>9. ASSUME NEW p \in 0..UNIT, NEW q \in 0..UNIT, Forest!ClassifySession(p, q)
        PROVE  variant \in {"onnx", "onnx_2step"}
    BY <2>9 DEF Forest!ClassifySession, Forest!Onnx
  <2> QED
    BY <2>1, <2>2, <2>3, <2>4, <2>6, <2>7, <2>8, <2>9 DEF Forest!Next
<1>7. ForestHeld'
  <2>1. CASE forest' = forest /\ class_probs' = class_probs /\ held' \subseteq held
    BY <1>2, <2>1 DEF AnswerInv, ForestHeld, ArrayTyped, ForestLoaded
  <2>2. CASE Forest!Take
    <3> DEFINE o == Forest!Steps[step].obj
    <3>1. /\ step \in DOMAIN Forest!Steps /\ Forest!Steps[step].does \in {"get", "sure"}
          /\ held' = held \cup {o}
          /\ o = "trees" => \E f \in Forests : Forest!load_rf_model(f)
          /\ o = "feature_names" => forest' \in Binary \X Binary /\ class_probs' = class_probs
          /\ o \notin {"trees", "feature_names"} => forest' = forest /\ class_probs' = class_probs
      BY <2>2 DEF Forest!Take, Forest!Go, Forest!Step
    <3>2. /\ variant = "cjson" => o # "feature_names"
          /\ variant = "cjson_2step" => o # "trees"
      BY <3>1, FilesAreRead DEF AnswerInv
    <3> HIDE DEF o
    <3>3. CASE o = "trees"
      <4>1. PICK f \in Forests : Forest!load_rf_model(f)
        BY <3>1, <3>3
      <4>2. ArrayTyped' /\ ForestLoaded'
        BY <4>1, LoadIsSound DEF AnswerInv, ForestHeld
      <4> QED
        BY <1>2, <3>2, <3>3, <4>2 DEF ForestHeld
    <3>4. CASE o # "trees"
      <4>1. ArrayTyped'
        BY <3>1, <3>4 DEF AnswerInv, ForestHeld, ArrayTyped
      <4>2. variant' = "cjson" /\ "trees" \in held' => ForestLoaded'
        BY <1>2, <3>1, <3>2, <3>4 DEF AnswerInv, ForestHeld, ForestLoaded
      <4>3. variant' = "cjson_2step" /\ "feature_names" \in held' => forest' \in Binary \X Binary
        BY <1>2, <3>1, <3>4 DEF AnswerInv, ForestHeld
      <4> QED
        BY <4>1, <4>2, <4>3 DEF ForestHeld
    <3> QED
      BY <3>3, <3>4
  <2>3. CASE Forest!Return
    <3>1. /\ call \in Working /\ step = Len(Forest!Steps) + 1 /\ held' = held
          /\ class_probs' = class_probs
          /\ call # "cleanup" => forest' = forest
      BY <2>3 DEF Forest!Return, AnswerInv, ClassifierInv
    <3>2. call = "cleanup" => held' = {}
      BY <3>1, CallsLead DEF Leads, AnswerInv, ClassifierInv
    <3>3. ArrayTyped'
      BY <3>1 DEF AnswerInv, ForestHeld, ArrayTyped
    <3> QED
      BY <1>2, <2>1, <3>1, <3>2, <3>3 DEF ForestHeld
  <2>4. CASE Forest!Fail
    <3>1. forest' = forest /\ class_probs' = class_probs /\ held' \subseteq held
      BY <2>4 DEF Forest!Fail
    <3> QED
      BY <2>1, <3>1
  <2>5. CASE Forest!UseOrDrop
    <3>1. forest' = forest /\ class_probs' = class_probs /\ held' \subseteq held
      BY <2>5 DEF Forest!UseOrDrop, Forest!Go
    <3> QED
      BY <2>1, <3>1
  <2>6. \/ Forest!Take \/ Forest!Return \/ Forest!Fail \/ Forest!UseOrDrop
        \/ forest' = forest /\ class_probs' = class_probs /\ held' = held
    BY DEF Forest!Next, Forest!CallInit, Forest!CallCleanup, Forest!Refuse,
           Forest!Begin, Forest!ClassifyForest, Forest!ClassifySession, Forest!Skip
  <2> QED
    BY <2>1, <2>2, <2>3, <2>4, <2>5, <2>6
<1> QED
  BY <1>1, <1>6, <1>7 DEF AnswerInv

LEMMA AnswerKept ==
  ASSUME AnswerInv, [ProgramNext]_all
  PROVE  AnswerInv'
<1>1. CASE program = "classifiers" /\ Forest!Next
  BY <1>1, AnswerStep
<1>2. CASE UNCHANGED classifiers
  <2>1. ClassifierInv'
    BY <1>2
       DEF AnswerInv, classifiers, ClassifierInv, Holds, Forest!Steps, Forest!Owned
  <2> QED
    BY <1>2, <2>1
       DEF AnswerInv, classifiers, ForestHeld, ArrayTyped, ForestLoaded, GoodAnswer,
           IsDistribution, Likeliest, Undecided, NotANumber, Forest!Answering
<1> QED
  BY <1>1, <1>2 DEF ProgramNext, all

(* A classification adds up to one as far as its trees came to a leaf, and *)
(* never to more, whatever features they test and whatever was loaded      *)
(* before; it is no number only where a second forest has no trees; the    *)
(* class it names is a likeliest one (libclassifier.c:132-174,             *)
(* libclassifier_2step.c:146-187).                                         *)
THEOREM AnswersAreProbabilities == ProgramSpec => []AnswersAreDistributions
<1>1. ProgramInit => AnswerInv
  <2>1. <<0, 0, 0>> \in Forest!Shares({0, UNIT})
    BY ForestsAssumption DEF Forest!Shares
  <2>2. Forest!Init => ArrayTyped
    BY <2>1 DEF Forest!Init, ArrayTyped
  <2> QED
    BY <2>2, ClassifierInitial DEF ProgramInit, Forest!Init, AnswerInv, ForestHeld, Forest!Answering
<1>2. AnswerInv /\ [ProgramNext]_all => AnswerInv'
  BY AnswerKept
<1>3. AnswerInv => AnswersAreDistributions
  <2> SUFFICES ASSUME AnswerInv, Forest!Answering
               PROVE  Forest!AnswersAreDistributions
    BY DEF AnswersAreDistributions, Forest!AnswersAreDistributions, Forest!ProbsSumToOne,
           Forest!NaNOfNoVotes, Forest!PredictedIsLikeliest
  <2>1. CASE /\ IsDistribution(probs)
             /\ Likeliest(probs) \/ (variant = "onnx_2step" /\ Undecided(probs))
    <3>1. ~ Forest!IsNaN
      BY <2>1 DEF Forest!IsNaN, Forest!NaN, IsDistribution
    <3>2. Forest!Sum(probs.p) = probs.p[1] + probs.p[2] + probs.p[3]
      <4>1. probs.p \in [1..3 -> Int]
        BY <2>1 DEF IsDistribution
      <4> QED
        BY <4>1, SumOfThree
    <3> QED
      BY <2>1, <3>1, <3>2
         DEF IsDistribution, Likeliest, Undecided, Forest!AnswersAreDistributions,
             Forest!ProbsSumToOne, Forest!NaNOfNoVotes, Forest!PredictedIsLikeliest
  <2>2. CASE probs = NotANumber /\ variant = "cjson_2step" /\ forest[2] = <<>>
    <3>1. Forest!IsNaN
      <4>1. probs.p[2] = Forest!NaN
        BY <2>2 DEF NotANumber, Forest!Answer
      <4> QED
        BY <4>1 DEF Forest!IsNaN
    <3> QED
      BY <2>2, <3>1
         DEF NotANumber, Forest!AnswersAreDistributions, Forest!ProbsSumToOne,
             Forest!NaNOfNoVotes, Forest!PredictedIsLikeliest
  <2> QED
    BY <2>1, <2>2 DEF AnswerInv, GoodAnswer
<1> QED
  BY <1>1, <1>2, <1>3, PTL DEF ProgramSpec

-----------------------------------------------------------------------------
(* Type correctness of all programs.                                       *)

(* The lines of a log are no more than a START and an END of each process. *)
LEMMA LogIsBounded == TestInv => Len(log) <= 2 * Tests!Most
<1> SUFFICES ASSUME TestInv
             PROVE  Len(log) <= 2 * Tests!Most
  OBVIOUS
<1>1. /\ Last \in Nat /\ num \in 1..Tests!Most /\ Tests!Most \in Nat
      /\ forked \in 0..num /\ waited \in 0..num
  BY MostBounds, TimesOfLines DEF TestInv, TestShape, num
<1> DEFINE P == {"START", "END"} \X (1..Tests!Most)
           f == [j \in 1..Last |-> <<log[j].event, log[j].index>>]
<1>2. ASSUME NEW j \in 1..Last
      PROVE  log[j].event \in {"START", "END"} /\ log[j].index \in 1..Tests!Most
  <2>1. log[j] \in TimedLines(MaxTime)
    BY <1>1 DEF TestInv, LogShape, Last
  <2>2. log[j].event \in {"START", "END"}
    BY <2>1 DEF TimedLines
  <2>3. log[j].event = "START" => log[j].index \in 1..forked
    BY DEF TestInv, StartLines
  <2>4. log[j].event = "END" => log[j].index \in 1..waited
    BY DEF TestInv, EndLines
  <2> QED
    BY <1>1, <2>2, <2>3, <2>4
<1>3. \A j \in 1..Last : f[j] \in P
  BY <1>2
<1>4. ASSUME NEW j \in 1..Last, NEW k \in 1..Last, f[j] = f[k]
      PROVE  j = k
  <2>1. log[j].event = log[k].event /\ log[j].index = log[k].index
    BY <1>4
  <2>2. PICK i \in 1..Tests!Most : i = log[j].index
    BY <1>2
  <2>3. CASE log[j].event = "START"
    <3>1. IsStart(j, i) /\ IsStart(k, i)
      BY <2>1, <2>2, <2>3 DEF IsStart
    <3> QED
      BY <3>1 DEF TestInv, StartLines
  <2>4. CASE log[j].event = "END"
    <3>1. IsEnd(j, i) /\ IsEnd(k, i)
      BY <2>1, <2>2, <2>4 DEF IsEnd
    <3> QED
      BY <3>1 DEF TestInv, EndLines
  <2> QED
    BY <1>2, <2>3, <2>4
<1>5. f \in Injection(1..Last, P)
  <2>1. f \in [1..Last -> P]
    BY <1>3
  <2> HIDE DEF f, P
  <2> QED
    BY <1>4, <2>1 DEF Injection, IsInjective
<1>6. IsFiniteSet(1..Last) /\ Cardinality(1..Last) = Last
  BY <1>1, IntervalCount
<1>7. IsFiniteSet(P) /\ Cardinality(P) = 2 * Tests!Most
  <2>1. IsFiniteSet(1..Tests!Most) /\ Cardinality(1..Tests!Most) = Tests!Most
    BY <1>1, IntervalCount
  <2>2. IsFiniteSet({"START", "END"}) /\ Cardinality({"START", "END"}) = 2
    <3>1. IsFiniteSet({"START"}) /\ Cardinality({"START"}) = 1
      BY FS_Singleton
    <3>2. "END" \notin {"START"} /\ {"START"} \cup {"END"} = {"START", "END"}
      OBVIOUS
    <3>3. /\ IsFiniteSet({"START"} \cup {"END"})
          /\ Cardinality({"START"} \cup {"END"}) = 1 + 1
      BY <3>1, <3>2, FS_AddElement
    <3> QED
      BY <3>2, <3>3
  <2>3. /\ IsFiniteSet(P)
        /\ Cardinality(P) = Cardinality({"START", "END"}) * Cardinality(1..Tests!Most)
    BY <2>1, <2>2, FS_Product, Zenon
  <2> QED
    BY <2>1, <2>2, <2>3
<1> HIDE DEF f, P
<1>8. Last <= 2 * Tests!Most
  BY <1>5, <1>6, <1>7, FS_Injection
<1> QED
  BY <1>8 DEF Last

(* There is a line in the file of results for each test that has ended.    *)
ResultsInv ==
  /\ \E S : results \in Seq(S)
  /\ Len(results) = IF tpc = "done" THEN Len(Counts) ELSE test - 1

LEMMA ResultsStep == TestInv /\ ResultsInv /\ [ProgramNext]_all => ResultsInv'
<1> SUFFICES ASSUME TestInv, ResultsInv, [ProgramNext]_all
             PROVE  ResultsInv'
  OBVIOUS
<1>1. test \in 1..Len(Counts) /\ Len(Counts) \in Nat
  BY MostBounds DEF TestInv, TestShape
<1>2. CASE results' = results /\ test' = test /\ (tpc' = "done" <=> tpc = "done")
  BY <1>2 DEF ResultsInv
<1>3. CASE Tests!Result
  <2>1. PICK x : results' = Append(results, x)
    BY <1>3 DEF Tests!Result
  <2>2. PICK S : results \in Seq(S)
    BY DEF ResultsInv
  <2> DEFINE R == S \cup {x}
  <2>3. results \in Seq(R) /\ x \in R
    <3>1. Len(results) \in Nat /\ results = [i \in 1..Len(results) |-> results[i]]
      BY <2>2
    <3>2. \A i \in 1..Len(results) : results[i] \in R
      BY <2>2
    <3> HIDE DEF R
    <3>3. results \in [1..Len(results) -> R]
      BY <3>1, <3>2
    <3>4. results \in Seq(R)
      BY <3>1, <3>3, SeqDef
    <3> QED
      BY <3>4 DEF R
  <2> HIDE DEF R
  <2>4. results' \in Seq(R) /\ Len(results') = Len(results) + 1
    BY <2>1, <2>3
  <2>5. Len(results) = test - 1
    BY <1>3 DEF ResultsInv, Tests!Result
  <2>6. Len(results') = IF tpc' = "done" THEN Len(Counts) ELSE test' - 1
    BY <1>1, <1>3, <2>4, <2>5 DEF Tests!Result
  <2> QED
    BY <2>4, <2>6 DEF ResultsInv
<1>4. ASSUME Tests!Next, ~ Tests!Result
      PROVE  results' = results /\ test' = test /\ (tpc' = "done" <=> tpc = "done")
  <2>1. CASE Tests!Fork
    BY <2>1 DEF Tests!Fork
  <2>2. CASE Tests!Wait \/ Tests!LogEnd
    BY <2>2 DEF Tests!Wait, Tests!LogEnd, Tests!Waited
  <2>3. CASE \/ Tests!Tick
             \/ \E i \in 1..Tests!Most : Tests!Stamp(i) \/ Tests!LogStart(i)
                                           \/ Tests!Finish(i) \/ Tests!Killed(i)
    BY <2>3 DEF Tests!Tick, Tests!Stamp, Tests!LogStart, Tests!Finish, Tests!Killed
  <2> QED
    BY <1>4, <2>1, <2>2, <2>3 DEF Tests!Next
<1>5. CASE UNCHANGED quality
  BY <1>2, <1>5 DEF quality
<1>6. Tests!Next \/ UNCHANGED quality
  BY DEF ProgramNext, all
<1> QED
  BY <1>2, <1>3, <1>4, <1>5, <1>6

LEMMA TestsTyped == TestInv /\ ResultsInv => Tests!TypeOK
<1> SUFFICES ASSUME TestInv, ResultsInv
             PROVE  Tests!TypeOK
  OBVIOUS
<1>1. /\ num \in 1..Tests!Most /\ Tests!Most \in Nat /\ Len(Counts) \in Nat
      /\ test \in 1..Len(Counts)
  BY MostBounds DEF TestInv, TestShape, num
<1>2. Len(log) <= 2 * Tests!Most /\ Len(results) <= Len(Counts)
  BY <1>1, LogIsBounded DEF ResultsInv
<1>3. /\ now \in 1..MaxTime /\ child \in [1..Tests!Most -> States]
      /\ tpc \in {"fork", "wait", "end", "result", "done", "failed"}
  BY DEF TestInv, TestShape
<1>4. forked \in 0..Tests!Most /\ waited \in 0..forked
  BY <1>1 DEF TestInv, TestShape
<1> QED
  BY <1>1, <1>2, <1>3, <1>4 DEF Tests!TypeOK, States

LEMMA WindowsTyped == DatasetInv => Windows!TypeOK
<1> SUFFICES ASSUME DatasetInv
             PROVE  Windows!TypeOK
  OBVIOUS
<1>1. \A p \in Procs : Len(buffer[p]) <= 1 /\ Len(at[p]) = idx[p]
  BY DEF DatasetInv, StreamSound, ClockSound
<1>2. /\ env \in [Procs -> Envs] /\ mpc \in [Procs -> MainLabels]
      /\ monitor \in [Procs -> {"none", "sleep", "log", "print", "flush"}]
      /\ fp \in [Procs -> {"NULL", "open", "freed"}]
      /\ idx \in [Procs -> 0..MaxWindows]
  BY DEF DatasetInv, DatasetTypes
<1> QED
  BY <1>1, <1>2 DEF Windows!TypeOK, MainLabels

LEMMA RatiosTyped == RatiosInv => Ratios!TypeOK
BY Zenon DEF RatiosInv, Ratios!TypeOK, Sampled

(* The state of every program keeps its types, bounds included: a test     *)
(* never logs more lines than a START and an END of each workload, nor     *)
(* reports more rows than there are tests; a backlog stays within its      *)
(* limit; a data set holds one line of a process back at most              *)
(* (scheduler_quality_test1.c:172-292, monitor_receiver.c:29-43,           *)
(* libmonitor.c:604-699, scheduler.c:1025-1095).                           *)
THEOREM AllTypeCorrect == ProgramSpec => []AllTyped
<1>1. ProgramInit => /\ SocketsInv /\ RecorderInv /\ DatasetInv /\ RatiosInv
                     /\ TestInv /\ ResultsInv
  <2>1. ProgramInit => SocketsInv /\ RecorderInv /\ DatasetInv /\ RatiosInv
    BY SocketsInitial, RecorderInitial, DatasetInitial, RatiosInitial DEF ProgramInit
  <2>2. <<>> \in Seq({}) /\ Len(<<>>) = 0
    OBVIOUS
  <2>3. Tests!Init => ResultsInv
    BY <2>2 DEF Tests!Init, ResultsInv
  <2> QED
    BY <2>1, <2>3, TestInitial DEF ProgramInit
<1>2. [ProgramNext]_all => /\ [Sockets!Next]_sockets /\ [Recorder!Next]_receiver
                           /\ [Windows!Next]_dataset /\ [Ratios!Next]_ratios
  BY DEF ProgramNext, all, sockets, receiver, dataset, ratios
<1>3. TestInv /\ [ProgramNext]_all => TestInv'
  BY TestKept
<1>4. /\ TypeOK /\ SocketsInv /\ RecorderInv /\ DatasetInv /\ RatiosInv /\ TestInv /\ ResultsInv
      => AllTyped
  BY TestsTyped, WindowsTyped, RatiosTyped DEF AllTyped, SocketsInv, RecorderInv
<1> QED
  BY <1>1, <1>2, <1>3, <1>4, SocketsStep, RecorderStep, DatasetStep, RatiosStep, ResultsStep,
     AffinityTypeCorrect, PTL DEF ProgramSpec
=============================================================================
