---------------------------- MODULE DynamicCores ----------------------------
(***************************************************************************)
(* The core sets of the three classes of workloads, which the daemon       *)
(* computes and logs in every round (compute_dynamic_coresets,             *)
(* log_core_allocation in scheduler.c).  The thread counts it computes     *)
(* them from are counted by code that is commented out and stay zero; the  *)
(* algorithm is modelled for every count it is written for.                *)
(***************************************************************************)
EXTENDS CoreSets

CONSTANT ThreadCounts    \* how many threads a class can have

Classes == {"compute", "io", "memory"}
Half == MAX_CORES \div 2          \* P-cores come first
P_CORESET == <<Span(0, Half - 1)>>
E_CORESET == <<Span(Half, MAX_CORES - 1)>>

VARIABLES threads,    \* compute_threads, io_threads, memory_threads
          masks,      \* what compute_dynamic_coresets returns
          prev_masks
vars == <<threads, masks, prev_masks>>

NoMasks == [k \in Classes |-> <<>>]
IdleMasks == [compute |-> P_CORESET, io |-> E_CORESET, memory |-> P_CORESET]

Init == /\ threads = [k \in Classes |-> 0]
        /\ masks = NoMasks
        /\ prev_masks = NoMasks

-----------------------------------------------------------------------------
Sum3(f) == f.compute + f.io + f.memory
Active(th) == {k \in Classes : th[k] > 0}

(* The first of three classes that is active; "" if none is.               *)
FirstActive(th, a, b, c) ==
  IF th[a] > 0 THEN a ELSE IF th[b] > 0 THEN b ELSE IF th[c] > 0 THEN c ELSE ""

(* Four threads of the memory class weigh as much as one of another.       *)
Effective(th) == [th EXCEPT !.memory = @ \div 4]

(* Mutant: what the rounding leaves goes to nobody.                        *)
DesiredRoundedDown(th) ==
  LET eff == Effective(th)
      rest == MAX_CORES - Cardinality(Active(th))
  IN  [k \in Classes |-> IF k \in Active(th)
                         THEN 1 + (rest * eff[k]) \div Max({1, Sum3(eff)}) ELSE 0]

(* One core for each class and the rest in proportion; what the rounding   *)
(* leaves goes to one class, what it exceeds comes off another.            *)
Desired(th) ==
  LET eff == Effective(th)
      total == Max({1, Sum3(eff)})
      rest == MAX_CORES - Cardinality(Active(th))
      share == [k \in Classes |->
                  IF k \in Active(th) THEN 1 + (rest * eff[k]) \div total ELSE 0]
      slack == MAX_CORES - Sum3(share)
      gains == FirstActive(th, "compute", "memory", "io")
      loses == FirstActive(th, "io", "memory", "compute")
  IN  [k \in Classes |->
         IF slack > 0 /\ k = gains THEN share[k] + slack
         ELSE IF slack < 0 /\ k = loses THEN Max({1, share[k] + slack})
         ELSE share[k]]

(* n cores of one side to a class, as far as there are any.                *)
Assign(a, class, side, n) ==
  LET k == Min({n, Len(a.free[side])})
  IN  [a EXCEPT !.free[side] = SubSeq(@, k + 1, Len(@)),
                !.cores[class] = @ \o SubSeq(a.free[side], 1, k),
                !.desired[class] = Max({@ - k, 0})]

Want(a, class, side) == Assign(a, class, side, a.desired[class])

(* The P-cores go to compute and memory in proportion to their weight,     *)
(* wanted or not; then io takes E-cores, and what is wanted still is taken *)
(* from the P-cores and then from the E-cores that are left.               *)
Allocate(th) ==
  LET eff == Effective(th)
      weight == eff.compute + eff.memory
      p_compute == (Half * eff.compute) \div weight
      start == [free |-> [P |-> [i \in 1..Half |-> i - 1],
                          E |-> [i \in 1..MAX_CORES - Half |-> Half + i - 1]],
                cores |-> NoMasks, desired |-> Desired(th)]
      weighed == IF weight = 0 THEN start
                 ELSE Assign(Assign(start, "compute", "P", p_compute),
                             "memory", "P", Half - p_compute)
      io_E == Want(weighed, "io", "E")
      io_P == Want(io_E, "io", "P")
      compute_P == Want(io_P, "compute", "P")
      memory_P == Want(compute_P, "memory", "P")
      compute_E == Want(memory_P, "compute", "E")
  IN  Want(compute_E, "memory", "E").cores

(* A class that got nothing is given a core by name, but counts as holding *)
(* core 0, the value its array started with.                               *)
Fallback == [compute |-> <<Core(0)>>, io |-> <<Core(MAX_CORES)>>, memory |-> <<Core(1)>>]

Starved(th, cores) == {k \in Active(th) : cores[k] = <<>>}

MasksOf(th, cores) ==
  [k \in Classes |-> IF k \in Starved(th, cores) THEN Fallback[k]
                     ELSE cores_to_string(cores[k])]

Overlap(th, cores) ==
  LET lists == [k \in Classes |-> IF k \in Starved(th, cores) THEN <<0>> ELSE cores[k]]
      all == lists.compute \o lists.io \o lists.memory
  IN  Len(all) > Cardinality(ToSet(all)) \/ Len(all) > MAX_CORES

compute_dynamic_coresets(th) ==
  /\ threads' = th
  /\ IF Active(th) = {} THEN masks' = IdleMasks /\ prev_masks' = masks'
     ELSE LET cores == Allocate(th) IN
          IF Overlap(th, cores) THEN masks' = prev_masks /\ UNCHANGED prev_masks
          ELSE masks' = MasksOf(th, cores) /\ prev_masks' = masks'

Next == \E th \in [Classes -> ThreadCounts] : compute_dynamic_coresets(th)

Spec == Init /\ [][Next]_vars

(* The row of log_core_allocation: later classes overwrite earlier ones,   *)
(* and a core of no class counts as compute.                               *)
log_core_allocation(m) ==
  LET held == [k \in Classes |-> set_affinity(m[k])]
  IN  [c \in 0..MAX_CORES - 1 |-> IF c \in held["memory"] THEN "memory"
                                  ELSE IF c \in held["io"] THEN "io" ELSE "compute"]
-----------------------------------------------------------------------------
(* All classes are active and the P-cores, dealt out by weight, all go to  *)
(* one of compute and memory.                                              *)
Squeezed(th) ==
  LET eff == Effective(th) IN
  /\ Active(th) = Classes
  /\ eff.memory = 0 \/ Half * eff.compute < eff.compute + eff.memory

Kept == Squeezed(threads') /\ masks' = prev_masks

(* Threads of all classes share the machine: no core belongs to two        *)
(* classes and none is left over, although the P-cores are dealt out       *)
(* before anything is known of what io will need; only where one class may *)
(* find nothing left, the masks of the round before may be kept            *)
(* (scheduler.c:486-575, 599-640).                                         *)
CoresArePartitioned ==
  [][Active(threads') # {} => Kept \/
       LET held == [k \in Classes |-> set_affinity(masks'[k])]
       IN  \A c \in 0..MAX_CORES - 1 : \E k \in Classes :
             c \in held[k] /\ \A l \in Classes \ {k} : c \notin held[l]]_vars

(* Every active class gets a core, with the same exception                 *)
(* (scheduler.c:439, 582-650).                                             *)
NoClassIsStarved ==
  [][Kept \/ \A k \in Active(threads') : set_affinity(masks'[k]) # {}]_vars

(* The row that is logged agrees with the masks: each core is logged for a *)
(* class that holds it (scheduler.c:695-773).                              *)
RowTellsTheMasks ==
  [][masks' # NoMasks =>
       LET row == log_core_allocation(masks')
           held == [k \in Classes |-> set_affinity(masks'[k])]
       IN  \A c \in 0..MAX_CORES - 1 : c \in held[row[c]]]_vars

(* Every round deals the whole machine out to the classes that are active, *)
(* each core once, and logs what it dealt (scheduler.c:409-650, 695-773).  *)
CoresAreDealt == CoresArePartitioned /\ NoClassIsStarved /\ RowTellsTheMasks
=============================================================================
