------------------------ MODULE MonitorThreadsProofs ------------------------
(***************************************************************************)
(* TLAPS proofs about MonitorThreads, for any number of threads, slots and *)
(* perf groups and any behaviour of the workload.  One inductive invariant *)
(* carries them all, in three parts that hold under ever more assumptions: *)
(*   TInv  always: the table and the fds its slots refer to,               *)
(*   OInv  if every thread ends through the library: what is active,       *)
(*   KInv  if every stat can be read: what is not lost.                    *)
(* OInv and KInv each rest on TInv and not on one another.  First the      *)
(* pieces of code that touch the table, then the steps, then the results.  *)
(***************************************************************************)
EXTENDS MonitorThreads, WellFoundedInduction, TLAPS

(* SlotOwnsItsGroup, over the whole array and with what the code relies on *)
(* to keep it: only an initialised slot refers to a group.                 *)
SlotsSound ==
  /\ \A k \in Used : thread_data[k].tid \in Tids
  /\ \A k \in Slots \ Used : thread_data[k] = Zeroed
  /\ \A k \in Slots : Held(k) # NULL => /\ thread_data[k].mon_initialized
                                        /\ perf[Held(k)] = thread_data[k].tid
  /\ \A j, k \in Slots : Held(j) # NULL /\ Held(j) = Held(k) => j = k

(* The index thread_wrapper keeps between its two critical sections.       *)
PlacedInTable == \A t \in Tids : life[t] = "placed" => idx[t] \in Used

TInv == TypeOK /\ SlotsSound /\ PlacedInTable

(* While every thread ends through the library, an active slot is for a    *)
(* thread inside the library or the workload's routine.                    *)
Orderly ==
  ~ RawThreads =>
    /\ unregistered = {}
    /\ \A t \in Tids : life[t] # "cloned"
    /\ \A k \in Used : thread_data[k].active =>
                        life[thread_data[k].tid] \in {"placed", "running"}

OInv == Orderly /\ NoThreadTwice /\ NeverAborts

(* While every stat can be read, a thread finds its slot again.            *)
PlacedKeepsSlot ==
  ~ StatFails /\ Initialised =>
    \A t \in Tids : life[t] = "placed" => /\ thread_data[idx[t]].active
                                         /\ thread_data[idx[t]].tid = t

KInv == PlacedKeepsSlot /\ TrackedWhileRunning /\ NoLeak

IInv == TInv /\ OInv /\ KInv
-----------------------------------------------------------------------------

(* The loops that look for the first slot with a property find it.         *)
LEMMA FirstExists ==
  ASSUME NEW S \in SUBSET Nat, S # {}
  PROVE  /\ (CHOOSE k \in S : \A j \in S : k <= j) \in S
<1>1. PICK x \in S : \A y \in S : ~ (<<y, x>> \in OpToRel(<, Nat))
  BY WFMin, NatLessThanWellFounded, Zenon
<1>2. \A y \in S : ~ (<<y, x>> \in {r \in Nat \X Nat : r[1] < r[2]})
  BY <1>1 DEF OpToRel
<1>3. ASSUME NEW y \in S
      PROVE  x <= y
  <2>1. x \in Nat /\ y \in Nat
    OBVIOUS
  <2>2. y < x => <<y, x>> \in {r \in Nat \X Nat : r[1] < r[2]}
    BY <2>1
  <2> QED
    BY <1>2, <2>1, <2>2
<1> QED
  BY <1>3

LEMMA UsedAreSlots == TypeOK => Used \subseteq Slots /\ Slots \subseteq Nat
BY SizesAssumption DEF TypeOK, Used, Slots

LEMMA SlotForFacts ==
  ASSUME TypeOK
  PROVE  /\ SlotFor \in Slots \cup {NULL}
         /\ SlotFor # NULL => /\ SlotFor \in 0 .. thread_count
                              /\ SlotFor \in Used => ~ thread_data[SlotFor].active
<1>1. CASE Inactive # {}
  <2>1. Inactive \in SUBSET Nat
    BY DEF Inactive, Used
  <2>2. SlotFor \in Inactive
    BY <1>1, <2>1, FirstExists DEF SlotFor
  <2> QED
    BY <2>2, SizesAssumption DEF Inactive, Used, Slots, TypeOK
<1>2. CASE Inactive = {} /\ thread_count < MAX_THREADS
  BY <1>2, SizesAssumption DEF SlotFor, Used, Slots, TypeOK
<1>3. CASE Inactive = {} /\ ~ (thread_count < MAX_THREADS)
  BY <1>3 DEF SlotFor
<1> QED
  BY <1>1, <1>2, <1>3

LEMMA FoundFacts ==
  ASSUME NEW t \in Tids
  PROVE  /\ SlotsOf(t) = {} => find_thread_index(t) = NULL
         /\ SlotsOf(t) # {} => /\ find_thread_index(t) \in SlotsOf(t)
                               /\ find_thread_index(t) # NULL
<1>1. SlotsOf(t) \in SUBSET Nat
  BY DEF SlotsOf, Used
<1>2. SlotsOf(t) # {} => find_thread_index(t) \in SlotsOf(t)
  BY <1>1, FirstExists DEF find_thread_index
<1>3. NULL \notin SlotsOf(t)
  BY <1>1, NamesAssumption
<1> QED
  BY <1>2, <1>3 DEF find_thread_index

(* A slot as it is given back.                                             *)
GivenBack(td) == [IF td.mon_initialized THEN Closed(td) ELSE td EXCEPT !.active = FALSE]

LEMMA GivenBackFacts ==
  ASSUME NEW td \in ThreadData
  PROVE  /\ Closed(td) \in ThreadData /\ GivenBack(td) \in ThreadData
         /\ Closed(td).tid = td.tid /\ GivenBack(td).tid = td.tid
         /\ Closed(td).active = td.active /\ ~ GivenBack(td).active
         /\ Closed(td).mon = NULL
         /\ td.mon_initialized => GivenBack(td).mon = NULL
         /\ ~ td.mon_initialized =>
              GivenBack(td).mon = td.mon /\ ~ GivenBack(td).mon_initialized
BY DEF Closed, GivenBack, ThreadData
-----------------------------------------------------------------------------
(* What the four operations on the table do to it: taking a slot, opening  *)
(* its counters, giving it back, and giving it back without a close.       *)
TableTypeOK == /\ thread_data \in [Slots -> ThreadData]
               /\ thread_count \in 0 .. MAX_THREADS
               /\ perf \in [Groups -> Tids \cup {NULL}]

LEMMA TakingASlot ==
  ASSUME TypeOK, SlotsSound, NEW t \in Tids, alloc_thread_slot(t), UNCHANGED perf
  PROVE  /\ TableTypeOK' /\ SlotsSound'
         /\ Used \subseteq Used' /\ Used' \subseteq Used \cup {SlotFor}
         /\ SlotFor # NULL => /\ SlotFor \in Used'
                              /\ thread_data'[SlotFor].tid = t
                              /\ thread_data'[SlotFor].active
         /\ \A k \in Slots : k # SlotFor => thread_data'[k] = thread_data[k]
<1> DEFINE new == [Zeroed EXCEPT !.tid = t, !.active = TRUE]
<1>1. CASE SlotFor = NULL
  <2>1. UNCHANGED <<thread_data, thread_count, perf>>
    BY <1>1 DEF alloc_thread_slot
  <2> QED
    BY <1>1, <2>1 DEF TypeOK, TableTypeOK, SlotsSound, Used, Held
<1>2. CASE SlotFor # NULL
  <2>1. /\ thread_data' = [thread_data EXCEPT ![SlotFor] = new]
        /\ thread_count' = IF SlotFor = thread_count THEN thread_count + 1
                                                     ELSE thread_count
    BY <1>2 DEF alloc_thread_slot
  <2>2. /\ SlotFor \in Slots /\ SlotFor \in 0 .. thread_count
        /\ thread_count \in Nat /\ thread_data \in [Slots -> ThreadData]
    BY <1>2, SlotForFacts, SizesAssumption DEF TypeOK
  <2>3. /\ new \in ThreadData /\ new.tid = t /\ new.active /\ new.mon = NULL
    BY DEF ThreadData, Zeroed
  <2> HIDE DEF new
  <2>4. /\ thread_data' \in [Slots -> ThreadData]
        /\ thread_data'[SlotFor] = new
        /\ \A k \in Slots : k # SlotFor => thread_data'[k] = thread_data[k]
    BY <2>1, <2>2, <2>3
  <2>5. /\ thread_count' \in 0 .. MAX_THREADS
        /\ Used' = Used \cup {SlotFor}
        /\ Used' \subseteq Slots
    BY <2>1, <2>2, SizesAssumption DEF Used, Slots, TypeOK
  <2>6. SlotsSound'
    <3>1. \A k \in Used' : thread_data'[k].tid \in Tids
      BY <2>3, <2>4, <2>5 DEF SlotsSound
    <3>2. \A k \in Slots \ Used' : thread_data'[k] = Zeroed
      BY <2>4, <2>5 DEF SlotsSound
    <3>3. \A k \in Slots : Held(k)' # NULL =>
             Held(k)' = Held(k) /\ k # SlotFor
      BY <2>3, <2>4 DEF Held
    <3>4. \A k \in Slots : Held(k)' # NULL =>
             /\ thread_data'[k].mon_initialized
             /\ perf'[Held(k)'] = thread_data'[k].tid
      BY <2>4, <3>3 DEF SlotsSound
    <3>5. \A j, k \in Slots : Held(j)' # NULL /\ Held(j)' = Held(k)' => j = k
      BY <3>3 DEF SlotsSound
    <3> QED
      BY <3>1, <3>2, <3>4, <3>5 DEF SlotsSound
  <2> QED
    BY <2>2, <2>3, <2>4, <2>5, <2>6 DEF TypeOK, TableTypeOK
<1> QED
  BY <1>1, <1>2

LEMMA PerfClosedFacts ==
  ASSUME TypeOK, SlotsSound, NEW k \in Slots
  PROVE  /\ PerfClosed(k) \in [Groups -> Tids \cup {NULL}]
         /\ \A g \in Groups : PerfClosed(k)[g] \in {perf[g], NULL}
         /\ \A g \in Groups : g # Held(k) => PerfClosed(k)[g] = perf[g]
         /\ Held(k) \in Groups => PerfClosed(k)[Held(k)] = NULL
         /\ \A j \in Slots : Held(j) \in Groups \cup {NULL}
<1>1. \A j \in Slots : Held(j) \in Groups \cup {NULL}
  BY DEF TypeOK, Held, ThreadData
<1>2. /\ perf \in [Groups -> Tids \cup {NULL}]
      /\ NULL \notin Groups
  BY NamesAssumption DEF TypeOK
<1>3. Held(k) \in Groups => thread_data[k].mon_initialized
  BY <1>2 DEF SlotsSound
<1>4. \A g \in Groups :
        PerfClosed(k)[g] = IF thread_data[k].mon_initialized /\ g = Held(k)
                           THEN NULL ELSE perf[g]
  BY DEF PerfClosed
<1>5. PerfClosed(k) \in [Groups -> Tids \cup {NULL}]
  BY <1>2 DEF PerfClosed
<1> QED
  BY <1>1, <1>2, <1>3, <1>4, <1>5

LEMMA OpeningASlot ==
  ASSUME TypeOK, SlotsSound, NEW k \in Used, open_or_reopen_thread_perf(k),
         UNCHANGED thread_count
  PROVE  /\ TableTypeOK' /\ SlotsSound' /\ Used' = Used
         /\ \A j \in Slots : /\ thread_data'[j].tid = thread_data[j].tid
                             /\ thread_data'[j].active = thread_data[j].active
         /\ \A j \in Slots : j # k => thread_data'[j] = thread_data[j]
         /\ \A h \in Groups : perf'[h] # NULL =>
              \/ h = Held(k)' /\ thread_data'[k].mon_initialized
              \/ perf[h] # NULL /\ h # Held(k)
<1>1. k \in Slots /\ thread_data \in [Slots -> ThreadData]
  BY UsedAreSlots DEF TypeOK
<1>2. Used' = Used
  BY DEF Used
<1>3. PICK g \in Groups \cup {NULL}, ok \in BOOLEAN :
        /\ g # NULL => ok /\ PerfClosed(k)[g] = NULL
        /\ thread_data' = [thread_data EXCEPT ![k].mon_initialized = ok, ![k].mon = g]
        /\ perf' = IF g = NULL THEN PerfClosed(k)
                   ELSE [PerfClosed(k) EXCEPT ![g] = thread_data[k].tid]
  <2>1. CASE \E g \in {f \in Groups : PerfClosed(k)[f] = NULL} :
               /\ perf' = [PerfClosed(k) EXCEPT ![g] = thread_data[k].tid]
               /\ thread_data' = [thread_data EXCEPT ![k].mon_initialized = TRUE,
                                                     ![k].mon = g]
    BY <2>1, NamesAssumption
  <2>2. CASE /\ perf' = PerfClosed(k)
             /\ thread_data' = [thread_data EXCEPT ![k].mon_initialized = TRUE,
                                                   ![k].mon = NULL]
    BY <2>2
  <2>3. CASE /\ perf' = PerfClosed(k)
             /\ thread_data' = [thread_data EXCEPT ![k] = Closed(@)]
    BY <2>3, <1>1 DEF Closed, ThreadData
  <2> QED
    BY <2>1, <2>2, <2>3 DEF open_or_reopen_thread_perf
<1> DEFINE td == [thread_data[k] EXCEPT !.mon_initialized = ok, !.mon = g]
<1>4. /\ td \in ThreadData /\ td.mon = g /\ td.mon_initialized = ok
      /\ td.tid = thread_data[k].tid /\ td.active = thread_data[k].active
  BY <1>1 DEF ThreadData
<1>5. /\ thread_data' \in [Slots -> ThreadData] /\ thread_data'[k] = td
      /\ \A j \in Slots : j # k => thread_data'[j] = thread_data[j]
  BY <1>1, <1>3, <1>4
<1> HIDE DEF td
<1>6. /\ Held(k)' = g /\ g \in Groups \cup {NULL} /\ NULL \notin Groups
      /\ \A j \in Slots : j # k => Held(j)' = Held(j)
  BY <1>4, <1>5, NamesAssumption DEF Held
<1>7. thread_data[k].tid \in Tids /\ NULL \notin Tids
  BY NamesAssumption DEF SlotsSound
<1>8. /\ perf' \in [Groups -> Tids \cup {NULL}]
      /\ \A h \in Groups : perf'[h] = IF h = g THEN thread_data[k].tid
                                              ELSE PerfClosed(k)[h]
  BY <1>1, <1>3, <1>6, <1>7, PerfClosedFacts
<1>9. \A j \in Slots : j # k /\ Held(j) # NULL =>
         /\ Held(j) # Held(k) /\ Held(j) # g
         /\ PerfClosed(k)[Held(j)] = thread_data[j].tid
  <2> SUFFICES ASSUME NEW j \in Slots, j # k, Held(j) # NULL
               PROVE  /\ Held(j) # Held(k) /\ Held(j) # g
                      /\ PerfClosed(k)[Held(j)] = thread_data[j].tid
    OBVIOUS
  <2>1. Held(j) # Held(k)
    BY <1>1 DEF SlotsSound
  <2>2. j \in Used /\ thread_data[j].tid \in Tids
    BY DEF SlotsSound, Held, Zeroed
  <2>3. Held(j) \in Groups /\ perf[Held(j)] = thread_data[j].tid
    BY PerfClosedFacts, <1>1 DEF SlotsSound
  <2>4. PerfClosed(k)[Held(j)] = thread_data[j].tid
    BY <1>1, <2>1, <2>3, PerfClosedFacts
  <2>5. Held(j) # g
    BY <1>3, <1>7, <2>2, <2>3, <2>4
  <2> QED
    BY <2>1, <2>4, <2>5
<1>10. SlotsSound'
  <2>1. \A j \in Used' : thread_data'[j].tid \in Tids
    BY <1>2, <1>4, <1>5, <1>7, UsedAreSlots DEF SlotsSound
  <2>2. \A j \in Slots \ Used' : thread_data'[j] = Zeroed
    BY <1>2, <1>5 DEF SlotsSound
  <2>3. \A j \in Slots : Held(j)' # NULL =>
           /\ thread_data'[j].mon_initialized
           /\ perf'[Held(j)'] = thread_data'[j].tid
    <3>1. CASE g # NULL
      BY <3>1, <1>3, <1>4, <1>5, <1>6, <1>8, <1>9, PerfClosedFacts, <1>1
         DEF SlotsSound
    <3>2. CASE g = NULL
      BY <3>2, <1>3, <1>4, <1>5, <1>6, <1>8, <1>9, PerfClosedFacts, <1>1
         DEF SlotsSound
    <3> QED
      BY <3>1, <3>2
  <2>4. \A i, j \in Slots : Held(i)' # NULL /\ Held(i)' = Held(j)' => i = j
    BY <1>6, <1>9 DEF SlotsSound
  <2> QED
    BY <2>1, <2>2, <2>3, <2>4 DEF SlotsSound
<1>11. \A h \in Groups : perf'[h] # NULL =>
         \/ h = Held(k)' /\ thread_data'[k].mon_initialized
         \/ perf[h] # NULL /\ h # Held(k)
  BY <1>1, <1>3, <1>4, <1>5, <1>6, <1>8, PerfClosedFacts
<1>12. \A j \in Slots : /\ thread_data'[j].tid = thread_data[j].tid
                       /\ thread_data'[j].active = thread_data[j].active
  BY <1>4, <1>5
<1>13. TableTypeOK'
  BY <1>5, <1>8 DEF TypeOK, TableTypeOK
<1> QED
  BY <1>2, <1>5, <1>10, <1>11, <1>12, <1>13

(* Return, and the sweep over a thread it cannot read.                     *)
LEMMA GivingASlotBack ==
  ASSUME TypeOK, SlotsSound, NEW k \in Used, perf' = PerfClosed(k),
         thread_data' = [thread_data EXCEPT ![k] = GivenBack(@)],
         UNCHANGED thread_count
  PROVE  /\ TableTypeOK' /\ SlotsSound' /\ Used' = Used
         /\ \A j \in Slots : thread_data'[j].tid = thread_data[j].tid
         /\ \A j \in Slots : j # k => thread_data'[j] = thread_data[j]
         /\ ~ thread_data'[k].active
         /\ \A h \in Groups : perf'[h] # NULL => perf[h] # NULL /\ h # Held(k)
<1>1. k \in Slots /\ thread_data \in [Slots -> ThreadData]
  BY UsedAreSlots DEF TypeOK
<1>2. Used' = Used
  BY DEF Used
<1>3. /\ GivenBack(thread_data[k]) \in ThreadData
      /\ GivenBack(thread_data[k]).tid = thread_data[k].tid
      /\ ~ GivenBack(thread_data[k]).active
      /\ GivenBack(thread_data[k]).mon = NULL
  BY <1>1, GivenBackFacts DEF SlotsSound, Held
<1>4. /\ thread_data' \in [Slots -> ThreadData]
      /\ thread_data'[k] = GivenBack(thread_data[k])
      /\ \A j \in Slots : j # k => thread_data'[j] = thread_data[j]
  BY <1>1, <1>3
<1>5. /\ Held(k)' = NULL
      /\ \A j \in Slots : j # k => Held(j)' = Held(j)
  BY <1>3, <1>4 DEF Held
<1>6. \A j \in Slots : Held(j)' # NULL =>
         /\ thread_data'[j].mon_initialized
         /\ perf'[Held(j)'] = thread_data'[j].tid
  <2> SUFFICES ASSUME NEW j \in Slots, Held(j)' # NULL
               PROVE  /\ thread_data'[j].mon_initialized
                      /\ perf'[Held(j)'] = thread_data'[j].tid
    OBVIOUS
  <2>1. j # k /\ Held(j)' = Held(j)
    BY <1>5
  <2>2. /\ Held(j) # Held(k) /\ thread_data[j].mon_initialized
        /\ perf[Held(j)] = thread_data[j].tid
    BY <1>1, <2>1 DEF SlotsSound
  <2>3. Held(j) \in Groups /\ PerfClosed(k)[Held(j)] = perf[Held(j)]
    BY <1>1, <2>1, <2>2, PerfClosedFacts
  <2> QED
    BY <1>4, <2>1, <2>2, <2>3
<1>7. SlotsSound'
  <2>1. \A j \in Used' : thread_data'[j].tid \in Tids
    BY <1>2, <1>3, <1>4, UsedAreSlots DEF SlotsSound
  <2>2. \A j \in Slots \ Used' : thread_data'[j] = Zeroed
    BY <1>2, <1>4 DEF SlotsSound
  <2>3. \A i, j \in Slots : Held(i)' # NULL /\ Held(i)' = Held(j)' => i = j
    BY <1>5 DEF SlotsSound
  <2> QED
    BY <1>6, <2>1, <2>2, <2>3 DEF SlotsSound
<1>8. \A h \in Groups : perf'[h] # NULL => perf[h] # NULL /\ h # Held(k)
  BY <1>1, PerfClosedFacts
<1>9. TableTypeOK'
  BY <1>1, <1>4, PerfClosedFacts DEF TypeOK, TableTypeOK
<1>10. \A j \in Slots : thread_data'[j].tid = thread_data[j].tid
  BY <1>3, <1>4
<1> QED
  BY <1>2, <1>3, <1>4, <1>7, <1>8, <1>9, <1>10

(* pthread_exit.                                                           *)
LEMMA LeavingASlot ==
  ASSUME TypeOK, SlotsSound, NEW k \in Used,
         thread_data' = [thread_data EXCEPT ![k].active = FALSE],
         UNCHANGED <<thread_count, perf>>
  PROVE  /\ TableTypeOK' /\ SlotsSound' /\ Used' = Used
         /\ \A j \in Slots : thread_data'[j].tid = thread_data[j].tid
         /\ \A j \in Slots : j # k => thread_data'[j] = thread_data[j]
         /\ ~ thread_data'[k].active
<1>1. k \in Slots /\ thread_data \in [Slots -> ThreadData]
  BY UsedAreSlots DEF TypeOK
<1>2. Used' = Used
  BY DEF Used
<1> DEFINE td == [thread_data[k] EXCEPT !.active = FALSE]
<1>3. /\ td \in ThreadData /\ ~ td.active
      /\ td.tid = thread_data[k].tid /\ td.mon = thread_data[k].mon
      /\ td.mon_initialized = thread_data[k].mon_initialized
  BY <1>1 DEF ThreadData
<1>4. /\ thread_data' \in [Slots -> ThreadData] /\ thread_data'[k] = td
      /\ \A j \in Slots : j # k => thread_data'[j] = thread_data[j]
  BY <1>1, <1>3
<1> HIDE DEF td
<1>5. \A j \in Slots : /\ Held(j)' = Held(j)
                      /\ thread_data'[j].tid = thread_data[j].tid
                      /\ thread_data'[j].mon_initialized = thread_data[j].mon_initialized
  BY <1>3, <1>4 DEF Held
<1>6. SlotsSound'
  <2>1. \A j \in Used' : thread_data'[j].tid \in Tids
    BY <1>2, <1>5, UsedAreSlots DEF SlotsSound
  <2>2. \A j \in Slots \ Used' : thread_data'[j] = Zeroed
    BY <1>2, <1>4 DEF SlotsSound
  <2>3. \A j \in Slots : Held(j)' # NULL =>
           /\ thread_data'[j].mon_initialized
           /\ perf'[Held(j)'] = thread_data'[j].tid
    BY <1>5 DEF SlotsSound
  <2>4. \A i, j \in Slots : Held(i)' # NULL /\ Held(i)' = Held(j)' => i = j
    BY <1>5 DEF SlotsSound
  <2> QED
    BY <2>1, <2>2, <2>3, <2>4 DEF SlotsSound
<1>7. TableTypeOK'
  BY <1>4 DEF TypeOK, TableTypeOK
<1> QED
  BY <1>2, <1>3, <1>4, <1>5, <1>6, <1>7

LEMMA EmptyingTheTable ==
  ASSUME TypeOK, SlotsSound, finish_monitor
  PROVE  /\ TableTypeOK' /\ SlotsSound' /\ Used' = Used
         /\ \A k \in Used : ~ thread_data'[k].active
<1>1. /\ thread_data \in [Slots -> ThreadData] /\ Used' = Used
      /\ Used \subseteq Slots
  BY UsedAreSlots DEF finish_monitor, TypeOK, Used
<1>2. \A k \in Slots : thread_data'[k] = IF k \in Used THEN GivenBack(thread_data[k])
                                                     ELSE thread_data[k]
  BY DEF finish_monitor, GivenBack
<1>3. \A k \in Slots : GivenBack(thread_data[k]) \in ThreadData
  BY <1>1, GivenBackFacts
<1>4. thread_data' \in [Slots -> ThreadData]
  <2>1. thread_data' = [k \in Slots |-> thread_data'[k]]
    BY DEF finish_monitor
  <2>2. \A k \in Slots : thread_data'[k] \in ThreadData
    BY <1>1, <1>2, <1>3
  <2> QED
    BY <2>1, <2>2
<1>5. \A k \in Used : /\ GivenBack(thread_data[k]).tid = thread_data[k].tid
                     /\ ~ GivenBack(thread_data[k]).active
                     /\ GivenBack(thread_data[k]).mon = NULL
  BY <1>1, GivenBackFacts DEF SlotsSound, Held
<1>6. \A k \in Slots : Held(k)' = NULL
  BY <1>2, <1>5 DEF Held, SlotsSound, Zeroed
<1>7. \A k \in Slots \ Used : thread_data'[k] = Zeroed
  BY <1>2 DEF SlotsSound
<1>8. \A k \in Used : thread_data'[k].tid \in Tids
  BY <1>1, <1>2, <1>5 DEF SlotsSound
<1>9. SlotsSound'
  BY <1>1, <1>6, <1>7, <1>8 DEF SlotsSound
<1>10. /\ perf' \in [Groups -> Tids \cup {NULL}]
       /\ thread_count' \in 0 .. MAX_THREADS
  BY DEF finish_monitor, TypeOK
<1>11. TableTypeOK'
  BY <1>4, <1>10 DEF TableTypeOK
<1> QED
  BY <1>1, <1>2, <1>5, <1>9, <1>11

LEMMA TableLeftAlone ==
  ASSUME TypeOK, SlotsSound, UNCHANGED table
  PROVE  TableTypeOK' /\ SlotsSound' /\ Used' = Used
BY DEF table, TypeOK, TableTypeOK, SlotsSound, Used, Held
-----------------------------------------------------------------------------
(* Every step keeps the types, the ownership of the groups and the index   *)
(* of thread_wrapper.                                                      *)
LEMMA ThreadStepsKeepTInv ==
  ASSUME TInv, NEW t \in Tids,
         \/ Create(t) \/ Alloc(t) \/ Open(t) \/ Return(t)
         \/ PthreadExit(t) \/ End(t)
         \/ CloneThread(t) \/ Register(t) \/ Vanish(t)
  PROVE  TInv'
<1> USE DEF TInv
<1> DEFINE Rest == /\ mutex' \in {NULL, Monitor}
                   /\ life' \in [Tids -> {"none", "born", "placed", "running",
                                         "untracked", "leaving", "cloned"}]
                   /\ idx' \in [Tids -> Slots \cup {NULL}]
                   /\ unregistered' \subseteq Tids
                   /\ pc' \in {"sleep", "repin", "sweep", "send", "aborting"}
                   /\ cur' \in Nat
                   /\ phase' \in {"up", "exiting", "finished", "gone"}
<1>q. SUFFICES TableTypeOK' /\ SlotsSound' /\ Rest /\ PlacedInTable'
  BY DEF TypeOK, TableTypeOK
<1>1. CASE Create(t) \/ End(t) \/ CloneThread(t) \/ Vanish(t)
  <2>1. UNCHANGED table /\ UNCHANGED <<mutex, pc, cur, phase, idx>>
    BY <1>1 DEF Create, End, CloneThread, Vanish, sweep
  <2>2. TableTypeOK' /\ SlotsSound' /\ Used' = Used
    BY <2>1, TableLeftAlone
  <2>3. \A u \in Tids : life'[u] = "placed" => life[u] = "placed"
    BY <1>1 DEF Create, End, CloneThread, Vanish, TypeOK
  <2>4. PlacedInTable'
    BY <2>1, <2>2, <2>3 DEF PlacedInTable
  <2>5. Rest
    BY <1>1, <2>1 DEF Create, End, CloneThread, Vanish, TypeOK
  <2> QED
    BY <2>2, <2>4, <2>5
<1>2. CASE Alloc(t)
  <2>1. /\ alloc_thread_slot(t) /\ UNCHANGED perf
        /\ UNCHANGED <<mutex, pc, cur, phase, unregistered>>
        /\ idx' = [idx EXCEPT ![t] = SlotFor]
        /\ life' = [life EXCEPT ![t] = IF SlotFor = NULL THEN "untracked" ELSE "placed"]
    BY <1>2 DEF Alloc, sweep
  <2>2. /\ TableTypeOK' /\ SlotsSound' /\ Used \subseteq Used'
        /\ SlotFor # NULL => SlotFor \in Used'
    BY <2>1, TakingASlot
  <2>3. PlacedInTable'
    BY <2>1, <2>2 DEF PlacedInTable, TypeOK
  <2>4. Rest
    BY <2>1, SlotForFacts DEF TypeOK
  <2> QED
    BY <2>2, <2>3, <2>4
<1>3. CASE Open(t)
  <2>1. /\ open_or_reopen_thread_perf(idx[t])
        /\ life[t] = "placed"
        /\ life' = [life EXCEPT ![t] = "running"]
        /\ idx' = [idx EXCEPT ![t] = NULL]
        /\ UNCHANGED <<thread_count, mutex, pc, cur, phase, unregistered>>
    BY <1>3 DEF Open, sweep
  <2>2. TableTypeOK' /\ SlotsSound' /\ Used' = Used
    BY <2>1, OpeningASlot DEF PlacedInTable
  <2>3. PlacedInTable'
    BY <2>1, <2>2 DEF PlacedInTable, TypeOK
  <2>4. Rest
    BY <2>1 DEF TypeOK
  <2> QED
    BY <2>2, <2>3, <2>4
<1>4. CASE Return(t) \/ PthreadExit(t)
  <2> DEFINE k == find_thread_index(t)
  <2>1. /\ life' = [life EXCEPT ![t] = "leaving"]
        /\ UNCHANGED <<thread_count, mutex, pc, cur, phase, unregistered, idx>>
    BY <1>4 DEF Return, PthreadExit, sweep
  <2>2. k # NULL => k \in Used
    BY FoundFacts DEF SlotsOf
  <2>3. TableTypeOK' /\ SlotsSound' /\ Used' = Used
    <3>1. CASE k = NULL
      BY <1>4, <3>1, TableLeftAlone DEF Return, PthreadExit, table
    <3>2. CASE k # NULL /\ Return(t)
      <4>1. /\ perf' = PerfClosed(k) /\ UNCHANGED thread_count
            /\ thread_data' = [thread_data EXCEPT ![k] = GivenBack(@)]
        BY <3>2 DEF Return, GivenBack
      <4> QED
        BY <2>2, <3>2, <4>1, GivingASlotBack
    <3>3. CASE k # NULL /\ PthreadExit(t)
      <4>1. /\ UNCHANGED <<thread_count, perf>>
            /\ thread_data' = [thread_data EXCEPT ![k].active = FALSE]
        BY <3>3 DEF PthreadExit
      <4> QED
        BY <2>2, <3>3, <4>1, LeavingASlot
    <3> QED
      BY <1>4, <3>1, <3>2, <3>3
  <2>4. PlacedInTable'
    BY <2>1, <2>3 DEF PlacedInTable, TypeOK
  <2>5. Rest
    BY <2>1 DEF TypeOK
  <2> QED
    BY <2>3, <2>4, <2>5
<1>5. CASE Register(t)
  <2>1. /\ alloc_thread_slot(t) /\ UNCHANGED perf
        /\ UNCHANGED <<mutex, pc, cur, phase, life, idx>>
        /\ unregistered' = unregistered \ {t}
    BY <1>5 DEF Register, sweep
  <2>2. TableTypeOK' /\ SlotsSound' /\ Used \subseteq Used'
    BY <2>1, TakingASlot
  <2>3. PlacedInTable'
    BY <2>1, <2>2 DEF PlacedInTable
  <2>4. Rest
    BY <2>1 DEF TypeOK
  <2> QED
    BY <2>2, <2>3, <2>4
<1> QED
  BY <1>1, <1>2, <1>3, <1>4, <1>5

(* The sweep's steps, as far as the table goes.                            *)
LEMMA SweptSlot ==
  ASSUME TypeOK, SlotsSound, SweepLost \/ SweepReopen \/ SweepRead
  PROVE  /\ cur \in Used /\ cur \in Slots
         /\ TableTypeOK' /\ SlotsSound' /\ Used' = Used
         /\ \A j \in Slots : thread_data'[j].tid = thread_data[j].tid
         /\ \A j \in Slots : thread_data'[j].active => thread_data[j].active
         /\ SweepLost \/ \A j \in Slots : thread_data'[j].active = thread_data[j].active
         /\ \A j \in Slots : j # cur => thread_data'[j] = thread_data[j]
<1>1. cur \in Used /\ cur \in Slots /\ UNCHANGED thread_count
  BY UsedAreSlots DEF SweepLost, SweepReopen, SweepRead, Sweeping, Used, TypeOK
<1>2. CASE SweepLost
  <2>1. /\ perf' = PerfClosed(cur)
        /\ thread_data' = [thread_data EXCEPT ![cur] = GivenBack(@)]
    BY <1>2 DEF SweepLost, GivenBack
  <2> QED
    BY <1>1, <1>2, <2>1, GivingASlotBack
<1>3. CASE SweepReopen
  <2>1. open_or_reopen_thread_perf(cur)
    BY <1>3 DEF SweepReopen
  <2> QED
    BY <1>1, <2>1, OpeningASlot
<1>4. CASE SweepRead
  <2>1. UNCHANGED table
    BY <1>1, <1>4 DEF SweepRead, table
  <2> QED
    BY <1>1, <2>1, TableLeftAlone DEF table
<1> QED
  BY <1>2, <1>3, <1>4

LEMMA ProcessStepsKeepTInv ==
  ASSUME TInv, MonitorLoop \/ CallExit \/ finish_monitor \/ Gone \/ UNCHANGED vars
  PROVE  TInv'
<1> USE DEF TInv
<1>1. UNCHANGED <<life, idx, unregistered>>
  BY DEF MonitorLoop, StartWindow, Repin, SweepLost, SweepReopen, SweepRead,
         Sweeping, EndSweep, Send, CallExit, finish_monitor, Gone, vars, app
<1>2. /\ mutex' \in {NULL, Monitor}
      /\ pc' \in {"sleep", "repin", "sweep", "send", "aborting"}
      /\ cur' \in Nat
      /\ phase' \in {"up", "exiting", "finished", "gone"}
  BY DEF MonitorLoop, StartWindow, Repin, SweepLost, SweepReopen, SweepRead,
         Sweeping, EndSweep, Send, CallExit, finish_monitor, Gone, vars,
         TypeOK, sweep
<1>3. TableTypeOK' /\ SlotsSound' /\ Used' = Used
  <2>1. CASE SweepLost \/ SweepReopen \/ SweepRead
    BY <2>1, SweptSlot
  <2>2. CASE finish_monitor
    BY <2>2, EmptyingTheTable
  <2>3. CASE \/ StartWindow \/ Repin \/ EndSweep \/ Send \/ CallExit \/ Gone
             \/ UNCHANGED vars
    <3>1. UNCHANGED table
      BY <2>3 DEF StartWindow, Repin, EndSweep, Send, CallExit, Gone, vars, table
    <3> QED
      BY <3>1, TableLeftAlone
  <2> QED
    BY <2>1, <2>2, <2>3 DEF MonitorLoop
<1>4. PlacedInTable'
  BY <1>1, <1>3 DEF PlacedInTable
<1> QED
  BY <1>1, <1>2, <1>3, <1>4 DEF TypeOK, TableTypeOK
-----------------------------------------------------------------------------
(* While every thread ends through the library: one active slot for a      *)
(* thread at most, and none once it has left.                              *)
OneSlotEach == \A j, k \in Used : /\ thread_data[j].active /\ thread_data[k].active
                                 /\ thread_data[j].tid = thread_data[k].tid
                                 => j = k
ActiveAreInside == \A k \in Used : thread_data[k].active =>
                      life[thread_data[k].tid] \in {"placed", "running"}

LEMMA ThreadStepsKeepOInv ==
  ASSUME TInv, OInv, NEW t \in Tids,
         \/ Create(t) \/ Alloc(t) \/ Open(t) \/ Return(t)
         \/ PthreadExit(t) \/ End(t)
         \/ CloneThread(t) \/ Register(t) \/ Vanish(t)
  PROVE  OInv'
<1> USE DEF TInv
<1> SUFFICES ASSUME ~ RawThreads
             PROVE  /\ unregistered' = {}
                    /\ \A u \in Tids : life'[u] # "cloned"
                    /\ ActiveAreInside' /\ OneSlotEach'
                    /\ pc' # "aborting"
  BY DEF OInv, Orderly, NoThreadTwice, NeverAborts, ActiveAreInside, OneSlotEach
<1>0. /\ unregistered = {} /\ \A u \in Tids : life[u] # "cloned"
      /\ ActiveAreInside /\ OneSlotEach /\ pc # "aborting"
  BY DEF OInv, Orderly, NoThreadTwice, NeverAborts, ActiveAreInside, OneSlotEach
<1>a. Used \subseteq Slots /\ Slots \subseteq Nat /\ NULL \notin Nat
  BY UsedAreSlots, NamesAssumption
<1>b. \A k \in Used : thread_data[k].tid \in Tids
  BY DEF SlotsSound
<1>1. CASE Create(t) \/ End(t)
  <2>1. /\ UNCHANGED <<thread_data, thread_count, unregistered, pc>>
        /\ life[t] \in {"none", "leaving"}
        /\ life' \in [Tids -> {"none", "born", "placed", "running",
                              "untracked", "leaving", "cloned"}]
        /\ life'[t] # "cloned"
        /\ \A u \in Tids : u # t => life'[u] = life[u]
    BY <1>1 DEF Create, End, Exists, table, sweep, TypeOK
  <2>2. OneSlotEach'
    BY <1>0, <2>1 DEF OneSlotEach, Used
  <2>3. ActiveAreInside'
    BY <1>0, <1>b, <2>1 DEF ActiveAreInside, Used
  <2> QED
    BY <1>0, <2>1, <2>2, <2>3
<1>2. CASE Alloc(t)
  <2>1. /\ alloc_thread_slot(t) /\ UNCHANGED perf
        /\ UNCHANGED <<unregistered, pc>>
        /\ life[t] = "born"
        /\ life' = [life EXCEPT ![t] = IF SlotFor = NULL THEN "untracked" ELSE "placed"]
    BY <1>2 DEF Alloc, sweep
  <2>2. /\ Used' \subseteq Used \cup {SlotFor}
        /\ Used' \subseteq Slots
        /\ SlotFor # NULL => thread_data'[SlotFor].tid = t
        /\ \A k \in Slots : k # SlotFor => thread_data'[k] = thread_data[k]
    BY <2>1, TakingASlot, SizesAssumption DEF TableTypeOK, Used, Slots
  <2>3. \A k \in Used' : k # SlotFor =>
           /\ k \in Used /\ thread_data'[k] = thread_data[k]
           /\ thread_data[k].active =>
                thread_data[k].tid # t /\ life[thread_data[k].tid] \in {"placed", "running"}
    BY <1>0, <2>1, <2>2 DEF ActiveAreInside
  <2>4. OneSlotEach'
    <3> SUFFICES ASSUME NEW j \in Used', NEW k \in Used',
                        thread_data'[j].active, thread_data'[k].active,
                        thread_data'[j].tid = thread_data'[k].tid
                 PROVE  j = k
      BY DEF OneSlotEach
    <3>1. SlotFor \in Used' => SlotFor # NULL
      BY <1>a, <2>2
    <3>2. CASE j # SlotFor /\ k # SlotFor
      BY <1>0, <2>3, <3>2 DEF OneSlotEach
    <3>3. CASE j = SlotFor /\ k # SlotFor
      BY <2>2, <2>3, <3>1, <3>3
    <3>4. CASE j # SlotFor /\ k = SlotFor
      BY <2>2, <2>3, <3>1, <3>4
    <3> QED
      BY <3>2, <3>3, <3>4
  <2>5. ActiveAreInside'
    <3> SUFFICES ASSUME NEW k \in Used', thread_data'[k].active
                 PROVE  life'[thread_data'[k].tid] \in {"placed", "running"}
      BY DEF ActiveAreInside
    <3>1. CASE k = SlotFor
      BY <1>a, <2>1, <2>2, <3>1 DEF TypeOK
    <3>2. CASE k # SlotFor
      BY <1>b, <2>1, <2>3, <3>2 DEF TypeOK
    <3> QED
      BY <3>1, <3>2
  <2>6. \A u \in Tids : life'[u] # "cloned"
    BY <1>0, <2>1 DEF TypeOK
  <2> QED
    BY <1>0, <2>1, <2>4, <2>5, <2>6
<1>3. CASE Open(t)
  <2>1. /\ open_or_reopen_thread_perf(idx[t]) /\ idx[t] \in Used
        /\ life' = [life EXCEPT ![t] = "running"]
        /\ UNCHANGED <<thread_count, pc, unregistered>>
    BY <1>3 DEF Open, sweep, PlacedInTable
  <2>2. /\ Used' = Used
        /\ \A j \in Slots : /\ thread_data'[j].tid = thread_data[j].tid
                            /\ thread_data'[j].active = thread_data[j].active
    BY <2>1, OpeningASlot
  <2>3. OneSlotEach'
    BY <1>0, <1>a, <2>2 DEF OneSlotEach
  <2>4. ActiveAreInside'
    BY <1>0, <1>a, <1>b, <2>1, <2>2 DEF ActiveAreInside, TypeOK
  <2> QED
    BY <1>0, <2>1, <2>3, <2>4 DEF TypeOK
<1>4. CASE Return(t) \/ PthreadExit(t)
  <2> DEFINE k == find_thread_index(t)
  <2>1. /\ life' = [life EXCEPT ![t] = "leaving"]
        /\ UNCHANGED <<thread_count, pc, unregistered>>
    BY <1>4 DEF Return, PthreadExit, sweep
  <2>2. /\ k # NULL => k \in Used /\ thread_data[k].active /\ thread_data[k].tid = t
        /\ k = NULL => \A j \in Used : thread_data[j].active => thread_data[j].tid # t
    BY FoundFacts DEF SlotsOf
  <2>3. /\ Used' = Used
        /\ \A j \in Used : thread_data'[j].active =>
             /\ j # k /\ thread_data[j].active
             /\ thread_data'[j].tid = thread_data[j].tid
    <3>1. CASE k = NULL
      <4>1. UNCHANGED <<thread_data, thread_count>>
        BY <1>4, <3>1 DEF Return, PthreadExit
      <4> QED
        BY <1>a, <3>1, <4>1 DEF Used
    <3>2. CASE k # NULL /\ Return(t)
      <4>1. /\ perf' = PerfClosed(k) /\ UNCHANGED thread_count
            /\ thread_data' = [thread_data EXCEPT ![k] = GivenBack(@)]
        BY <3>2 DEF Return, GivenBack
      <4> QED
        BY <1>a, <2>2, <3>2, <4>1, GivingASlotBack
    <3>3. CASE k # NULL /\ PthreadExit(t)
      <4>1. /\ UNCHANGED <<thread_count, perf>>
            /\ thread_data' = [thread_data EXCEPT ![k].active = FALSE]
        BY <3>3 DEF PthreadExit
      <4> QED
        BY <1>a, <2>2, <3>3, <4>1, LeavingASlot
    <3> QED
      BY <1>4, <3>1, <3>2, <3>3
  <2> HIDE DEF k
  <2>4. OneSlotEach'
    BY <1>0, <2>3 DEF OneSlotEach
  <2>5. \A j \in Used : thread_data'[j].active => thread_data[j].tid # t
    BY <1>0, <2>2, <2>3 DEF OneSlotEach
  <2>6. ActiveAreInside'
    BY <1>0, <1>b, <2>1, <2>3, <2>5 DEF ActiveAreInside, TypeOK
  <2> QED
    BY <1>0, <2>1, <2>4, <2>6 DEF TypeOK
<1>5. ~ (CloneThread(t) \/ Register(t) \/ Vanish(t))
  BY <1>0 DEF CloneThread, Register, Vanish
<1> QED
  BY <1>1, <1>2, <1>3, <1>4, <1>5

(* The repin finds no active slot of a thread that has ended.              *)
LEMMA ProcessStepsKeepOInv ==
  ASSUME TInv, OInv, MonitorLoop \/ CallExit \/ finish_monitor \/ Gone \/ UNCHANGED vars
  PROVE  OInv'
<1> USE DEF TInv
<1> SUFFICES ASSUME ~ RawThreads
             PROVE  /\ unregistered' = {}
                    /\ \A u \in Tids : life'[u] # "cloned"
                    /\ ActiveAreInside' /\ OneSlotEach'
                    /\ pc' # "aborting"
  BY DEF OInv, Orderly, NoThreadTwice, NeverAborts, ActiveAreInside, OneSlotEach
<1>0. /\ unregistered = {} /\ \A u \in Tids : life[u] # "cloned"
      /\ ActiveAreInside /\ OneSlotEach /\ pc # "aborting"
  BY DEF OInv, Orderly, NoThreadTwice, NeverAborts, ActiveAreInside, OneSlotEach
<1>a. Used \subseteq Slots
  BY UsedAreSlots
<1>1. UNCHANGED <<life, unregistered>>
  BY DEF MonitorLoop, StartWindow, Repin, SweepLost, SweepReopen, SweepRead,
         Sweeping, EndSweep, Send, CallExit, finish_monitor, Gone, vars, app
<1>2. pc' # "aborting"
  <2>1. CASE Repin
    <3>1. \A k \in Used : thread_data[k].active => Exists(thread_data[k].tid)
      BY <1>0 DEF ActiveAreInside, Exists
    <3> QED
      BY <2>1, <3>1 DEF Repin
  <2>2. CASE ~ Repin
    BY <1>0, <2>2 DEF MonitorLoop, StartWindow, SweepLost, SweepReopen, SweepRead,
       Sweeping, EndSweep, Send, CallExit, finish_monitor, Gone, vars, sweep
  <2> QED
    BY <2>1, <2>2
<1>3. /\ Used' = Used
      /\ \A k \in Used : thread_data'[k].active =>
           thread_data[k].active /\ thread_data'[k].tid = thread_data[k].tid
  <2>1. CASE SweepLost \/ SweepReopen \/ SweepRead
    BY <1>a, <2>1, SweptSlot
  <2>2. CASE finish_monitor
    BY <2>2, EmptyingTheTable
  <2>3. CASE \/ StartWindow \/ Repin \/ EndSweep \/ Send \/ CallExit \/ Gone
             \/ UNCHANGED vars
    BY <2>3 DEF StartWindow, Repin, EndSweep, Send, CallExit, Gone, vars, table, Used
  <2> QED
    BY <2>1, <2>2, <2>3 DEF MonitorLoop
<1>4. ActiveAreInside'
  BY <1>0, <1>1, <1>3 DEF ActiveAreInside
<1>5. OneSlotEach'
  BY <1>0, <1>3 DEF OneSlotEach
<1> QED
  BY <1>0, <1>1, <1>2, <1>4, <1>5
-----------------------------------------------------------------------------
(* While every stat can be read: threads keep their slots, and groups      *)
(* their holders.                                                          *)
Tracked == \A t \in Tids : life[t] \in {"placed", "running"} =>
             \E k \in Used : thread_data[k].active /\ thread_data[k].tid = t
Kept == \A t \in Tids : life[t] = "placed" => /\ thread_data[idx[t]].active
                                            /\ thread_data[idx[t]].tid = t
GroupsHeld == ~ PthreadExits =>
  \A g \in Groups : perf[g] # NULL =>
    \E k \in Used : /\ thread_data[k].active /\ thread_data[k].mon_initialized
                   /\ Held(k) = g

KUnfolded == ~ StatFails /\ Initialised => Tracked /\ Kept /\ GroupsHeld

LEMMA KInvUnfolds == KInv <=> KUnfolded
<1>1. \A t \in Tids : SlotsOf(t) # {} <=>
        \E k \in Used : thread_data[k].active /\ thread_data[k].tid = t
  BY DEF SlotsOf
<1>2. Opened = {g \in Groups : perf[g] # NULL}
  BY DEF Opened
<1> QED
  BY <1>1, <1>2 DEF KInv, PlacedKeepsSlot, TrackedWhileRunning, NoLeak,
                   KUnfolded, Tracked, Kept, GroupsHeld

LEMMA KInvUnfoldsNext == KInv' <=> KUnfolded'
BY KInvUnfolds, PTL

(* A slot is taken only where no active slot was.                          *)
LEMMA TakingKeepsTheOthers ==
  ASSUME TypeOK, SlotsSound, NEW t \in Tids, alloc_thread_slot(t), UNCHANGED perf
  PROVE  /\ \A k \in Used : thread_data[k].active =>
              k \in Used' /\ k # SlotFor /\ thread_data'[k] = thread_data[k]
         /\ GroupsHeld => GroupsHeld'
<1>1. \A k \in Used : thread_data[k].active =>
         k \in Used' /\ k # SlotFor /\ thread_data'[k] = thread_data[k]
  BY TakingASlot, SlotForFacts, UsedAreSlots, NamesAssumption
<1>2. GroupsHeld => GroupsHeld'
  BY <1>1 DEF GroupsHeld, Held
<1> QED
  BY <1>1, <1>2

LEMMA OpeningKeepsHolders ==
  ASSUME TypeOK, SlotsSound, NEW k \in Used, open_or_reopen_thread_perf(k),
         UNCHANGED thread_count, thread_data[k].active, GroupsHeld
  PROVE  GroupsHeld'
<1>1. /\ Used' = Used /\ k \in Slots /\ Used \subseteq Slots
      /\ thread_data'[k].active
      /\ \A j \in Slots : j # k => thread_data'[j] = thread_data[j]
      /\ \A h \in Groups : perf'[h] # NULL =>
           \/ h = Held(k)' /\ thread_data'[k].mon_initialized
           \/ perf[h] # NULL /\ h # Held(k)
  BY OpeningASlot, UsedAreSlots
<1> SUFFICES ASSUME ~ PthreadExits, NEW h \in Groups, perf'[h] # NULL
             PROVE  \E j \in Used : /\ thread_data'[j].active
                                   /\ thread_data'[j].mon_initialized
                                   /\ Held(j)' = h
  BY <1>1 DEF GroupsHeld
<1>2. CASE h = Held(k)' /\ thread_data'[k].mon_initialized
  BY <1>1, <1>2
<1>3. CASE perf[h] # NULL /\ h # Held(k)
  <2>1. PICK j \in Used : /\ thread_data[j].active /\ thread_data[j].mon_initialized
                          /\ Held(j) = h
    BY <1>3 DEF GroupsHeld
  <2>2. thread_data'[j] = thread_data[j]
    BY <1>1, <1>3, <2>1
  <2> QED
    BY <2>1, <2>2 DEF Held
<1> QED
  BY <1>1, <1>2, <1>3

LEMMA GivingBackKeepsHolders ==
  ASSUME TypeOK, SlotsSound, NEW k \in Used, perf' = PerfClosed(k),
         thread_data' = [thread_data EXCEPT ![k] = GivenBack(@)],
         UNCHANGED thread_count, GroupsHeld
  PROVE  GroupsHeld'
<1>1. /\ Used' = Used /\ Used \subseteq Slots
      /\ \A j \in Slots : j # k => thread_data'[j] = thread_data[j]
      /\ \A h \in Groups : perf'[h] # NULL => perf[h] # NULL /\ h # Held(k)
  BY GivingASlotBack, UsedAreSlots
<1> SUFFICES ASSUME ~ PthreadExits, NEW h \in Groups, perf'[h] # NULL
             PROVE  \E j \in Used : /\ thread_data'[j].active
                                   /\ thread_data'[j].mon_initialized
                                   /\ Held(j)' = h
  BY <1>1 DEF GroupsHeld
<1>2. PICK j \in Used : /\ thread_data[j].active /\ thread_data[j].mon_initialized
                        /\ Held(j) = h
  BY <1>1 DEF GroupsHeld
<1>3. thread_data'[j] = thread_data[j]
  BY <1>1, <1>2
<1> QED
  BY <1>2, <1>3 DEF Held

LEMMA ThreadStepsKeepKInv ==
  ASSUME TInv, KInv, NEW t \in Tids,
         \/ Create(t) \/ Alloc(t) \/ Open(t) \/ Return(t)
         \/ PthreadExit(t) \/ End(t)
         \/ CloneThread(t) \/ Register(t) \/ Vanish(t)
  PROVE  KInv'
<1> USE DEF TInv
<1>p. KInv' <=> (~ StatFails /\ Initialised' => Tracked' /\ Kept' /\ GroupsHeld')
  BY KInvUnfoldsNext DEF KUnfolded
<1>q. UNCHANGED phase
  BY DEF Create, Alloc, Open, Return, PthreadExit, End, CloneThread, Register, Vanish
<1> SUFFICES ASSUME ~ StatFails, Initialised
             PROVE  Tracked' /\ Kept' /\ GroupsHeld'
  BY <1>p, <1>q DEF Initialised
<1>0. Tracked /\ Kept /\ GroupsHeld
  BY KInvUnfolds DEF KUnfolded
<1>a. Used \subseteq Slots /\ Slots \subseteq Nat /\ NULL \notin Nat
  BY UsedAreSlots, NamesAssumption
<1>1. CASE Create(t) \/ End(t) \/ CloneThread(t) \/ Vanish(t)
  <2>1. /\ UNCHANGED <<thread_data, thread_count, perf, idx>>
        /\ \A u \in Tids : life'[u] \in {"placed", "running"} => life'[u] = life[u]
    BY <1>1 DEF Create, End, CloneThread, Vanish, table, TypeOK
  <2>2. Tracked'
    BY <1>0, <2>1 DEF Tracked, Used
  <2>3. Kept'
    BY <1>0, <2>1 DEF Kept
  <2>4. GroupsHeld'
    BY <1>0, <2>1 DEF GroupsHeld, Used, Held
  <2> QED
    BY <2>2, <2>3, <2>4
<1>2. CASE Alloc(t)
  <2>1. /\ alloc_thread_slot(t) /\ UNCHANGED perf
        /\ idx' = [idx EXCEPT ![t] = SlotFor]
        /\ life' = [life EXCEPT ![t] = IF SlotFor = NULL THEN "untracked" ELSE "placed"]
    BY <1>2 DEF Alloc
  <2>2. /\ \A k \in Used : thread_data[k].active =>
             k \in Used' /\ k # SlotFor /\ thread_data'[k] = thread_data[k]
        /\ GroupsHeld'
        /\ SlotFor # NULL => /\ SlotFor \in Used' /\ thread_data'[SlotFor].tid = t
                             /\ thread_data'[SlotFor].active
    BY <1>0, <2>1, TakingASlot, TakingKeepsTheOthers
  <2>3. ASSUME NEW u \in Tids, u # t
        PROVE  life'[u] = life[u] /\ idx'[u] = idx[u]
    BY <2>1, <2>3 DEF TypeOK
  <2>4. /\ life'[t] \in {"placed", "running"} => SlotFor # NULL
        /\ idx'[t] = SlotFor
    BY <2>1 DEF TypeOK
  <2>5. Tracked'
    <3> SUFFICES ASSUME NEW u \in Tids, life'[u] \in {"placed", "running"}
                 PROVE  \E k \in Used' : thread_data'[k].active /\ thread_data'[k].tid = u
      BY DEF Tracked
    <3>1. CASE u = t
      BY <2>2, <2>4, <3>1
    <3>2. CASE u # t
      BY <1>0, <2>2, <2>3, <3>2 DEF Tracked
    <3> QED
      BY <3>1, <3>2
  <2>6. Kept'
    <3> SUFFICES ASSUME NEW u \in Tids, life'[u] = "placed"
                 PROVE  thread_data'[idx'[u]].active /\ thread_data'[idx'[u]].tid = u
      BY DEF Kept
    <3>1. CASE u = t
      BY <2>2, <2>4, <3>1
    <3>2. CASE u # t
      BY <1>0, <2>2, <2>3, <3>2 DEF Kept, PlacedInTable
    <3> QED
      BY <3>1, <3>2
  <2> QED
    BY <2>2, <2>5, <2>6
<1>3. CASE Open(t)
  <2>1. /\ open_or_reopen_thread_perf(idx[t]) /\ idx[t] \in Used
        /\ life[t] = "placed"
        /\ life' = [life EXCEPT ![t] = "running"]
        /\ idx' = [idx EXCEPT ![t] = NULL]
        /\ UNCHANGED thread_count
    BY <1>3 DEF Open, PlacedInTable
  <2>2. /\ Used' = Used
        /\ \A j \in Slots : /\ thread_data'[j].tid = thread_data[j].tid
                            /\ thread_data'[j].active = thread_data[j].active
    BY <2>1, OpeningASlot
  <2>3. GroupsHeld'
    BY <1>0, <2>1, OpeningKeepsHolders DEF Kept
  <2>4. \A u \in Tids : life'[u] \in {"placed", "running"} => life[u] \in {"placed", "running"}
    BY <2>1 DEF TypeOK
  <2>5. Tracked'
    BY <1>0, <1>a, <2>2, <2>4 DEF Tracked
  <2>6. \A u \in Tids : life'[u] = "placed" => life[u] = "placed" /\ idx'[u] = idx[u]
    BY <2>1 DEF TypeOK
  <2>7. Kept'
    <3> SUFFICES ASSUME NEW u \in Tids, life'[u] = "placed"
                 PROVE  thread_data'[idx'[u]].active /\ thread_data'[idx'[u]].tid = u
      BY DEF Kept
    <3>1. /\ idx'[u] = idx[u] /\ idx[u] \in Slots
          /\ thread_data[idx[u]].active /\ thread_data[idx[u]].tid = u
      BY <1>0, <1>a, <2>6 DEF Kept, PlacedInTable
    <3> QED
      BY <2>2, <3>1
  <2> QED
    BY <2>3, <2>5, <2>7
<1>4. CASE Return(t) \/ PthreadExit(t)
  <2> DEFINE k == find_thread_index(t)
  <2>1. /\ life' = [life EXCEPT ![t] = "leaving"]
        /\ UNCHANGED <<thread_count, idx>>
    BY <1>4 DEF Return, PthreadExit
  <2>2. k # NULL => k \in Used /\ thread_data[k].tid = t
    BY FoundFacts DEF SlotsOf
  <2>3. /\ Used' = Used /\ GroupsHeld'
        /\ \A j \in Used : thread_data[j].tid # t => thread_data'[j] = thread_data[j]
    <3>1. CASE k = NULL
      <4>1. UNCHANGED <<thread_data, thread_count, perf>>
        BY <1>4, <3>1 DEF Return, PthreadExit
      <4> QED
        BY <1>0, <4>1 DEF Used, GroupsHeld, Held
    <3>2. CASE k # NULL /\ Return(t)
      <4>1. /\ perf' = PerfClosed(k) /\ UNCHANGED thread_count
            /\ thread_data' = [thread_data EXCEPT ![k] = GivenBack(@)]
        BY <3>2 DEF Return, GivenBack
      <4> HIDE DEF k
      <4> QED
        BY <1>0, <1>a, <2>2, <3>2, <4>1, GivingASlotBack, GivingBackKeepsHolders
    <3>3. CASE k # NULL /\ PthreadExit(t)
      <4>1. /\ UNCHANGED <<thread_count, perf>>
            /\ thread_data' = [thread_data EXCEPT ![k].active = FALSE]
        BY <3>3 DEF PthreadExit
      <4>2. GroupsHeld'
        BY <3>3 DEF PthreadExit, GroupsHeld
      <4> QED
        BY <1>a, <2>2, <3>3, <4>1, <4>2, LeavingASlot
    <3> QED
      BY <1>4, <3>1, <3>2, <3>3
  <2> HIDE DEF k
  <2>4. \A u \in Tids : life'[u] \in {"placed", "running"} => u # t /\ life'[u] = life[u]
    BY <2>1 DEF TypeOK
  <2>5. Tracked'
    BY <1>0, <2>3, <2>4 DEF Tracked
  <2>6. Kept'
    BY <1>0, <2>1, <2>3, <2>4 DEF Kept, PlacedInTable
  <2> QED
    BY <2>3, <2>5, <2>6
<1>5. CASE Register(t)
  <2>1. /\ alloc_thread_slot(t) /\ UNCHANGED <<perf, life, idx>>
    BY <1>5 DEF Register
  <2>2. /\ \A k \in Used : thread_data[k].active =>
             k \in Used' /\ thread_data'[k] = thread_data[k]
        /\ GroupsHeld'
    BY <1>0, <2>1, TakingKeepsTheOthers
  <2>3. Tracked'
    BY <1>0, <2>1, <2>2 DEF Tracked
  <2>4. Kept'
    BY <1>0, <2>1, <2>2 DEF Kept, PlacedInTable
  <2> QED
    BY <2>2, <2>3, <2>4
<1> QED
  BY <1>1, <1>2, <1>3, <1>4, <1>5

LEMMA ProcessStepsKeepKInv ==
  ASSUME TInv, KInv, MonitorLoop \/ CallExit \/ finish_monitor \/ Gone \/ UNCHANGED vars
  PROVE  KInv'
<1> USE DEF TInv
<1>p. KInv' <=> (~ StatFails /\ Initialised' => Tracked' /\ Kept' /\ GroupsHeld')
  BY KInvUnfoldsNext DEF KUnfolded
<1>q. Initialised' => Initialised /\ ~ finish_monitor
  BY DEF MonitorLoop, StartWindow, Repin, SweepLost, SweepReopen, SweepRead,
         Sweeping, EndSweep, Send, CallExit, finish_monitor, Gone, vars, Initialised
<1> SUFFICES ASSUME ~ StatFails, Initialised, ~ finish_monitor
             PROVE  Tracked' /\ Kept' /\ GroupsHeld'
  BY <1>p, <1>q
<1>0. Tracked /\ Kept /\ GroupsHeld
  BY KInvUnfolds DEF KUnfolded
<1>a. Used \subseteq Slots
  BY UsedAreSlots
<1>1. UNCHANGED <<life, idx>>
  BY DEF MonitorLoop, StartWindow, Repin, SweepLost, SweepReopen, SweepRead,
         Sweeping, EndSweep, Send, CallExit, finish_monitor, Gone, vars, app
<1>2. /\ Used' = Used /\ GroupsHeld'
      /\ \A j \in Used : thread_data[j].active /\ Exists(thread_data[j].tid) =>
           /\ thread_data'[j].active
           /\ thread_data'[j].tid = thread_data[j].tid
  <2>1. CASE SweepLost
    <3>1. /\ cur \in Used /\ UNCHANGED thread_count
          /\ perf' = PerfClosed(cur)
          /\ thread_data' = [thread_data EXCEPT ![cur] = GivenBack(@)]
          /\ ~ Exists(thread_data[cur].tid)
      BY <2>1, SweptSlot DEF SweepLost, GivenBack, Sweeping
    <3> QED
      BY <1>0, <1>a, <3>1, GivingASlotBack, GivingBackKeepsHolders
  <2>2. CASE SweepReopen
    <3>1. /\ cur \in Used /\ UNCHANGED thread_count
          /\ open_or_reopen_thread_perf(cur) /\ thread_data[cur].active
      BY <2>2, SweptSlot DEF SweepReopen, Sweeping
    <3> QED
      BY <1>0, <1>a, <3>1, OpeningASlot, OpeningKeepsHolders
  <2>3. CASE \/ SweepRead \/ StartWindow \/ Repin \/ EndSweep \/ Send
             \/ CallExit \/ Gone \/ UNCHANGED vars
    <3>1. UNCHANGED <<thread_data, thread_count, perf>>
      BY <2>3 DEF SweepRead, Sweeping, StartWindow, Repin, EndSweep, Send,
                  CallExit, Gone, vars, table
    <3> QED
      BY <1>0, <3>1 DEF Used, GroupsHeld, Held
  <2> QED
    BY <2>1, <2>2, <2>3 DEF MonitorLoop
<1>3. Tracked'
  BY <1>0, <1>1, <1>2 DEF Tracked, Exists
<1>4. Kept'
  BY <1>0, <1>1, <1>2 DEF Kept, PlacedInTable, Exists
<1> QED
  BY <1>2, <1>3, <1>4
-----------------------------------------------------------------------------
(* The invariant: it holds initially, every step keeps it.                 *)
LEMMA InitEstablishesIInv == Init => IInv
<1> SUFFICES ASSUME Init
             PROVE  IInv
  OBVIOUS
<1>1. PICK g \in Groups \cup {NULL}, ok \in BOOLEAN :
        /\ g # NULL => ok
        /\ thread_data = [k \in Slots |->
             IF k = 0 THEN [tid |-> Main, active |-> TRUE,
                            mon_initialized |-> ok, mon |-> g]
                      ELSE Zeroed]
        /\ perf = [h \in Groups |-> IF h = g THEN Main ELSE NULL]
  BY DEF Init
<1>2. /\ thread_count = 1 /\ mutex = NULL /\ unregistered = {}
      /\ life = [t \in Tids |-> IF t = Main THEN "running" ELSE "none"]
      /\ idx = [t \in Tids |-> NULL]
      /\ pc = "sleep" /\ cur = 0 /\ phase = "up"
  BY DEF Init
<1>3. /\ Used = {0} /\ 0 \in Slots /\ Main \in Tids /\ NULL \notin Tids
      /\ NULL \notin Groups
  BY <1>2, SizesAssumption, NamesAssumption DEF Used, Slots
<1>4. /\ thread_data[0] = [tid |-> Main, active |-> TRUE,
                           mon_initialized |-> ok, mon |-> g]
      /\ \A k \in Slots \ {0} : thread_data[k] = Zeroed
  BY <1>1, <1>3
<1>5. TypeOK
  <2>1. thread_data \in [Slots -> ThreadData]
    BY <1>1, <1>3 DEF ThreadData, Zeroed
  <2>2. perf \in [Groups -> Tids \cup {NULL}]
    BY <1>1, <1>3
  <2>3. thread_count \in 0 .. MAX_THREADS
    BY <1>2, SizesAssumption
  <2> QED
    BY <1>2, <2>1, <2>2, <2>3 DEF TypeOK
<1>6. SlotsSound
  <2>1. \A k \in Slots : Held(k) # NULL => k = 0
    BY <1>4 DEF Held, Zeroed
  <2>2. Held(0) # NULL => /\ thread_data[0].mon_initialized
                          /\ perf[Held(0)] = thread_data[0].tid
    BY <1>1, <1>4 DEF Held
  <2> QED
    BY <1>3, <1>4, <2>1, <2>2 DEF SlotsSound
<1>7. PlacedInTable
  BY <1>2 DEF PlacedInTable
<1>8. OInv
  BY <1>2, <1>3, <1>4 DEF OInv, Orderly, NoThreadTwice, NeverAborts
<1>9. KInv
  <2>1. Tracked
    BY <1>2, <1>3, <1>4 DEF Tracked
  <2>2. Kept
    BY <1>2 DEF Kept
  <2>3. GroupsHeld
    <3>1. \A h \in Groups : perf[h] # NULL => h = g /\ g # NULL
      BY <1>1, <1>3
    <3> QED
      BY <1>1, <1>3, <1>4, <3>1 DEF GroupsHeld, Held
  <2> QED
    BY <2>1, <2>2, <2>3, KInvUnfolds DEF KUnfolded
<1> QED
  BY <1>5, <1>6, <1>7, <1>8, <1>9 DEF IInv, TInv

LEMMA NextKeepsIInv == IInv /\ [Next]_vars => IInv'
<1> SUFFICES ASSUME TInv, OInv, KInv, [Next]_vars
             PROVE  TInv' /\ OInv' /\ KInv'
  BY DEF IInv
<1>1. CASE Threads
  <2>1. PICK t \in Tids : \/ Create(t) \/ Alloc(t) \/ Open(t) \/ Return(t)
                          \/ PthreadExit(t) \/ End(t)
                          \/ CloneThread(t) \/ Register(t) \/ Vanish(t)
    BY <1>1 DEF Threads
  <2> QED
    BY <2>1, ThreadStepsKeepTInv, ThreadStepsKeepOInv, ThreadStepsKeepKInv
<1>2. CASE MonitorLoop \/ CallExit \/ finish_monitor \/ Gone \/ UNCHANGED vars
  BY <1>2, ProcessStepsKeepTInv, ProcessStepsKeepOInv, ProcessStepsKeepKInv
<1> QED
  BY <1>1, <1>2 DEF Next

LEMMA IInvAlways == Spec => []IInv
BY InitEstablishesIInv, NextKeepsIInv, PTL DEF Spec
-----------------------------------------------------------------------------
(* libmonitor's data stay well formed: in particular no step ever writes   *)
(* past the end of thread_data, whatever index a thread still carries      *)
(* (libmonitor.c:760-768, 891-906).                                        *)
THEOREM ThreadsTypeCorrect == Spec => []TypeOK
<1>1. IInv => TypeOK
  BY DEF IInv, TInv
<1> QED
  BY <1>1, IInvAlways, PTL

(* Whatever the workload does to its threads, cloned, cancelled or reused  *)
(* ids included, the fds a slot refers to are open, count that slot's      *)
(* thread and no other slot refers to them: perf_monitor_close never       *)
(* closes someone else's fds (libmonitor.c:786-789, 935, 1186).            *)
THEOREM GroupsAreOwned == Spec => []SlotOwnsItsGroup
<1>1. IInv => SlotOwnsItsGroup
  BY UsedAreSlots DEF IInv, TInv, SlotsSound, SlotOwnsItsGroup
<1> QED
  BY <1>1, IInvAlways, PTL

(* If every thread ends through the library, no thread has two active      *)
(* slots, so a window never counts it twice (libmonitor.c:904, 934-939).   *)
THEOREM OneSlotPerThread == Spec => []NoThreadTwice
<1>1. IInv => NoThreadTwice
  BY DEF IInv, OInv
<1> QED
  BY <1>1, IInvAlways, PTL

(* And the repin of a training run finds every active thread alive, so the *)
(* run is not aborted with the mutex held (libmonitor.c:424-430, 763).     *)
THEOREM TrainingNeverAborts == Spec => []NeverAborts
<1>1. IInv => NeverAborts
  BY DEF IInv, OInv
<1> QED
  BY <1>1, IInvAlways, PTL

(* If the stat of a living thread can always be read, a thread that was    *)
(* given a slot has an active one until it leaves its routine, although    *)
(* the mutex is released between the two sections of thread_wrapper        *)
(* (libmonitor.c:453-463, 760-768).                                        *)
THEOREM ThreadsStayTracked == Spec => []TrackedWhileRunning
<1>1. IInv => TrackedWhileRunning
  BY DEF IInv, KInv
<1> QED
  BY <1>1, IInvAlways, PTL

(* And, when no thread leaves by pthread_exit, every open group has an     *)
(* active slot through which it will be closed: no fd leaks                *)
(* (libmonitor.c:797-806, 935, 967).                                       *)
THEOREM NothingLeaks == Spec => []NoLeak
<1>1. IInv => NoLeak
  BY DEF IInv, KInv
<1> QED
  BY <1>1, IInvAlways, PTL
=============================================================================
