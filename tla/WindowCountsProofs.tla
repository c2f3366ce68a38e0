------------------------- MODULE WindowCountsProofs -------------------------
(***************************************************************************)
(* TLAPS proofs about WindowCounts, for any bounds on the events and on    *)
(* the I/O of a process that a 64-bit counter can hold.  What is reported  *)
(* is a sum of differences, so the invariants keep the books: what the     *)
(* next difference would report is owed, and reported plus owed is never   *)
(* more than what happened.                                                *)
(***************************************************************************)
EXTENDS WindowCounts, TLAPS

(* What the next read of the counter adds, were it to succeed.             *)
Owed == IF td.mon_initialized THEN cnt - td.prev ELSE 0

(* The same of the thread's I/O.                                           *)
IoOwed == IF td.io_initialized THEN tio - td.prev_io ELSE 0

(* The types of all variables but the bounds on win, and the order of the  *)
(* sweep: until the counter is read the window is empty.                   *)
TypesHold ==
  /\ value \in Values /\ core \in Sides
  /\ done \in [Sides -> 0 .. MaxEvents] /\ mark \in [Sides -> 0 .. MaxEvents]
  /\ tio \in 0 .. MaxIo /\ pio \in 0 .. MaxIo
  /\ life \in {"none", "placed", "hinted", "running"} /\ hint \in Sides \cup {NULL}
  /\ td \in ThreadData
  /\ cnt \in Nat /\ on \in BOOLEAN
  /\ pc \in {"sleep", "cpu", "io", "perf", "resume", "send"}
  /\ now \in Sides \cup {NULL}
  /\ win \in [Sides -> -(2 * MaxEvents) .. 2 * MaxEvents] /\ win_io \in [Sides -> Nat]
  /\ initial_io \in 0 .. MaxIo /\ final_io \in 0 .. MaxIo
  /\ reported \in [Sides -> Int] /\ io_reported \in Nat /\ io_sent \in Nat
  /\ torn \in BOOLEAN

Ordered ==
  /\ pc \in {"sleep", "cpu", "io", "perf"} => win = None
  /\ pc \in {"io", "perf", "resume"} => now \in Sides
  /\ life = "hinted" => hint \in Sides

(* The counter never holds more than what happened, and its baseline never *)
(* more than the counter; a group counts for the core type it is read for. *)
CounterSound ==
  /\ cnt <= Sum(done)
  /\ td.mon_initialized => td.pmu = td.last_pcore /\ td.prev <= cnt
  /\ td.mon_initialized /\ ~ td.fd => cnt = 0

(* The books of the events.                                                *)
EventsKept ==
  IF value = "PAGE_FAULTS"
  THEN Sum(reported) + Sum(win) + Owed <= Sum(done)
  ELSE \A s \in Sides :
         reported[s] + win[s] + (IF s = td.pmu THEN Owed ELSE 0) <= done[s]

(* And of the I/O: of the threads, until zeroes are read from a file, and  *)
(* of the process.                                                         *)
BooksOfIo ==
  /\ td.io_initialized => td.prev_io <= tio
  /\ io_reported + Sum(win_io) + IoOwed <= pio

IoKept == tio <= pio /\ (~ torn => BooksOfIo)

ProcessIoKept ==
  /\ initial_io <= pio /\ final_io <= pio
  /\ ~ CallsFail => /\ 1 <= initial_io
                    /\ io_sent = initial_io - 1
                    /\ pc # "sleep" => initial_io <= final_io

IInv == /\ TypesHold /\ Ordered /\ CounterSound
        /\ EventsKept /\ IoKept /\ ProcessIoKept

-----------------------------------------------------------------------------
(* Unsigned subtraction and the cast give the signed difference back.      *)

LEMMA SideIsPorE == \A s \in Sides : s = "P" \/ s = "E"
BY DEF Sides

LEMMA ModulusIsNat == Modulus \in Nat \ {0} /\ SignBit \in Nat \ {0}
BY BoundsAssumption DEF Modulus

LEMMA ModSmall ==
  ASSUME NEW m \in Nat \ {0}, NEW x \in 0 .. m - 1
  PROVE  x % m = x
OBVIOUS

LEMMA ModNegative ==
  ASSUME NEW m \in Nat \ {0}, NEW x \in -m .. -1
  PROVE  x % m = x + m
OBVIOUS

LEMMA ModIsNat ==
  ASSUME NEW m \in Nat \ {0}, NEW x \in Int
  PROVE  x % m \in Nat
OBVIOUS

LEMMA MinusOfLarger ==
  ASSUME NEW a \in Nat, NEW b \in 0 .. a, a < SignBit
  PROVE  Minus(a, b) = a - b
<1>1. a - b \in 0 .. Modulus - 1
  BY ModulusIsNat DEF Modulus
<1> QED
  BY <1>1, ModulusIsNat, ModSmall DEF Minus

(* What is added to a window is a number again.                            *)
LEMMA DifferenceAdded ==
  ASSUME NEW n \in Nat, NEW a \in Nat, NEW b \in Nat
  PROVE  (n + Minus(a, b)) % Modulus \in Nat
<1>1. Minus(a, b) \in Nat
  BY ModIsNat, ModulusIsNat DEF Minus
<1>2. n + Minus(a, b) \in Int
  BY <1>1
<1> QED
  BY <1>2, ModIsNat, ModulusIsNat

LEMMA DifferenceIsExact ==
  ASSUME NEW curr \in Nat, td.prev \in Nat, curr < SignBit, td.prev < SignBit
  PROVE  Difference(curr) = curr - td.prev
<1>1. CASE td.prev <= curr
  <2>1. Minus(curr, td.prev) = curr - td.prev
    BY <1>1, MinusOfLarger
  <2> QED
    BY <1>1, <2>1, ModulusIsNat DEF Difference, Signed
<1>2. CASE td.prev > curr
  <2>1. curr - td.prev \in -Modulus .. -1
    BY <1>2, ModulusIsNat DEF Modulus
  <2>2. Minus(curr, td.prev) = curr - td.prev + Modulus
    BY <2>1, ModulusIsNat, ModNegative DEF Minus
  <2> QED
    BY <1>2, <2>2, ModulusIsNat DEF Difference, Signed, Modulus
<1> QED
  BY <1>1, <1>2

(* The slots that the code writes are slots.                               *)
LEMMA SlotOpened ==
  ASSUME NEW slot \in ThreadData, NEW s \in Sides, NEW fd \in BOOLEAN, NEW base \in Nat
  PROVE  [slot EXCEPT !.mon_initialized = TRUE, !.last_pcore = s, !.pmu = s,
                      !.fd = fd, !.prev = base] \in ThreadData
BY DEF ThreadData

LEMMA SlotClosed ==
  ASSUME NEW slot \in ThreadData
  PROVE  /\ perf_monitor_close(slot) \in ThreadData
         /\ perf_monitor_close(slot).mon_initialized = FALSE
         /\ perf_monitor_close(slot).active = slot.active
         /\ perf_monitor_close(slot).io_initialized = slot.io_initialized
         /\ perf_monitor_close(slot).prev_io = slot.prev_io
<1>1. perf_monitor_close(slot) \in ThreadData
  BY DEF perf_monitor_close, ThreadData
<1> QED
  BY <1>1 DEF perf_monitor_close, ThreadData

(* A group that is opened, or could not be.                                *)
OpenedSoundly(s) ==
  /\ done' \in [Sides -> 0 .. MaxEvents] /\ mark' \in [Sides -> 0 .. MaxEvents]
  /\ done'["P"] >= done["P"] /\ done'["E"] >= done["E"]
  /\ td' \in ThreadData
  /\ td'.active = td.active
  /\ td'.io_initialized = td.io_initialized /\ td'.prev_io = td.prev_io
  /\ cnt' \in 0 .. 1 /\ on' \in BOOLEAN
  /\ td'.mon_initialized =>
       /\ td'.pmu = s /\ td'.last_pcore = s /\ td'.prev <= cnt'
       /\ ~ td'.fd => cnt' = 0
       /\ IF value = "PAGE_FAULTS"
          THEN cnt' <= (done'["P"] - done["P"]) + (done'["E"] - done["E"])
          ELSE cnt' <= done'[s] - done[s]
  /\ cnt' <= Sum(done') - Sum(done)

LEMMA OpenIsSound ==
  ASSUME TypesHold, NEW s \in Sides, open_or_reopen_thread_perf(s)
  PROVE  OpenedSoundly(s)
<1> USE BoundsAssumption
<1>1. ASSUME NEW early \in {0, 1}, NEW fd \in Opened(s),
             NEW counted, counted = (IF fd /\ CountsOn(s, core) THEN early ELSE 0),
             done[core] + early <= MaxEvents,
             done' = [done EXCEPT ![core] = @ + early],
             cnt' = counted, on' = TRUE, mark' = done',
             NEW base \in {counted, 0},
             td' = [td EXCEPT !.mon_initialized = TRUE, !.last_pcore = s,
                              !.pmu = s, !.fd = fd, !.prev = base]
      PROVE  OpenedSoundly(s)
  <2>1. fd \in BOOLEAN
    BY <1>1 DEF Opened
  <2>2. /\ core \in Sides /\ done \in [Sides -> 0 .. MaxEvents]
        /\ td \in ThreadData
    BY DEF TypesHold
  <2>3. counted \in {0, early} /\ base \in 0 .. 1 /\ base <= counted
    BY <1>1
  <2>4. /\ td' \in ThreadData
        /\ td'.active = td.active
        /\ td'.io_initialized = td.io_initialized /\ td'.prev_io = td.prev_io
        /\ td'.pmu = s /\ td'.last_pcore = s /\ td'.prev = base /\ td'.fd = fd
    <3>1. td' \in ThreadData
      <4>1. base \in Nat
        BY <2>3
      <4> QED
        BY <1>1, <2>1, <2>2, <4>1, SlotOpened
    <3>2. /\ td'.active = td.active
          /\ td'.io_initialized = td.io_initialized /\ td'.prev_io = td.prev_io
          /\ td'.pmu = s /\ td'.last_pcore = s /\ td'.prev = base /\ td'.fd = fd
      BY <1>1, <2>2 DEF ThreadData
    <3> QED
      BY <3>1, <3>2
  <2>5. /\ done' \in [Sides -> 0 .. MaxEvents]
        /\ done'[core] = done[core] + early
        /\ \A r \in Sides \ {core} : done'[r] = done[r]
    BY <1>1, <2>2
  <2>6. "P" \in Sides /\ "E" \in Sides
    BY DEF Sides
  <2>7. /\ done'["P"] >= done["P"] /\ done'["E"] >= done["E"]
        /\ (done'["P"] - done["P"]) + (done'["E"] - done["E"]) = early
    <3>1. CASE core = "P"
      BY <2>2, <2>5, <2>6, <3>1 DEF Sides
    <3>2. CASE core = "E"
      BY <2>2, <2>5, <2>6, <3>2 DEF Sides
    <3> QED
      BY <2>2, <3>1, <3>2 DEF Sides
  <2>8. value # "PAGE_FAULTS" => counted <= done'[s] - done[s]
    <3>1. CASE s = core
      BY <2>2, <2>3, <2>5, <3>1
    <3>2. CASE s # core
      BY <1>1, <2>2, <2>5, <3>2 DEF CountsOn
    <3> QED
      BY <3>1, <3>2
  <2>9. ~ fd => counted = 0
    BY <1>1
  <2>10. counted <= Sum(done') - Sum(done)
    BY <2>2, <2>3, <2>5, <2>6, <2>7 DEF Sum
  <2> QED
    BY <1>1, <2>3, <2>4, <2>5, <2>7, <2>8, <2>9, <2>10 DEF OpenedSoundly
<1>2. ASSUME td' = perf_monitor_close(td), NoCounter, UNCHANGED done
      PROVE  OpenedSoundly(s)
  <2>1. /\ td' \in ThreadData /\ td'.mon_initialized = FALSE
        /\ td'.active = td.active
        /\ td'.io_initialized = td.io_initialized /\ td'.prev_io = td.prev_io
    BY <1>2, SlotClosed DEF TypesHold
  <2>2. mark' \in [Sides -> 0 .. MaxEvents] /\ cnt' = 0 /\ on' = FALSE
    BY <1>2 DEF NoCounter, None
  <2>3. done["P"] \in Nat /\ done["E"] \in Nat
    BY DEF TypesHold, Sides
  <2>4. done' = done /\ Sum(done') - Sum(done) = 0
    BY <1>2, <2>3 DEF Sum
  <2>5. done \in [Sides -> 0 .. MaxEvents]
    BY DEF TypesHold
  <2>6. done'["P"] >= done["P"] /\ done'["E"] >= done["E"]
    BY <2>3, <2>4
  <2>7. cnt' \in 0 .. 1
    BY <2>2
  <2>10. on' \in BOOLEAN
    BY <1>2, Zenon DEF NoCounter
  <2>9. cnt' <= Sum(done') - Sum(done)
    BY <2>2, <2>3, <2>4 DEF Sum
  <2>8. done' \in [Sides -> 0 .. MaxEvents]
    BY <2>4, <2>5
  <2> QED
    BY <2>1, <2>2, <2>6, <2>7, <2>8, <2>9, <2>10, Zenon DEF OpenedSoundly
<1> QED
  BY <1>1, <1>2 DEF open_or_reopen_thread_perf

LEMMA SlotDropped ==
  ASSUME NEW slot \in ThreadData, NEW new,
         \/ new = [IF slot.mon_initialized THEN perf_monitor_close(slot) ELSE slot
                   EXCEPT !.active = FALSE]
         \/ new = [IF slot.mon_initialized THEN perf_monitor_close(slot) ELSE slot
                   EXCEPT !.active = FALSE, !.io_initialized = FALSE]
  PROVE  /\ new \in ThreadData
         /\ new.mon_initialized = FALSE
         /\ new.prev_io = slot.prev_io
         /\ new.io_initialized \in {slot.io_initialized, FALSE}
<1> DEFINE old == IF slot.mon_initialized THEN perf_monitor_close(slot) ELSE slot
<1>1. /\ old \in ThreadData
      /\ old.prev_io = slot.prev_io
      /\ old.io_initialized = slot.io_initialized
      /\ old.mon_initialized = FALSE
  <2>1. CASE slot.mon_initialized
    BY <2>1, SlotClosed
  <2>2. CASE ~ slot.mon_initialized
    <3>1. slot.mon_initialized \in BOOLEAN
      BY DEF ThreadData
    <3> QED
      BY <2>2, <3>1
  <2> QED
    BY <2>1, <2>2
<1>2. ASSUME NEW x \in ThreadData
      PROVE  /\ [x EXCEPT !.active = FALSE] \in ThreadData
             /\ [x EXCEPT !.active = FALSE, !.io_initialized = FALSE] \in ThreadData
  BY DEF ThreadData
<1>3. new = [old EXCEPT !.active = FALSE]
      \/ new = [old EXCEPT !.active = FALSE, !.io_initialized = FALSE]
  OBVIOUS
<1> HIDE DEF old
<1>4. new \in ThreadData
  BY <1>1, <1>2, <1>3
<1>5. /\ new.mon_initialized = old.mon_initialized
      /\ new.prev_io = old.prev_io
      /\ new.io_initialized \in {old.io_initialized, FALSE}
  BY <1>1, <1>3 DEF ThreadData
<1> QED
  BY <1>1, <1>4, <1>5

LEMMA DropClosesSlot ==
  ASSUME td \in ThreadData, CpuFails \/ (Return /\ td.active)
  PROVE  /\ td' \in ThreadData
         /\ td'.mon_initialized = FALSE
         /\ td'.prev_io = td.prev_io
         /\ td'.io_initialized \in {td.io_initialized, FALSE}
<1>1. \/ td' = [IF td.mon_initialized THEN perf_monitor_close(td) ELSE td
               EXCEPT !.active = FALSE]
      \/ td' = [IF td.mon_initialized THEN perf_monitor_close(td) ELSE td
               EXCEPT !.active = FALSE, !.io_initialized = FALSE]
  BY DEF CpuFails, Return
<1> QED
  BY <1>1, SlotDropped

(* Only the I/O of the slot, or its activity, changes.                     *)
PerfKept == /\ td' \in ThreadData
            /\ td'.mon_initialized = td.mon_initialized
            /\ td'.pmu = td.pmu /\ td'.last_pcore = td.last_pcore
            /\ td'.fd = td.fd /\ td'.prev = td.prev

LEMMA SlotKept ==
  ASSUME td \in ThreadData, NEW p \in Nat, NEW b \in BOOLEAN,
         \/ td' = td
         \/ td' = [td EXCEPT !.active = FALSE, !.io_initialized = FALSE]
         \/ td' = [td EXCEPT !.prev_io = p, !.io_initialized = b]
         \/ td' = [td EXCEPT !.io_initialized = b]
  PROVE  PerfKept
<1>1. td' \in ThreadData
  BY DEF ThreadData
<1>2. /\ td'.mon_initialized = td.mon_initialized
      /\ td'.pmu = td.pmu /\ td'.last_pcore = td.last_pcore
      /\ td'.fd = td.fd /\ td'.prev = td.prev
  BY DEF ThreadData
<1> QED
  BY <1>1, <1>2 DEF PerfKept

(* A read that is taken for the end of a window.                           *)
LEMMA ReadIsSound ==
  ASSUME IInv, Read
  PROVE  \E curr \in Nat :
           /\ curr <= cnt
           /\ curr \in {cnt, 0}
           /\ curr - td.prev \in -(2 * MaxEvents) .. 2 * MaxEvents
           /\ now \in Sides /\ td.pmu = now /\ td.mon_initialized
           /\ win = None
           /\ win' = [win EXCEPT ![now] = curr - td.prev]
           /\ td' = [td EXCEPT !.prev = curr]
           /\ ~ CallsFail => curr = cnt
           /\ ~ td.fd => curr = 0
<1> USE BoundsAssumption
<1>1. PICK curr \in Readings :
        /\ win' = [win EXCEPT ![now] = @ + Difference(curr)]
        /\ td' = [td EXCEPT !.prev = curr]
  BY DEF Read
<1>2. /\ now \in Sides /\ td.mon_initialized /\ td.last_pcore = now
      /\ td.pmu = now /\ td.prev <= cnt /\ win = None
      /\ cnt \in Nat /\ td.prev \in Nat
      /\ ~ td.fd => cnt = 0
  BY DEF IInv, Read, Ordered, CounterSound, TypesHold, ThreadData
<1>3. cnt <= 2 * MaxEvents
  <2>1. done["P"] \in 0 .. MaxEvents /\ done["E"] \in 0 .. MaxEvents
    BY DEF IInv, TypesHold, Sides
  <2> QED
    BY <1>2, <2>1 DEF IInv, CounterSound, Sum
<1>4. /\ curr \in {cnt, 0}
      /\ ~ td.fd => curr = 0
      /\ ~ CallsFail => curr = cnt
  BY <1>1, <1>2, FailAssumption DEF Readings
<1>5. curr \in Nat /\ curr <= cnt
  BY <1>2, <1>4
<1>6. Difference(curr) = curr - td.prev
  <2>1. curr < SignBit /\ td.prev < SignBit /\ td.prev \in Nat
    BY <1>2, <1>3, <1>5
  <2> QED
    BY <1>5, <2>1, DifferenceIsExact
<1>7. win' = [win EXCEPT ![now] = curr - td.prev]
  <2>1. win[now] = 0 /\ curr - td.prev \in Int
    BY <1>2, <1>5 DEF None
  <2>2. win[now] + (curr - td.prev) = curr - td.prev
    BY <2>1
  <2> QED
    BY <1>1, <1>6, <2>2
<1>8. curr - td.prev \in -(2 * MaxEvents) .. 2 * MaxEvents
  BY <1>2, <1>3, <1>5
<1>9. td' = [td EXCEPT !.prev = curr]
  BY <1>1
<1> QED
  BY <1>2, <1>4, <1>5, <1>7, <1>8, <1>9

LEMMA ReadSlot ==
  ASSUME td \in ThreadData, NEW curr \in Nat, td' = [td EXCEPT !.prev = curr]
  PROVE  /\ td' \in ThreadData
         /\ td'.mon_initialized = td.mon_initialized
         /\ td'.pmu = td.pmu /\ td'.last_pcore = td.last_pcore
         /\ td'.fd = td.fd /\ td'.prev = curr
         /\ td'.io_initialized = td.io_initialized /\ td'.prev_io = td.prev_io
<1>1. td' \in ThreadData
  BY DEF ThreadData
<1> QED
  BY <1>1 DEF ThreadData

-----------------------------------------------------------------------------
(* The types.                                                              *)

LEMMA NoCounterTyped ==
  ASSUME NoCounter
  PROVE  cnt' = 0 /\ on' \in BOOLEAN /\ mark' \in [Sides -> 0 .. MaxEvents]
<1>1. on' \in BOOLEAN
  BY Zenon DEF NoCounter
<1>2. cnt' = 0 /\ mark' \in [Sides -> 0 .. MaxEvents]
  BY BoundsAssumption DEF NoCounter, None
<1> QED
  BY <1>1, <1>2, Zenon

LEMMA TypesStep == IInv /\ [Next]_vars => TypesHold'
<1> SUFFICES ASSUME IInv, [Next]_vars PROVE TypesHold'
  OBVIOUS
<1> USE BoundsAssumption
<1>0. TypesHold
  BY DEF IInv
<1>1. None \in [Sides -> 0 .. MaxEvents] /\ Zeroed \in ThreadData
  BY DEF None, Zeroed, ThreadData, Sides
<1>2. CASE Happen
  <2>1. done' \in [Sides -> 0 .. MaxEvents] /\ cnt' \in Nat
    BY <1>2, <1>0 DEF Happen, TypesHold
  <2> QED
    BY <1>2, <1>0, <2>1 DEF Happen, TypesHold, thread, windows, process, history
<1>3. CASE DoIo
  <2>1. tio' \in 0 .. MaxIo /\ pio' \in 0 .. MaxIo
    BY <1>3, <1>0 DEF DoIo, TypesHold, IInv, IoKept
  <2> QED
    BY <1>3, <1>0, <2>1 DEF DoIo, TypesHold, thread, kernel, windows, process, history
<1>4. CASE Migrate
  BY <1>4, <1>0 DEF Migrate, TypesHold, thread, kernel, windows, process, history
<1>5. CASE Place
  <2>1. td' \in ThreadData
    BY <1>5, <1>1 DEF Place, ThreadData
  <2> QED
    BY <1>5, <1>0, <2>1, NoCounterTyped
       DEF Place, TypesHold, windows, process, history
<1>6. CASE AskCpu
  BY <1>6, <1>0 DEF AskCpu, TypesHold, world, kernel, windows, process, history
<1>7. CASE OpenOwn
  <2>1. OpenedSoundly(hint)
    BY <1>7, <1>0, OpenIsSound DEF OpenOwn, IInv, Ordered
  <2> QED
    BY <1>7, <1>0, <2>1 DEF OpenOwn, OpenedSoundly, TypesHold, windows, process, history
<1>8. CASE Return
  <2>1. td' \in ThreadData
    BY <1>8, <1>0, SlotDropped DEF Return, TypesHold
  <2>2. cnt' \in Nat /\ on' \in BOOLEAN /\ mark' \in [Sides -> 0 .. MaxEvents]
    <3>1. CASE td.active
      BY <1>8, <3>1, NoCounterTyped DEF Return
    <3>2. CASE ~ td.active
      BY <1>8, <1>0, <3>2 DEF Return, kernel, TypesHold
    <3> QED
      BY <3>1, <3>2
  <2> QED
    BY <1>8, <1>0, <2>1, <2>2 DEF Return, TypesHold, world, windows, process, history
<1>9. CASE PthreadExit
  <2>1. td' \in ThreadData
    BY <1>9, <1>0, SlotKept DEF PthreadExit, TypesHold, PerfKept
  <2> QED
    BY <1>9, <1>0, <2>1 DEF PthreadExit, TypesHold, world, kernel, windows, process, history
<1>10. CASE get_process_io_stats
  BY <1>10, <1>0 DEF get_process_io_stats, TypesHold, world, thread, kernel, windows, history
<1>11. CASE Skip
  BY <1>11, <1>0 DEF Skip, TypesHold, world, thread, kernel, windows, process, history
<1>12. CASE get_thread_cpu
  BY <1>12, <1>0 DEF get_thread_cpu, TypesHold, world, thread, kernel, windows, process, history
<1>13. CASE CpuFails
  <2>1. td' \in ThreadData
    BY <1>13, <1>0, SlotDropped DEF CpuFails, TypesHold
  <2> QED
    BY <1>13, <1>0, <2>1, NoCounterTyped
       DEF CpuFails, TypesHold, world, thread, windows, process, history
<1>14. CASE get_thread_io_stats
  <2>1. tio \in Nat /\ win_io \in [Sides -> Nat] /\ td \in ThreadData /\ now \in Sides
    BY <1>14, <1>0 DEF TypesHold, IInv, Ordered, get_thread_io_stats
  <2>2. td' \in ThreadData
    BY <1>14, <2>1 DEF get_thread_io_stats, ThreadData
  <2>3. (win_io[now] + Minus(tio, td.prev_io)) % Modulus \in Nat
    BY <2>1, DifferenceAdded DEF ThreadData
  <2>4. win_io' \in [Sides -> Nat]
    BY <1>14, <2>1, <2>3 DEF get_thread_io_stats
  <2> QED
    BY <1>14, <1>0, <2>2, <2>4
       DEF get_thread_io_stats, TypesHold, world, thread, kernel, process, history
<1>21. CASE IoReadFails
  <2>1. win_io \in [Sides -> Nat] /\ td \in ThreadData /\ now \in Sides
    BY <1>21, <1>0 DEF TypesHold, IInv, Ordered, IoReadFails
  <2>2. td' \in ThreadData
    BY <1>21, <2>1 DEF IoReadFails, ThreadData
  <2>3. (win_io[now] + Minus(0, td.prev_io)) % Modulus \in Nat
    BY <2>1, DifferenceAdded DEF ThreadData
  <2>4. win_io' \in [Sides -> Nat]
    BY <1>21, <2>1, <2>3 DEF IoReadFails
  <2> QED
    BY <1>21, <1>0, <2>2, <2>4
       DEF IoReadFails, TypesHold, world, thread, kernel, process
<1>15. CASE IoFails
  <2>1. td' \in ThreadData
    BY <1>15, <1>0 DEF IoFails, TypesHold, ThreadData
  <2> QED
    BY <1>15, <1>0, <2>1 DEF IoFails, TypesHold, world, thread, kernel, windows, process, history
<1>16. CASE Reopen
  <2>1. OpenedSoundly(now)
    BY <1>16, <1>0, OpenIsSound DEF Reopen, IInv, Ordered
  <2> QED
    BY <1>16, <1>0, <2>1 DEF Reopen, OpenedSoundly, TypesHold, thread, windows, process, history
<1>17. CASE Read
  <2>1. PICK curr \in Nat :
          /\ curr - td.prev \in -(2 * MaxEvents) .. 2 * MaxEvents
          /\ win' = [win EXCEPT ![now] = curr - td.prev]
          /\ td' = [td EXCEPT !.prev = curr]
    BY <1>17, ReadIsSound
  <2>2. td' \in ThreadData
    BY <1>0, <2>1, ReadSlot DEF TypesHold
  <2>3. win' \in [Sides -> -(2 * MaxEvents) .. 2 * MaxEvents]
    BY <1>0, <2>1 DEF TypesHold
  <2> QED
    BY <1>17, <1>0, <2>2, <2>3 DEF Read, TypesHold, world, thread, process, history
<1>18. CASE Resume
  BY <1>18, <1>0 DEF Resume, TypesHold, world, thread, windows, process, history
<1>19. CASE Send
  <2>1. io_sent' \in Nat
    <3>1. (io_sent + Minus(final_io, initial_io)) % Modulus \in Nat
      <4>1. io_sent \in Nat /\ final_io \in Nat /\ initial_io \in Nat
        BY <1>0 DEF TypesHold
      <4> QED
        BY <4>1, DifferenceAdded
    <3>2. io_sent' = IF CallsFail THEN 0
                     ELSE (io_sent + Minus(final_io, initial_io)) % Modulus
      BY <1>19 DEF Send
    <3> QED
      BY <3>1, <3>2, FailAssumption
  <2>2. reported' \in [Sides -> Int]
    BY <1>19, <1>0 DEF Send, TypesHold
  <2>3. io_reported' \in Nat
    <3>1. Sum(win_io) \in Nat
      BY <1>0 DEF TypesHold, Sum, Sides
    <3> QED
      BY <1>19, <1>0, <3>1 DEF Send, TypesHold
  <2>4. /\ None \in [Sides -> -(2 * MaxEvents) .. 2 * MaxEvents]
        /\ None \in [Sides -> Nat]
    BY DEF None
  <2> QED
    BY <1>19, <1>0, <2>1, <2>2, <2>3, <2>4 DEF Send, TypesHold, world, thread, kernel
<1>20. CASE UNCHANGED vars
  BY <1>20, <1>0 DEF vars, TypesHold
<1> QED
  BY <1>2, <1>3, <1>4, <1>5, <1>6, <1>7, <1>8, <1>9, <1>10, <1>11, <1>12, <1>13,
     <1>14, <1>21, <1>15, <1>16, <1>17, <1>18, <1>19, <1>20 DEF Next, Thread, MonitorLoop

-----------------------------------------------------------------------------
(* The books.                                                              *)

LEMMA OrderedStep == IInv /\ [Next]_vars => Ordered'
<1> SUFFICES ASSUME IInv, [Next]_vars PROVE Ordered'
  OBVIOUS
<1>1. Ordered /\ core \in Sides
  BY DEF IInv, TypesHold
<1>2. CASE Happen \/ DoIo \/ Migrate \/ Place \/ OpenOwn \/ Return \/ PthreadExit
  BY <1>1, <1>2 DEF Happen, DoIo, Migrate, Place, OpenOwn, Return, PthreadExit,
                    Ordered, thread, windows
<1>3. CASE AskCpu
  BY <1>1, <1>3 DEF AskCpu, Ordered, windows
<1>4. CASE get_process_io_stats \/ Skip \/ CpuFails \/ IoReadFails \/ IoFails \/ Reopen
           \/ Resume
  BY <1>1, <1>4 DEF get_process_io_stats, Skip, CpuFails, IoReadFails, IoFails, Reopen,
                    Resume, Ordered, thread, windows
<1>5. CASE get_thread_cpu \/ get_thread_io_stats \/ Read \/ Send
  BY <1>1, <1>5 DEF get_thread_cpu, get_thread_io_stats, Read, Send, Ordered, thread,
                    windows
<1>6. CASE UNCHANGED vars
  BY <1>1, <1>6 DEF vars, Ordered
<1> QED
  BY <1>2, <1>3, <1>4, <1>5, <1>6 DEF Next, Thread, MonitorLoop

(* What an event adds to the counter is never more than it adds to done.   *)
LEMMA HappenIsCounted ==
  ASSUME TypesHold, Happen
  PROVE  /\ cnt' \in {cnt, cnt + 1}
         /\ Sum(done') = Sum(done) + 1
         /\ \A s \in Sides : done'[s] = done[s] + (IF s = core THEN 1 ELSE 0)
         /\ cnt' # cnt => value = "PAGE_FAULTS" \/ td.pmu = core
<1>1. \A s \in Sides : done'[s] = done[s] + (IF s = core THEN 1 ELSE 0)
  BY DEF Happen, TypesHold
<1>2. Sum(done') = Sum(done) + 1
  <2>1. /\ done["P"] \in Nat /\ done["E"] \in Nat
        /\ done'["P"] = done["P"] + (IF core = "P" THEN 1 ELSE 0)
        /\ done'["E"] = done["E"] + (IF core = "E" THEN 1 ELSE 0)
        /\ core = "P" \/ core = "E"
    BY <1>1 DEF TypesHold, Sides
  <2> QED
    BY <2>1 DEF Sum
<1> QED
  BY <1>1, <1>2 DEF Happen, CountsOn

LEMMA CounterStep == IInv /\ [Next]_vars => CounterSound'
<1> SUFFICES ASSUME IInv, [Next]_vars PROVE CounterSound'
  OBVIOUS
<1>0. TypesHold /\ CounterSound /\ td \in ThreadData /\ cnt \in Nat
  BY DEF IInv, TypesHold
<1>1. td.prev \in Nat /\ Sum(done) \in Nat
  BY <1>0 DEF TypesHold, ThreadData, Sum, Sides
<1>2. CASE Happen
  <2>1. cnt' \in {cnt, cnt + 1} /\ Sum(done') = Sum(done) + 1
    BY <1>2, <1>0, HappenIsCounted
  <2>2. td' = td /\ (~ td.fd => cnt' = cnt)
    BY <1>2 DEF Happen
  <2> QED
    BY <1>0, <1>1, <2>1, <2>2 DEF CounterSound
<1>3. CASE DoIo \/ Migrate \/ AskCpu \/ get_process_io_stats \/ Skip \/ get_thread_cpu
           \/ Resume \/ Send \/ UNCHANGED vars
  <2>1. td' = td /\ cnt' = cnt /\ done' = done
    BY <1>3 DEF DoIo, Migrate, AskCpu, get_process_io_stats, Skip, get_thread_cpu,
                Resume, Send, vars, world, kernel
  <2> QED
    BY <1>0, <2>1 DEF CounterSound, Sum
<1>4. ASSUME PerfKept, cnt' = cnt, done' = done
      PROVE  CounterSound'
  BY <1>0, <1>4 DEF CounterSound, PerfKept, Sum
<1>5. CASE PthreadExit \/ get_thread_io_stats \/ IoReadFails \/ IoFails
  <2>1. tio \in Nat
    BY <1>0 DEF TypesHold
  <2>2. \/ td' = td
        \/ td' = [td EXCEPT !.active = FALSE, !.io_initialized = FALSE]
        \/ td' = [td EXCEPT !.prev_io = tio, !.io_initialized = TRUE]
        \/ td' = [td EXCEPT !.prev_io = 0, !.io_initialized = TRUE]
        \/ td' = [td EXCEPT !.io_initialized = FALSE]
    BY <1>5 DEF PthreadExit, get_thread_io_stats, IoReadFails, IoFails
  <2>3. PerfKept
    BY <1>0, <2>1, <2>2, SlotKept
  <2>4. cnt' = cnt /\ done' = done
    BY <1>5 DEF PthreadExit, get_thread_io_stats, IoReadFails, IoFails, world, kernel
  <2> QED
    BY <1>4, <2>3, <2>4
<1>6. ASSUME ~ td'.mon_initialized, cnt' = 0, done' = done
      PROVE  CounterSound'
  <2>1. cnt' <= Sum(done')
    BY <1>1, <1>6 DEF Sum
  <2> QED
    BY <1>6, <2>1 DEF CounterSound
<1>7. CASE Place
  <2>1. td'.mon_initialized = FALSE
    BY <1>7 DEF Place, Zeroed
  <2> QED
    BY <1>6, <1>7, <2>1 DEF Place, NoCounter
<1>8. CASE CpuFails
  BY <1>0, <1>6, <1>8, SlotDropped DEF CpuFails, NoCounter, world
<1>9. CASE Return
  <2>1. CASE td.active
    BY <1>0, <1>6, <1>9, <2>1, SlotDropped DEF Return, NoCounter, world
  <2>2. CASE ~ td.active
    BY <1>0, <1>9, <2>2 DEF Return, CounterSound, kernel, world, Sum
  <2> QED
    BY <2>1, <2>2
<1>10. ASSUME NEW s \in Sides, OpenedSoundly(s)
       PROVE  CounterSound'
  <2>1. cnt' <= Sum(done')
    <3>1. Sum(done') \in Nat /\ cnt' \in Nat
      BY <1>10 DEF OpenedSoundly, Sum, Sides
    <3> QED
      BY <1>1, <1>10, <3>1 DEF OpenedSoundly
  <2> QED
    BY <1>10, <2>1 DEF CounterSound, OpenedSoundly
<1>11. CASE OpenOwn
  BY <1>0, <1>10, <1>11, OpenIsSound DEF OpenOwn, IInv, Ordered
<1>12. CASE Reopen
  BY <1>0, <1>10, <1>12, OpenIsSound DEF Reopen, IInv, Ordered
<1>13. CASE Read
  <2>1. PICK curr \in Nat : /\ curr <= cnt
                            /\ td' = [td EXCEPT !.prev = curr]
    BY <1>13, ReadIsSound
  <2>2. /\ td'.mon_initialized = td.mon_initialized
        /\ td'.pmu = td.pmu /\ td'.last_pcore = td.last_pcore
        /\ td'.fd = td.fd /\ td'.prev = curr
    BY <1>0, <2>1, ReadSlot
  <2>3. cnt' = cnt /\ done' = done
    BY <1>13 DEF Read, world
  <2> QED
    BY <1>0, <2>1, <2>2, <2>3 DEF CounterSound, Sum
<1> QED
  BY <1>2, <1>3, <1>5, <1>7, <1>8, <1>9, <1>11, <1>12, <1>13
     DEF Next, Thread, MonitorLoop

LEMMA OwedIsNat == IInv => Owed \in Nat
<1> SUFFICES ASSUME IInv PROVE Owed \in Nat
  OBVIOUS
<1>1. cnt \in Nat /\ td.prev \in Nat
  BY DEF IInv, TypesHold, ThreadData
<1> QED
  BY <1>1 DEF IInv, CounterSound, Owed

LEMMA EventTypes ==
  ASSUME TypesHold
  PROVE  /\ "P" \in Sides /\ "E" \in Sides
         /\ \A s \in Sides : reported[s] \in Int /\ win[s] \in Int /\ done[s] \in Nat
         /\ td.pmu \in Sides /\ td.prev \in Nat /\ cnt \in Nat
         /\ td.mon_initialized \in BOOLEAN
<1>1. -(2 * MaxEvents) .. 2 * MaxEvents \subseteq Int
  OBVIOUS
<1> QED
  BY <1>1 DEF TypesHold, ThreadData, Sides

(* What was reported is settled, whatever becomes of what is owed.         *)
LEMMA Settled ==
  ASSUME IInv
  PROVE  IF value = "PAGE_FAULTS" THEN Sum(reported) + Sum(win) <= Sum(done)
         ELSE \A s \in Sides : reported[s] + win[s] <= done[s]
<1>1. TypesHold /\ EventsKept /\ Owed \in Nat
  BY OwedIsNat DEF IInv
<1>2. CASE value = "PAGE_FAULTS"
  <2>1. /\ Sum(reported) \in Int /\ Sum(win) \in Int /\ Sum(done) \in Int
    BY <1>1, EventTypes DEF Sum
  <2> QED
    BY <1>1, <1>2, <2>1 DEF EventsKept
<1>3. CASE value # "PAGE_FAULTS"
  BY <1>1, <1>3, EventTypes DEF EventsKept
<1> QED
  BY <1>2, <1>3

LEMMA EventsStep == IInv /\ [Next]_vars => EventsKept'
<1> SUFFICES ASSUME IInv, [Next]_vars PROVE EventsKept'
  OBVIOUS
<1>0. TypesHold /\ EventsKept /\ Owed \in Nat
  BY OwedIsNat DEF IInv
<1>1. ASSUME value' = value, reported' = reported, win' = win, done' = done,
             \/ Owed' = Owed /\ td'.pmu = td.pmu
             \/ Owed' = 0
      PROVE  EventsKept'
  <2>1. CASE Owed' = Owed /\ td'.pmu = td.pmu
    BY <1>0, <1>1, <2>1 DEF EventsKept, Sum
  <2>2. CASE Owed' = 0 /\ value = "PAGE_FAULTS"
    <3>1. /\ Sum(reported) \in Int /\ Sum(win) \in Int
          /\ Sum(reported') = Sum(reported) /\ Sum(win') = Sum(win)
          /\ Sum(done') = Sum(done)
      BY <1>0, <1>1, EventTypes DEF Sum
    <3> QED
      BY <1>1, <2>2, <3>1, Settled DEF EventsKept
  <2>3. CASE Owed' = 0 /\ value # "PAGE_FAULTS"
    BY <1>0, <1>1, <2>3, Settled, EventTypes DEF EventsKept
  <2> QED
    BY <1>1, <2>1, <2>2, <2>3
<1>2. CASE Happen
  <2>1. /\ cnt' \in {cnt, cnt + 1}
        /\ Sum(done') = Sum(done) + 1
        /\ \A s \in Sides : done'[s] = done[s] + (IF s = core THEN 1 ELSE 0)
        /\ cnt' # cnt => value = "PAGE_FAULTS" \/ td.pmu = core
        /\ td' = td /\ value' = value /\ reported' = reported /\ win' = win
    BY <1>2, <1>0, HappenIsCounted DEF Happen, windows, history
  <2>2. Owed' \in {Owed, Owed + 1} /\ (Owed' # Owed => cnt' # cnt)
    BY <1>0, <2>1, EventTypes DEF Owed
  <2>3. CASE value = "PAGE_FAULTS"
    <3>1. /\ Sum(reported) \in Int /\ Sum(win) \in Int /\ Sum(done) \in Int
          /\ Sum(reported') = Sum(reported) /\ Sum(win') = Sum(win)
      BY <1>0, <2>1, EventTypes DEF Sum
    <3>2. Sum(reported) + Sum(win) + Owed <= Sum(done)
      BY <1>0, <2>3 DEF EventsKept
    <3>3. Sum(reported') + Sum(win') + Owed' <= Sum(done')
      BY <1>0, <2>1, <2>2, <3>1, <3>2
    <3> QED
      BY <2>1, <2>3, <3>3 DEF EventsKept
  <2>4. CASE value # "PAGE_FAULTS"
    <3> SUFFICES ASSUME NEW s \in Sides
                 PROVE  reported[s] + win[s] + (IF s = td.pmu THEN Owed' ELSE 0)
                          <= done'[s]
      BY <2>1, <2>4 DEF EventsKept
    <3>1. reported[s] + win[s] + (IF s = td.pmu THEN Owed ELSE 0) <= done[s]
      BY <1>0, <2>4 DEF EventsKept
    <3>2. /\ reported[s] \in Int /\ win[s] \in Int /\ done[s] \in Nat
          /\ done'[s] \in {done[s], done[s] + 1}
          /\ s = td.pmu /\ Owed' # Owed => done'[s] = done[s] + 1
      BY <1>0, <2>1, <2>2, <2>4, EventTypes
    <3>3. CASE s = td.pmu
      BY <1>0, <2>2, <3>1, <3>2, <3>3
    <3>4. CASE s # td.pmu
      BY <3>1, <3>2, <3>4
    <3> QED
      BY <3>3, <3>4
  <2> QED
    BY <2>3, <2>4
<1>3. ASSUME NEW s \in Sides, OpenedSoundly(s), value' = value, reported' = reported,
             win' = win
      PROVE  EventsKept'
  <2>1. /\ done' \in [Sides -> 0 .. MaxEvents]
        /\ done'["P"] >= done["P"] /\ done'["E"] >= done["E"]
        /\ td' \in ThreadData /\ cnt' \in Nat
    BY <1>3 DEF OpenedSoundly
  <2>2. /\ Owed' \in Nat
        /\ Owed' # 0 => /\ td'.pmu = s /\ Owed' <= cnt'
                        /\ IF value = "PAGE_FAULTS"
                           THEN cnt' <= (done'["P"] - done["P"]) + (done'["E"] - done["E"])
                           ELSE cnt' <= done'[s] - done[s]
    <3>1. CASE td'.mon_initialized
      <4>1. td'.prev \in Nat /\ td'.prev <= cnt' /\ Owed' = cnt' - td'.prev
        BY <1>3, <2>1, <3>1 DEF OpenedSoundly, ThreadData, Owed
      <4> QED
        BY <1>3, <2>1, <3>1, <4>1 DEF OpenedSoundly
    <3>2. CASE ~ td'.mon_initialized
      BY <3>2 DEF Owed
    <3> QED
      BY <3>1, <3>2
  <2>3. /\ done'["P"] \in Nat /\ done'["E"] \in Nat
        /\ \A r \in Sides : done'[r] \in Nat /\ done'[r] >= done[r]
    BY <2>1 DEF Sides
  <2>4. CASE value = "PAGE_FAULTS"
    <3>1. Sum(reported) + Sum(win) <= Sum(done)
      BY <2>4, Settled
    <3>2. Owed' <= (done'["P"] - done["P"]) + (done'["E"] - done["E"])
      BY <1>0, <2>1, <2>2, <2>3, <2>4, EventTypes
    <3>3. Sum(reported') + Sum(win') + Owed' <= Sum(done')
      BY <1>0, <1>3, <2>2, <2>3, <3>1, <3>2, EventTypes DEF Sum
    <3> QED
      BY <1>3, <2>4, <3>3 DEF EventsKept
  <2>5. CASE value # "PAGE_FAULTS"
    <3> SUFFICES ASSUME NEW r \in Sides
                 PROVE  reported[r] + win[r] + (IF r = td'.pmu THEN Owed' ELSE 0)
                          <= done'[r]
      BY <1>3, <2>5 DEF EventsKept
    <3>1. reported[r] + win[r] <= done[r]
      BY <2>5, Settled
    <3>2. reported[r] \in Int /\ win[r] \in Int /\ done[r] \in Nat
      BY <1>0, EventTypes
    <3>3. CASE r = td'.pmu /\ Owed' # 0
      BY <2>1, <2>2, <2>3, <2>5, <3>1, <3>2, <3>3
    <3>4. CASE r # td'.pmu \/ Owed' = 0
      BY <2>3, <3>1, <3>2, <3>4
    <3> QED
      BY <3>3, <3>4
  <2> QED
    BY <2>4, <2>5
<1>4. CASE OpenOwn \/ Reopen
  BY <1>0, <1>3, <1>4, OpenIsSound
     DEF OpenOwn, Reopen, IInv, Ordered, windows, history
<1>5. CASE Read
  <2>1. PICK curr \in Nat :
          /\ curr <= cnt
          /\ now \in Sides /\ td.pmu = now /\ td.mon_initialized
          /\ win = None
          /\ win' = [win EXCEPT ![now] = curr - td.prev]
          /\ td' = [td EXCEPT !.prev = curr]
    BY <1>5, ReadIsSound
  <2>2. /\ value' = value /\ reported' = reported /\ done' = done /\ cnt' = cnt
    BY <1>5 DEF Read, world, history
  <2>3. /\ td'.mon_initialized = td.mon_initialized
        /\ td'.pmu = td.pmu /\ td'.prev = curr
    BY <1>0, <2>1, ReadSlot DEF TypesHold
  <2>4. Owed = cnt - td.prev /\ Owed' = cnt - curr
    BY <2>1, <2>2, <2>3 DEF Owed
  <2>5. /\ \A s \in Sides : win[s] = 0
        /\ win'[now] = curr - td.prev
        /\ \A s \in Sides \ {now} : win'[s] = 0
    BY <1>0, <2>1 DEF TypesHold, None
  <2>6. CASE value = "PAGE_FAULTS"
    <3>1. Sum(reported) + Sum(win) + Owed <= Sum(done)
      BY <1>0, <2>6 DEF EventsKept
    <3>2. Sum(win) = 0 /\ Sum(win') = curr - td.prev
      <4>1. CASE now = "P"
        BY <1>0, <2>5, <4>1, EventTypes DEF Sum, Sides
      <4>2. CASE now = "E"
        BY <1>0, <2>5, <4>2, EventTypes DEF Sum, Sides
      <4> QED
        BY <2>1, <4>1, <4>2 DEF Sides
    <3>3. Sum(reported) \in Int /\ Sum(done) \in Int
      BY <1>0, EventTypes DEF Sum
    <3>4. Sum(reported') + Sum(win') + Owed' <= Sum(done')
      BY <1>0, <2>2, <2>4, <3>1, <3>2, <3>3, EventTypes
    <3> QED
      BY <2>2, <2>6, <3>4 DEF EventsKept
  <2>7. CASE value # "PAGE_FAULTS"
    <3> SUFFICES ASSUME NEW s \in Sides
                 PROVE  reported[s] + win'[s] + (IF s = td.pmu THEN Owed' ELSE 0)
                          <= done[s]
      BY <2>2, <2>3, <2>7 DEF EventsKept
    <3>1. reported[s] + win[s] + (IF s = td.pmu THEN Owed ELSE 0) <= done[s]
      BY <1>0, <2>7 DEF EventsKept
    <3>2. reported[s] \in Int /\ done[s] \in Nat /\ cnt \in Nat /\ td.prev \in Nat
      BY <1>0, EventTypes
    <3>3. CASE s = now
      BY <2>1, <2>4, <2>5, <3>1, <3>2, <3>3
    <3>4. CASE s # now
      BY <2>1, <2>5, <3>1, <3>2, <3>4
    <3> QED
      BY <3>3, <3>4
  <2> QED
    BY <2>6, <2>7
<1>6. CASE Send
  <2>1. /\ value' = value /\ done' = done /\ cnt' = cnt /\ td' = td
        /\ reported' = [s \in Sides |-> reported[s] + win[s]]
        /\ win' = [s \in Sides |-> 0]
    BY <1>6 DEF Send, world, kernel, None
  <2>2. Owed' = Owed
    BY <2>1 DEF Owed
  <2>3. \A s \in Sides : reported'[s] = reported[s] + win[s] /\ win'[s] = 0
    BY <2>1
  <2>4. CASE value = "PAGE_FAULTS"
    <3>1. Sum(reported) + Sum(win) + Owed <= Sum(done)
      BY <1>0, <2>4 DEF EventsKept
    <3>2. /\ Sum(reported') = Sum(reported) + Sum(win) /\ Sum(win') = 0
          /\ Sum(reported) + Sum(win) \in Int
      BY <1>0, <2>3, EventTypes DEF Sum
    <3> QED
      BY <1>0, <2>1, <2>2, <2>4, <3>1, <3>2 DEF EventsKept
  <2>5. CASE value # "PAGE_FAULTS"
    BY <1>0, <2>1, <2>2, <2>3, <2>5, EventTypes DEF EventsKept
  <2> QED
    BY <2>4, <2>5
<1>7. CASE DoIo \/ Migrate \/ AskCpu \/ get_process_io_stats \/ Skip \/ get_thread_cpu
           \/ Resume \/ UNCHANGED vars
  <2>1. /\ td' = td /\ cnt' = cnt /\ done' = done /\ value' = value
        /\ reported' = reported /\ win' = win
    BY <1>7 DEF DoIo, Migrate, AskCpu, get_process_io_stats, Skip, get_thread_cpu,
                Resume, vars, world, kernel, windows, history
  <2> QED
    BY <1>1, <2>1 DEF Owed
<1>8. CASE PthreadExit \/ get_thread_io_stats \/ IoReadFails \/ IoFails
  <2>1. tio \in Nat /\ td \in ThreadData
    BY <1>0 DEF TypesHold
  <2>2. \/ td' = td
        \/ td' = [td EXCEPT !.active = FALSE, !.io_initialized = FALSE]
        \/ td' = [td EXCEPT !.prev_io = tio, !.io_initialized = TRUE]
        \/ td' = [td EXCEPT !.prev_io = 0, !.io_initialized = TRUE]
        \/ td' = [td EXCEPT !.io_initialized = FALSE]
    BY <1>8 DEF PthreadExit, get_thread_io_stats, IoReadFails, IoFails
  <2>3. PerfKept
    BY <2>1, <2>2, SlotKept
  <2>4. /\ cnt' = cnt /\ done' = done /\ value' = value
        /\ reported' = reported /\ win' = win
    BY <1>8 DEF PthreadExit, get_thread_io_stats, IoReadFails, IoFails, world, kernel, windows, history
  <2> QED
    BY <1>1, <2>3, <2>4 DEF Owed, PerfKept
<1>9. ASSUME td'.mon_initialized = FALSE
      PROVE  Owed' = 0
  BY <1>9 DEF Owed
<1>10. CASE Place
  <2>1. td'.mon_initialized = FALSE
    BY <1>10 DEF Place, Zeroed
  <2> QED
    BY <1>1, <1>9, <1>10, <2>1 DEF Place, windows, history
<1>11. CASE CpuFails
  <2>1. td'.mon_initialized = FALSE
    <3>1. td \in ThreadData
      BY <1>0 DEF TypesHold
    <3> QED
      BY <1>11, <3>1, DropClosesSlot
  <2> QED
    BY <1>1, <1>9, <1>11, <2>1 DEF CpuFails, world, windows, history
<1>12. CASE Return
  <2>1. CASE td.active
    <3>1. td'.mon_initialized = FALSE
      <4>1. td \in ThreadData
        BY <1>0 DEF TypesHold
      <4> QED
        BY <1>12, <2>1, <4>1, DropClosesSlot
    <3> QED
      BY <1>1, <1>9, <1>12, <3>1 DEF Return, world, windows, history
  <2>2. CASE ~ td.active
    BY <1>1, <1>12, <2>2 DEF Return, kernel, world, windows, history, Owed
  <2> QED
    BY <2>1, <2>2
<1> QED
  BY <1>2, <1>4, <1>5, <1>6, <1>7, <1>8, <1>10, <1>11, <1>12
     DEF Next, Thread, MonitorLoop

(* The I/O of the thread changes with it, in get_thread_io_stats only it is *)
(* moved from what is owed to the window.                                   *)
LEMMA BooksStep ==
  ASSUME IInv, [Next]_vars, ~ torn, ~ torn'
  PROVE  BooksOfIo'
<1> USE BoundsAssumption
<1>0. TypesHold /\ IoKept /\ BooksOfIo
  BY DEF IInv, IoKept
<1>1. /\ tio \in Nat /\ pio \in Nat /\ td \in ThreadData
      /\ tio < SignBit /\ pio < SignBit
      /\ td.io_initialized \in BOOLEAN /\ td.prev_io \in Nat
      /\ win_io["P"] \in Nat /\ win_io["E"] \in Nat /\ Sum(win_io) \in Nat
      /\ io_reported \in Nat
  BY <1>0 DEF TypesHold, ThreadData, Sum, Sides
<1>2. IoOwed \in Nat
  BY <1>0, <1>1 DEF BooksOfIo, IoOwed
<1>3. ASSUME io_reported' = io_reported, win_io' = win_io, pio' = pio,
             \/ tio' = tio
             \/ tio' = 0,
             \/ td'.io_initialized = FALSE
             \/ td'.io_initialized = td.io_initialized /\ td'.prev_io = td.prev_io
                /\ tio' = tio
      PROVE  BooksOfIo'
  <2>2. CASE td'.io_initialized = FALSE
    <3>1. IoOwed' = 0
      BY <2>2 DEF IoOwed
    <3>2. td'.io_initialized => td'.prev_io <= tio'
      BY <2>2, Zenon
    <3>3. io_reported' + Sum(win_io') + IoOwed' <= pio'
      BY <1>0, <1>1, <1>2, <1>3, <3>1 DEF BooksOfIo
    <3> QED
      BY <3>2, <3>3, Zenon DEF BooksOfIo
  <2>3. CASE td'.io_initialized = td.io_initialized /\ td'.prev_io = td.prev_io
             /\ tio' = tio
    <3>1. IoOwed' = IoOwed
      BY <2>3 DEF IoOwed
    <3> QED
      BY <1>0, <1>1, <1>2, <1>3, <2>3, <3>1 DEF BooksOfIo
  <2> QED
    BY <1>3, <2>2, <2>3
<1>4. CASE Happen \/ Migrate \/ AskCpu \/ get_process_io_stats \/ Skip \/ get_thread_cpu
           \/ Resume \/ UNCHANGED vars
  BY <1>3, <1>4 DEF Happen, Migrate, AskCpu, get_process_io_stats, Skip,
                    get_thread_cpu, Resume, vars, world, windows, history
<1>5. CASE DoIo
  <2>1. /\ tio' = tio + 1 /\ pio' = pio + 1 /\ td' = td
        /\ win_io' = win_io /\ io_reported' = io_reported
    BY <1>5 DEF DoIo, windows, history
  <2>2. IoOwed' \in {IoOwed, IoOwed + 1}
    BY <1>1, <2>1 DEF IoOwed
  <2>3. Sum(win_io') = Sum(win_io)
    BY <2>1 DEF Sum
  <2> QED
    BY <1>0, <1>1, <1>2, <2>1, <2>2, <2>3 DEF BooksOfIo
<1>6. CASE Place
  <2>1. td'.io_initialized = FALSE /\ tio' = 0
    BY <1>6 DEF Place, Zeroed
  <2> QED
    BY <1>3, <1>6, <2>1 DEF Place, windows, history
<1>7. CASE OpenOwn \/ Reopen
  <2>1. td'.io_initialized = td.io_initialized /\ td'.prev_io = td.prev_io
    BY <1>0, <1>7, OpenIsSound DEF OpenOwn, Reopen, IInv, Ordered, OpenedSoundly
  <2> QED
    BY <1>3, <1>7, <2>1 DEF OpenOwn, Reopen, windows, history
<1>8. CASE Return
  <2>1. CASE td.active
    <3>1. \/ td'.io_initialized = FALSE
          \/ td'.io_initialized = td.io_initialized /\ td'.prev_io = td.prev_io
      BY <1>1, <1>8, <2>1, DropClosesSlot
    <3> QED
      BY <1>3, <1>8, <3>1 DEF Return, world, windows, history
  <2>2. CASE ~ td.active
    BY <1>3, <1>8, <2>2 DEF Return, world, windows, history
  <2> QED
    BY <2>1, <2>2
<1>9. CASE PthreadExit
  <2>1. \/ td'.io_initialized = FALSE
        \/ td'.io_initialized = td.io_initialized /\ td'.prev_io = td.prev_io
    BY <1>1, <1>9 DEF PthreadExit, ThreadData
  <2> QED
    BY <1>3, <1>9, <2>1 DEF PthreadExit, world, windows, history
<1>10. CASE CpuFails
  <2>1. \/ td'.io_initialized = FALSE
        \/ td'.io_initialized = td.io_initialized /\ td'.prev_io = td.prev_io
    BY <1>1, <1>10, DropClosesSlot
  <2> QED
    BY <1>3, <1>10, <2>1 DEF CpuFails, world, windows, history
<1>11. CASE get_thread_io_stats
  <2>1. /\ td'.prev_io = tio /\ tio' = tio /\ pio' = pio /\ io_reported' = io_reported
        /\ now \in Sides
    BY <1>0, <1>1, <1>11
       DEF get_thread_io_stats, ThreadData, world, history, IInv, Ordered
  <2>2. IoOwed' = 0
    BY <1>1, <2>1 DEF IoOwed
  <2>3. Sum(win_io') = Sum(win_io) + IoOwed
    <3>1. CASE ~ td.io_initialized
      BY <1>1, <1>11, <3>1 DEF get_thread_io_stats, IoOwed
    <3>2. CASE td.io_initialized
      <4>1. Minus(tio, td.prev_io) = tio - td.prev_io
        BY <1>0, <1>1, <3>2, MinusOfLarger DEF BooksOfIo
      <4>2. /\ win_io \in [Sides -> Nat]
            /\ win_io' = [win_io EXCEPT ![now] = (@ + (tio - td.prev_io)) % Modulus]
        BY <1>0, <1>11, <3>2, <4>1 DEF get_thread_io_stats, TypesHold
      <4>3. now = "P" \/ now = "E"
        BY <2>1 DEF Sides
      <4>4. win_io[now] + (tio - td.prev_io) \in 0 .. Modulus - 1
        <5>1. tio - td.prev_io \in Nat /\ IoOwed = tio - td.prev_io
          BY <1>0, <1>1, <3>2 DEF BooksOfIo, IoOwed
        <5>2. Sum(win_io) + IoOwed < SignBit /\ win_io[now] \in 0 .. Sum(win_io)
          BY <1>0, <1>1, <1>2, <4>3 DEF BooksOfIo, Sum
        <5> QED
          BY <1>1, <5>1, <5>2, ModulusIsNat DEF Modulus
      <4>5. (win_io[now] + (tio - td.prev_io)) % Modulus = win_io[now] + (tio - td.prev_io)
        BY <4>4, ModulusIsNat, ModSmall
      <4> QED
        BY <1>1, <3>2, <4>2, <4>3, <4>5 DEF Sum, Sides, IoOwed
    <3> QED
      BY <3>1, <3>2
  <2> QED
    BY <1>0, <1>1, <1>2, <2>1, <2>2, <2>3 DEF BooksOfIo
<1>12. CASE IoFails
  <2>1. td'.io_initialized = FALSE
    BY <1>1, <1>12 DEF IoFails, ThreadData
  <2> QED
    BY <1>3, <1>12, <2>1 DEF IoFails, world, windows, history
<1>13. CASE Read
  <2>1. td'.io_initialized = td.io_initialized /\ td'.prev_io = td.prev_io
    <3>1. PICK curr \in Nat : td' = [td EXCEPT !.prev = curr]
      BY <1>13, ReadIsSound
    <3> QED
      BY <1>1, <3>1, ReadSlot
  <2> QED
    BY <1>3, <1>13, <2>1 DEF Read, world, history
<1>14. CASE Send
  <2>1. /\ tio' = tio /\ pio' = pio /\ td' = td /\ win_io' = None
    BY <1>14 DEF Send, world
  <2>3. io_reported' = io_reported + Sum(win_io)
    BY <1>14 DEF Send
  <2>4. Sum(win_io') = 0 /\ IoOwed' = IoOwed
    BY <2>1 DEF Sum, None, Sides, IoOwed
  <2> QED
    BY <1>0, <1>1, <1>2, <2>1, <2>3, <2>4 DEF BooksOfIo
<1>15. CASE IoReadFails
  BY <1>15 DEF IoReadFails
<1> QED
  BY <1>4, <1>5, <1>6, <1>7, <1>8, <1>9, <1>10, <1>11, <1>12, <1>13, <1>14, <1>15
     DEF Next, Thread, MonitorLoop

LEMMA IoStep == IInv /\ [Next]_vars => IoKept'
<1> SUFFICES ASSUME IInv, [Next]_vars PROVE IoKept'
  OBVIOUS
<1>1. tio <= pio /\ tio \in Nat /\ pio \in Nat
  BY DEF IInv, IoKept, TypesHold
<1>2. \/ tio' = tio /\ pio' = pio
      \/ tio' = tio + 1 /\ pio' = pio + 1
      \/ tio' = 0 /\ pio' = pio
  BY DEF Next, Thread, MonitorLoop, Happen, DoIo, Migrate, Place, AskCpu, OpenOwn,
         Return, PthreadExit, get_process_io_stats, Skip, get_thread_cpu, CpuFails,
         get_thread_io_stats, IoReadFails, IoFails, Reopen, Read, Resume, Send,
         world, vars
<1>3. torn => torn'
  BY DEF Next, Thread, MonitorLoop, Happen, DoIo, Migrate, Place, AskCpu, OpenOwn,
         Return, PthreadExit, get_process_io_stats, Skip, get_thread_cpu, CpuFails,
         get_thread_io_stats, IoReadFails, IoFails, Reopen, Read, Resume, Send,
         history, vars
<1>4. tio' <= pio'
  BY <1>1, <1>2
<1> QED
  BY <1>3, <1>4, BooksStep DEF IoKept

(* Only the window itself moves the counts of the process.                 *)
LEMMA ProcessStep == IInv /\ [Next]_vars => ProcessIoKept'
<1> SUFFICES ASSUME IInv, [Next]_vars PROVE ProcessIoKept'
  OBVIOUS
<1> USE BoundsAssumption
<1>0. ProcessIoKept
  BY DEF IInv
<1>1. /\ pio \in Nat /\ initial_io \in Nat /\ final_io \in Nat /\ io_sent \in Nat
      /\ final_io < SignBit
  BY DEF IInv, TypesHold
<1>2. ASSUME initial_io' = initial_io, final_io' = final_io, io_sent' = io_sent,
             pio' \in {pio, pio + 1}, pc # "sleep" \/ pc' = "sleep"
      PROVE  ProcessIoKept'
  BY <1>0, <1>1, <1>2 DEF ProcessIoKept
<1>3. CASE Thread
  <2>1. /\ UNCHANGED <<initial_io, final_io, io_sent, pc>>
        /\ pio' \in {pio, pio + 1}
    BY <1>3 DEF Thread, Happen, DoIo, Migrate, Place, AskCpu, OpenOwn, Return,
                PthreadExit, world, process, history
  <2> QED
    BY <1>2, <2>1
<1>4. CASE get_process_io_stats
  <2>1. /\ initial_io' = initial_io /\ io_sent' = io_sent /\ pio' = pio
        /\ final_io' \in {pio, final_io, 0} /\ (~ CallsFail => final_io' = pio)
    BY <1>4, FailAssumption DEF get_process_io_stats, world, history
  <2> QED
    BY <1>0, <1>1, <2>1 DEF ProcessIoKept
<1>5. CASE Skip \/ get_thread_cpu \/ CpuFails \/ get_thread_io_stats \/ IoReadFails
           \/ IoFails \/ Reopen \/ Read \/ Resume \/ UNCHANGED vars
  <2>1. /\ UNCHANGED <<initial_io, final_io, io_sent, pio>>
        /\ pc # "sleep" \/ pc' = "sleep"
    BY <1>5 DEF Skip, get_thread_cpu, CpuFails, get_thread_io_stats, IoReadFails, IoFails, Reopen,
                Read, Resume, vars, world, process, history
  <2> QED
    BY <1>2, <2>1
<1>6. CASE Send
  <2>1. /\ initial_io' = final_io /\ final_io' = final_io /\ pio' = pio /\ pc' = "sleep"
        /\ ~ CallsFail =>
             io_sent' = (io_sent + Minus(final_io, initial_io)) % Modulus
        /\ pc = "send"
    BY <1>6 DEF Send, world
  <2>2. ~ CallsFail => io_sent' = final_io - 1 /\ 1 <= final_io
    <3> SUFFICES ASSUME ~ CallsFail PROVE io_sent' = final_io - 1 /\ 1 <= final_io
      OBVIOUS
    <3>1. 1 <= initial_io /\ io_sent = initial_io - 1 /\ initial_io <= final_io
      BY <1>0, <2>1 DEF ProcessIoKept
    <3>2. Minus(final_io, initial_io) = final_io - initial_io
      BY <1>1, <3>1, MinusOfLarger
    <3>3. io_sent + Minus(final_io, initial_io) = final_io - 1
      BY <1>1, <3>1, <3>2
    <3>4. final_io - 1 \in 0 .. Modulus - 1
      BY <1>1, <3>1 DEF Modulus
    <3> QED
      <4>1. (final_io - 1) % Modulus = final_io - 1
        BY <3>4, ModSmall, ModulusIsNat
      <4>2. io_sent' = final_io - 1
        BY <2>1, <3>3, <4>1
      <4> QED
        BY <1>1, <3>1, <4>2
  <2> QED
    BY <1>0, <1>1, <2>1, <2>2 DEF ProcessIoKept
<1> QED
  BY <1>3, <1>4, <1>5, <1>6 DEF Next, MonitorLoop

-----------------------------------------------------------------------------
LEMMA InitHolds == Init => IInv
<1> SUFFICES ASSUME Init PROVE IInv
  OBVIOUS
<1> USE BoundsAssumption
<1>1. Zeroed \in ThreadData
  BY DEF Zeroed, ThreadData, Sides
<1>2. /\ td \in ThreadData
      /\ td.mon_initialized => td.pmu = td.last_pcore
      /\ td.prev = 0 /\ td.io_initialized = FALSE
  <2>1. CASE td = [Zeroed EXCEPT !.active = TRUE]
    BY <1>1, <2>1 DEF Zeroed, ThreadData
  <2>2. ASSUME NEW s \in Sides, NEW fd \in Opened(s),
               td = [Zeroed EXCEPT !.active = TRUE, !.mon_initialized = TRUE,
                                   !.last_pcore = s, !.pmu = s, !.fd = fd]
        PROVE  /\ td \in ThreadData
               /\ td.pmu = td.last_pcore
               /\ td.prev = 0 /\ td.io_initialized = FALSE
    <3>1. fd \in BOOLEAN
      BY DEF Opened
    <3> QED
      BY <1>1, <2>2, <3>1 DEF Zeroed, ThreadData
  <2> QED
    BY <2>1, <2>2 DEF Init
<1>3. /\ done = None /\ mark = None /\ cnt = 0 /\ win = None /\ win_io = None
      /\ reported = None /\ io_reported = 0 /\ io_sent = 0 /\ torn = FALSE /\ tio = 1 /\ pio = 1
      /\ final_io = 0 /\ pc = "sleep" /\ life = "running" /\ hint = NULL /\ now = NULL
      /\ value \in Values /\ core \in Sides
      /\ initial_io \in {0, 1} /\ (~ CallsFail => initial_io = 1)
  BY FailAssumption DEF Init
<1>4. on \in BOOLEAN
  <2>1. on = td.mon_initialized /\ td.mon_initialized \in BOOLEAN
    BY <1>2 DEF Init, ThreadData
  <2> QED
    BY <2>1, Zenon
<1>5. Sum(None) = 0 /\ \A s \in Sides : None[s] = 0
  BY DEF Sum, None, Sides
<1>6. Owed = 0 /\ IoOwed = 0
  BY <1>2, <1>3 DEF Owed, IoOwed
<1>7. TypesHold
  <2>1. /\ None \in [Sides -> 0 .. MaxEvents] /\ None \in [Sides -> Nat]
        /\ None \in [Sides -> -(2 * MaxEvents) .. 2 * MaxEvents]
        /\ None \in [Sides -> Int]
    BY DEF None
  <2>2. torn \in BOOLEAN
    BY <1>3, Zenon
  <2> QED
    BY <1>2, <1>3, <1>4, <2>1, <2>2 DEF TypesHold
<1>8. Ordered /\ ProcessIoKept
  BY <1>3 DEF Ordered, ProcessIoKept
<1>9. CounterSound
  BY <1>2, <1>3, <1>5 DEF CounterSound
<1>10. EventsKept
  BY <1>3, <1>5, <1>6 DEF EventsKept
<1>11. IoKept
  <2>1. td.io_initialized => td.prev_io <= tio
    BY <1>2, Zenon
  <2> QED
    BY <1>3, <1>5, <1>6, <2>1 DEF IoKept, BooksOfIo
<1> QED
  BY <1>7, <1>8, <1>9, <1>10, <1>11 DEF IInv

LEMMA IInvIsInvariant == Spec => []IInv
<1>1. IInv /\ [Next]_vars => IInv'
  BY TypesStep, OrderedStep, CounterStep, EventsStep, IoStep, ProcessStep DEF IInv
<1> QED
  BY <1>1, InitHolds, PTL DEF Spec

-----------------------------------------------------------------------------
(* All variables keep their types; the counter in the kernel never exceeds *)
(* what can happen on both core types.                                     *)
THEOREM WindowTypesCorrect == Spec => []TypeOK
<1>1. IInv => TypeOK
  <2> SUFFICES ASSUME IInv PROVE TypeOK
    OBVIOUS
  <2>1. TypesHold /\ CounterSound
    BY DEF IInv
  <2>2. done["P"] \in 0 .. MaxEvents /\ done["E"] \in 0 .. MaxEvents /\ cnt \in Nat
    BY <2>1 DEF TypesHold, Sides
  <2>3. cnt \in 0 .. 2 * MaxEvents
    BY <2>1, <2>2, BoundsAssumption DEF CounterSound, Sum
  <2> QED
    BY <2>1, <2>3 DEF TypesHold, TypeOK
<1> QED
  BY <1>1, IInvIsInvariant, PTL

(* The windows never report more than has happened (libmonitor.c:516-560), *)
(* whatever the thread does and whichever calls fail.                      *)
THEOREM NothingIsInvented == Spec => []NeverInvented
<1>1. IInv => NeverInvented
  BY Settled DEF NeverInvented
<1> QED
  BY <1>1, IInvIsInvariant, PTL

(* The I/O of the threads is reported at most once (libmonitor.c:482-509), *)
(* until a file that was opened gives nothing.                             *)
THEOREM ThreadIoIsCountedOnce == Spec => []IoCountedOnce
<1>1. IInv => IoCountedOnce
  <2> SUFFICES ASSUME IInv, ~ torn PROVE io_reported + Sum(win_io) <= pio
    BY DEF IoCountedOnce
  <2>1. /\ io_reported \in Nat /\ Sum(win_io) \in Nat /\ pio \in Nat
        /\ tio \in Nat /\ td.prev_io \in Nat
        /\ td.io_initialized => td.prev_io <= tio
        /\ io_reported + Sum(win_io) + IoOwed <= pio
    BY DEF IInv, IoKept, BooksOfIo, TypesHold, ThreadData, Sum, Sides
  <2>2. IoOwed \in Nat
    BY <2>1 DEF IoOwed
  <2> QED
    BY <2>1, <2>2
<1> QED
  BY <1>1, IInvIsInvariant, PTL

(* The unsigned io_delta never wraps around (libmonitor.c:575-583, 993).   *)
THEOREM ProcessIoIsCountedOnce == Spec => []ProcessIoCountedOnce
<1>1. IInv => ProcessIoCountedOnce
  BY DEF IInv, TypesHold, ProcessIoKept, ProcessIoCountedOnce
<1> QED
  BY <1>1, IInvIsInvariant, PTL

-----------------------------------------------------------------------------
(* If no call fails, the counter runs on from its baseline with what       *)
(* happens, except between a read and the ioctl that enables it again.     *)
CanCount  == Available(td.pmu)
SinceMark == HappenedSince(td.pmu)

Exact ==
  /\ td.mon_initialized => (td.fd <=> CanCount)
  /\ pc # "resume" /\ td.mon_initialized => on = TRUE
  /\ pc # "resume" /\ td.mon_initialized /\ td.fd => cnt - td.prev = SinceMark
  /\ pc = "resume" => on = FALSE /\ cnt = td.prev

LEMMA WhatIsAvailable ==
  ASSUME TypesHold, NEW s \in Sides
  PROVE  Available(s) <=> ~ (value = "UOPS_RETIRED" /\ s = "P")
<1>1. value \in {"INST_RETIRED", "CACHE_MISSES", "UOPS_RETIRED", "PAGE_FAULTS"}
  BY ValuesAssumption DEF TypesHold
<1>2. CASE s = "P"
  BY <1>1, <1>2 DEF Available, Source, Programmed
<1>3. CASE s = "E"
  BY <1>1, <1>3 DEF Available, Source, Programmed
<1> QED
  BY <1>2, <1>3 DEF Sides

LEMMA MarkTypes ==
  ASSUME TypesHold
  PROVE  \A s \in Sides : mark[s] \in Nat /\ done[s] \in Nat
BY DEF TypesHold

LEMMA ExactStep ==
  ASSUME ~ CallsFail, IInv, Exact, [Next]_vars
  PROVE  Exact'
<1> USE BoundsAssumption
<1>0. /\ TypesHold /\ td \in ThreadData /\ cnt \in Nat /\ td.prev \in Nat
      /\ td.pmu \in Sides /\ td.fd \in BOOLEAN
  BY DEF IInv, TypesHold, ThreadData
<1>1. value' = value
  BY DEF Next, Thread, MonitorLoop, Happen, DoIo, Migrate, Place, AskCpu, OpenOwn,
         Return, PthreadExit, get_process_io_stats, Skip, get_thread_cpu, CpuFails,
         get_thread_io_stats, IoReadFails, IoFails, Reopen, Read, Resume, Send,
         world, vars
<1>2. ASSUME td'.pmu = td.pmu
      PROVE  CanCount' <=> CanCount
  BY <1>1, <1>2 DEF CanCount, Available, Source
<1>3. ASSUME PerfKept, UNCHANGED <<cnt, on, mark, done>>,
             (pc # "resume" /\ pc' # "resume") \/ pc' = pc
      PROVE  Exact'
  <2>1. SinceMark' = SinceMark
    BY <1>1, <1>3 DEF SinceMark, HappenedSince, Sum, PerfKept
  <2>2. CanCount' <=> CanCount
    BY <1>2, <1>3 DEF PerfKept
  <2> QED
    BY <1>3, <2>1, <2>2 DEF Exact, PerfKept
<1>4. CASE DoIo \/ Migrate \/ AskCpu \/ get_process_io_stats \/ Skip \/ get_thread_cpu
           \/ Send \/ UNCHANGED vars
  <2>1. /\ td' = td /\ UNCHANGED <<cnt, on, mark, done>>
        /\ (pc # "resume" /\ pc' # "resume") \/ pc' = pc
    BY <1>4 DEF DoIo, Migrate, AskCpu, get_process_io_stats, Skip, get_thread_cpu,
                Send, vars, world, kernel
  <2> QED
    BY <1>0, <1>3, <2>1 DEF PerfKept
<1>5. CASE PthreadExit \/ get_thread_io_stats \/ IoReadFails \/ IoFails
  <2>1. tio \in Nat
    BY <1>0 DEF TypesHold
  <2>2. \/ td' = td
        \/ td' = [td EXCEPT !.active = FALSE, !.io_initialized = FALSE]
        \/ td' = [td EXCEPT !.prev_io = tio, !.io_initialized = TRUE]
        \/ td' = [td EXCEPT !.prev_io = 0, !.io_initialized = TRUE]
        \/ td' = [td EXCEPT !.io_initialized = FALSE]
    BY <1>5 DEF PthreadExit, get_thread_io_stats, IoReadFails, IoFails
  <2>3. PerfKept
    BY <1>0, <2>1, <2>2, SlotKept
  <2>4. UNCHANGED <<cnt, on, mark, done>> /\ pc # "resume" /\ pc' # "resume"
    BY <1>5 DEF PthreadExit, get_thread_io_stats, IoReadFails, IoFails, world, kernel, MutexFree
  <2> QED
    BY <1>3, <2>3, <2>4
<1>6. ASSUME td'.mon_initialized = FALSE, pc' # "resume"
      PROVE  Exact'
  BY <1>6, Zenon DEF Exact
<1>7. CASE Place
  <2>1. td'.mon_initialized = FALSE
    BY <1>7 DEF Place, Zeroed
  <2>2. pc' # "resume"
    BY <1>7 DEF Place, MutexFree
  <2> QED
    BY <1>6, <2>1, <2>2
<1>8. CASE CpuFails \/ (Return /\ td.active)
  <2>1. td'.mon_initialized = FALSE
    BY <1>0, <1>8, DropClosesSlot
  <2>2. pc' # "resume"
    BY <1>8 DEF CpuFails, Return, MutexFree
  <2> QED
    BY <1>6, <2>1, <2>2
<1>9. CASE Return /\ ~ td.active
  BY <1>0, <1>3, <1>9 DEF Return, MutexFree, kernel, world, PerfKept
<1>10. ASSUME mark' = done', done' \in [Sides -> 0 .. MaxEvents], td'.pmu \in Sides
       PROVE  SinceMark' = 0
  <2>1. done'["P"] \in Nat /\ done'["E"] \in Nat /\ done'[td'.pmu] \in Nat
    BY <1>10 DEF Sides
  <2>2. Sum(done') - Sum(done') = 0 /\ done'[td'.pmu] - done'[td'.pmu] = 0
    BY <2>1 DEF Sum
  <2> QED
    BY <1>10, <2>2 DEF SinceMark, HappenedSince
<1>11. ASSUME NEW s \in Sides, open_or_reopen_thread_perf(s), pc' # "resume"
       PROVE  Exact'
  <2>1. PICK fd \in Opened(s), counted \in {0, 1} :
          /\ cnt' = counted /\ on' = TRUE /\ mark' = done'
          /\ td' = [td EXCEPT !.mon_initialized = TRUE, !.last_pcore = s,
                              !.pmu = s, !.fd = fd, !.prev = counted]
    BY <1>11 DEF open_or_reopen_thread_perf
  <2>2. fd <=> Available(s)
    BY <2>1 DEF Opened
  <2>3. td'.pmu = s /\ td'.fd = fd /\ td'.prev = counted
    BY <1>0, <2>1 DEF ThreadData
  <2>4. SinceMark' = 0
    BY <1>0, <1>10, <1>11, <2>1, <2>3, OpenIsSound DEF OpenedSoundly
  <2>5. CanCount' <=> Available(s)
    BY <1>1, <2>3 DEF CanCount, Available, Source
  <2>6. cnt' - td'.prev = 0
    BY <2>1, <2>3
  <2>7. td'.fd <=> CanCount'
    BY <2>2, <2>3, <2>5
  <2> QED
    BY <1>11, <2>1, <2>4, <2>6, <2>7 DEF Exact
<1>12. CASE OpenOwn \/ Reopen
  BY <1>11, <1>12 DEF OpenOwn, Reopen, MutexFree, IInv, Ordered
<1>13. CASE Happen
  <2>1. /\ td' = td /\ pc' = pc /\ on' = on /\ mark' = mark
        /\ cnt' = IF td.fd /\ on /\ CountsOn(td.pmu, core) THEN cnt + 1 ELSE cnt
    BY <1>13 DEF Happen
  <2>2. /\ Sum(done') = Sum(done) + 1
        /\ \A s \in Sides : done'[s] = done[s] + (IF s = core THEN 1 ELSE 0)
    BY <1>0, <1>13, HappenIsCounted
  <2>3. SinceMark' = SinceMark + (IF CountsOn(td.pmu, core) THEN 1 ELSE 0)
    <3>1. /\ mark[td.pmu] \in Nat /\ done[td.pmu] \in Nat
          /\ Sum(done) \in Int /\ Sum(mark) \in Int /\ Sum(mark') = Sum(mark)
      BY <1>0, <2>1, MarkTypes DEF Sum, Sides
    <3>2. CASE value = "PAGE_FAULTS"
      BY <1>1, <2>2, <3>1, <3>2 DEF SinceMark, HappenedSince, CountsOn
    <3>3. CASE value # "PAGE_FAULTS"
      BY <1>0, <1>1, <2>1, <2>2, <3>1, <3>3 DEF SinceMark, HappenedSince, CountsOn
    <3> QED
      BY <3>2, <3>3
  <2>4. SinceMark \in Int
    BY <1>0, MarkTypes DEF SinceMark, HappenedSince, Sum, Sides
  <2>5. CanCount' <=> CanCount
    BY <1>2, <2>1
  <2>6. CASE pc = "resume"
    BY <1>0, <2>1, <2>5, <2>6 DEF Exact
  <2>7. CASE pc # "resume"
    <3>1. td.mon_initialized /\ td.fd
            => cnt' = cnt + (IF CountsOn(td.pmu, core) THEN 1 ELSE 0)
      BY <1>0, <2>1, <2>7 DEF Exact
    <3>2. td'.mon_initialized /\ td'.fd => cnt' - td'.prev = SinceMark'
      BY <1>0, <2>1, <2>3, <2>4, <2>7, <3>1 DEF Exact
    <3> QED
      BY <2>1, <2>5, <2>7, <3>2 DEF Exact
  <2> QED
    BY <2>6, <2>7
<1>14. CASE Read
  <2>1. PICK curr \in Nat : /\ ~ CallsFail => curr = cnt
                            /\ td' = [td EXCEPT !.prev = curr]
    BY <1>14, ReadIsSound
  <2>2. /\ td'.mon_initialized = td.mon_initialized
        /\ td'.pmu = td.pmu /\ td'.fd = td.fd /\ td'.prev = curr
    BY <1>0, <2>1, ReadSlot
  <2>3. cnt' = cnt /\ on' = FALSE /\ pc' = "resume"
    BY <1>14 DEF Read
  <2>4. CanCount' <=> CanCount
    BY <1>2, <2>2
  <2> QED
    BY <2>1, <2>2, <2>3, <2>4 DEF Exact
<1>15. CASE Resume
  <2>1. /\ td' = td /\ cnt' = cnt /\ on' = TRUE /\ mark' = done' /\ done' = done
        /\ pc' = "send" /\ pc = "resume"
    BY <1>15 DEF Resume, world
  <2>2. SinceMark' = 0
    BY <1>0, <1>10, <2>1 DEF TypesHold
  <2>3. cnt' - td'.prev = 0
    BY <1>0, <2>1 DEF Exact
  <2>4. CanCount' <=> CanCount
    BY <1>2, <2>1
  <2> QED
    BY <2>1, <2>2, <2>3, <2>4 DEF Exact
<1> QED
  BY <1>3, <1>4, <1>5, <1>7, <1>8, <1>9, <1>12, <1>13, <1>14, <1>15
     DEF Next, Thread, MonitorLoop

LEMMA ExactIsInvariant == Spec => [](~ CallsFail => Exact)
<1>1. Init => (~ CallsFail => Exact)
  <2> SUFFICES ASSUME Init, ~ CallsFail PROVE Exact
    OBVIOUS
  <2>1. /\ cnt = 0 /\ on = td.mon_initialized /\ pc = "sleep" /\ done = None /\ mark = None
    BY DEF Init
  <2>2. PICK s \in Sides : \E fd \in Opened(s) :
          td = [Zeroed EXCEPT !.active = TRUE, !.mon_initialized = TRUE,
                              !.last_pcore = s, !.pmu = s, !.fd = fd]
    BY DEF Init
  <2>3. PICK fd \in Opened(s) :
          td = [Zeroed EXCEPT !.active = TRUE, !.mon_initialized = TRUE,
                              !.last_pcore = s, !.pmu = s, !.fd = fd]
    BY <2>2
  <2>4. /\ td.fd = fd /\ td.prev = 0 /\ td.mon_initialized = TRUE /\ td.pmu = s
    BY <2>3 DEF Zeroed
  <2>5. td.fd <=> CanCount
    <3>1. fd <=> Available(s)
      BY DEF Opened
    <3> QED
      BY <2>4, <3>1 DEF CanCount
  <2>6. SinceMark = 0
    BY <2>1, <2>4 DEF SinceMark, HappenedSince, Sum, None, Sides
  <2>7. on = TRUE
    BY <2>1, <2>4
  <2> QED
    BY <2>1, <2>4, <2>5, <2>6, <2>7 DEF Exact
<1>2. IInv /\ (~ CallsFail => Exact) /\ [Next]_vars => (~ CallsFail => Exact)'
  BY ExactStep
<1> QED
  BY <1>1, <1>2, IInvIsInvariant, PTL DEF Spec

(* A window that is not skipped after a reopening is exact                 *)
(* (libmonitor.c:516-560), if no call fails.                               *)
THEOREM WindowsAreExact == Spec => WindowIsExact
<1>1. ASSUME IInv, Exact, [Next]_vars, ~ CallsFail, pc = "perf", pc' = "resume"
      PROVE  win'[now] - win[now] = IF value = "UOPS_RETIRED" /\ now = "P" THEN 0
                                    ELSE HappenedSince(now)
  <2>1. Read
    BY <1>1 DEF Next, Thread, MonitorLoop, Happen, DoIo, Migrate, Place, AskCpu,
                OpenOwn, Return, PthreadExit, get_process_io_stats, Skip,
                get_thread_cpu, CpuFails, get_thread_io_stats, IoReadFails, IoFails, Reopen,
                Resume, Send, vars
  <2>2. PICK curr \in Nat :
          /\ now \in Sides /\ td.pmu = now /\ td.mon_initialized
          /\ win = None
          /\ win' = [win EXCEPT ![now] = curr - td.prev]
          /\ ~ CallsFail => curr = cnt
    BY <1>1, <2>1, ReadIsSound
  <2>3. cnt \in Nat /\ td.prev \in Nat /\ TypesHold
    BY <1>1 DEF IInv, TypesHold, ThreadData
  <2>4. win'[now] - win[now] = cnt - td.prev
    BY <1>1, <2>2, <2>3 DEF None
  <2>5. Available(now) <=> ~ (value = "UOPS_RETIRED" /\ now = "P")
    BY <2>2, <2>3, WhatIsAvailable
  <2>6. CASE Available(now)
    <3>1. cnt - td.prev = SinceMark
      BY <1>1, <2>2, <2>6 DEF Exact, CanCount
    <3> QED
      BY <2>2, <2>4, <2>5, <2>6, <3>1 DEF SinceMark
  <2>7. CASE ~ Available(now)
    <3>1. ~ td.fd
      BY <1>1, <2>2, <2>7 DEF Exact, CanCount
    <3>2. cnt = 0 /\ td.prev = 0
      BY <1>1, <2>2, <2>3, <3>1 DEF IInv, CounterSound
    <3> QED
      BY <2>4, <2>5, <2>7, <3>2
  <2> QED
    BY <2>6, <2>7
<1>2. IInv /\ (~ CallsFail => Exact) /\ [Next]_vars =>
        [ ~ CallsFail /\ pc = "perf" /\ pc' = "resume"
            => win'[now] - win[now] = IF value = "UOPS_RETIRED" /\ now = "P" THEN 0
                                      ELSE HappenedSince(now) ]_vars
  BY <1>1
<1> QED
  BY <1>2, IInvIsInvariant, ExactIsInvariant, PTL DEF Spec, WindowIsExact
=============================================================================
