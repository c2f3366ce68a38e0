----------------------------- MODULE QualityTest -----------------------------
(***************************************************************************)
(* The quality test of the scheduler, scheduler_quality_test1.c: each test *)
(* forks its workloads one after the other, a child logs its START before  *)
(* the exec, the parent waits for them in the order of their start and     *)
(* logs an END for those that exited, and calculate_starvation reads the   *)
(* log back.  Parent and children append to one file; time passes between  *)
(* any two steps.                                                          *)
(***************************************************************************)
EXTENDS Integers, FiniteSets, Sequences, FiniteSetsExt

CONSTANTS Counts,    \* processes per test: the sums of test_configs' rows
          MaxTime    \* bound on the clock

Most == Max({Counts[i] : i \in 1..Len(Counts)})

VARIABLES test, pc,  \* the test that runs, and where the parent is
          forked, waited,
          child,     \* 1..forked -> "fork", "stamp", "run", "exited", "killed"
          stamp,     \* the time a line will carry; 0 is the parent's
          log,       \* TIMING_LOG
          now,
          results    \* RESULT_FILE: the starvation column
vars == <<test, pc, forked, waited, child, stamp, log, now, results>>

num_processes == Counts[test]
None == [i \in 1..Most |-> "none"]

Init == /\ test = 1 /\ pc = "fork"
        /\ forked = 0 /\ waited = 0
        /\ child = None
        /\ stamp = [i \in 0..Most |-> 0]
        /\ log = <<>>
        /\ now = 1
        /\ results = <<>>

(* get_time_ms and log_message are two steps: a line can be overtaken.     *)
get_time_ms(i) == stamp' = [stamp EXCEPT ![i] = now]
log_message(event, i, time) ==
  log' = Append(log, [event |-> event, index |-> i, time |-> time])

-----------------------------------------------------------------------------
(* calculate_starvation: the times are sorted apart from each other, and a *)
(* START goes to the place of the next END, so that of several in a row    *)
(* the last one stays; what was never written is 0.                        *)

(* Mutant: the times are taken in the order of the log.                    *)
Unsorted(f, n) == [i \in 0..n - 1 |-> f[i]]

Sorted(f, n) ==   \* the i-th smallest of f[0..n-1], from 0
  [i \in 0..n - 1 |->
     Min({f[k] : k \in {k \in 0..n - 1 : Cardinality({j \in 0..n - 1 : f[j] <= f[k]}) > i}})]

Read(s, line, n) ==
  IF s.count >= n THEN s
  ELSE IF line.event = "START" THEN [s EXCEPT !.starts[s.count] = line.time]
  ELSE [s EXCEPT !.ends[s.count] = line.time, !.count = @ + 1]

Scan(lines, n) ==
  LET zeros == [i \in 0..n |-> 0]
      upto[k \in 0..Len(lines)] ==
        IF k = 0 THEN [starts |-> zeros, ends |-> zeros, count |-> 0]
        ELSE Read(upto[k - 1], lines[k], n)
  IN  upto[Len(lines)]

Gaps(starts, ends, count) ==
  {starts[i + 1] - ends[i] : i \in 0..count - 2} \cap Nat

calculate_starvation(lines, n) ==
  LET s == Scan(lines, n) IN
  Max({0} \cup Gaps(Sorted(s.starts, s.count), Sorted(s.ends, s.count), s.count))

-----------------------------------------------------------------------------
(* The parent.  A fork that fails ends the program.                        *)
Fork == /\ pc = "fork" /\ forked < num_processes
        /\ \/ /\ forked' = forked + 1
              /\ child' = [child EXCEPT ![forked + 1] = "fork"]
              /\ pc' = IF forked' = num_processes THEN "wait" ELSE "fork"
           \/ pc' = "failed" /\ UNCHANGED <<forked, child>>
        /\ UNCHANGED <<test, waited, stamp, log, now, results>>

(* WIFEXITED: a workload that a signal ended has no END.                   *)
Waited == /\ waited' = waited + 1
          /\ pc' = IF waited' = num_processes THEN "result" ELSE "wait"

Wait == /\ pc = "wait"
        /\ \/ /\ child[waited + 1] = "exited"
              /\ get_time_ms(0) /\ pc' = "end" /\ UNCHANGED waited
           \/ child[waited + 1] = "killed" /\ Waited /\ UNCHANGED stamp
        /\ UNCHANGED <<test, forked, child, log, now, results>>

LogEnd == /\ pc = "end"
          /\ log_message("END", waited + 1, stamp[0])
          /\ Waited
          /\ UNCHANGED <<test, forked, child, stamp, now, results>>

Result == /\ pc = "result"
          /\ results' = Append(results, calculate_starvation(log, num_processes))
          /\ IF test = Len(Counts)
             THEN pc' = "done" /\ UNCHANGED <<test, forked, waited, child, log>>
             ELSE /\ test' = test + 1 /\ pc' = "fork"
                  /\ forked' = 0 /\ waited' = 0
                  /\ child' = None
                  /\ log' = <<>>      \* remove(TIMING_LOG)
          /\ UNCHANGED <<stamp, now>>

(* A child: setenv, the START, the exec of the command, its end.           *)
Stamp(i) == /\ child[i] = "fork"
            /\ get_time_ms(i)
            /\ child' = [child EXCEPT ![i] = "stamp"]
            /\ UNCHANGED <<test, pc, forked, waited, log, now, results>>

LogStart(i) == /\ child[i] = "stamp"
               /\ log_message("START", i, stamp[i])
               /\ child' = [child EXCEPT ![i] = "run"]
               /\ UNCHANGED <<test, pc, forked, waited, stamp, now, results>>

Finish(i) == /\ child[i] = "run"
             /\ child' = [child EXCEPT ![i] = "exited"]
             /\ UNCHANGED <<test, pc, forked, waited, stamp, log, now, results>>

Killed(i) == /\ child[i] \in {"fork", "stamp", "run"}
             /\ child' = [child EXCEPT ![i] = "killed"]
             /\ UNCHANGED <<test, pc, forked, waited, stamp, log, now, results>>

Tick == /\ now < MaxTime
        /\ now' = now + 1
        /\ UNCHANGED <<test, pc, forked, waited, child, stamp, log, results>>

Next == \/ Fork \/ Wait \/ LogEnd \/ Result \/ Tick
        \/ \E i \in 1..Most : Stamp(i) \/ LogStart(i) \/ Finish(i) \/ Killed(i)

Spec == Init /\ [][Next]_vars
-----------------------------------------------------------------------------
TypeOK == /\ test \in 1..Len(Counts) /\ now \in 1..MaxTime
          /\ pc \in {"fork", "wait", "end", "result", "done", "failed"}
          /\ forked \in 0..Most /\ waited \in 0..forked
          /\ child \in [1..Most -> {"none", "fork", "stamp", "run", "exited", "killed"}]
          /\ Len(log) <= 2 * Most /\ Len(results) <= Len(Counts)

Starts == {log[i] : i \in {i \in 1..Len(log) : log[i].event = "START"}}
Ends == {log[i] : i \in {i \in 1..Len(log) : log[i].event = "END"}}
Report == calculate_starvation(log, num_processes)

(* A test ends when each of its workloads has; the log it is computed from *)
(* has no line of another test, one START of each that got as far as the   *)
(* exec, and an END after it exactly if it was not killed, however the     *)
(* lines overtake each other (scheduler_quality_test1.c:269-276).          *)
LogIsOfThisTest ==
  pc = "result" =>
    /\ \A line \in Starts \cup Ends : line.index \in 1..num_processes
    /\ \A i \in 1..num_processes :
         /\ child[i] \in {"exited", "killed"}
         /\ child[i] = "exited" => \E s \in Starts, e \in Ends :
                                     s.index = i /\ e.index = i /\ s.time <= e.time
         /\ child[i] = "killed" => \A e \in Ends : e.index # i

(* The starvation that is reported is real, in a test without killed       *)
(* workloads: between some END and some START that far apart nobody ran,   *)
(* although the times are sorted apart from their processes                *)
(* (scheduler_quality_test1.c:106-131).                                    *)
StarvationIsReal ==
  pc = "result" /\ (\A i \in 1..num_processes : child[i] = "exited") /\ Report > 0 =>
    \E e \in Ends, s \in Starts :
       /\ s.time - e.time >= Report
       /\ \A p \in Starts, q \in Ends :
            p.index = q.index => p.time >= s.time \/ q.time <= e.time

(* A test in which every workload started before the first END, as it is   *)
(* when they last longer than the forks, reports none                      *)
(* (scheduler_quality_test1.c:83-97, 125-131).                             *)
NoneWithoutLateStart ==
  pc = "result" /\ (\A s \in Starts, e \in Ends : s.time <= e.time) => Report = 0

(* The starvation a test reports is its own and neither invented nor the   *)
(* effect of lines that overtook each other                                *)
(* (scheduler_quality_test1.c:70-137).                                     *)
ReportIsTrue == LogIsOfThisTest /\ StarvationIsReal /\ NoneWithoutLateStart
=============================================================================
