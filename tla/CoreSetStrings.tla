--------------------------- MODULE CoreSetStrings ---------------------------
(***************************************************************************)
(* A string that names cores, read and printed again.                      *)
(***************************************************************************)
EXTENDS CoreSets, FiniteSets, Functions

CONSTANT Strings          \* the strings a command line can hold

VARIABLE coreset

Init == coreset \in Strings

Reprint == coreset' = cores_to_string(parse_coreset(coreset))

Next == Reprint

Spec == Init /\ [][Next]_coreset
-----------------------------------------------------------------------------
(* What a string means, without parsing it.                                *)
Meaning(s) == {c \in 0..MAX_CORES-1 : \E k \in DOMAIN s : c \in s[k].lo..s[k].hi}

(* Daemon and monitor never disagree on a string the monitor accepts, and  *)
(* the daemon's mask is always the cores meant that exist, however often   *)
(* and in whatever order they are named (scheduler.c:787-822,              *)
(* libmonitor.c:157-245).                                                  *)
MasksAreWhatIsMeant ==
  /\ set_affinity(coreset) = Meaning(coreset)
  /\ \A r \in {monitor_set_affinity(coreset), init_global_cpuset(coreset)} :
       ~r.exits => r.cpuset = Meaning(coreset)
  /\ ~init_global_cpuset(coreset).exits => Meaning(coreset) # {}

(* The list of parse_coreset is cut off at MAX_CORES entries: it still     *)
(* holds every core meant, unless a core that exists is named twice, and   *)
(* count_cores then counts it twice (scheduler.c:273-299, 402-407).        *)
ListIsComplete ==
  IsInjective(Listed(coreset)) =>
     /\ ToSet(parse_coreset(coreset)) = Meaning(coreset)
     /\ count_cores(coreset) = Cardinality(Meaning(coreset))

(* Where sysfs says nothing of core types, the P set and the E set a       *)
(* monitor forces its workload to are the daemon's P_CORESET and E_CORESET *)
(* as far as CORESET allows; where it does, a CPU is in exactly one of     *)
(* them all the same (libmonitor.c:130-154, 740-750, scheduler.c:185-186). *)
ClassesAgree ==
  LET r == init_global_cpuset(coreset)
      half == MAX_CORES \div 2
      P_CORESET == <<Span(0, half - 1)>>
      E_CORESET == <<Span(half, MAX_CORES - 1)>> IN
  ~r.exits => \A core_type \in [0..MAX_CORES - 1 -> 0..3] :
    LET split == build_p_e_sets_from_global_cpuset(r.cpuset, core_type, half)
        silent == \A c \in r.cpuset : core_type[c] \in {0, 3} IN
      /\ \A c \in Meaning(coreset) : (c \in split.pset) # (c \in split.eset)
      /\ silent => /\ split.pset = Meaning(coreset) \cap set_affinity(P_CORESET)
                   /\ split.eset = Meaning(coreset) \cap set_affinity(E_CORESET)

(* Printing a list and reading it back gives the same cores, in a string   *)
(* the monitor accepts too and that a second printing leaves alone         *)
(* (scheduler.c:305-332).                                                  *)
PrintedReadsBack ==
  LET printed == cores_to_string(parse_coreset(coreset)) IN
    /\ Meaning(printed) = ToSet(parse_coreset(coreset))
    /\ printed # <<>> => ~init_global_cpuset(printed).exits
    /\ cores_to_string(parse_coreset(printed)) = printed

(* Reading, counting, splitting and printing keep the meaning of a string, *)
(* in the daemon and in the monitor (scheduler.c:273-332, 787-822,         *)
(* libmonitor.c:130-245, 740-750).                                         *)
StringsKeepTheirMeaning ==
  MasksAreWhatIsMeant /\ ListIsComplete /\ ClassesAgree /\ PrintedReadsBack
=============================================================================
