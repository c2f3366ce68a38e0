------------------------------ MODULE CoreSets ------------------------------
(***************************************************************************)
(* The strings that name sets of cores, "0-3,8", and what the daemon and   *)
(* the monitor make of them.  A string is the sequence of its tokens; a    *)
(* token is a core, a range, or a range that sscanf cannot read.           *)
(***************************************************************************)
EXTENDS Integers, FiniteSets, Sequences, SequencesExt, FiniteSetsExt

CONSTANT MAX_CORES

Core(c) == [kind |-> "core", lo |-> c, hi |-> c]
Span(a, b) == [kind |-> "range", lo |-> a, hi |-> b]
Unreadable == [kind |-> "unreadable", lo |-> 0, hi |-> -1]
Token == {t \in [kind : {"core", "range", "unreadable"}, lo : Int, hi : Int] :
            /\ t.kind = "core" => t.lo = t.hi
            /\ t.kind = "unreadable" => t.lo > t.hi}

Valid(c) == 0 <= c /\ c < MAX_CORES

(* The numbers from lo to hi, in order.                                    *)
Interval(lo, hi) ==
  IF lo > hi THEN <<>> ELSE [i \in 1..hi - lo + 1 |-> lo + i - 1]

-----------------------------------------------------------------------------
(* The daemon: cores that do not exist are ignored.                        *)

Existing(t) == Interval(Max({0, t.lo}), Min({MAX_CORES - 1, t.hi}))

Listed(s) == FlattenSeq([k \in DOMAIN s |-> Existing(s[k])])

parse_coreset(s) == SubSeq(Listed(s), 1, Min({Len(Listed(s)), MAX_CORES}))

count_cores(s) == Len(parse_coreset(s))

(* The mask set_affinity passes to the kernel, which refuses an empty one. *)
set_affinity(s) == ToSet(Listed(s))

(* The i-th smallest at i.                                                 *)
qsort(c) ==
  [i \in DOMAIN c |->
     Min({c[k] : k \in {k \in DOMAIN c : Cardinality({j \in DOMAIN c : c[j] <= c[k]}) >= i}})]

(* A maximal run of consecutive cores as one token; what is printed of the *)
(* first n cores ends with the run under way.                              *)
Lengthen(out, end) == [out EXCEPT ![Len(out)] = Span(@.lo, end)]

Runs(c) ==
  LET upto[n \in 0..Len(c)] ==
        IF n = 0 THEN <<>>
        ELSE IF n > 1 /\ c[n] = c[n - 1] + 1 THEN Lengthen(upto[n - 1], c[n])
        ELSE Append(upto[n - 1], Core(c[n]))
  IN  upto[Len(c)]

(* Mutant: the run under way at the end of the list is printed without its *)
(* last core.                                                              *)
RunsOpenEnd(c) ==
  IF c # <<>> /\ Len(c) > 1 /\ c[Len(c)] = c[Len(c) - 1] + 1
  THEN Runs(SubSeq(c, 1, Len(c) - 1)) ELSE Runs(c)

cores_to_string_open_end(cores) == RunsOpenEnd(qsort(cores))

cores_to_string(cores) == Runs(qsort(cores))

-----------------------------------------------------------------------------
(* The monitor: a token it does not like ends the process.                 *)

Refused(t) == \/ t.kind = "range" /\ (t.lo < 0 \/ t.hi >= MAX_CORES \/ t.lo > t.hi)
              \/ t.kind = "core" /\ ~Valid(t.lo)

Named(s) == FlattenSeq([k \in DOMAIN s |-> Interval(s[k].lo, s[k].hi)])

monitor_set_affinity(s) == [exits |-> s = <<>> \/ \E k \in DOMAIN s : Refused(s[k]),
                            cpuset |-> ToSet(Named(s))]

init_global_cpuset(s) ==
  LET r == monitor_set_affinity(s) IN [r EXCEPT !.exits = @ \/ r.cpuset = {}]

(* core_type: what sysfs says of a CPU; 0 when it has no such file.        *)
detect_pcore_sysfs(core_type, half, cpu) ==
  CASE core_type[cpu] = 1 -> TRUE
    [] core_type[cpu] = 2 -> FALSE
    [] OTHER -> cpu < half

build_p_e_sets_from_global_cpuset(cpuset, core_type, half) ==
  LET P == {c \in cpuset : detect_pcore_sysfs(core_type, half, c)}
  IN  [pset |-> P, eset |-> cpuset \ P]
=============================================================================
