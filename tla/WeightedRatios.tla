-------------------------- MODULE WeightedRatios ---------------------------
(***************************************************************************)
(* The ratios a scheduling pass decides on.  A queue entry collects the    *)
(* samples its monitor sends (add_to_queue); a pass replaces the newest    *)
(* one by a weighted mean of it, of the samples since the last pass and of *)
(* the previous mean (compute_weighted_ratios), and forgets the samples    *)
(* (process_queue).  One ratio stands for the ten, which are computed      *)
(* alike.  Values are exact rationals: rounding is left out, and so are    *)
(* the tests for NaN and infinity, since calculate_ratios of the monitor   *)
(* guards every division.                                                  *)
(***************************************************************************)
EXTENDS Integers, Sequences, FiniteSetsExt

CONSTANTS Samples,      \* the values a monitor can send
          WIDTH,        \* bits of int, the type of 1 << (i + 1)
          MaxSamples,   \* bound: samples of one process between two passes
          MaxReceived   \* bound: samples of one process while it is known

VARIABLES known,            \* the process has an entry
          current_data, history, last_used, has_last_used,
          cleared,          \* a pass has zeroed the ratios of a reused PID
          received          \* samples since the entry was added

vars == <<known, current_data, history, last_used, has_last_used, cleared,
          received>>

Gcd(a, b) ==
  LET gcd[d \in 0..b] == [c \in Nat |-> IF d = 0 THEN c ELSE gcd[c % d][d]]
  IN  gcd[b][a]

Abs(i) == IF i < 0 THEN -i ELSE i

Ratio(n, d) ==               \* d # 0; the sign goes to the numerator
  LET g == Gcd(Abs(n), Abs(d))
      s == IF d < 0 THEN -1 ELSE 1
  IN  [n |-> s * (n \div g), d |-> s * (d \div g)]

Whole(x) == [n |-> x, d |-> 1]
Zero == Whole(0)
Plus(a, b) == Ratio(a.n * b.d + b.n * a.d, a.d * b.d)
Leq(a, b) == a.n * b.d <= b.n * a.d
Same(a, b) == Leq(a, b) /\ Leq(b, a)

-----------------------------------------------------------------------------
(* 1.0 / (1 << k), in units of 1 / 2^(WIDTH-1).  The shift is one of int:  *)
(* bit WIDTH-1 is the sign, and the build's processor takes k modulo the   *)
(* width.                                                                  *)
Power[k \in 0..WIDTH - 1] == IF k = 0 THEN 1 ELSE 2 * Power[k - 1]
Weight(k) == IF k % WIDTH = WIDTH - 1 THEN -1 ELSE Power[WIDTH - 1 - (k % WIDTH)]

(* Mutant: the weights are given to the terms from the last one on.        *)
WeightsReversed(n) == [i \in 1..n |-> Weight(n - i)]
Weights(n) == [i \in 1..n |-> Weight(i - 1)]

(* compute_weighted_ratios: the newest sample counts 1, the samples since  *)
(* the last pass 1/2, 1/4, ... from the oldest on, the last mean least.    *)
Terms(data, hist, last, hasLast) ==
  <<data>> \o hist \o (IF hasLast THEN <<last>> ELSE <<>>)

WeightedMean(data, hist, last, hasLast) ==
  LET terms == Terms(data, hist, last, hasLast)
      w == Weights(Len(terms))
      sum[k \in 0..Len(terms)] ==
        IF k = 0 THEN Zero ELSE Plus(sum[k - 1], Ratio(w[k] * terms[k].n, terms[k].d))
      denominator[k \in 0..Len(terms)] == IF k = 0 THEN 0 ELSE denominator[k - 1] + w[k]
      s == sum[Len(terms)]
  IN  Ratio(s.n, s.d * denominator[Len(terms)])

Forget == /\ known' = FALSE
          /\ current_data' = Zero
          /\ history' = <<>>
          /\ last_used' = Zero
          /\ has_last_used' = FALSE
          /\ cleared' = FALSE
          /\ received' = 0

Init == /\ known = FALSE
        /\ current_data = Zero
        /\ history = <<>>
        /\ last_used = Zero
        /\ has_last_used = FALSE
        /\ cleared = FALSE
        /\ received = 0

(* add_to_queue, for a new entry and for a known one.                      *)
Sample(x) ==
  /\ Len(history) < MaxSamples
  /\ received < MaxReceived
  /\ known' = TRUE
  /\ history' = Append(history, Whole(x))
  /\ current_data' = Whole(x)
  /\ received' = received + 1
  /\ UNCHANGED <<last_used, has_last_used, cleared>>

(* The passes of process_queue that leave the entry in place.  The process *)
(* is probed before the sums and after them: an answer "dead" with an      *)
(* answer "alive" after it is a PID that was given to another process.     *)
Use(data) ==
  /\ known
  /\ current_data' = data
  /\ last_used' = data
  /\ has_last_used' = TRUE
  /\ history' = <<>>
  /\ UNCHANGED <<known, received>>

PassWeighted ==
  /\ UNCHANGED cleared
  /\ Use(IF history # <<>> \/ has_last_used
           THEN WeightedMean(current_data, history, last_used, has_last_used)
           ELSE current_data)

PassSkipped == Use(current_data) /\ UNCHANGED cleared  \* the first probe: dead
PassCleared == Use(Zero) /\ cleared' = TRUE            \* only the second one

PassDead == known /\ Forget                    \* the entry is removed

Next == \/ \E x \in Samples : Sample(x)
        \/ PassWeighted
        \/ PassSkipped
        \/ PassCleared
        \/ PassDead

Spec == Init /\ [][Next]_vars
-----------------------------------------------------------------------------
Rational == [n : Int, d : Nat \ {0}]

TypeOK == /\ known \in BOOLEAN /\ has_last_used \in BOOLEAN
          /\ current_data \in Rational /\ last_used \in Rational
          /\ history \in Seq([n : Samples, d : {1}])
          /\ cleared \in BOOLEAN
          /\ received \in 0..MaxReceived

(* No mean leaves the range of the samples a process has sent, over any    *)
(* number of passes: weights that overflow the shift, or a denominator     *)
(* that misses one of them, would push it out.  A PID that was taken over  *)
(* during a pass counts as a sample of zero                                *)
(* (scheduler.c:1032-1042, 1092-1094).                                     *)
MeanWithinSamples ==
  [][known' => LET low == IF cleared' THEN 0 ELSE Min(Samples)
               IN  /\ Leq(Whole(low), current_data')
                   /\ Leq(current_data', Whole(Max(Samples)))]_vars

(* A pass leans on the newest sample: the mean is never farther from it    *)
(* than half way to some older one, or to the last mean                    *)
(* (scheduler.c:1032-1042).                                                *)
Twice(a) == Plus(a, a)

PassLeansOnNewest ==
  [][ PassWeighted =>
        \E a, b \in {history[i] : i \in 1..Len(history)}
                     \cup {current_data, IF has_last_used THEN last_used ELSE current_data} :
          /\ Leq(Plus(current_data, a), Twice(current_data'))
          /\ Leq(Twice(current_data'), Plus(current_data, b)) ]_vars

(* A pass without new samples changes no ratio: a process that is blocked  *)
(* keeps the features of its last window however many passes go by         *)
(* (scheduler.c:1264-1269, 1317-1321).                                     *)
IdlePassKeepsRatios ==
  [][PassWeighted /\ history = <<>> => Same(current_data', current_data)]_vars

(* The past of a process fades: when every sample since the last pass is   *)
(* the same, the last mean is left with at most a seventh of its distance  *)
(* (scheduler.c:1032-1042).                                                *)
Distance(a, b) == LET d == Plus(a, [b EXCEPT !.n = -@]) IN [d EXCEPT !.n = Abs(@)]

PastFades ==
  [][ PassWeighted /\ has_last_used /\ history # <<>>
        /\ (\A i \in 1..Len(history) : history[i] = current_data)
        => LET left == Distance(current_data', current_data)
           IN  Leq([left EXCEPT !.n = 7 * @], Distance(last_used, current_data)) ]_vars

(* The ratios a pass decides on follow the samples: within their range,    *)
(* nearest to the newest, unmoved without new ones, and forgetting the old *)
(* (scheduler.c:1025-1095, 1264-1269, 1317-1321).                          *)
RatiosFollowTheSamples ==
  MeanWithinSamples /\ PassLeansOnNewest /\ IdlePassKeepsRatios /\ PastFades
=============================================================================
