----------------------------- MODULE Placement -----------------------------
(***************************************************************************)
(* The P-core / E-core decision of scheduler.c: two linear models predict  *)
(* the instruction rate of a process on each core class (predict5), and a  *)
(* hysteresis of 15 % keeps a process where it is until the other class is *)
(* clearly better (choose_placement_coreset_model).  Pure operators only:  *)
(* PlacementRounds iterates them, SchedulerQueue calls them from its pass. *)
(*                                                                         *)
(* Doubles are scaled to integers; the factor 1.0 + HYST is the fraction   *)
(* 115/100.  "finite" stands for the isfinite tests on the features.       *)
(***************************************************************************)
EXTENDS Integers

HYST == 15                                  \* in percent

P_CORESET   == "P"                          \* "0-7"
E_CORESET   == "E"                          \* "8-15"
ALL_CORESET == "ALL"                        \* "0-15"
Coresets == {P_CORESET, E_CORESET, ALL_CORESET}

LinearModel5 == [intercept : Int, w_cycles_per_ms : Int, w_ipc : Int,
                 w_cmr : Int, w_mspm : Int, w_mspi : Int]

Feature == [cycles_per_ms : Int, ipc : Int, cmr : Int, mspm : Int, mspi : Int]

(* What the hysteresis decides on: the two predictions, or the news that a *)
(* feature is not a finite number.                                         *)
Score == [finite : BOOLEAN, yP : Nat, yE : Nat]

\* Mutant: the clamp forgotten.
clamp_missing(v) == v

clamp_nonneg(v) == IF v < 0 THEN 0 ELSE v

predict5(m, x) ==
  clamp_nonneg(m.intercept + m.w_cycles_per_ms * x.cycles_per_ms
               + m.w_ipc * x.ipc + m.w_cmr * x.cmr
               + m.w_mspm * x.mspm + m.w_mspi * x.mspi)

\* Mutants: the margin dropped, taken twice, and with the wrong sign.
Better(a, b) == a > b
TwiceTheMargin(a, b) == 100 * a > (100 + 2 * HYST) * b
MarginGivenAway(a, b) == 100 * a > (100 - HYST) * b

(* a > (1.0 + HYST) * b *)
ClearlyBetter(a, b) == 100 * a > (100 + HYST) * b

(* The side the process counts as being on when the decision is taken: the *)
(* remembered one, or for a first decision the one predicted faster.       *)
SideBefore(last_on_p, has_last_on_p, s) ==
  IF has_last_on_p THEN last_on_p ELSE s.yP >= s.yE

(* It leaves that side only for one that is clearly better.                *)
OnPAfter(last_on_p, has_last_on_p, s) ==
  IF SideBefore(last_on_p, has_last_on_p, s) THEN ~ ClearlyBetter(s.yE, s.yP)
                                             ELSE ClearlyBetter(s.yP, s.yE)

(* The coreset returned, with the two hysteresis flags as they are left.   *)
choose_placement_coreset_model(last_on_p, has_last_on_p, s) ==
  IF s.finite
  THEN LET on_p == OnPAfter(last_on_p, has_last_on_p, s)
       IN  [chosen        |-> IF on_p THEN P_CORESET ELSE E_CORESET,
            last_on_p     |-> on_p,
            has_last_on_p |-> TRUE]
  ELSE [chosen        |-> ALL_CORESET,
        last_on_p     |-> last_on_p,
        has_last_on_p |-> has_last_on_p]
=============================================================================
