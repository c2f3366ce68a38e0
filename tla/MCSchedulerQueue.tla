-------------------------- MODULE MCSchedulerQueue --------------------------
(***************************************************************************)
(* SchedulerQueue on small instances.  The scores are one the P side wins  *)
(* by the margin, one the E side wins by the margin, a pair within the     *)
(* hysteresis band, and a message whose features are not finite numbers.   *)
(***************************************************************************)
EXTENDS SchedulerQueue, TLC

ScoreOf(f, p, e) == [finite |-> f, yP |-> p, yE |-> e]

mc_Scores == {ScoreOf(TRUE, 30, 20), ScoreOf(TRUE, 20, 30),
              ScoreOf(TRUE, 20, 21), ScoreOf(FALSE, 0, 0)}

(* The runs that are not about the placement need no more than one; the    *)
(* last leaves the flags and the mask alone, which keeps the state small.  *)
mc_OneScore == {ScoreOf(TRUE, 30, 20)}
mc_NoScore  == {ScoreOf(FALSE, 0, 0)}

Symmetry == Permutations(Pids) \cup Permutations(Blocks)
=============================================================================
