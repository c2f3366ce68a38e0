-------------------------- MODULE PlacementRounds --------------------------
(***************************************************************************)
(* One process seen by the placement decision, round after round: every    *)
(* scheduling pass presents the features of its latest window, and the     *)
(* queue entry carries last_on_p / has_last_on_p from one to the next.     *)
(***************************************************************************)
EXTENDS Placement

CONSTANTS model_P,        \* g_model_P, g_model_E: the trained weights
          model_E,
          Features        \* the feature vectors the windows can yield

ASSUME ModelsAssumption == model_P \in LinearModel5 /\ model_E \in LinearModel5
ASSUME FeaturesAssumption == Features \subseteq Feature

None == "none"            \* nothing decided yet

VARIABLES last_on_p, has_last_on_p,   \* the hysteresis flags of the entry
          chosen,                     \* the coreset of the last decision
          score                       \* the predictions it was based on

vars == <<last_on_p, has_last_on_p, chosen, score>>

ScoreOf(x) == [finite |-> TRUE, yP |-> predict5(model_P, x),
                                yE |-> predict5(model_E, x)]

Unusable == [finite |-> FALSE, yP |-> 0, yE |-> 0]

Init == /\ last_on_p = TRUE
        /\ has_last_on_p = FALSE
        /\ chosen = None
        /\ score = Unusable

Decide(s) ==
  LET d == choose_placement_coreset_model(last_on_p, has_last_on_p, s)
  IN  /\ score' = s
      /\ chosen' = d.chosen
      /\ last_on_p' = d.last_on_p
      /\ has_last_on_p' = d.has_last_on_p

DecideOnWindow == \E x \in Features : Decide(ScoreOf(x))
DecideNonFinite == Decide(Unusable)

Next == DecideOnWindow \/ DecideNonFinite

Spec == Init /\ [][Next]_vars
-----------------------------------------------------------------------------
TypeOK == /\ last_on_p \in BOOLEAN
          /\ has_last_on_p \in BOOLEAN
          /\ chosen \in Coresets \cup {None}
          /\ score \in Score

(* The placement in force is never predicted to be more than 15 % slower   *)
(* than the other one, whatever the previous placements were               *)
(* (scheduler.c:1173-1184).                                                *)
NeverFarBehind ==
  /\ chosen = P_CORESET => 100 * score.yE <= 115 * score.yP
  /\ chosen = E_CORESET => 100 * score.yP <= 115 * score.yE

(* A second look at the same window never moves the process again: no pair *)
(* of predictions makes the decision oscillate between the two classes.    *)
NoFlapping ==
  \A x \in Features :
    LET d1 == choose_placement_coreset_model(last_on_p, has_last_on_p, ScoreOf(x))
        d2 == choose_placement_coreset_model(d1.last_on_p, d1.has_last_on_p,
                                             ScoreOf(x))
    IN  d2 = d1

(* A process that has a placement changes class only towards a prediction  *)
(* that is strictly better, and by the 15 % margin; a window with          *)
(* non-finite features never loses the remembered side.                    *)
Switches == has_last_on_p /\ last_on_p' # last_on_p
SwitchNeedsMargin ==
  [][ /\ has_last_on_p => has_last_on_p'
      /\ Switches =>
           /\ score'.finite
           /\ IF last_on_p' THEN /\ score'.yP > score'.yE
                                 /\ 100 * score'.yP > 115 * score'.yE
                            ELSE /\ score'.yE > score'.yP
                                 /\ 100 * score'.yE > 115 * score'.yP ]_vars
=============================================================================
