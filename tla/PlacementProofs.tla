-------------------------- MODULE PlacementProofs --------------------------
(***************************************************************************)
(* What the hysteresis promises, for every pair of linear models and every *)
(* set of windows.  All of it rests on the clamp in predict5: predictions  *)
(* are natural numbers, so a margin of 15 % is a margin upwards.           *)
(***************************************************************************)
EXTENDS PlacementRounds, TLAPS

(* clamp_nonneg makes every prediction a score the hysteresis can compare. *)
LEMMA PredictionIsNat ==
  ASSUME NEW m \in LinearModel5, NEW x \in Feature
  PROVE  predict5(m, x) \in Nat
<1> DEFINE y == m.intercept + m.w_cycles_per_ms * x.cycles_per_ms
                + m.w_ipc * x.ipc + m.w_cmr * x.cmr
                + m.w_mspm * x.mspm + m.w_mspi * x.mspi
<1>1. y \in Int
  BY DEF LinearModel5, Feature
<1>2. predict5(m, x) = clamp_nonneg(y)
  BY DEF predict5
<1> HIDE DEF y
<1> QED
  BY <1>1, <1>2 DEF clamp_nonneg

LEMMA ScoresAreScores ==
  \A x \in Features : ScoreOf(x) \in Score
BY PredictionIsNat, ModelsAssumption, FeaturesAssumption DEF ScoreOf, Score

(* What the side taken promises, on a score and in a state of the flags.   *)
SideIsSound(onP, has, s) ==
  /\ OnPAfter(onP, has, s) \in BOOLEAN
  /\ OnPAfter(onP, has, s) => 100 * s.yE <= 115 * s.yP
  /\ ~ OnPAfter(onP, has, s) => 100 * s.yP <= 115 * s.yE
  /\ has /\ OnPAfter(onP, has, s) /\ ~ onP =>
       s.yP > s.yE /\ 100 * s.yP > 115 * s.yE
  /\ has /\ ~ OnPAfter(onP, has, s) /\ onP =>
       s.yE > s.yP /\ 100 * s.yE > 115 * s.yP
  /\ OnPAfter(OnPAfter(onP, has, s), TRUE, s) = OnPAfter(onP, has, s)

LEMMA SideFacts ==
  ASSUME NEW onP \in BOOLEAN, NEW has \in BOOLEAN, NEW s \in Score
  PROVE  SideIsSound(onP, has, s)
<1> DEFINE n == OnPAfter(onP, has, s)
           EWins == 100 * s.yE > 115 * s.yP
           PWins == 100 * s.yP > 115 * s.yE
<1>1. s.yP \in Nat /\ s.yE \in Nat
  BY DEF Score
<1>2. /\ ClearlyBetter(s.yE, s.yP) = EWins
      /\ ClearlyBetter(s.yP, s.yE) = PWins
  BY <1>1 DEF ClearlyBetter, HYST
<1>3. /\ EWins => s.yE > s.yP /\ 100 * s.yP <= 115 * s.yE
      /\ PWins => s.yP > s.yE /\ 100 * s.yE <= 115 * s.yP
      /\ ~ EWins => 100 * s.yE <= 115 * s.yP
      /\ ~ PWins => 100 * s.yP <= 115 * s.yE
      /\ ~ (EWins /\ PWins)
      /\ EWins \in BOOLEAN /\ PWins \in BOOLEAN
  BY <1>1
<1> HIDE DEF EWins, PWins
<1>4. n = IF SideBefore(onP, has, s) THEN ~ EWins ELSE PWins
  BY <1>2 DEF OnPAfter
<1>5. OnPAfter(n, TRUE, s) = IF n THEN ~ EWins ELSE PWins
  BY <1>2 DEF OnPAfter, SideBefore
<1>6. has => SideBefore(onP, has, s) = onP
  BY DEF SideBefore
<1> HIDE DEF n
<1>7. /\ n \in BOOLEAN
      /\ n => 100 * s.yE <= 115 * s.yP
      /\ ~ n => 100 * s.yP <= 115 * s.yE
      /\ has /\ n /\ ~ onP => PWins
      /\ has /\ ~ n /\ onP => EWins
      /\ OnPAfter(n, TRUE, s) = n
  <2>1. CASE SideBefore(onP, has, s)
    <3>1. n = ~ EWins
      BY <1>4, <2>1
    <3>2. CASE EWins
      <4>1. n = FALSE
        BY <3>1, <3>2
      <4> QED
        BY <4>1, <3>2, <1>3, <1>5
    <3>3. CASE ~ EWins
      <4>1. n = TRUE
        BY <3>1, <3>3
      <4>2. has => onP
        BY <1>6, <2>1
      <4> QED
        BY <4>1, <4>2, <3>3, <1>3, <1>5
    <3> QED
      BY <3>2, <3>3
  <2>2. CASE ~ SideBefore(onP, has, s)
    <3>1. n = PWins
      BY <1>4, <2>2
    <3>2. CASE PWins
      <4>1. n = TRUE
        BY <3>1, <3>2, <1>3
      <4> QED
        BY <4>1, <3>2, <1>3, <1>5
    <3>3. CASE ~ PWins
      <4>1. n = FALSE
        BY <3>1, <3>3, <1>3
      <4>2. has => ~ onP
        BY <1>6, <2>2
      <4> QED
        BY <4>1, <4>2, <3>3, <1>3, <1>5
    <3> QED
      BY <3>2, <3>3
  <2> QED
    BY <2>1, <2>2
<1> QED
  BY <1>3, <1>7 DEF n, EWins, PWins, SideIsSound

(* The decision proper.                                                    *)
LEMMA DecisionFacts ==
  ASSUME NEW onP \in BOOLEAN, NEW has \in BOOLEAN, NEW s \in Score
  PROVE  LET d == choose_placement_coreset_model(onP, has, s)
         IN  /\ d.chosen \in Coresets
             /\ d.last_on_p \in BOOLEAN /\ d.has_last_on_p \in BOOLEAN
             /\ d.chosen = P_CORESET => 100 * s.yE <= 115 * s.yP
             /\ d.chosen = E_CORESET => 100 * s.yP <= 115 * s.yE
             /\ has => d.has_last_on_p
             /\ has /\ d.last_on_p # onP =>
                  /\ s.finite
                  /\ d.last_on_p => s.yP > s.yE /\ 100 * s.yP > 115 * s.yE
                  /\ ~ d.last_on_p => s.yE > s.yP /\ 100 * s.yE > 115 * s.yP
<1> DEFINE n == OnPAfter(onP, has, s)
<1>1. s.finite \in BOOLEAN
  BY DEF Score
<1>2. /\ n \in BOOLEAN
      /\ n => 100 * s.yE <= 115 * s.yP
      /\ ~ n => 100 * s.yP <= 115 * s.yE
      /\ has /\ n /\ ~ onP => s.yP > s.yE /\ 100 * s.yP > 115 * s.yE
      /\ has /\ ~ n /\ onP => s.yE > s.yP /\ 100 * s.yE > 115 * s.yP
  <2>1. SideIsSound(onP, has, s)
    BY SideFacts
  <2> QED
    BY <2>1, Zenon DEF SideIsSound
<1>3. ASSUME s.finite
      PROVE  choose_placement_coreset_model(onP, has, s)
               = [chosen |-> IF n THEN P_CORESET ELSE E_CORESET,
                  last_on_p |-> n, has_last_on_p |-> TRUE]
  BY <1>3 DEF choose_placement_coreset_model
<1>4. ASSUME ~ s.finite
      PROVE  choose_placement_coreset_model(onP, has, s)
               = [chosen |-> ALL_CORESET, last_on_p |-> onP,
                  has_last_on_p |-> has]
  BY <1>4 DEF choose_placement_coreset_model
<1> HIDE DEF n
<1>5. CASE s.finite
  <2> DEFINE d == choose_placement_coreset_model(onP, has, s)
  <2>1. /\ d.chosen = IF n THEN P_CORESET ELSE E_CORESET
        /\ d.last_on_p = n
        /\ d.has_last_on_p = TRUE
    BY <1>3, <1>5
  <2>2. CASE n
    <3>1. d.chosen = P_CORESET
      BY <2>1, <2>2
    <3>2. d.last_on_p = TRUE
      BY <1>2, <2>1, <2>2
    <3>3. d.chosen \in Coresets /\ d.chosen # E_CORESET
      BY <3>1 DEF Coresets, P_CORESET, E_CORESET, ALL_CORESET
    <3> QED
      BY <1>2, <1>5, <2>1, <2>2, <3>1, <3>2, <3>3, Zenon
  <2>3. CASE ~ n
    <3>1. d.chosen = E_CORESET
      BY <2>1, <2>3
    <3>2. d.last_on_p = FALSE
      BY <1>2, <2>1, <2>3
    <3>3. d.chosen \in Coresets /\ d.chosen # P_CORESET
      BY <3>1 DEF Coresets, P_CORESET, E_CORESET, ALL_CORESET
    <3> QED
      BY <1>2, <1>5, <2>1, <2>3, <3>1, <3>2, <3>3, Zenon
  <2> QED
    BY <1>2, <2>2, <2>3
<1>6. CASE ~ s.finite
  BY <1>4, <1>6 DEF Coresets, P_CORESET, E_CORESET, ALL_CORESET
<1> QED
  BY <1>1, <1>5, <1>6

Inv == TypeOK /\ NeverFarBehind

LEMMA StepFacts ==
  ASSUME TypeOK, Next
  PROVE  /\ Inv'
         /\ has_last_on_p => has_last_on_p'
         /\ Switches => /\ score'.finite
                        /\ last_on_p' => /\ score'.yP > score'.yE
                                         /\ 100 * score'.yP > 115 * score'.yE
                        /\ ~ last_on_p' => /\ score'.yE > score'.yP
                                           /\ 100 * score'.yE > 115 * score'.yP
<1>1. PICK s \in Score : Decide(s)
  BY ScoresAreScores DEF Next, DecideOnWindow, DecideNonFinite, Unusable, Score
<1> DEFINE d == choose_placement_coreset_model(last_on_p, has_last_on_p, s)
<1>2. /\ score' = s /\ chosen' = d.chosen
      /\ last_on_p' = d.last_on_p /\ has_last_on_p' = d.has_last_on_p
  BY <1>1 DEF Decide
<1>3. last_on_p \in BOOLEAN /\ has_last_on_p \in BOOLEAN
  BY DEF TypeOK
<1>4. /\ d.chosen \in Coresets
      /\ d.last_on_p \in BOOLEAN /\ d.has_last_on_p \in BOOLEAN
      /\ d.chosen = P_CORESET => 100 * s.yE <= 115 * s.yP
      /\ d.chosen = E_CORESET => 100 * s.yP <= 115 * s.yE
      /\ has_last_on_p => d.has_last_on_p
      /\ has_last_on_p /\ d.last_on_p # last_on_p =>
           /\ s.finite
           /\ d.last_on_p => s.yP > s.yE /\ 100 * s.yP > 115 * s.yE
           /\ ~ d.last_on_p => s.yE > s.yP /\ 100 * s.yE > 115 * s.yP
  BY <1>3, DecisionFacts
<1> HIDE DEF d
<1>5. TypeOK'
  BY <1>2, <1>4 DEF TypeOK
<1>6. NeverFarBehind'
  BY <1>2, <1>4 DEF NeverFarBehind
<1>7. has_last_on_p => has_last_on_p'
  BY <1>2, <1>4
<1>8. Switches => /\ score'.finite
                  /\ last_on_p' => /\ score'.yP > score'.yE
                                   /\ 100 * score'.yP > 115 * score'.yE
                  /\ ~ last_on_p' => /\ score'.yE > score'.yP
                                     /\ 100 * score'.yE > 115 * score'.yP
  BY <1>2, <1>4 DEF Switches
<1> QED
  BY <1>5, <1>6, <1>7, <1>8 DEF Inv

LEMMA InvIsInvariant == Spec => []Inv
<1>1. Init => Inv
  <2> SUFFICES ASSUME Init PROVE TypeOK /\ NeverFarBehind
    BY DEF Inv
  <2>1. Unusable \in Score
    BY DEF Unusable, Score
  <2>2. TypeOK
    BY <2>1 DEF Init, TypeOK
  <2>3. NeverFarBehind
    BY DEF Init, NeverFarBehind, None, P_CORESET, E_CORESET
  <2> QED
    BY <2>2, <2>3
<1>2. Inv /\ [Next]_vars => Inv'
  BY StepFacts DEF Inv, vars, TypeOK, NeverFarBehind
<1> QED
  BY <1>1, <1>2, PTL DEF Spec

(* Whatever the windows hold, the daemon's memory of a process and the     *)
(* scores it compares keep their types.                                    *)
THEOREM PlacementTypeCorrect == Spec => []TypeOK
<1>1. Inv => TypeOK
  BY DEF Inv
<1> QED
  BY <1>1, InvIsInvariant, PTL

(* The placement in force is never predicted more than 15 % behind.        *)
THEOREM PlacementIsNearBest == Spec => []NeverFarBehind
<1>1. Inv => NeverFarBehind
  BY DEF Inv
<1> QED
  BY <1>1, InvIsInvariant, PTL

(* A process changes class only for a strict gain of more than 15 %.       *)
THEOREM SwitchesNeedTheMargin == Spec => SwitchNeedsMargin
<1>1. Inv /\ [Next]_vars =>
        [ /\ has_last_on_p => has_last_on_p'
          /\ Switches =>
               /\ score'.finite
               /\ IF last_on_p' THEN /\ score'.yP > score'.yE
                                     /\ 100 * score'.yP > 115 * score'.yE
                                ELSE /\ score'.yE > score'.yP
                                     /\ 100 * score'.yE > 115 * score'.yP ]_vars
  BY StepFacts DEF Inv, vars
<1> QED
  BY <1>1, InvIsInvariant, PTL DEF Spec, SwitchNeedsMargin

(* Deciding twice on the same window gives the same placement: no window   *)
(* makes a process oscillate.                                              *)
THEOREM NoWindowFlaps == Spec => []NoFlapping
<1>1. TypeOK => NoFlapping
  <2> SUFFICES ASSUME TypeOK, NEW x \in Features
               PROVE  LET d1 == choose_placement_coreset_model(last_on_p,
                                  has_last_on_p, ScoreOf(x))
                          d2 == choose_placement_coreset_model(d1.last_on_p,
                                  d1.has_last_on_p, ScoreOf(x))
                      IN  d2 = d1
    BY DEF NoFlapping
  <2> DEFINE s == ScoreOf(x)
  <2>1. s \in Score /\ s.finite
    BY ScoresAreScores DEF ScoreOf
  <2>2. last_on_p \in BOOLEAN /\ has_last_on_p \in BOOLEAN
    BY DEF TypeOK
  <2> HIDE DEF s
  <2> DEFINE n == OnPAfter(last_on_p, has_last_on_p, s)
  <2>3. OnPAfter(n, TRUE, s) = n
    <3>1. SideIsSound(last_on_p, has_last_on_p, s)
      BY <2>1, <2>2, SideFacts, Zenon
    <3> QED
      BY <3>1, Zenon DEF SideIsSound
  <2> QED
    BY <2>1, <2>3 DEF choose_placement_coreset_model, s
<1>2. Inv => NoFlapping
  BY <1>1 DEF Inv
<1> QED
  BY <1>2, InvIsInvariant, PTL
=============================================================================
