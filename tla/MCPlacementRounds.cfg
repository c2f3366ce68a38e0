SPECIFICATION Spec
CONSTANTS
  model_P <- mc_model_P
  model_E <- mc_model_E
  Features <- mc_Features
INVARIANTS
  TypeOK
  NeverFarBehind
  NoFlapping
PROPERTIES
  SwitchNeedsMargin
