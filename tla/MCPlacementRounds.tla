------------------------- MODULE MCPlacementRounds -------------------------
(***************************************************************************)
(* PlacementRounds with weights of the sign and the proportion of          *)
(* model_P.json and model_E.json (in units of 100000 instructions per ms), *)
(* and windows from idle to saturated.                                     *)
(***************************************************************************)
EXTENDS PlacementRounds

mc_model_P == [intercept |-> -26, w_cycles_per_ms |-> 1, w_ipc |-> 20,
               w_cmr |-> -5, w_mspm |-> 0, w_mspi |-> 1]
mc_model_E == [intercept |-> -14, w_cycles_per_ms |-> 1, w_ipc |-> 11,
               w_cmr |-> 6, w_mspm |-> 1, w_mspi |-> -1]

mc_Features == [cycles_per_ms : {0, 5, 10, 20, 40}, ipc : 0..3, cmr : 0..1,
                mspm : 0..1, mspi : 0..1]
=============================================================================
