--------------------------- MODULE MCWindowCounts ---------------------------
(* Instances of WindowCounts.                                              *)
EXTENDS WindowCounts

AllValues == {"INST_RETIRED", "CACHE_MISSES", "UOPS_RETIRED", "PAGE_FAULTS"}
TwoValues == {"CACHE_MISSES", "PAGE_FAULTS"}
=============================================================================
