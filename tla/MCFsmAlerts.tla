---------------------------- MODULE MCFsmAlerts ----------------------------
(* Small instances of FsmAlerts for TLC: the definitions of MCFsmEngine.   *)
EXTENDS MCFsmEngine, FsmAlerts

MCHooked == {"complete"}
=============================================================================
