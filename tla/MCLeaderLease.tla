--------------------------- MODULE MCLeaderLease ---------------------------
(* Small instances of LeaderLease for TLC.                                 *)
EXTENDS LeaderLease

(* Every controller has an identifier of its own.                          *)
MCId == [c \in Controller |-> c]
=============================================================================
