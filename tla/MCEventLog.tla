----------------------------- MODULE MCEventLog -----------------------------
(* Small instances of EventLog for TLC: leaders with either backend, whose  *)
(* log is examined, and a standby, whose streams are.                      *)
EXTENDS EventLog
CONSTANTS i1, n1, n2

Leader(backend, counters, max) ==
  [backend |-> backend, leader |-> TRUE, counters |-> counters,
   origin |-> [fsm |-> {i1}, counter |-> {n1}, node |-> {n1}],
   max |-> [fsm |-> max, counter |-> 2, node |-> max], watched |-> {}]
Standby(ch, max) ==
  [backend |-> "memory", leader |-> FALSE, counters |-> TRUE,
   origin |-> [fsm |-> {i1}, counter |-> {n1}, node |-> {n1, n2}],
   max |-> max, watched |-> {ch}]
MCSetups ==
  {Leader("memory", TRUE, 2), Leader("sqlite", TRUE, 1), Leader("memory", FALSE, 1),
   Standby("fsm", [fsm |-> 2, counter |-> 0, node |-> 0]),
   Standby("counter", [fsm |-> 0, counter |-> 2, node |-> 0]),
   Standby("node", [fsm |-> 0, counter |-> 1, node |-> 3])}
=============================================================================
