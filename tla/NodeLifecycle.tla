--------------------------- MODULE NodeLifecycle ---------------------------
(***************************************************************************)
(* The node life cycle of pacinet-core/src/model.rs: the states a node     *)
(* record can be in and the transitions update_node_state accepts.         *)
(***************************************************************************)

NodeState == {"Registered", "Online", "Deploying", "Active", "Error", "Offline"}

(* NodeState::valid_transitions *)
ValidTransitions(s) ==
  CASE s = "Registered" -> {"Online", "Offline"}
    [] s = "Online"     -> {"Deploying", "Error", "Offline"}
    [] s = "Deploying"  -> {"Active", "Error", "Offline"}
    [] s = "Active"     -> {"Deploying", "Error", "Offline"}
    [] s = "Error"      -> {"Online", "Deploying", "Offline"}
    [] s = "Offline"    -> {"Online"}
    [] OTHER            -> {}

(* NodeState::can_transition_to *)
CanTransition(s, t) == t \in ValidTransitions(s)
=============================================================================
