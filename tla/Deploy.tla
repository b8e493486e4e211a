------------------------------- MODULE Deploy -------------------------------
(***************************************************************************)
(* Policy deployment by the PaciNet controller: the node, policy, version, *)
(* deployment and guard tables of the storage layer, the request handlers  *)
(* that deploy and roll back policies, the stale-node reaper, and the      *)
(* agents that compile and apply what they are sent and send heartbeats.   *)
(*                                                                         *)
(* A handler is a task: one execution of a request, from its first         *)
(* storage call to its answer.  Every storage call and every remote call   *)
(* of a handler is an await point, so each is an action of its own and all *)
(* other tasks, heartbeats and the reaper may run in between.              *)
(*                                                                         *)
(* A policy stands for its rules text together with its normalised compile *)
(* options: two requests are "identical" (policy_matches_request) iff they *)
(* are the same element of Policy.                                         *)
(***************************************************************************)
EXTENDS NodeLifecycle, Naturals, Sequences, FiniteSets

CONSTANTS
  Node,         \* node identifiers (UUIDs: one is never assigned twice)
  Policy,       \* rules plus normalised compile options
  NoPolicy,     \* absence of a policy
  Task, NoTask, \* executions of deploy handlers, and no such execution
  Kinds,        \* the kinds of handler considered, see Kind
  Backend,      \* "memory" or "sqlite"
  HistoryLimit, \* versions a rollback looks at (10 in the code)
  Target,       \* version numbers a rollback may name; 0 means "the previous"
  Unsupported,  \* <<n, p>>: node n lacks a capability policy p needs
  Faults        \* what may go wrong, see Fault

(* The handlers that call deploy_to_node.  "deploy" is deploy_policy, each  *)
(* node of a batch deploy and each node of an FSM deploy action, "rollback" *)
(* is rollback_policy and "fsmRollback" one node of an FSM rollback action. *)
(* A dry run over REST answers after two reads; the gRPC handler does not   *)
(* look at the field, so there it is a deploy like any other.               *)
Kind == {"deploy", "rollback", "fsmRollback"}

(* The handlers that bracket deploy_to_node with begin_deploy / end_deploy. *)
GuardedKind == {"deploy", "rollback"}

(* remove: remove_node is called; disconnect: a client goes away and the   *)
(* server drops its handler; restart: the controller restarts; agentStop:  *)
(* an agent process ends; silence: the stale threshold passes without a    *)
(* heartbeat; storage: a storage call returns an error.                    *)
Fault == {"remove", "disconnect", "restart", "agentStop", "silence", "storage"}

ASSUME DeployAssumption ==
  /\ Node # {}
  /\ NoPolicy \notin Policy /\ NoTask \notin Task
  /\ Kinds \subseteq Kind
  /\ Backend \in {"memory", "sqlite"}
  /\ HistoryLimit \in Nat \ {0}
  /\ Target \subseteq Nat
  /\ Unsupported \subseteq Node \X Policy
  /\ Faults \subseteq Fault
  /\ "restart" \in Faults => Backend = "sqlite"

VARIABLES
  \* ---- storage ----
  nodeState,    \* nodes table: the state of each node, "Absent" if no row
  stale,        \* its last heartbeat is older than the stale threshold
  history,      \* policy_versions: the policies stored, version = index
  current,      \* policies: the policy stored last
  deployments,  \* the deployment audit records
  deploying,    \* the deploy guard: an in-process set of node ids
  removal,      \* what remove_node has yet to remove of each node
  \* ---- tasks ----
  pc, kind, tnode,  \* control point, handler and target node
  snap,             \* state of the node when get_node read it
  want,             \* the policy to deploy
  ver,              \* target version, later the version stored or found
  result,           \* DeploymentResult, or why the handler gave up
  \* ---- agents ----
  agentUp,      \* the agent process that registered the node is running
  active,       \* the policy the agent runs (active_rules_yaml)
  rpc,          \* progress of a task's deploy_rules call at the agent
  hb            \* the heartbeat in flight, or "none"

storageVars == <<nodeState, stale, history, current, deployments, deploying, removal>>
taskVars    == <<pc, kind, tnode, snap, want, ver, result>>
agentVars   == <<agentUp, active, rpc, hb>>
vars == <<storageVars, taskVars, agentVars>>

-----------------------------------------------------------------------------
PC == {"idle", "history", "find", "guard", "check", "version", "store", "mark",
       "wait", "settle", "record", "release", "done", "dropped"}
(* The control points inside deploy_to_node, up to end_deploy.             *)
Critical == {"check", "version", "store", "mark", "wait", "settle", "record", "release"}
Finished == {"done", "dropped"}

DeploymentResult == {"Success", "AgentFailure", "AgentUnreachable", "Timeout"}
Result == DeploymentResult \cup
          {"none", "NoChange", "NotFound", "NoVersion", "Conflict", "Refused", "StorageError", "Torn"}

DeploymentRecord == [id: Task, node: Node, version: Nat, policy: Policy,
                     result: DeploymentResult]

Present(n) == nodeState[n] # "Absent"
(* Never registered: the id is still free.                                 *)
Fresh(n)   == nodeState[n] = "Absent" /\ removal[n] = "none"
(* Registered, and no remove_node on it has begun.                         *)
Live(n)    == Present(n) /\ removal[n] = "none"
Guarded(t) == kind[t] \in GuardedKind
(* t is inside the section that the deploy guard is meant to serialise.    *)
Held(t)    == Guarded(t) /\ pc[t] \in Critical

StorageTypeOK ==
  /\ nodeState \in [Node -> NodeState \cup {"Absent"}]
  /\ stale \in [Node -> BOOLEAN]
  /\ history \in [Node -> Seq(Policy)]
  /\ current \in [Node -> Policy \cup {NoPolicy}]
  /\ deployments \subseteq DeploymentRecord
  /\ deploying \subseteq Node
  /\ removal \in [Node -> {"none", "versions", "guard", "node", "gone"}]

TaskTypeOK ==
  /\ pc \in [Task -> PC]
  /\ kind \in [Task -> Kind]
  /\ tnode \in [Task -> Node]
  /\ snap \in [Task -> NodeState]
  /\ want \in [Task -> Policy \cup {NoPolicy}]
  /\ ver \in [Task -> Nat]
  /\ result \in [Task -> Result]

AgentTypeOK ==
  /\ agentUp \in [Node -> BOOLEAN]
  /\ active \in [Node -> Policy \cup {NoPolicy}]
  /\ rpc \in [Task -> {"none", "sent", "compiled", "applied", "rejected", "cancelled"}]
  /\ hb \in [Node -> {"none", "Online", "Active"}]

TypeOK == StorageTypeOK /\ TaskTypeOK /\ AgentTypeOK

Init ==
  /\ nodeState = [n \in Node |-> "Absent"]
  /\ stale = [n \in Node |-> FALSE]
  /\ history = [n \in Node |-> << >>]
  /\ current = [n \in Node |-> NoPolicy]
  /\ deployments = {}
  /\ deploying = {}
  /\ removal = [n \in Node |-> "none"]
  /\ pc = [t \in Task |-> "idle"]
  /\ kind = [t \in Task |-> "deploy"]
  /\ tnode = [t \in Task |-> CHOOSE n \in Node : TRUE]
  /\ snap = [t \in Task |-> "Registered"]
  /\ want = [t \in Task |-> NoPolicy]
  /\ ver = [t \in Task |-> 0]
  /\ result = [t \in Task |-> "none"]
  /\ agentUp = [n \in Node |-> FALSE]
  /\ active = [n \in Node |-> NoPolicy]
  /\ rpc = [t \in Task |-> "none"]
  /\ hb = [n \in Node |-> "none"]
-----------------------------------------------------------------------------
(***************************************************************************)
(* The handlers, up to deploy_to_node.                                     *)
(***************************************************************************)
Goto(t, l) == pc' = [pc EXCEPT ![t] = l]
GiveUp(t, why, l) == Goto(t, l) /\ result' = [result EXCEPT ![t] = why]
(* What follows deploy_to_node: end_deploy, or nothing for FSM rollbacks.  *)
After(t) == IF Guarded(t) THEN "release" ELSE "done"

(* Variant: the handler does not look whether get_node found the node.     *)
ReadNodeUnchecked(t, n, next) ==
  /\ tnode' = [tnode EXCEPT ![t] = n]
  /\ Goto(t, next)
  /\ UNCHANGED <<result, snap>>

(* get_node, the first storage call of deploy_policy and rollback_policy   *)
(* (list_nodes for a batch): the state read is used much later.            *)
ReadNode(t, n, next) ==
  /\ tnode' = [tnode EXCEPT ![t] = n]
  /\ \/ /\ Present(n)
        /\ snap' = [snap EXCEPT ![t] = nodeState[n]]
        /\ Goto(t, next)
        /\ UNCHANGED result
     \/ /\ ~Present(n)
        /\ GiveUp(t, "NotFound", "done")
        /\ UNCHANGED snap

DeployPolicy(t, n, p) ==
  /\ "deploy" \in Kinds
  /\ pc[t] = "idle"
  /\ kind' = [kind EXCEPT ![t] = "deploy"]
  /\ want' = [want EXCEPT ![t] = p]
  /\ ReadNode(t, n, "guard")
  /\ UNCHANGED <<storageVars, agentVars, ver>>

RollbackPolicy(t, n, v) ==
  /\ "rollback" \in Kinds
  /\ pc[t] = "idle"
  /\ kind' = [kind EXCEPT ![t] = "rollback"]
  /\ ver' = [ver EXCEPT ![t] = v]
  /\ ReadNode(t, n, "history")
  /\ UNCHANGED <<storageVars, agentVars, want>>

(* get_policy_history(limit): the version numbers it returns.              *)
Recent(n, limit) == {v \in 1 .. Len(history[n]) : v + limit > Len(history[n])}

(* The versions a rollback request may resolve to: the second newest when  *)
(* none is named, else the one named, if it is among the recent ones.      *)
RollbackTarget(n, v, limit) ==
  {w \in Recent(n, limit) : w = IF v = 0 THEN Len(history[n]) - 1 ELSE v}

(* rollback_policy reads the history before it takes the deploy guard.     *)
RollbackHistory(t) ==
  LET n == tnode[t]
      target == RollbackTarget(n, ver[t], HistoryLimit)
  IN
  /\ pc[t] = "history"
  /\ \/ /\ target = {}
        /\ GiveUp(t, "NoVersion", "done")
        /\ UNCHANGED want
     \/ \E w \in target :
          /\ want' = [want EXCEPT ![t] = history[n][w]]
          /\ Goto(t, "guard")
          /\ UNCHANGED result
  /\ UNCHANGED <<storageVars, agentVars, kind, tnode, snap, ver>>

(* execute_rollback, for one of the nodes the instance deployed to: the    *)
(* history is read first, then the node, and no guard is taken.            *)
FsmRollback(t, n) ==
  LET target == RollbackTarget(n, 0, 2)
  IN
  /\ "fsmRollback" \in Kinds
  /\ pc[t] = "idle"
  /\ kind' = [kind EXCEPT ![t] = "fsmRollback"]
  /\ tnode' = [tnode EXCEPT ![t] = n]
  /\ \/ /\ target = {}
        /\ GiveUp(t, "NoVersion", "done")
        /\ UNCHANGED want
     \/ \E w \in target :
          /\ want' = [want EXCEPT ![t] = history[n][w]]
          /\ Goto(t, "find")
          /\ UNCHANGED result
  /\ UNCHANGED <<storageVars, agentVars, snap, ver>>

FsmRollbackNode(t) ==
  /\ pc[t] = "find"
  /\ ReadNode(t, tnode[t], "check")
  /\ UNCHANGED <<storageVars, agentVars, kind, want, ver>>

(* Variant: begin_deploy inserts without testing for a deploy in progress. *)
BeginDeployUntested(t) ==
  /\ pc[t] = "guard"
  /\ deploying' = deploying \cup {tnode[t]}
  /\ Goto(t, "check")
  /\ UNCHANGED <<nodeState, stale, history, current, deployments, removal,
                 kind, tnode, snap, want, ver, result, agentVars>>

(* begin_deploy *)
BeginDeploy(t) ==
  LET n == tnode[t]
  IN
  /\ pc[t] = "guard"
  /\ \/ /\ n \in deploying
        /\ GiveUp(t, "Conflict", "done")
        /\ UNCHANGED deploying
     \/ /\ n \notin deploying
        /\ deploying' = deploying \cup {n}
        /\ Goto(t, "check")
        /\ UNCHANGED result
  /\ UNCHANGED <<nodeState, stale, history, current, deployments, removal,
                 kind, tnode, snap, want, ver, agentVars>>

(* Variant: the guard is released only after a deploy that succeeded.      *)
EndDeployOnSuccess(t) ==
  /\ pc[t] = "release"
  /\ deploying' = IF result[t] = "Success" THEN deploying \ {tnode[t]} ELSE deploying
  /\ Goto(t, "done")
  /\ UNCHANGED <<nodeState, stale, history, current, deployments, removal,
                 kind, tnode, snap, want, ver, result, agentVars>>

(* end_deploy, whatever deploy_to_node answered.                           *)
EndDeploy(t) ==
  /\ pc[t] = "release"
  /\ deploying' = deploying \ {tnode[t]}
  /\ Goto(t, "done")
  /\ UNCHANGED <<nodeState, stale, history, current, deployments, removal,
                 kind, tnode, snap, want, ver, result, agentVars>>
-----------------------------------------------------------------------------
(***************************************************************************)
(* deploy_to_node, one action per storage call or remote call.             *)
(***************************************************************************)
(* ensure_node_capabilities, get_policy and the no-op test, which uses the *)
(* node state the handler read before it took the guard.  Nothing uses     *)
(* that state later, so the model forgets it here.                         *)
CheckRequest(t) ==
  LET n == tnode[t]
  IN
  /\ pc[t] = "check"
  /\ \/ /\ <<n, want[t]>> \in Unsupported
        /\ GiveUp(t, "Refused", After(t))
     \/ /\ <<n, want[t]>> \notin Unsupported
        /\ Goto(t, IF snap[t] = "Active" /\ current[n] = want[t]
                   THEN "version" ELSE "store")
        /\ UNCHANGED result
  /\ snap' = [snap EXCEPT ![t] = "Registered"]
  /\ UNCHANGED <<storageVars, agentVars, kind, tnode, want, ver>>

(* No change: the version to report is read by a second storage call.      *)
ReadVersion(t) ==
  /\ pc[t] = "version"
  /\ ver' = [ver EXCEPT ![t] = Len(history[tnode[t]])]
  /\ GiveUp(t, "NoChange", "record")
  /\ UNCHANGED <<storageVars, agentVars, kind, tnode, snap, want>>

(* A row that refers to node n can be written: SQLite enforces the foreign *)
(* key, the memory backend keeps rows of removed nodes.                    *)
Writable(n) == Backend = "memory" \/ Present(n)

(* Variant: store_policy returns the version it replaced.                  *)
StorePolicyOldVersion(t) ==
  LET n == tnode[t]
  IN
  /\ pc[t] = "store" /\ Writable(n)
  /\ history' = [history EXCEPT ![n] = Append(@, want[t])]
  /\ current' = [current EXCEPT ![n] = want[t]]
  /\ ver' = [ver EXCEPT ![t] = Len(history[n])]
  /\ Goto(t, "mark")
  /\ UNCHANGED <<nodeState, stale, deployments, deploying, removal,
                 kind, tnode, snap, want, result, agentVars>>

(* Variant: store_policy keeps one version per node.                       *)
StorePolicyOverwrites(t) ==
  LET n == tnode[t]
  IN
  /\ pc[t] = "store" /\ Writable(n)
  /\ history' = [history EXCEPT ![n] = <<want[t]>>]
  /\ current' = [current EXCEPT ![n] = want[t]]
  /\ ver' = [ver EXCEPT ![t] = 1]
  /\ Goto(t, "mark")
  /\ UNCHANGED <<nodeState, stale, deployments, deploying, removal,
                 kind, tnode, snap, want, result, agentVars>>

StorePolicy(t) ==
  LET n == tnode[t]
  IN
  /\ pc[t] = "store"
  /\ \/ /\ Writable(n)
        /\ history' = [history EXCEPT ![n] = Append(@, want[t])]
        /\ current' = [current EXCEPT ![n] = want[t]]
        /\ ver' = [ver EXCEPT ![t] = Len(history[n]) + 1]
        /\ Goto(t, "mark")
        /\ UNCHANGED result
     \/ /\ ~Writable(n)
        /\ GiveUp(t, "StorageError", After(t))
        /\ UNCHANGED <<history, current, ver>>
  /\ UNCHANGED <<nodeState, stale, deployments, deploying, removal,
                 kind, tnode, snap, want, agentVars>>

(* Variant: update_node_state accepts every transition.                    *)
UpdateNodeStateUnchecked(n, s) ==
  nodeState' = IF Present(n) THEN [nodeState EXCEPT ![n] = s] ELSE nodeState

(* update_node_state: an invalid transition is an error, which             *)
(* deploy_to_node ignores.                                                 *)
UpdateNodeState(n, s) ==
  nodeState' = IF Present(n) /\ CanTransition(nodeState[n], s)
               THEN [nodeState EXCEPT ![n] = s] ELSE nodeState

(* Mark the node Deploying and send the request to its agent.              *)
MarkDeploying(t) ==
  /\ pc[t] = "mark"
  /\ UpdateNodeState(tnode[t], "Deploying")
  /\ rpc' = [rpc EXCEPT ![t] = "sent"]
  /\ Goto(t, "wait")
  /\ UNCHANGED <<stale, history, current, deployments, deploying, removal,
                 kind, tnode, snap, want, ver, result, agentUp, active, hb>>

(* Variants: an answer with success = false is taken for a success; the    *)
(* wait for the agent has no timeout.                                      *)
AwaitAgentAnyAnswer(t, r) ==
  /\ pc[t] = "wait"
  /\ rpc[t] \in {"applied", "rejected"} /\ r = "Success"
  /\ GiveUp(t, r, "settle")
  /\ UNCHANGED <<storageVars, agentVars, kind, tnode, snap, want, ver>>
AwaitAgentForever(t, r) ==
  /\ pc[t] = "wait"
  /\ <<rpc[t], r>> \in {<<"applied", "Success">>, <<"rejected", "AgentFailure">>,
                        <<"cancelled", "AgentUnreachable">>}
  /\ GiveUp(t, r, "settle")
  /\ UNCHANGED <<storageVars, agentVars, kind, tnode, snap, want, ver>>

(* The answer of the agent, or none: the connection cannot be made or is   *)
(* lost, or the deploy timeout expires.                                    *)
AwaitAgent(t, r) ==
  /\ pc[t] = "wait"
  /\ r = "Success" => rpc[t] = "applied"
  /\ r = "AgentFailure" => rpc[t] = "rejected"
  /\ GiveUp(t, r, "settle")
  /\ UNCHANGED <<storageVars, agentVars, kind, tnode, snap, want, ver>>

SettleState(t) ==
  /\ pc[t] = "settle"
  /\ UpdateNodeState(tnode[t], IF result[t] = "Success" THEN "Active" ELSE "Error")
  /\ Goto(t, "record")
  /\ UNCHANGED <<stale, history, current, deployments, deploying, removal,
                 kind, tnode, snap, want, ver, result, agentVars>>

(* Variant: a no-change deploy is recorded under a result of its own.      *)
RecordOfNoChange(t) ==
  [id |-> t, node |-> tnode[t], version |-> ver[t], policy |-> want[t],
   result |-> result[t]]

RecordOf(t) ==
  [id |-> t, node |-> tnode[t], version |-> ver[t], policy |-> want[t],
   result |-> IF result[t] = "NoChange" THEN "Success" ELSE result[t]]

(* record_deployment; a failed insert is ignored.                          *)
RecordDeployment(t) ==
  /\ pc[t] = "record"
  /\ deployments' = IF Writable(tnode[t])
                    THEN deployments \cup {RecordOf(t)} ELSE deployments
  /\ Goto(t, After(t))
  /\ UNCHANGED <<nodeState, stale, history, current, deploying, removal,
                 kind, tnode, snap, want, ver, result, agentVars>>

(* store_policy of SQLite is two statements and no transaction: when the   *)
(* second fails, or the controller ends between them (then Restart is      *)
(* next), the version is stored and the current policy is not.             *)
StoreTorn(t) ==
  LET n == tnode[t]
  IN
  /\ "storage" \in Faults /\ Backend = "sqlite"
  /\ pc[t] = "store" /\ Present(n)
  /\ history' = [history EXCEPT ![n] = Append(@, want[t])]
  /\ GiveUp(t, "Torn", After(t))
  /\ UNCHANGED <<nodeState, stale, current, deployments, deploying, removal,
                 kind, tnode, snap, want, ver, agentVars>>

(* Variant: a failed store_policy is ignored like a failed state update.   *)
StorageFailsIgnored(t) ==
  /\ "storage" \in Faults
  /\ pc[t] = "store"
  /\ Goto(t, "mark")
  /\ UNCHANGED <<storageVars, agentVars, kind, tnode, snap, want, ver, result>>

(* A storage call returns an error.  Reading and storing the policy end    *)
(* deploy_to_node; the state updates and the audit record are best effort, *)
(* and earlier reads fail the request.                                     *)
StorageFails(t) ==
  /\ "storage" \in Faults
  /\ \/ /\ pc[t] \in {"history", "find"}
        /\ GiveUp(t, "StorageError", "done")
        /\ UNCHANGED rpc
     \/ /\ pc[t] \in {"check", "version", "store"}
        /\ GiveUp(t, "StorageError", After(t))
        /\ UNCHANGED rpc
     \/ /\ pc[t] = "mark"
        /\ rpc' = [rpc EXCEPT ![t] = "sent"]
        /\ Goto(t, "wait")
        /\ UNCHANGED result
     \/ /\ pc[t] \in {"settle", "record"}
        /\ Goto(t, IF pc[t] = "settle" THEN "record" ELSE After(t))
        /\ UNCHANGED <<result, rpc>>
  /\ UNCHANGED <<storageVars, kind, tnode, snap, want, ver, agentUp, active, hb>>

(* The client of a request goes away: the server drops the handler where   *)
(* it is, and nothing runs end_deploy in its place.  An FSM rollback run   *)
(* from advance_fsm is dropped with it; one the engine runs on its own is  *)
(* not, which the model does not tell apart.                               *)
Disconnect(t) ==
  /\ "disconnect" \in Faults
  /\ pc[t] \notin Finished \cup {"idle"}
  /\ Goto(t, "dropped")
  /\ UNCHANGED <<storageVars, agentVars, kind, tnode, snap, want, ver, result>>

(* The controller restarts on its SQLite file: the guard set is in memory. *)
Restart ==
  /\ "restart" \in Faults
  /\ deploying' = {}
  /\ pc' = [t \in Task |-> IF pc[t] \in Finished \cup {"idle"} THEN pc[t] ELSE "dropped"]
  /\ removal' = [n \in Node |-> IF removal[n] = "guard" THEN "gone" ELSE removal[n]]
  /\ UNCHANGED <<nodeState, stale, history, current, deployments,
                 kind, tnode, snap, want, ver, result, agentVars>>
-----------------------------------------------------------------------------
(***************************************************************************)
(* Node registration, heartbeats, removal and the stale-node reaper.       *)
(***************************************************************************)
RegisterNode(n) ==
  /\ Fresh(n)
  /\ nodeState' = [nodeState EXCEPT ![n] = "Registered"]
  /\ stale' = [stale EXCEPT ![n] = FALSE]
  /\ agentUp' = [agentUp EXCEPT ![n] = TRUE]
  /\ UNCHANGED <<history, current, deployments, deploying, removal, taskVars,
                 active, rpc, hb>>

(* heartbeat_loop: the state reported is fixed when the request is built,  *)
(* and stays in the request through its retries.                           *)
SendHeartbeat(n) ==
  /\ agentUp[n] /\ hb[n] = "none"
  /\ hb' = [hb EXCEPT ![n] = IF active[n] = NoPolicy THEN "Online" ELSE "Active"]
  /\ UNCHANGED <<storageVars, taskVars, agentUp, active, rpc>>

(* update_heartbeat takes the reported state as it is.  The agent sends    *)
(* the same request again when the answer is lost.                         *)
ReceiveHeartbeat(n) ==
  /\ hb[n] # "none"
  /\ nodeState' = IF Present(n) THEN [nodeState EXCEPT ![n] = hb[n]] ELSE nodeState
  /\ stale' = [stale EXCEPT ![n] = FALSE]
  /\ \/ hb' = [hb EXCEPT ![n] = "none"]
     \/ agentUp[n] /\ UNCHANGED hb
  /\ UNCHANGED <<history, current, deployments, deploying, removal, taskVars,
                 agentUp, active, rpc>>

LoseHeartbeat(n) ==
  /\ hb[n] # "none"
  /\ hb' = [hb EXCEPT ![n] = "none"]
  /\ UNCHANGED <<storageVars, taskVars, agentUp, active, rpc>>

(* The stale threshold passes without a heartbeat from n.                  *)
TimePasses(n) ==
  /\ "silence" \in Faults
  /\ Present(n) /\ ~stale[n]
  /\ stale' = [stale EXCEPT ![n] = TRUE]
  /\ UNCHANGED <<nodeState, history, current, deployments, deploying, removal,
                 taskVars, agentVars>>

(* Variants: the reaper leaves nodes alone that are being deployed to, or  *)
(* that are in error.                                                      *)
StaleNodesNotDeploying ==
  {n \in Node : stale[n] /\ nodeState[n] \in {"Online", "Active", "Error"}}
StaleNodesNotError ==
  {n \in Node : stale[n] /\ nodeState[n] \in {"Online", "Active", "Deploying"}}

(* mark_stale_nodes, called by the reaper.                                 *)
StaleNodes == {n \in Node : stale[n] /\ nodeState[n] \notin {"Absent", "Offline", "Registered"}}

MarkStaleNodes ==
  /\ StaleNodes # {}
  /\ nodeState' = [n \in Node |-> IF n \in StaleNodes THEN "Offline" ELSE nodeState[n]]
  /\ UNCHANGED <<stale, history, current, deployments, deploying, removal,
                 taskVars, agentVars>>

(* remove_node.  SQLite deletes the row, cascading, and then clears the    *)
(* guard; the memory backend takes one lock after the other, the row last. *)
RemoveNode(n) ==
  /\ "remove" \in Faults
  /\ Live(n)
  /\ current' = [current EXCEPT ![n] = NoPolicy]
  /\ \/ /\ Backend = "sqlite"
        /\ nodeState' = [nodeState EXCEPT ![n] = "Absent"]
        /\ history' = [history EXCEPT ![n] = << >>]
        /\ deployments' = {d \in deployments : d.node # n}
        /\ removal' = [removal EXCEPT ![n] = "guard"]
     \/ /\ Backend = "memory"
        /\ removal' = [removal EXCEPT ![n] = "versions"]
        /\ UNCHANGED <<nodeState, history, deployments>>
  /\ UNCHANGED <<stale, deploying, taskVars, agentVars>>

RemoveVersions(n) ==
  /\ removal[n] = "versions"
  /\ history' = [history EXCEPT ![n] = << >>]
  /\ removal' = [removal EXCEPT ![n] = "guard"]
  /\ UNCHANGED <<nodeState, stale, current, deployments, deploying, taskVars, agentVars>>

RemoveGuard(n) ==
  /\ removal[n] = "guard"
  /\ deploying' = deploying \ {n}
  /\ removal' = [removal EXCEPT ![n] = IF Backend = "memory" THEN "node" ELSE "gone"]
  /\ UNCHANGED <<nodeState, stale, history, current, deployments, taskVars, agentVars>>

RemoveRow(n) ==
  /\ removal[n] = "node"
  /\ nodeState' = [nodeState EXCEPT ![n] = "Absent"]
  /\ removal' = [removal EXCEPT ![n] = "gone"]
  /\ UNCHANGED <<stale, history, current, deployments, deploying, taskVars, agentVars>>
-----------------------------------------------------------------------------
(***************************************************************************)
(* The agent: deploy_rules compiles under a read lock, then takes the      *)
(* write lock to make the policy active.                                   *)
(***************************************************************************)
(* A node stands for one agent.  In the code the row holds the address the *)
(* agent registered with, deploy_to_node calls that address, and an agent  *)
(* started again registers as another node: that a deploy to the row it    *)
(* left then reaches it at the same address is not modelled.               *)
AgentCompile(t) ==
  /\ rpc[t] = "sent" /\ agentUp[tnode[t]]
  /\ \E outcome \in {"compiled", "rejected"} : rpc' = [rpc EXCEPT ![t] = outcome]
  /\ UNCHANGED <<storageVars, taskVars, agentUp, active, hb>>

AgentApply(t) ==
  /\ rpc[t] = "compiled"
  /\ active' = [active EXCEPT ![tnode[t]] = want[t]]
  /\ rpc' = [rpc EXCEPT ![t] = "applied"]
  /\ UNCHANGED <<storageVars, taskVars, agentUp, hb>>

(* The controller no longer waits, and the reset of its stream reaches the *)
(* agent before the handler is through.                                    *)
AgentCancel(t) ==
  /\ rpc[t] \in {"sent", "compiled"} /\ pc[t] # "wait"
  /\ rpc' = [rpc EXCEPT ![t] = "cancelled"]
  /\ UNCHANGED <<storageVars, taskVars, agentUp, active, hb>>

(* The agent process ends; a new one registers under a new node id.        *)
AgentStop(n) ==
  /\ "agentStop" \in Faults
  /\ agentUp[n]
  /\ agentUp' = [agentUp EXCEPT ![n] = FALSE]
  /\ active' = [active EXCEPT ![n] = NoPolicy]
  /\ rpc' = [t \in Task |-> IF tnode[t] = n /\ rpc[t] \in {"sent", "compiled"}
                            THEN "cancelled" ELSE rpc[t]]
  /\ UNCHANGED <<storageVars, taskVars, hb>>
-----------------------------------------------------------------------------
(* What the runtime drives on its own once a task has started.             *)
TaskStep(t) ==
  \/ RollbackHistory(t) \/ FsmRollbackNode(t) \/ BeginDeploy(t) \/ EndDeploy(t)
  \/ CheckRequest(t) \/ ReadVersion(t) \/ StorePolicy(t) \/ MarkDeploying(t)
  \/ \E r \in DeploymentResult : AwaitAgent(t, r)
  \/ SettleState(t) \/ RecordDeployment(t) \/ StorageFails(t) \/ StoreTorn(t)

StartTask(t) ==
  \E n \in Node : \/ \E p \in Policy : DeployPolicy(t, n, p)
                  \/ \E v \in Target : RollbackPolicy(t, n, v)
                  \/ FsmRollback(t, n)

NodeStep(n) ==
  \/ RegisterNode(n) \/ SendHeartbeat(n) \/ ReceiveHeartbeat(n) \/ LoseHeartbeat(n)
  \/ TimePasses(n) \/ AgentStop(n)
  \/ RemoveNode(n) \/ RemoveVersions(n) \/ RemoveGuard(n) \/ RemoveRow(n)

Next ==
  \/ \E t \in Task : StartTask(t) \/ TaskStep(t) \/ Disconnect(t)
                     \/ AgentCompile(t) \/ AgentApply(t) \/ AgentCancel(t)
  \/ \E n \in Node : NodeStep(n)
  \/ MarkStaleNodes
  \/ Restart

Spec == Init /\ [][Next]_vars

(* The runtime runs every task that can run (the timeout bounds the wait   *)
(* for the agent), the reaper and the clock; an agent that is up keeps     *)
(* sending heartbeats.  Nothing makes a heartbeat arrive.                  *)
Fairness ==
  /\ \A t \in Task : WF_vars(TaskStep(t))
  /\ \A n \in Node : WF_vars(TimePasses(n)) /\ WF_vars(SendHeartbeat(n))
                     /\ WF_vars(ReceiveHeartbeat(n) \/ LoseHeartbeat(n))
  /\ WF_vars(MarkStaleNodes)

FairSpec == Spec /\ Fairness
=============================================================================
