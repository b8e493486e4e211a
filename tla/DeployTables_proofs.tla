------------------------ MODULE DeployTables_proofs ------------------------
(***************************************************************************)
(* Proofs about Deploy: that the version, policy and audit tables agree,   *)
(* that the deploy guard makes the version history of a node the log of    *)
(* one handler at a time (the refinement of SerialDeploy), that only a     *)
(* heartbeat brings a node back from Offline, and that when the newest     *)
(* version of a node was deployed with success, the agent of the node runs *)
(* it.                                                                     *)
(***************************************************************************)
EXTENDS Deploy_proofs
-----------------------------------------------------------------------------
(***************************************************************************)
(* What the tables say of each other.                                      *)
(***************************************************************************)
(* Version v of node n exists, and holds p unless a store_policy of the    *)
(* node was cut in two.                                                    *)
Recorded(n, v, p) == v \in DOMAIN history[n] /\ (Whole(n) => history[n][v] = p)

(* The no-op test found the policy it wants in the policies table; once a  *)
(* version is known to the handler it is the one of its policy.            *)
TaskRecords(t) ==
  /\ pc[t] = "version" => want[t] = current[tnode[t]]
  /\ pc[t] \in {"mark", "wait", "settle", "record"} => Recorded(tnode[t], ver[t], want[t])

(* A free node id has no rows; the current policy of a registered node is  *)
(* its newest version, and what an audit record names exists.              *)
NodeTables(n) ==
  /\ Fresh(n) => /\ history[n] = << >> /\ current[n] = NoPolicy
                 /\ \A d \in deployments : d.node # n
  /\ Live(n) => /\ current[n] # NoPolicy => Recorded(n, Len(history[n]), current[n])
                /\ \A d \in deployments : d.node = n => Recorded(n, d.version, d.policy)
                /\ \A t \in Task : tnode[t] = n => TaskRecords(t)

(* A store_policy that was cut in two ends its handler.                    *)
TornEnds == \A t \in Task : result[t] = "Torn" => pc[t] \in {"release", "done", "dropped"}

TablesInv == TornEnds /\ \A n \in Node : OnlyGuarded(n) => NodeTables(n)

(* A handler that has started keeps its kind and its node, does not start  *)
(* again, and a cut store_policy stays its result.                         *)
LEMMA HandlerKeeps ==
  ASSUME IndInv, TornEnds, [Next]_vars, NEW u \in Task, pc[u] # "idle"
  PROVE  /\ pc'[u] # "idle" /\ kind'[u] = kind[u] /\ tnode'[u] = tnode[u]
         /\ result[u] = "Torn" => result'[u] = "Torn" /\ pc'[u] \in {"release", "done", "dropped"}
<1>0. TaskTypeOK /\ (result[u] = "Torn" => pc[u] \in {"release", "done", "dropped"})
  BY DEF IndInv, TypeOK, TornEnds
<1> DEFINE Goal == /\ pc'[u] # "idle" /\ kind'[u] = kind[u] /\ tnode'[u] = tnode[u]
                   /\ result[u] = "Torn" => /\ result'[u] = "Torn"
                                            /\ pc'[u] \in {"release", "done", "dropped"}
<1>1. ASSUME UNCHANGED <<pc, kind, tnode, result>> PROVE Goal
  BY <1>0, <1>1
<1>2. ASSUME NEW t \in Task, StartTask(t) PROVE Goal
  <2>1. u # t
    BY <1>2 DEF StartTask, DeployPolicy, RollbackPolicy, FsmRollback
  <2> QED BY <1>0, <1>2, <2>1 DEF StartTask, DeployPolicy, RollbackPolicy, FsmRollback,
             ReadNode, GiveUp, Goto, TaskTypeOK
<1>3. ASSUME NEW t \in Task, TaskStep(t) PROVE Goal
  <2>1. CASE FsmRollbackNode(t)
    BY <1>0, <2>1 DEF FsmRollbackNode, ReadNode, GiveUp, Goto, TaskTypeOK
  <2>2. CASE BeginDeploy(t) \/ RollbackHistory(t)
    BY <1>0, <2>2 DEF BeginDeploy, RollbackHistory, GiveUp, Goto, TaskTypeOK
  <2>3. CASE EndDeploy(t)
    BY <1>0, <2>3 DEF EndDeploy, Goto, TaskTypeOK
  <2>4. CASE CheckRequest(t) \/ ReadVersion(t)
    BY <1>0, <2>4 DEF CheckRequest, ReadVersion, After, GiveUp, Goto, TaskTypeOK
  <2>5. CASE StorePolicy(t) \/ MarkDeploying(t) \/ SettleState(t)
    BY <1>0, <2>5 DEF StorePolicy, MarkDeploying, SettleState, After, GiveUp, Goto, TaskTypeOK
  <2>6. ASSUME NEW r \in DeploymentResult, AwaitAgent(t, r) PROVE Goal
    BY <1>0, <2>6 DEF AwaitAgent, GiveUp, Goto, TaskTypeOK
  <2>7. CASE RecordDeployment(t) \/ StorageFails(t) \/ StoreTorn(t)
    BY <1>0, <2>7 DEF RecordDeployment, StorageFails, StoreTorn, After, GiveUp, Goto, TaskTypeOK
  <2> QED BY <1>3, <2>1, <2>2, <2>3, <2>4, <2>5, <2>6, <2>7 DEF TaskStep
<1>4. ASSUME NEW t \in Task, Disconnect(t) PROVE Goal
  BY <1>0, <1>4 DEF Disconnect, Goto, TaskTypeOK
<1>5. CASE Restart
  BY <1>0, <1>5 DEF Restart, TaskTypeOK, Finished
<1>6. ASSUME NEW t \in Task, AgentCompile(t) \/ AgentApply(t) \/ AgentCancel(t) PROVE Goal
  BY <1>1, <1>6 DEF AgentCompile, AgentApply, AgentCancel, taskVars
<1>7. ASSUME NEW n \in Node, NodeStep(n) PROVE Goal
  BY <1>1, <1>7 DEF NodeStep, RegisterNode, SendHeartbeat, ReceiveHeartbeat, LoseHeartbeat,
     TimePasses, AgentStop, RemoveNode, RemoveVersions, RemoveGuard, RemoveRow, taskVars
<1>8. CASE MarkStaleNodes \/ UNCHANGED vars
  BY <1>1, <1>8 DEF MarkStaleNodes, vars, taskVars
<1> QED BY <1>2, <1>3, <1>4, <1>5, <1>6, <1>7, <1>8 DEF Next

(* store_policy is cut in two in one step, at its end.                     *)
LEMMA TornStep == IndInv /\ TornEnds /\ [Next]_vars => TornEnds'
<1> SUFFICES ASSUME IndInv, TornEnds, [Next]_vars, NEW u \in Task, result'[u] = "Torn"
             PROVE  pc'[u] \in {"release", "done", "dropped"}
  BY DEF TornEnds
<1>1. CASE result[u] = "Torn"
  BY <1>1, HandlerKeeps DEF TornEnds
<1>2. CASE result[u] # "Torn"
  <2>0. TaskTypeOK
    BY DEF IndInv, TypeOK
  <2>1. ASSUME NEW t \in Task, StoreTorn(t) PROVE pc'[u] \in {"release", "done", "dropped"}
    BY <1>2, <2>0, <2>1 DEF StoreTorn, GiveUp, Goto, After, TaskTypeOK
  <2>2. ASSUME NEW t \in Task, StartTask(t) PROVE FALSE
    BY <1>2, <2>0, <2>2 DEF StartTask, DeployPolicy, RollbackPolicy, FsmRollback,
       ReadNode, GiveUp, Goto, TaskTypeOK
  <2>3. ASSUME NEW t \in Task, TaskStep(t) PROVE StoreTorn(t)
    <3>1. CASE RollbackHistory(t) \/ FsmRollbackNode(t) \/ BeginDeploy(t)
      BY <1>2, <2>0, <3>1 DEF RollbackHistory, FsmRollbackNode, BeginDeploy, ReadNode, GiveUp, TaskTypeOK
    <3>2. CASE EndDeploy(t) \/ CheckRequest(t) \/ ReadVersion(t) \/ StorePolicy(t) \/ MarkDeploying(t)
      BY <1>2, <2>0, <3>2 DEF EndDeploy, CheckRequest, ReadVersion, StorePolicy, MarkDeploying,
         GiveUp, TaskTypeOK
    <3>3. CASE \E r \in DeploymentResult : AwaitAgent(t, r)
      BY <1>2, <2>0, <3>3 DEF AwaitAgent, GiveUp, TaskTypeOK, DeploymentResult
    <3>4. CASE SettleState(t) \/ RecordDeployment(t) \/ StorageFails(t)
      BY <1>2, <2>0, <3>4 DEF SettleState, RecordDeployment, StorageFails, GiveUp, TaskTypeOK
    <3> QED BY <2>3, <3>1, <3>2, <3>3, <3>4 DEF TaskStep
  <2>4. ASSUME NEW t \in Task,
               Disconnect(t) \/ AgentCompile(t) \/ AgentApply(t) \/ AgentCancel(t)
        PROVE  FALSE
    BY <1>2, <2>4 DEF Disconnect, AgentCompile, AgentApply, AgentCancel, taskVars
  <2>5. ASSUME NEW n \in Node, NodeStep(n) PROVE FALSE
    BY <1>2, <2>5 DEF NodeStep, RegisterNode, SendHeartbeat, ReceiveHeartbeat, LoseHeartbeat,
       TimePasses, AgentStop, RemoveNode, RemoveVersions, RemoveGuard, RemoveRow, taskVars
  <2>6. ~(MarkStaleNodes \/ Restart \/ UNCHANGED vars)
    BY <1>2 DEF MarkStaleNodes, Restart, vars, taskVars
  <2> QED BY <2>1, <2>2, <2>3, <2>4, <2>5, <2>6 DEF Next
<1> QED BY <1>1, <1>2

(* What may be relied on of a node's handlers now could be before.         *)
LEMMA ConditionsLast ==
  ASSUME IndInv, TornEnds, [Next]_vars, NEW n \in Node
  PROVE  (OnlyGuarded(n)' => OnlyGuarded(n)) /\ (Whole(n)' => Whole(n))
<1>1. ASSUME OnlyGuarded(n)' PROVE OnlyGuarded(n)
  <2> SUFFICES ASSUME NEW t \in Task, tnode[t] = n, pc[t] # "idle" PROVE Guarded(t)
    BY DEF OnlyGuarded
  <2>1. pc'[t] # "idle" /\ kind'[t] = kind[t] /\ tnode'[t] = n
    BY HandlerKeeps
  <2> QED BY <1>1, <2>1 DEF OnlyGuarded, Guarded
<1>2. ASSUME Whole(n)' PROVE Whole(n)
  <2> SUFFICES ASSUME NEW t \in Task, tnode[t] = n, result[t] = "Torn" PROVE FALSE
    BY DEF Whole
  <2>1. pc[t] # "idle"
    BY DEF TornEnds
  <2>2. tnode'[t] = n /\ result'[t] = "Torn"
    BY <2>1, HandlerKeeps
  <2> QED BY <1>2, <2>2 DEF Whole
<1> QED BY <1>1, <1>2

(* The control points of deploy_to_node at which a version is known.       *)
Versioned == {"mark", "wait", "settle", "record"}

(* How a handler gets to the point where it trusts a table, or knows a     *)
(* version: it was there, or CheckRequest compared the policy, or          *)
(* store_policy or get_policy_history has just told it the version.        *)
LEMMA TaskMoves ==
  ASSUME IndInv, [Next]_vars, NEW u \in Task, pc'[u] \in Versioned \cup {"version"}
  PROVE  /\ tnode'[u] = tnode[u] /\ want'[u] = want[u] /\ kind'[u] = kind[u]
         /\ pc'[u] = "version" => \/ pc[u] = "version"
                                  \/ CheckRequest(u) /\ want[u] = current[tnode[u]]
         /\ pc'[u] # "version" => \/ pc[u] \in Versioned /\ ver'[u] = ver[u]
                                  \/ StorePolicy(u) /\ Writable(tnode[u])
                                       /\ ver'[u] = Len(history[tnode[u]]) + 1
                                  \/ ReadVersion(u) /\ ver'[u] = Len(history[tnode[u]])
<1>0. TaskTypeOK
  BY DEF IndInv, TypeOK
<1> DEFINE Goal ==
      /\ tnode'[u] = tnode[u] /\ want'[u] = want[u] /\ kind'[u] = kind[u]
      /\ pc'[u] = "version" => \/ pc[u] = "version"
                               \/ CheckRequest(u) /\ want[u] = current[tnode[u]]
      /\ pc'[u] # "version" => \/ pc[u] \in Versioned /\ ver'[u] = ver[u]
                               \/ StorePolicy(u) /\ Writable(tnode[u])
                                    /\ ver'[u] = Len(history[tnode[u]]) + 1
                               \/ ReadVersion(u) /\ ver'[u] = Len(history[tnode[u]])
<1> USE DEF Versioned
<1>1. ASSUME pc'[u] = pc[u] \/ (pc[u] \in Versioned /\ pc'[u] \in Versioned),
             kind'[u] = kind[u], tnode'[u] = tnode[u], want'[u] = want[u], ver'[u] = ver[u]
      PROVE  Goal
  BY <1>1
<1>2. ASSUME NEW t \in Task, StartTask(t) PROVE Goal
  <2>1. u # t
    BY <1>0, <1>2 DEF StartTask, DeployPolicy, RollbackPolicy, FsmRollback, ReadNode, GiveUp, Goto,
       TaskTypeOK
  <2>2. pc'[u] = pc[u] /\ kind'[u] = kind[u] /\ tnode'[u] = tnode[u] /\ want'[u] = want[u]
        /\ ver'[u] = ver[u]
    BY <1>0, <1>2, <2>1 DEF StartTask, DeployPolicy, RollbackPolicy, FsmRollback,
       ReadNode, GiveUp, Goto, TaskTypeOK
  <2> QED BY <1>1, <2>2
<1>3. ASSUME NEW t \in Task, TaskStep(t), u # t PROVE Goal
  <2>1. CASE FsmRollbackNode(t) \/ BeginDeploy(t) \/ RollbackHistory(t) \/ EndDeploy(t)
    BY <1>0, <1>1, <1>3, <2>1 DEF FsmRollbackNode, BeginDeploy, RollbackHistory, EndDeploy, ReadNode,
       GiveUp, Goto, TaskTypeOK
  <2>2. CASE CheckRequest(t) \/ ReadVersion(t) \/ StorePolicy(t) \/ MarkDeploying(t) \/ SettleState(t)
    BY <1>0, <1>1, <1>3, <2>2 DEF CheckRequest, ReadVersion, StorePolicy, MarkDeploying, SettleState,
       GiveUp, Goto, TaskTypeOK
  <2>3. CASE \E r \in DeploymentResult : AwaitAgent(t, r)
    BY <1>0, <1>1, <1>3, <2>3 DEF AwaitAgent, GiveUp, Goto, TaskTypeOK
  <2>4. CASE RecordDeployment(t) \/ StorageFails(t) \/ StoreTorn(t)
    BY <1>0, <1>1, <1>3, <2>4 DEF RecordDeployment, StorageFails, StoreTorn, GiveUp, Goto, TaskTypeOK
  <2> QED BY <1>3, <2>1, <2>2, <2>3, <2>4 DEF TaskStep
<1>4. ASSUME TaskStep(u) PROVE Goal
  <2>1. CASE FsmRollbackNode(u) \/ BeginDeploy(u) \/ RollbackHistory(u) \/ EndDeploy(u)
    BY <1>0, <2>1 DEF FsmRollbackNode, BeginDeploy, RollbackHistory, EndDeploy, ReadNode,
       GiveUp, Goto, TaskTypeOK
  <2>2. CASE CheckRequest(u)
    BY <1>0, <2>2 DEF CheckRequest, GiveUp, Goto, After, TaskTypeOK
  <2>3. CASE ReadVersion(u) \/ StorePolicy(u)
    BY <1>0, <2>3 DEF ReadVersion, StorePolicy, GiveUp, Goto, After, TaskTypeOK
  <2>4. CASE MarkDeploying(u) \/ SettleState(u)
    BY <1>0, <1>1, <2>4 DEF MarkDeploying, SettleState, Goto, TaskTypeOK
  <2>5. CASE \E r \in DeploymentResult : AwaitAgent(u, r)
    BY <1>0, <1>1, <2>5 DEF AwaitAgent, GiveUp, Goto, TaskTypeOK
  <2>6. CASE RecordDeployment(u) \/ StoreTorn(u)
    BY <1>0, <2>6 DEF RecordDeployment, StoreTorn, GiveUp, Goto, After, TaskTypeOK
  <2>7. CASE StorageFails(u)
    BY <1>0, <1>1, <2>7 DEF StorageFails, GiveUp, Goto, After, TaskTypeOK
  <2> QED BY <1>4, <2>1, <2>2, <2>3, <2>4, <2>5, <2>6, <2>7 DEF TaskStep
<1>5. ASSUME NEW t \in Task, Disconnect(t) PROVE Goal
  BY <1>0, <1>1, <1>5 DEF Disconnect, Goto, TaskTypeOK
<1>6. CASE Restart
  BY <1>0, <1>1, <1>6 DEF Restart, TaskTypeOK
<1>7. ASSUME NEW t \in Task, AgentCompile(t) \/ AgentApply(t) \/ AgentCancel(t) PROVE Goal
  BY <1>1, <1>7 DEF AgentCompile, AgentApply, AgentCancel, taskVars
<1>8. ASSUME NEW n \in Node, NodeStep(n) PROVE Goal
  BY <1>1, <1>8 DEF NodeStep, RegisterNode, SendHeartbeat, ReceiveHeartbeat, LoseHeartbeat,
     TimePasses, AgentStop, RemoveNode, RemoveVersions, RemoveGuard, RemoveRow, taskVars
<1>9. CASE MarkStaleNodes \/ UNCHANGED vars
  BY <1>1, <1>9 DEF MarkStaleNodes, vars, taskVars
<1> QED BY <1>2, <1>3, <1>4, <1>5, <1>6, <1>7, <1>8, <1>9 DEF Next

(* Only store_policy writes the versions and the policy of a node that is  *)
(* not being removed, and only record_deployment adds audit records.       *)
LEMMA TablesMove ==
  ASSUME IndInv, [Next]_vars, NEW n \in Node, removal'[n] = "none"
  PROVE  /\ \/ history'[n] = history[n] /\ current'[n] = current[n]
            \/ \E t \in Task : /\ tnode[t] = n /\ pc[t] = "store" /\ Writable(n)
                               /\ history'[n] = Append(history[n], want[t])
                               /\ StorePolicy(t) /\ current'[n] = want[t]
            \/ \E t \in Task : /\ tnode[t] = n /\ pc[t] = "store" /\ Present(n)
                               /\ history'[n] = Append(history[n], want[t])
                               /\ StoreTorn(t) /\ current'[n] = current[n]
         /\ \A d \in deployments' : \/ d \in deployments
                                    \/ \E t \in Task : pc[t] = "record" /\ d = RecordOf(t)
<1>0. StorageTypeOK /\ TaskTypeOK
  BY DEF IndInv, TypeOK
<1> DEFINE Kept == history'[n] = history[n] /\ current'[n] = current[n]
           Same == Kept /\ deployments' \subseteq deployments
<1>1. ASSUME UNCHANGED <<history, current, deployments>> PROVE Same
  BY <1>1
<1>2. ASSUME NEW t \in Task, StartTask(t) PROVE Same
  BY <1>1, <1>2 DEF StartTask, DeployPolicy, RollbackPolicy, FsmRollback, storageVars
<1>3. ASSUME NEW t \in Task, TaskStep(t), ~StorePolicy(t), ~StoreTorn(t), ~RecordDeployment(t)
      PROVE  Same
  BY <1>1, <1>3 DEF TaskStep, RollbackHistory, FsmRollbackNode, BeginDeploy, EndDeploy, CheckRequest,
     ReadVersion, MarkDeploying, AwaitAgent, SettleState, StorageFails, storageVars
<1>4. ASSUME NEW t \in Task, RecordDeployment(t)
      PROVE  Kept /\ pc[t] = "record" /\ deployments' \subseteq deployments \cup {RecordOf(t)}
  BY <1>4 DEF RecordDeployment
<1>5. ASSUME NEW t \in Task, StorePolicy(t) PROVE
        /\ deployments' \subseteq deployments
        /\ Kept \/ /\ tnode[t] = n /\ pc[t] = "store" /\ Writable(n)
                   /\ history'[n] = Append(history[n], want[t]) /\ current'[n] = want[t]
  BY <1>0, <1>5 DEF StorePolicy, StorageTypeOK
<1>6. ASSUME NEW t \in Task, StoreTorn(t) PROVE
        /\ deployments' \subseteq deployments /\ current'[n] = current[n]
        /\ Kept \/ /\ tnode[t] = n /\ pc[t] = "store" /\ Present(n)
                   /\ history'[n] = Append(history[n], want[t])
  BY <1>0, <1>6 DEF StoreTorn, StorageTypeOK
<1>7. ASSUME NEW t \in Task,
             Disconnect(t) \/ AgentCompile(t) \/ AgentApply(t) \/ AgentCancel(t)
      PROVE  Same
  BY <1>1, <1>7 DEF Disconnect, AgentCompile, AgentApply, AgentCancel, storageVars
<1>8. ASSUME NEW m \in Node, NodeStep(m) PROVE Same
  <2>1. CASE RemoveNode(m)
    BY <1>0, <2>1 DEF RemoveNode, StorageTypeOK
  <2>2. CASE RemoveVersions(m)
    BY <1>0, <2>2 DEF RemoveVersions, StorageTypeOK
  <2>3. CASE ~RemoveNode(m) /\ ~RemoveVersions(m)
    BY <1>1, <1>8, <2>3 DEF NodeStep, RegisterNode, SendHeartbeat, ReceiveHeartbeat, LoseHeartbeat,
       TimePasses, AgentStop, RemoveGuard, RemoveRow, storageVars
  <2> QED BY <2>1, <2>2, <2>3
<1>9. ASSUME MarkStaleNodes \/ Restart \/ UNCHANGED vars PROVE Same
  BY <1>1, <1>9 DEF MarkStaleNodes, Restart, vars, storageVars
<1>10. CASE Same
  BY <1>10
<1> DEFINE Writes == \E t \in Task : RecordDeployment(t) \/ StorePolicy(t) \/ StoreTorn(t)
<1>11. ASSUME NEW t \in Task, TaskStep(t) PROVE Same \/ Writes
  BY <1>3, <1>11
<1>12. CASE Writes
  BY <1>4, <1>5, <1>6, <1>12
<1> HIDE DEF Same, Writes
<1>13. Same \/ Writes
  BY <1>2, <1>7, <1>8, <1>9, <1>11 DEF Next
<1> QED BY <1>10, <1>12, <1>13

(* A version that exists goes on to exist, with its policy.                *)
LEMMA RecordedLasts ==
  ASSUME IndInv, TornEnds, [Next]_vars, NEW n \in Node, removal'[n] = "none",
         NEW v, NEW p, Recorded(n, v, p)
  PROVE  Recorded(n, v, p)'
<1>1. history[n] \in Seq(Policy) /\ v \in DOMAIN history[n]
  BY DEF IndInv, TypeOK, StorageTypeOK, Recorded
<1>2. Whole(n)' => Whole(n)
  BY ConditionsLast
<1>3. \A t \in Task : pc[t] = "store" => want[t] \in Policy
  BY DEF IndInv, TaskLocals, Critical
<1>4. history'[n] = history[n] \/ \E q \in Policy : history'[n] = Append(history[n], q)
  BY <1>3, TablesMove
<1>5. v \in DOMAIN history'[n] /\ history'[n][v] = history[n][v]
  BY <1>1, <1>4
<1> QED BY <1>2, <1>5 DEF Recorded

(* A handler on its way finds its node registered.                         *)
LEMMA UnderwayClaims ==
  ASSUME IndInv, NEW t \in Task, Underway(t), OnlyGuarded(tnode[t])
  PROVE  Guarded(t) /\ ~Fresh(tnode[t])
BY DEF IndInv, ClaimedIds, OnlyGuarded, Underway

LEMMA TablesStep == IndInv /\ TablesInv /\ [Next]_vars => TablesInv'
<1> SUFFICES ASSUME IndInv, TablesInv, [Next]_vars, NEW n \in Node, OnlyGuarded(n)'
             PROVE  NodeTables(n)'
  BY TornStep DEF TablesInv
<1>i. TornEnds
  BY DEF TablesInv
<1>c. OnlyGuarded(n) /\ (Whole(n)' => Whole(n)) /\ NodeTables(n)
  BY <1>i, ConditionsLast DEF TablesInv
<1>t. /\ \A t \in Task : pc[t] \in {"check", "version", "store", "mark", "wait", "settle", "record"} =>
           Underway(t) /\ want[t] \in Policy
      /\ history[n] \in Seq(Policy) /\ Len(history[n]) \in Nat
      /\ NoPolicy \notin Policy
  BY DeployAssumption DEF IndInv, TypeOK, StorageTypeOK, TaskLocals, Critical, Underway, Finished
<1>u. ASSUME Fresh(n), NEW t \in Task, tnode[t] = n PROVE ~Underway(t)
  BY <1>c, <1>u, UnderwayClaims
<1>1. ASSUME Fresh(n), removal'[n] = "none"
      PROVE  history'[n] = << >> /\ current'[n] = NoPolicy /\ \A d \in deployments' : d.node # n
  <2>1. history'[n] = history[n] /\ current'[n] = current[n]
    BY <1>1, <1>t, <1>u, TablesMove
  <2>2. \A d \in deployments' : d \in deployments \/ \E t \in Task : pc[t] = "record" /\ d = RecordOf(t)
    BY <1>1, TablesMove
  <2>3. \A t \in Task : pc[t] = "record" => RecordOf(t).node # n
    BY <1>1, <1>t, <1>u DEF RecordOf
  <2> QED BY <1>1, <1>c, <2>1, <2>2, <2>3 DEF NodeTables
<1>2. ASSUME Fresh(n)' PROVE Fresh(n) /\ removal'[n] = "none"
  BY <1>2, NodesComeAndGo DEF Fresh
<1>3. ASSUME Live(n)', ~Live(n)
      PROVE  /\ current'[n] = NoPolicy /\ \A d \in deployments' : d.node # n
             /\ \A t \in Task : tnode'[t] = n => TaskRecords(t)'
  <2>1. Fresh(n) /\ removal'[n] = "none"
    BY <1>3, NodesComeAndGo DEF Live
  <2>2. ASSUME NEW t \in Task, tnode'[t] = n PROVE pc'[t] \notin Versioned \cup {"version"}
    <3> SUFFICES ASSUME pc'[t] \in Versioned \cup {"version"} PROVE FALSE
      OBVIOUS
    <3>1. tnode[t] = n /\ pc[t] \in {"check", "version", "store", "mark", "wait", "settle", "record"}
      BY <2>2, TaskMoves DEF CheckRequest, StorePolicy, ReadVersion, Versioned
    <3> QED BY <1>t, <1>u, <2>1, <3>1
  <2>3. \A t \in Task : tnode'[t] = n => TaskRecords(t)'
    BY <2>2 DEF TaskRecords, Versioned
  <2> QED BY <1>1, <2>1, <2>3
<1>4. ASSUME Live(n)', Live(n)
      PROVE  /\ current'[n] # NoPolicy => Recorded(n, Len(history[n]), current[n])'
             /\ \A d \in deployments' : d.node = n => Recorded(n, d.version, d.policy)'
             /\ \A t \in Task : tnode'[t] = n => TaskRecords(t)'
  <2>0. removal'[n] = "none" /\ removal[n] = "none" /\ Present(n)
    BY <1>4 DEF Live
  <2>a. \A v, p : Recorded(n, v, p) => Recorded(n, v, p)'
    BY <1>i, <2>0, RecordedLasts
  <2>b. /\ current[n] # NoPolicy => Recorded(n, Len(history[n]), current[n])
        /\ \A d \in deployments : d.node = n => Recorded(n, d.version, d.policy)
        /\ \A t \in Task : tnode[t] = n => TaskRecords(t)
    BY <1>4, <1>c DEF NodeTables
  <2>n. ASSUME NEW p \in Policy, history'[n] = Append(history[n], p)
        PROVE  /\ Len(history'[n]) = Len(history[n]) + 1 /\ history'[n][Len(history[n]) + 1] = p
               /\ Len(history[n]) + 1 \in DOMAIN history'[n]
    BY <1>t, <2>n
  <2>1. current'[n] # NoPolicy => Recorded(n, Len(history[n]), current[n])'
    <3>1. CASE history'[n] = history[n] /\ current'[n] = current[n]
      BY <2>a, <2>b, <3>1 DEF Recorded
    <3>2. CASE \E t \in Task : /\ pc[t] = "store" /\ history'[n] = Append(history[n], want[t])
                               /\ current'[n] = want[t]
      BY <1>t, <2>n, <3>2 DEF Recorded
    <3>3. CASE \E t \in Task : /\ tnode[t] = n /\ pc[t] = "store" /\ StoreTorn(t)
                               /\ history'[n] = Append(history[n], want[t])
      <4>1. PICK t \in Task : /\ tnode[t] = n /\ pc[t] = "store" /\ StoreTorn(t)
                              /\ history'[n] = Append(history[n], want[t])
        BY <3>3
      <4>2. result'[t] = "Torn" /\ tnode'[t] = n
        BY <4>1 DEF StoreTorn, GiveUp, IndInv, TypeOK, TaskTypeOK
      <4>3. ~Whole(n)'
        BY <4>2 DEF Whole
      <4> QED BY <1>t, <2>n, <4>1, <4>3 DEF Recorded
    <3> QED BY <2>0, <3>1, <3>2, <3>3, TablesMove
  <2>2. ASSUME NEW d \in deployments', d.node = n PROVE Recorded(n, d.version, d.policy)'
    <3>1. CASE d \in deployments
      BY <2>2, <2>a, <2>b, <3>1
    <3>2. CASE \E t \in Task : pc[t] = "record" /\ d = RecordOf(t)
      <4>1. PICK t \in Task : pc[t] = "record" /\ d = RecordOf(t)
        BY <3>2
      <4>2. tnode[t] = n /\ d.version = ver[t] /\ d.policy = want[t]
        BY <2>2, <4>1 DEF RecordOf
      <4>3. Recorded(n, ver[t], want[t])
        BY <2>b, <4>1, <4>2 DEF TaskRecords
      <4> QED BY <2>a, <4>2, <4>3
    <3> QED BY <2>0, <3>1, <3>2, TablesMove
  <2>3. ASSUME NEW t \in Task, tnode'[t] = n PROVE TaskRecords(t)'
    <3>1. ASSUME pc'[t] = "version" PROVE want'[t] = current'[n]
      <4>1. tnode[t] = n /\ want'[t] = want[t]
        BY <2>3, <3>1, TaskMoves
      <4>2. CASE pc[t] = "version"
        <5>1. ASSUME NEW u \in Task, tnode[u] = n, pc[u] = "store" PROVE FALSE
          <6>1. Held(t) /\ Held(u)
            BY <1>c, <4>1, <4>2, <5>1 DEF OnlyGuarded, Held, Critical
          <6> QED BY <1>4, <4>1, <4>2, <5>1, <6>1 DEF IndInv, GuardedExclusion
        <5>2. current'[n] = current[n]
          BY <2>0, <5>1, TablesMove
        <5> QED BY <2>b, <4>1, <4>2, <5>2 DEF TaskRecords
      <4>3. CASE CheckRequest(t) /\ want[t] = current[tnode[t]]
        BY <4>1, <4>3 DEF CheckRequest, storageVars
      <4> QED BY <3>1, <4>2, <4>3, TaskMoves
    <3>2. ASSUME pc'[t] \in Versioned PROVE Recorded(n, ver[t], want[t])'
      <4>1. tnode[t] = n /\ want'[t] = want[t] /\ pc'[t] # "version"
        BY <2>3, <3>2, TaskMoves DEF Versioned
      <4>2. CASE pc[t] \in Versioned /\ ver'[t] = ver[t]
        <5>1. Recorded(n, ver[t], want[t])
          BY <2>b, <4>1, <4>2 DEF TaskRecords, Versioned
        <5>2. \A v, p : v = ver'[t] /\ p = want'[t] /\ Recorded(n, v, p)' => Recorded(n, ver[t], want[t])'
          BY DEF Recorded
        <5> QED BY <2>a, <4>1, <4>2, <5>1, <5>2
      <4>3. CASE StorePolicy(t) /\ Writable(tnode[t]) /\ ver'[t] = Len(history[tnode[t]]) + 1
        <5>1. pc[t] = "store" /\ history'[n] = Append(history[n], want[t])
          BY <4>1, <4>3 DEF StorePolicy, IndInv, TypeOK, StorageTypeOK
        <5> QED BY <1>t, <2>n, <4>1, <4>3, <5>1 DEF Recorded
      <4>4. CASE ReadVersion(t) /\ ver'[t] = Len(history[tnode[t]])
        <5>1. pc[t] = "version" /\ UNCHANGED storageVars
          BY <4>4 DEF ReadVersion
        <5>2. want[t] = current[n] /\ want[t] \in Policy
          BY <1>t, <2>b, <4>1, <5>1 DEF TaskRecords
        <5>3. Recorded(n, Len(history[n]), want[t])
          BY <1>t, <2>b, <5>2
        <5> QED BY <1>c, <4>1, <4>4, <5>1, <5>3 DEF Recorded, storageVars
      <4> QED BY <3>2, <4>1, <4>2, <4>3, <4>4, TaskMoves
    <3> QED BY <2>3, <3>1, <3>2 DEF TaskRecords, Versioned
  <2> QED BY <2>1, <2>2, <2>3
<1> QED BY <1>1, <1>2, <1>3, <1>4 DEF NodeTables

LEMMA TablesInit == Init => TablesInv
BY DEF Init, TablesInv, TornEnds, NodeTables, Live, Present

(* Every audit record of a registered node names a version that exists and *)
(* that holds the policy the record is about, for any handlers, removals,  *)
(* disconnections, restarts and failures (record_deployment).              *)
THEOREM RecordsNameVersions == Spec => []RecordedVersionExists
<1>1. IndInv /\ TablesInv => RecordedVersionExists
  <2> SUFFICES ASSUME IndInv, TablesInv, NEW d \in deployments, Live(d.node), OnlyGuarded(d.node)
               PROVE  Recorded(d.node, d.version, d.policy)
    BY DEF RecordedVersionExists, Recorded
  <2>1. d.node \in Node
    BY DEF IndInv, TypeOK, StorageTypeOK, DeploymentRecord
  <2> QED BY <2>1 DEF TablesInv, NodeTables
<1> QED BY <1>1, Inductive, TablesInit, TablesStep, PTL DEF Spec
-----------------------------------------------------------------------------
(***************************************************************************)
(* Back from Offline.                                                      *)
(***************************************************************************)
(* update_node_state with a state of deploy_to_node never leaves Offline.  *)
LEMMA DeployKeepsOffline ==
  ASSUME NEW n \in Node, NEW m \in Node, NEW s \in {"Deploying", "Active", "Error"},
         nodeState[n] = "Offline", UpdateNodeState(m, s), StorageTypeOK
  PROVE  nodeState'[n] = "Offline"
<1>1. ~CanTransition("Offline", s)
  BY DEF CanTransition, ValidTransitions
<1> QED BY <1>1 DEF UpdateNodeState, StorageTypeOK

(* A node the reaper took Offline comes back by a heartbeat only, or is    *)
(* removed: the deploy that was under way when the reaper ran cannot make  *)
(* it Active or Error any more (deploy_to_node's update_node_state).       *)
THEOREM HeartbeatsRevive == Spec => OnlyHeartbeatRevives
<1> DEFINE Revived(n) == nodeState'[n] = "Absent" \/ nodeState'[n] = hb[n]
           Step == \A n \in Node : nodeState[n] = "Offline" /\ nodeState'[n] # "Offline" => Revived(n)
<1>1. ASSUME IndInv, [Next]_vars, NEW n \in Node,
             nodeState[n] = "Offline", nodeState'[n] # "Offline"
      PROVE  Revived(n)
  <2>0. StorageTypeOK /\ TaskTypeOK
    BY <1>1 DEF IndInv, TypeOK
  <2>1. nodeState' # nodeState
    BY <1>1
  <2>2. ~UNCHANGED vars
    BY <2>1 DEF vars, storageVars
  <2>3. ASSUME NEW t \in Task, StartTask(t) PROVE FALSE
    BY <2>1, <2>3 DEF StartTask, DeployPolicy, RollbackPolicy, FsmRollback, storageVars
  <2>4. ASSUME NEW t \in Task, TaskStep(t) PROVE FALSE
    <3>1. CASE MarkDeploying(t)
      BY <1>1, <2>0, <3>1, DeployKeepsOffline DEF MarkDeploying, TaskTypeOK
    <3>2. CASE SettleState(t)
      BY <1>1, <2>0, <3>2, DeployKeepsOffline DEF SettleState, TaskTypeOK
    <3>3. CASE ~MarkDeploying(t) /\ ~SettleState(t)
      BY <2>1, <2>4, <3>3 DEF TaskStep, RollbackHistory, FsmRollbackNode, BeginDeploy, EndDeploy,
         CheckRequest, ReadVersion, StorePolicy, AwaitAgent, RecordDeployment, StorageFails,
         StoreTorn, storageVars
    <3> QED BY <3>1, <3>2, <3>3
  <2>5. ASSUME NEW t \in Task,
               Disconnect(t) \/ AgentCompile(t) \/ AgentApply(t) \/ AgentCancel(t)
        PROVE  FALSE
    BY <2>1, <2>5 DEF Disconnect, AgentCompile, AgentApply, AgentCancel, storageVars
  <2>6. ASSUME NEW m \in Node, NodeStep(m) PROVE Revived(n)
    <3>1. CASE RegisterNode(m)
      BY <1>1, <2>0, <3>1 DEF RegisterNode, Fresh, StorageTypeOK
    <3>2. CASE ReceiveHeartbeat(m)
      BY <1>1, <2>0, <3>2 DEF ReceiveHeartbeat, StorageTypeOK
    <3>3. CASE RemoveNode(m) \/ RemoveRow(m)
      BY <1>1, <2>0, <3>3 DEF RemoveNode, RemoveRow, StorageTypeOK
    <3>4. CASE SendHeartbeat(m) \/ LoseHeartbeat(m) \/ TimePasses(m) \/ AgentStop(m)
               \/ RemoveVersions(m) \/ RemoveGuard(m)
      BY <2>1, <3>4 DEF SendHeartbeat, LoseHeartbeat, TimePasses, AgentStop, RemoveVersions,
         RemoveGuard, storageVars
    <3> QED BY <2>6, <3>1, <3>2, <3>3, <3>4 DEF NodeStep
  <2>7. ~MarkStaleNodes
    BY <1>1 DEF MarkStaleNodes
  <2>8. ~Restart
    BY <2>1 DEF Restart
  <2> QED BY <1>1, <2>2, <2>3, <2>4, <2>5, <2>6, <2>7, <2>8 DEF Next
<1>2. IndInv /\ [Next]_vars => [Step]_vars
  BY <1>1
<1>3. Step <=> \A n \in Node : nodeState[n] = "Offline" /\ nodeState'[n] # "Offline" =>
                 nodeState'[n] = "Absent" \/ nodeState'[n] = hb[n]
  OBVIOUS
<1> HIDE DEF Step
<1> QED BY <1>2, <1>3, Inductive, PTL DEF Spec, OnlyHeartbeatRevives
-----------------------------------------------------------------------------
(***************************************************************************)
(* The refinement of SerialDeploy.                                         *)
(***************************************************************************)
(* Every handler takes the deploy guard.                                   *)
AllGuarded == \A t \in Task : Guarded(t)

LEMMA GuardedInit == Init => AllGuarded
BY DEF Init, AllGuarded, Guarded, GuardedKind

LEMMA GuardedStep ==
  ASSUME "fsmRollback" \notin Kinds, IndInv, AllGuarded, [Next]_vars
  PROVE  AllGuarded'
<1> SUFFICES ASSUME NEW u \in Task PROVE kind'[u] \in GuardedKind
  BY DEF AllGuarded, Guarded
<1>0. TaskTypeOK /\ kind[u] \in GuardedKind
  BY DEF IndInv, TypeOK, AllGuarded, Guarded
<1>1. ASSUME NEW t \in Task, StartTask(t) PROVE kind'[u] \in GuardedKind
  BY <1>0, <1>1 DEF StartTask, DeployPolicy, RollbackPolicy, FsmRollback, GuardedKind, TaskTypeOK
<1>2. CASE UNCHANGED kind
  BY <1>0, <1>2
<1>3. ASSUME NEW t \in Task, TaskStep(t) PROVE UNCHANGED kind
  BY <1>3 DEF TaskStep, RollbackHistory, FsmRollbackNode, BeginDeploy, EndDeploy, CheckRequest,
     ReadVersion, StorePolicy, MarkDeploying, AwaitAgent, SettleState, RecordDeployment,
     StorageFails, StoreTorn
<1>4. ASSUME NEW t \in Task,
             Disconnect(t) \/ AgentCompile(t) \/ AgentApply(t) \/ AgentCancel(t)
      PROVE  UNCHANGED kind
  BY <1>4 DEF Disconnect, AgentCompile, AgentApply, AgentCancel, taskVars
<1>5. ASSUME NEW n \in Node, NodeStep(n) PROVE UNCHANGED kind
  BY <1>5 DEF NodeStep, RegisterNode, SendHeartbeat, ReceiveHeartbeat, LoseHeartbeat,
     TimePasses, AgentStop, RemoveNode, RemoveVersions, RemoveGuard, RemoveRow, taskVars
<1>6. MarkStaleNodes \/ Restart \/ UNCHANGED vars => UNCHANGED kind
  BY DEF MarkStaleNodes, Restart, vars, taskVars
<1> QED BY <1>1, <1>2, <1>3, <1>4, <1>5, <1>6 DEF Next

(* What SerialDeploy sees of node n.                                       *)
LEMMA Seen ==
  ASSUME NEW n \in Node
  PROVE  /\ memberBar[n] = IF Live(n) THEN "in" ELSE IF Fresh(n) THEN "new" ELSE "out"
         /\ ~Live(n) \/ Owners(n) = {} => ownerBar[n] = NoTask
         /\ \A t \in Task : Live(n) /\ Owners(n) = {t} => ownerBar[n] = t
         /\ logBar[n] = IF Live(n) THEN history[n] ELSE << >>
<1>1. ASSUME NEW t \in Task, Live(n), Owners(n) = {t} PROVE ownerBar[n] = t
  BY <1>1 DEF ownerBar
<1> QED BY <1>1 DEF memberBar, ownerBar, logBar

LEMMA SeenNext ==
  ASSUME NEW n \in Node
  PROVE  /\ memberBar'[n] = IF Live(n)' THEN "in" ELSE IF Fresh(n)' THEN "new" ELSE "out"
         /\ ~Live(n)' \/ Owners(n)' = {} => ownerBar'[n] = NoTask
         /\ \A t \in Task : Live(n)' /\ Owners(n)' = {t} => ownerBar'[n] = t
         /\ logBar'[n] = IF Live(n)' THEN history'[n] ELSE << >>
<1>1. ASSUME NEW t \in Task, Live(n)', Owners(n)' = {t} PROVE ownerBar'[n] = t
  BY <1>1 DEF ownerBar
<1> QED BY <1>1 DEF memberBar, ownerBar, logBar

(* The node looks as before.                                               *)
Kept(n) == /\ Live(n)' = Live(n) /\ Fresh(n)' = Fresh(n)
           /\ Live(n) => history'[n] = history[n] /\ Owners(n)' = Owners(n)

LEMMA KeptIsSeen ==
  ASSUME NEW n \in Node, Kept(n)
  PROVE  memberBar'[n] = memberBar[n] /\ ownerBar'[n] = ownerBar[n] /\ logBar'[n] = logBar[n]
<1> DEFINE Pick(S) == CHOOSE t \in Task : t \in S
<1>1. /\ ownerBar[n] = IF Live(n) /\ Owners(n) # {} THEN Pick(Owners(n)) ELSE NoTask
      /\ ownerBar'[n] = IF Live(n)' /\ Owners(n)' # {} THEN Pick(Owners(n)') ELSE NoTask
  BY DEF ownerBar
<1> HIDE DEF Pick
<1> QED BY <1>1 DEF Kept, memberBar, logBar

LEMMA Functions ==
  /\ memberBar = [n \in Node |-> memberBar[n]] /\ memberBar' = [n \in Node |-> memberBar'[n]]
  /\ ownerBar = [n \in Node |-> ownerBar[n]] /\ ownerBar' = [n \in Node |-> ownerBar'[n]]
  /\ logBar = [n \in Node |-> logBar[n]] /\ logBar' = [n \in Node |-> logBar'[n]]
BY DEF memberBar, ownerBar, logBar

(* The one owner of a live node.                                           *)
LEMMA OneOwner ==
  ASSUME IndInv, NEW t \in Task, Held(t), Live(tnode[t])
  PROVE  Owners(tnode[t]) = {t}
BY DEF IndInv, GuardedExclusion, Owners

LEMMA SerialInit == Init => Serial!AInit
<1> SUFFICES ASSUME Init PROVE Serial!AInit
  OBVIOUS
<1>1. ASSUME NEW n \in Node PROVE Fresh(n) /\ ~Live(n)
  BY <1>1 DEF Init, Fresh, Live, Present
<1> QED BY <1>1 DEF Serial!AInit, memberBar, ownerBar, logBar

(* A step that leaves every node as it was is a stuttering step.           *)
LEMMA Stutters ==
  ASSUME \A n \in Node : Kept(n)
  PROVE  memberBar' = memberBar /\ ownerBar' = ownerBar /\ logBar' = logBar
BY KeptIsSeen, Functions

(* A node is kept if the tables of nodes and versions are, and no handler  *)
(* enters or leaves deploy_to_node on it.                                  *)
LEMMA NodeIsKept ==
  ASSUME NEW n \in Node, Present(n)' = Present(n), removal'[n] = removal[n],
         Live(n) => history'[n] = history[n],
         \A u \in Task : (Held(u)' /\ tnode'[u] = n) = (Held(u) /\ tnode[u] = n)
  PROVE  Kept(n)
BY DEF Kept, Live, Fresh, Present, Owners

(* update_node_state neither adds nor removes a row.                       *)
LEMMA UpdateKeepsRows ==
  ASSUME StorageTypeOK, NEW n \in Node, NEW m \in Node,
         NEW s \in {"Deploying", "Active", "Error"}, UpdateNodeState(m, s)
  PROVE  Present(n)' = Present(n)
BY DEF UpdateNodeState, Present, StorageTypeOK

(* Most of a handler's steps change nothing that SerialDeploy sees.        *)
LEMMA HandlerIsQuiet ==
  ASSUME IndInv, AllGuarded, NEW t \in Task, StartTask(t) \/ TaskStep(t),
         ~BeginDeploy(t), ~EndDeploy(t), ~StorePolicy(t), ~StoreTorn(t), NEW n \in Node
  PROVE  Kept(n)
<1>0. StorageTypeOK /\ TaskTypeOK /\ Guarded(t)
  BY DEF IndInv, TypeOK, AllGuarded
<1>a. After(t) = "release"
  BY <1>0 DEF After
<1>1. CASE StartTask(t)
  <2>1. pc[t] = "idle" /\ pc'[t] \in {"guard", "history", "find", "done"} /\ UNCHANGED storageVars
    BY <1>0, <1>1 DEF StartTask, DeployPolicy, RollbackPolicy, FsmRollback, ReadNode, GiveUp, Goto,
       TaskTypeOK
  <2>2. \A u \in Task : u # t => pc'[u] = pc[u] /\ kind'[u] = kind[u] /\ tnode'[u] = tnode[u]
    BY <1>0, <1>1 DEF StartTask, DeployPolicy, RollbackPolicy, FsmRollback, ReadNode, GiveUp, Goto,
       TaskTypeOK
  <2>3. \A u \in Task : (Held(u)' /\ tnode'[u] = n) = (Held(u) /\ tnode[u] = n)
    BY <2>1, <2>2 DEF Held, Guarded, Critical
  <2> QED BY <2>1, <2>3, NodeIsKept DEF storageVars, Present
<1>2. ASSUME UNCHANGED <<history, removal, kind, tnode>>, Present(n)' = Present(n),
             \A u \in Task : u # t => pc'[u] = pc[u],
             (pc[t] \in Critical) = (pc'[t] \in Critical)
      PROVE  Kept(n)
  <2>1. \A u \in Task : (Held(u)' /\ tnode'[u] = n) = (Held(u) /\ tnode[u] = n)
    BY <1>2 DEF Held, Guarded
  <2> QED BY <1>2, <2>1, NodeIsKept
<1>3. CASE RollbackHistory(t)
  BY <1>0, <1>2, <1>3 DEF RollbackHistory, GiveUp, Goto, TaskTypeOK, Critical, storageVars, Present
<1>4. ~FsmRollbackNode(t)
  BY <1>0 DEF FsmRollbackNode, IndInv, TaskLocals
<1>5. CASE CheckRequest(t) \/ ReadVersion(t)
  BY <1>0, <1>a, <1>2, <1>5 DEF CheckRequest, ReadVersion, GiveUp, Goto, TaskTypeOK, Critical,
     storageVars, Present
<1>6. CASE MarkDeploying(t) \/ SettleState(t)
  <2>1. Present(n)' = Present(n)
    BY <1>0, <1>6, UpdateKeepsRows DEF MarkDeploying, SettleState, TaskTypeOK
  <2> QED BY <1>0, <1>2, <1>6, <2>1 DEF MarkDeploying, SettleState, Goto, TaskTypeOK, Critical
<1>7. CASE \E r \in DeploymentResult : AwaitAgent(t, r)
  BY <1>0, <1>2, <1>7 DEF AwaitAgent, GiveUp, Goto, TaskTypeOK, Critical, storageVars, Present
<1>8. CASE RecordDeployment(t)
  BY <1>0, <1>a, <1>2, <1>8 DEF RecordDeployment, Goto, TaskTypeOK, Critical, Present
<1>9. CASE StorageFails(t)
  BY <1>0, <1>a, <1>2, <1>9 DEF StorageFails, GiveUp, Goto, TaskTypeOK, Critical, storageVars, Present
<1> QED BY <1>1, <1>3, <1>4, <1>5, <1>6, <1>7, <1>8, <1>9 DEF TaskStep

(* begin_deploy: on a live node whose guard is free nobody owns the log.   *)
LEMMA BeginIsAcquire ==
  ASSUME IndInv, AllGuarded, NEW t \in Task, BeginDeploy(t)
  PROVE  Serial!ANext \/ UNCHANGED Serial!avars
<1>n. PICK n \in Node : n = tnode[t]
  BY DEF IndInv, TypeOK, TaskTypeOK
<1>0. TaskTypeOK /\ Guarded(t) /\ n = tnode[t] /\ pc[t] = "guard" /\ ~Held(t)
  BY <1>n DEF IndInv, TypeOK, AllGuarded, BeginDeploy, Held, Critical
<1>1. /\ UNCHANGED <<nodeState, history, removal, kind, tnode>>
      /\ \A u \in Task : u # t => pc'[u] = pc[u]
  BY <1>0 DEF BeginDeploy, GiveUp, Goto, TaskTypeOK
<1>2. ASSUME NEW m \in Node, m # n \/ ~Live(n) \/ ~Held(t)' PROVE Kept(m)
  <2>1. CASE m # n \/ ~Held(t)'
    <3>1. \A u \in Task : (Held(u)' /\ tnode'[u] = m) = (Held(u) /\ tnode[u] = m)
      BY <1>0, <1>1, <2>1 DEF Held, Guarded
    <3> QED BY <1>1, <3>1, NodeIsKept DEF Present
  <2>2. CASE m = n /\ ~Live(n)
    BY <1>1, <2>2 DEF Kept, Live, Fresh, Present
  <2> QED BY <1>2, <2>1, <2>2
<1>3. CASE ~Live(n) \/ ~Held(t)'
  BY <1>2, <1>3, Stutters DEF Serial!avars
<1>4. CASE Live(n) /\ Held(t)'
  <2>1. n \notin deploying
    BY <1>0, <1>4 DEF BeginDeploy, GiveUp, Goto, Held, Critical, TaskTypeOK
  <2>2. Owners(n) = {}
    BY <1>4, <2>1 DEF Owners, IndInv, GuardedExclusion
  <2>3. Owners(n)' = {t}
    BY <1>0, <1>1, <1>4, <2>2 DEF Owners, Held, Guarded
  <2>4. Live(n)' /\ history'[n] = history[n]
    BY <1>1, <1>4 DEF Live, Present
  <2>5. memberBar[n] = "in" /\ ownerBar[n] = NoTask
    BY <1>0, <1>4, <2>2, Seen
  <2>6. memberBar'[n] = memberBar[n] /\ ownerBar'[n] = t /\ logBar'[n] = logBar[n]
    BY <1>0, <1>4, <2>3, <2>4, Seen, SeenNext
  <2>7. \A m \in Node : m # n => /\ memberBar'[m] = memberBar[m] /\ ownerBar'[m] = ownerBar[m]
                                 /\ logBar'[m] = logBar[m]
    BY <1>2, KeptIsSeen
  <2>8. memberBar' = memberBar /\ logBar' = logBar
    BY <2>6, <2>7, Functions
  <2>9. ownerBar' = [ownerBar EXCEPT ![n] = t]
    BY <2>6, <2>7, Functions
  <2>10. Serial!Acquire(t, n)
    BY <2>5, <2>8, <2>9 DEF Serial!Acquire
  <2> QED BY <1>0, <2>10 DEF Serial!ANext
<1> QED BY <1>3, <1>4

(* A step after which no handler owns the logs of the nodes N.             *)
LEMMA Releases ==
  ASSUME NEW N \in SUBSET Node, N # {}, \A m \in Node \ N : Kept(m),
         \A m \in N : /\ Live(m)' = Live(m) /\ Fresh(m)' = Fresh(m)
                      /\ Live(m) => history'[m] = history[m] /\ Owners(m)' = {}
  PROVE  Serial!ANext
<1>1. ASSUME NEW m \in Node
      PROVE  /\ memberBar'[m] = memberBar[m] /\ logBar'[m] = logBar[m]
             /\ ownerBar'[m] = IF m \in N THEN NoTask ELSE ownerBar[m]
  <2>1. CASE m \in N
    BY <2>1, Seen, SeenNext
  <2>2. CASE m \notin N
    BY <2>2, KeptIsSeen
  <2> QED BY <2>1, <2>2
<1>2. memberBar' = memberBar /\ logBar' = logBar
  BY <1>1, Functions
<1>3. ownerBar' = [m \in Node |-> IF m \in N THEN NoTask ELSE ownerBar[m]]
  BY <1>1, Functions
<1> QED BY <1>2, <1>3 DEF Serial!ANext, Serial!Release

(* end_deploy *)
LEMMA EndIsRelease ==
  ASSUME IndInv, NEW t \in Task, EndDeploy(t)
  PROVE  Serial!ANext
<1>n. PICK n \in Node : n = tnode[t]
  BY DEF IndInv, TypeOK, TaskTypeOK
<1>0. Held(t) /\ ~Held(t)'
  BY DEF IndInv, TypeOK, TaskTypeOK, TaskLocals, EndDeploy, Goto, Held, Guarded, Critical
<1>1. /\ UNCHANGED <<nodeState, history, removal, kind, tnode>>
      /\ \A u \in Task : u # t => pc'[u] = pc[u]
  BY DEF IndInv, TypeOK, TaskTypeOK, EndDeploy, Goto
<1>2. ASSUME NEW m \in Node \ {n} PROVE Kept(m)
  <2>1. \A u \in Task : (Held(u)' /\ tnode'[u] = m) = (Held(u) /\ tnode[u] = m)
    BY <1>n, <1>1 DEF Held, Guarded
  <2> QED BY <1>1, <2>1, NodeIsKept DEF Present
<1>3. /\ Live(n)' = Live(n) /\ Fresh(n)' = Fresh(n) /\ history'[n] = history[n]
  BY <1>1 DEF Live, Fresh, Present
<1>4. Live(n) => Owners(n)' = {}
  <2>1. Live(n) => Owners(n) = {t}
    BY <1>n, <1>0, OneOwner
  <2> QED BY <1>0, <1>1, <2>1 DEF Owners, Held, Guarded
<1>5. {n} \in SUBSET Node /\ {n} # {}
  OBVIOUS
<1> QED BY <1>2, <1>3, <1>4, <1>5, Releases

(* A dropped handler no longer extends the log, whatever became of the     *)
(* guard it leaks.                                                         *)
LEMMA DropIsRelease ==
  ASSUME IndInv, NEW t \in Task, Disconnect(t)
  PROVE  Serial!ANext \/ UNCHANGED Serial!avars
<1>n. PICK n \in Node : n = tnode[t]
  BY DEF IndInv, TypeOK, TaskTypeOK
<1>0. ~Held(t)'
  BY DEF IndInv, TypeOK, TaskTypeOK, Disconnect, Goto, Held, Critical
<1>1. /\ UNCHANGED <<nodeState, history, removal, kind, tnode>>
      /\ \A u \in Task : u # t => pc'[u] = pc[u]
  BY DEF IndInv, TypeOK, TaskTypeOK, Disconnect, Goto, storageVars
<1>2. ASSUME NEW m \in Node, m # n \/ ~Held(t) PROVE Kept(m)
  <2>1. \A u \in Task : (Held(u)' /\ tnode'[u] = m) = (Held(u) /\ tnode[u] = m)
    BY <1>n, <1>0, <1>1, <1>2 DEF Held, Guarded
  <2> QED BY <1>1, <2>1, NodeIsKept DEF Present
<1>3. CASE ~Held(t)
  BY <1>2, <1>3, Stutters DEF Serial!avars
<1>4. CASE Held(t)
  <2>1. Live(n)' = Live(n) /\ Fresh(n)' = Fresh(n) /\ history'[n] = history[n]
    BY <1>1 DEF Live, Fresh, Present
  <2>2. Live(n) => Owners(n) = {t}
    BY <1>n, <1>4, OneOwner
  <2>3. Live(n) => Owners(n)' = {}
    BY <1>0, <1>1, <2>2 DEF Owners, Held, Guarded
  <2>4. {n} \in SUBSET Node /\ {n} # {}
    OBVIOUS
  <2> QED BY <1>2, <2>1, <2>3, <2>4, Releases
<1> QED BY <1>3, <1>4

(* A restart ends every handler.                                           *)
LEMMA RestartIsRelease ==
  ASSUME IndInv, Restart
  PROVE  Serial!ANext
<1>1. \A u \in Task : ~Held(u)'
  BY DEF Restart, Held, Critical, Finished
<1>2. ASSUME NEW m \in Node
      PROVE  /\ Live(m)' = Live(m) /\ Fresh(m)' = Fresh(m)
             /\ history'[m] = history[m] /\ Owners(m)' = {}
  <2>1. (removal'[m] = "none") = (removal[m] = "none") /\ UNCHANGED <<nodeState, history>>
    BY DEF Restart, IndInv, TypeOK, StorageTypeOK
  <2> QED BY <1>1, <2>1 DEF Live, Fresh, Present, Owners
<1>3. Node \in SUBSET Node /\ Node # {}
  BY DeployAssumption
<1> QED BY <1>2, <1>3, Releases

(* store_policy, also one that is cut in two: the owner commits a version. *)
LEMMA StoreIsCommit ==
  ASSUME IndInv, AllGuarded, NEW t \in Task, StorePolicy(t) \/ StoreTorn(t)
  PROVE  Serial!ANext \/ UNCHANGED Serial!avars
<1>n. PICK n \in Node : n = tnode[t]
  BY DEF IndInv, TypeOK, TaskTypeOK
<1>0. /\ StorageTypeOK /\ TaskTypeOK /\ Guarded(t) /\ pc[t] = "store"
      /\ want[t] \in Policy /\ Held(t)
  BY DEF IndInv, TypeOK, TaskLocals, AllGuarded, StorePolicy, StoreTorn, Held, Critical
<1>1. /\ UNCHANGED <<nodeState, removal, kind, tnode>> /\ pc'[t] \in Critical
      /\ \A u \in Task : u # t => pc'[u] = pc[u]
  BY <1>0 DEF StorePolicy, StoreTorn, After, GiveUp, Goto, TaskTypeOK, Critical
<1>2. /\ \A m \in Node : m # n => history'[m] = history[m]
      /\ history'[n] = history[n] \/ history'[n] = Append(history[n], want[t])
  BY <1>n, <1>0 DEF StorePolicy, StoreTorn, StorageTypeOK
<1>3. \A m \in Node, u \in Task : (Held(u)' /\ tnode'[u] = m) = (Held(u) /\ tnode[u] = m)
  BY <1>0, <1>1 DEF Held, Guarded
<1>4. ASSUME NEW m \in Node, ~Live(m) \/ history'[m] = history[m] PROVE Kept(m)
  BY <1>1, <1>3, <1>4, NodeIsKept DEF Present
<1>5. CASE ~Live(n) \/ history'[n] = history[n]
  BY <1>2, <1>4, <1>5, Stutters DEF Serial!avars
<1>6. CASE Live(n) /\ history'[n] = Append(history[n], want[t])
  <2>1. Owners(n) = {t}
    BY <1>n, <1>0, <1>6, OneOwner
  <2>2. Live(n)' /\ Owners(n)' = Owners(n)
    BY <1>1, <1>3, <1>6 DEF Live, Present, Owners
  <2>3. memberBar[n] = "in" /\ ownerBar[n] = t /\ logBar[n] = history[n]
    BY <1>6, <2>1, Seen
  <2>4. memberBar'[n] = "in" /\ ownerBar'[n] = t /\ logBar'[n] = Append(logBar[n], want[t])
    BY <1>6, <2>1, <2>2, <2>3, SeenNext
  <2>5. \A m \in Node : m # n => /\ memberBar'[m] = memberBar[m] /\ ownerBar'[m] = ownerBar[m]
                                 /\ logBar'[m] = logBar[m]
    BY <1>2, <1>4, KeptIsSeen
  <2>6. memberBar' = memberBar /\ ownerBar' = ownerBar
    BY <2>3, <2>4, <2>5, Functions
  <2>7. logBar' = [logBar EXCEPT ![n] = Append(@, want[t])]
    BY <2>4, <2>5, Functions
  <2>8. t # NoTask
    BY DeployAssumption
  <2>9. Serial!Commit(n, want[t])
    BY <2>3, <2>6, <2>7, <2>8 DEF Serial!Commit
  <2> QED BY <1>0, <2>9 DEF Serial!ANext
<1> QED BY <1>2, <1>5, <1>6

(* register_node: an id that was free has no handler and no versions.      *)
LEMMA RegisterIsJoin ==
  ASSUME IndInv, TablesInv, AllGuarded, NEW n \in Node, RegisterNode(n)
  PROVE  Serial!ANext
<1>0. Fresh(n) /\ ~Live(n)
  BY DEF RegisterNode, Fresh, Live, Present
<1>1. /\ UNCHANGED <<history, removal, pc, kind, tnode>> /\ Live(n)' /\ ~Fresh(n)'
      /\ \A m \in Node : m # n => nodeState'[m] = nodeState[m]
  BY <1>0 DEF RegisterNode, taskVars, IndInv, TypeOK, StorageTypeOK, Fresh, Live, Present
<1>2. \A m \in Node, u \in Task : (Held(u)' /\ tnode'[u] = m) = (Held(u) /\ tnode[u] = m)
  BY <1>1 DEF Held, Guarded
<1>3. ASSUME NEW m \in Node, m # n PROVE Kept(m)
  BY <1>1, <1>2, <1>3, NodeIsKept DEF Present
<1>4. Owners(n)' = {}
  <2>1. \A u \in Task : ~(Held(u) /\ tnode[u] = n)
    BY <1>0 DEF IndInv, ClaimedIds, Held, Underway, Critical, Finished
  <2> QED BY <1>2, <2>1 DEF Owners
<1>5. history[n] = << >>
  BY <1>0 DEF TablesInv, NodeTables, AllGuarded, OnlyGuarded
<1>6. memberBar[n] = "new" /\ ownerBar[n] = NoTask /\ logBar[n] = << >>
  BY <1>0, Seen
<1>7. memberBar'[n] = "in" /\ ownerBar'[n] = NoTask /\ logBar'[n] = << >>
  BY <1>1, <1>4, <1>5, SeenNext
<1>8. \A m \in Node : m # n => /\ memberBar'[m] = memberBar[m] /\ ownerBar'[m] = ownerBar[m]
                               /\ logBar'[m] = logBar[m]
  BY <1>3, KeptIsSeen
<1>9. ownerBar' = ownerBar /\ logBar' = logBar
  BY <1>6, <1>7, <1>8, Functions
<1>10. memberBar' = [memberBar EXCEPT ![n] = "in"]
  BY <1>7, <1>8, Functions
<1> QED BY <1>6, <1>9, <1>10 DEF Serial!ANext, Serial!Join

(* remove_node *)
LEMMA RemoveIsLeave ==
  ASSUME IndInv, NEW n \in Node, RemoveNode(n)
  PROVE  Serial!ANext
<1>0. Live(n)
  BY DEF RemoveNode
<1>1. /\ UNCHANGED <<pc, kind, tnode>> /\ removal'[n] # "none"
      /\ \A m \in Node : m # n => /\ nodeState'[m] = nodeState[m] /\ removal'[m] = removal[m]
                                  /\ history'[m] = history[m]
  BY DEF RemoveNode, taskVars, IndInv, TypeOK, StorageTypeOK
<1>2. \A m \in Node, u \in Task : (Held(u)' /\ tnode'[u] = m) = (Held(u) /\ tnode[u] = m)
  BY <1>1 DEF Held, Guarded
<1>3. ASSUME NEW m \in Node, m # n PROVE Kept(m)
  BY <1>1, <1>2, <1>3, NodeIsKept DEF Present
<1>4. ~Live(n)' /\ ~Fresh(n)'
  BY <1>1 DEF Live, Fresh
<1>5. memberBar[n] = "in"
  BY <1>0, Seen
<1>6. memberBar'[n] = "out" /\ ownerBar'[n] = NoTask /\ logBar'[n] = << >>
  BY <1>4, SeenNext
<1>7. \A m \in Node : m # n => /\ memberBar'[m] = memberBar[m] /\ ownerBar'[m] = ownerBar[m]
                               /\ logBar'[m] = logBar[m]
  BY <1>3, KeptIsSeen
<1>8. /\ memberBar' = [memberBar EXCEPT ![n] = "out"]
      /\ ownerBar' = [ownerBar EXCEPT ![n] = NoTask]
      /\ logBar' = [logBar EXCEPT ![n] = << >>]
  BY <1>6, <1>7, Functions
<1> QED BY <1>5, <1>8 DEF Serial!ANext, Serial!Leave

(* Heartbeats, the reaper, the agents and the rest of a removal are        *)
(* stuttering steps.                                                       *)
LEMMA OthersAreQuiet ==
  ASSUME IndInv, NEW n \in Node,
         \/ \E t \in Task : AgentCompile(t) \/ AgentApply(t) \/ AgentCancel(t)
         \/ \E m \in Node : NodeStep(m) /\ ~RegisterNode(m) /\ ~RemoveNode(m)
         \/ MarkStaleNodes
         \/ UNCHANGED vars
  PROVE  Kept(n)
<1>0. StorageTypeOK /\ hb \in [Node -> {"none", "Online", "Active"}]
  BY DEF IndInv, TypeOK, AgentTypeOK
<1>1. ASSUME UNCHANGED <<history, removal, taskVars>>, Present(n)' = Present(n) PROVE Kept(n)
  <2>1. \A u \in Task : (Held(u)' /\ tnode'[u] = n) = (Held(u) /\ tnode[u] = n)
    BY <1>1 DEF Held, Guarded, taskVars
  <2> QED BY <1>1, <2>1, NodeIsKept
<1>2. ASSUME NEW t \in Task, AgentCompile(t) \/ AgentApply(t) \/ AgentCancel(t) PROVE Kept(n)
  BY <1>1, <1>2 DEF AgentCompile, AgentApply, AgentCancel, storageVars, Present
<1>3. ASSUME NEW m \in Node, NodeStep(m), ~RegisterNode(m), ~RemoveNode(m) PROVE Kept(n)
  <2>1. CASE SendHeartbeat(m) \/ LoseHeartbeat(m) \/ TimePasses(m) \/ AgentStop(m)
    BY <1>1, <2>1 DEF SendHeartbeat, LoseHeartbeat, TimePasses, AgentStop, storageVars, Present
  <2>2. CASE ReceiveHeartbeat(m)
    <3>1. Present(n)' = Present(n)
      BY <1>0, <2>2 DEF ReceiveHeartbeat, Present, StorageTypeOK
    <3> QED BY <1>1, <2>2, <3>1 DEF ReceiveHeartbeat
  <2>3. CASE RemoveVersions(m) \/ RemoveGuard(m) \/ RemoveRow(m)
    <3>1. /\ UNCHANGED taskVars
          /\ n = m => removal[n] # "none" /\ removal'[n] # "none"
          /\ n # m => /\ nodeState'[n] = nodeState[n] /\ removal'[n] = removal[n]
                      /\ history'[n] = history[n]
      BY <1>0, <2>3 DEF RemoveVersions, RemoveGuard, RemoveRow, StorageTypeOK
    <3>2. CASE n = m
      BY <3>1, <3>2 DEF Kept, Live, Fresh
    <3>3. CASE n # m
      <4>1. \A u \in Task : (Held(u)' /\ tnode'[u] = n) = (Held(u) /\ tnode[u] = n)
        BY <3>1 DEF Held, Guarded, taskVars
      <4> QED BY <3>1, <3>3, <4>1, NodeIsKept DEF Present
    <3> QED BY <3>2, <3>3
  <2> QED BY <1>3, <2>1, <2>2, <2>3 DEF NodeStep
<1>4. CASE MarkStaleNodes
  <2>1. Present(n)' = Present(n)
    BY <1>0, <1>4 DEF MarkStaleNodes, StaleNodes, Present, StorageTypeOK
  <2> QED BY <1>1, <1>4, <2>1 DEF MarkStaleNodes
<1>5. CASE UNCHANGED vars
  BY <1>1, <1>5 DEF vars, storageVars, Present
<1> QED BY <1>2, <1>3, <1>4, <1>5

(* Every step of the controller is one of SerialDeploy, or none.           *)
LEMMA SerialStep ==
  ASSUME IndInv, TablesInv, AllGuarded, [Next]_vars
  PROVE  Serial!ANext \/ UNCHANGED Serial!avars
<1>q. ASSUME \A n \in Node : Kept(n) PROVE UNCHANGED Serial!avars
  BY <1>q, Stutters DEF Serial!avars
<1>1. ASSUME NEW t \in Task, StartTask(t) \/ TaskStep(t),
             ~BeginDeploy(t), ~EndDeploy(t), ~StorePolicy(t), ~StoreTorn(t)
      PROVE  UNCHANGED Serial!avars
  BY <1>1, <1>q, HandlerIsQuiet
<1>2. ASSUME NEW t \in Task, StartTask(t) \/ TaskStep(t) \/ Disconnect(t)
      PROVE  Serial!ANext \/ UNCHANGED Serial!avars
  BY <1>1, <1>2, BeginIsAcquire, EndIsRelease, StoreIsCommit, DropIsRelease
<1>3. ASSUME NEW n \in Node, RegisterNode(n) \/ RemoveNode(n) PROVE Serial!ANext
  BY <1>3, RegisterIsJoin, RemoveIsLeave
<1>4. ASSUME \/ \E t \in Task : AgentCompile(t) \/ AgentApply(t) \/ AgentCancel(t)
             \/ \E m \in Node : NodeStep(m) /\ ~RegisterNode(m) /\ ~RemoveNode(m)
             \/ MarkStaleNodes
             \/ UNCHANGED vars
      PROVE  UNCHANGED Serial!avars
  BY <1>4, <1>q, OthersAreQuiet
<1> QED BY <1>2, <1>3, <1>4, RestartIsRelease DEF Next

(* Where no FSM rolls nodes back, deployment implements SerialDeploy for   *)
(* any nodes, handlers, removals, disconnections, restarts and failures:   *)
(* the guard makes the version history of a registered node the log of one *)
(* handler at a time, and no step rewrites it (begin_deploy, store_policy, *)
(* end_deploy, remove_node).                                               *)
THEOREM ImplementsSerialDeploy ==
  ASSUME "fsmRollback" \notin Kinds
  PROVE  Spec => RefinesSerialDeploy
<1> DEFINE I == IndInv /\ TablesInv /\ AllGuarded
<1>1. Init => I
  BY InitInd, TablesInit, GuardedInit
<1>2. IndInv /\ [Next]_vars => IndInv'
  BY TypeStep, LocalsStep, ClaimedStep, ExclusionStep DEF IndInv
<1>3. I /\ [Next]_vars => I'
  BY <1>2, TablesStep, GuardedStep
<1>4. I /\ [Next]_vars => [Serial!ANext]_(Serial!avars)
  BY SerialStep
<1> HIDE DEF I
<1> QED BY <1>1, <1>3, <1>4, SerialInit, PTL DEF Spec, RefinesSerialDeploy, Serial!ASpec
-----------------------------------------------------------------------------
(***************************************************************************)
(* What the agent runs.  The argument follows the one call to the agent    *)
(* that a regular node can have open: it belongs to the handler that       *)
(* stored the newest version, so what the agent applies is that version.   *)
(***************************************************************************)
(* Before its answer from the agent a handler has no result, and before it *)
(* marks the node it has sent the agent nothing.                           *)
EarlyInv ==
  \A t \in Task :
    /\ pc[t] \in {"idle", "history", "find", "guard", "check", "version", "store", "mark", "wait"} =>
         result[t] = "none"
    /\ pc[t] \in {"idle", "history", "find", "guard", "check", "version", "store", "mark"} =>
         rpc[t] = "none"

(* An audit record is about the handler that wrote it.                     *)
AuditInv ==
  \A d \in deployments : pc[d.id] \in {"release", "done", "dropped"} /\ d = RecordOf(d.id)

(* A handler of n waits for an answer that is not there yet.               *)
Unsettled(t) == pc[t] \in {"mark", "wait"}

(* What LatestSuccessIsRunning relies on of node n: all its handlers took  *)
(* the guard, got an answer, and stored in one piece, and its agent runs.  *)
Regular(n) == /\ OnlyGuarded(n) /\ Answered(n) /\ Whole(n)
              /\ removal[n] = "none" /\ (Present(n) => agentUp[n])

(* A handler of n: its call to the agent is open only while it waits; the  *)
(* version it knows on its way is the newest; after an apply that it has   *)
(* not noticed yet the agent runs its policy; and the version of a result  *)
(* exists, is older than one being deployed, and, if newest and deployed   *)
(* with success, runs.                                                     *)
TaskRuns(t) ==
  LET n == tnode[t]
  IN
  /\ rpc[t] \in {"sent", "compiled"} => pc[t] = "wait"
  /\ pc[t] \in {"mark", "wait", "settle", "record"} => ver[t] = Len(history[n])
  /\ pc[t] = "wait" /\ rpc[t] = "applied" => active[n] = want[t]
  /\ result[t] \in {"Success", "NoChange"} =>
       /\ ver[t] \in 1 .. Len(history[n])
       /\ \A u \in Task : tnode[u] = n /\ Unsettled(u) => ver[t] < Len(history[n])
  /\ result[t] = "Success" /\ ver[t] = Len(history[n]) => active[n] = history[n][ver[t]]

(* The newest version of n runs, or is on its way, or was rejected.        *)
NewestRuns(n) ==
  history[n] = << >> \/ Denied(n) \/ active[n] = history[n][Len(history[n])]
    \/ \E t \in Task : tnode[t] = n /\ Unsettled(t)

NodeRuns(n) == NewestRuns(n) /\ \A t \in Task : tnode[t] = n => TaskRuns(t)

RunInv == EarlyInv /\ AuditInv /\ \A n \in Node : Regular(n) => NodeRuns(n)

(* What a step can do to handler u: a step of its own, the end of it when  *)
(* its client goes away or the controller restarts, or nothing but the     *)
(* progress of its call at the agent.                                      *)
Frozen(u) == /\ kind'[u] = kind[u] /\ tnode'[u] = tnode[u] /\ want'[u] = want[u]
             /\ ver'[u] = ver[u] /\ result'[u] = result[u]

Dropped(u) == Underway(u) /\ pc'[u] = "dropped" /\ rpc'[u] = rpc[u]

Called(u) == /\ pc'[u] = pc[u]
             /\ \/ rpc'[u] = rpc[u]
                \/ rpc[u] = "sent" /\ rpc'[u] \in {"compiled", "rejected"}
                \/ AgentApply(u)
                \/ rpc[u] \in {"sent", "compiled"} /\ rpc'[u] = "cancelled"

LEMMA HandlerMove ==
  ASSUME TypeOK, [Next]_vars, NEW u \in Task
  PROVE  StartTask(u) \/ TaskStep(u) \/ (Frozen(u) /\ (Dropped(u) \/ Called(u)))
<1>0. TaskTypeOK /\ AgentTypeOK
  BY DEF TypeOK
<1> DEFINE Rest == Frozen(u) /\ (Dropped(u) \/ Called(u))
<1>1. ASSUME NEW t \in Task, StartTask(t), u # t PROVE Rest
  BY <1>0, <1>1 DEF StartTask, DeployPolicy, RollbackPolicy, FsmRollback, ReadNode, GiveUp, Goto,
     TaskTypeOK, agentVars, Frozen, Called
<1>2. ASSUME NEW t \in Task, TaskStep(t), u # t PROVE Rest
  <2>1. CASE RollbackHistory(t) \/ FsmRollbackNode(t) \/ BeginDeploy(t) \/ EndDeploy(t)
    BY <1>0, <1>2, <2>1 DEF RollbackHistory, FsmRollbackNode, BeginDeploy, EndDeploy, ReadNode,
       GiveUp, Goto, TaskTypeOK, agentVars, Frozen, Called
  <2>2. CASE CheckRequest(t) \/ ReadVersion(t) \/ StorePolicy(t) \/ SettleState(t)
    BY <1>0, <1>2, <2>2 DEF CheckRequest, ReadVersion, StorePolicy, SettleState,
       GiveUp, Goto, TaskTypeOK, agentVars, Frozen, Called
  <2>3. CASE MarkDeploying(t) \/ StorageFails(t)
    BY <1>0, <1>2, <2>3 DEF MarkDeploying, StorageFails, GiveUp, Goto, TaskTypeOK, AgentTypeOK,
       agentVars, Frozen, Called
  <2>4. CASE (\E r \in DeploymentResult : AwaitAgent(t, r)) \/ RecordDeployment(t) \/ StoreTorn(t)
    BY <1>0, <1>2, <2>4 DEF AwaitAgent, RecordDeployment, StoreTorn, GiveUp, Goto, TaskTypeOK,
       agentVars, Frozen, Called
  <2> QED BY <1>2, <2>1, <2>2, <2>3, <2>4 DEF TaskStep
<1>3. ASSUME NEW t \in Task, Disconnect(t) PROVE Rest
  BY <1>0, <1>3 DEF Disconnect, Goto, Underway, TaskTypeOK, agentVars, Frozen, Called, Dropped
<1>4. ASSUME NEW t \in Task, AgentCompile(t) \/ AgentApply(t) \/ AgentCancel(t) PROVE Rest
  <2>1. CASE t = u
    BY <1>0, <1>4, <2>1 DEF AgentCompile, AgentApply, AgentCancel, taskVars, AgentTypeOK,
       Frozen, Called
  <2>2. CASE t # u
    BY <1>0, <1>4, <2>2 DEF AgentCompile, AgentApply, AgentCancel, taskVars, AgentTypeOK,
       Frozen, Called
  <2> QED BY <2>1, <2>2
<1>5. ASSUME NEW n \in Node, NodeStep(n) PROVE Rest
  <2>1. CASE AgentStop(n)
    BY <1>0, <2>1 DEF AgentStop, taskVars, AgentTypeOK, Frozen, Called
  <2>2. CASE ~AgentStop(n)
    BY <1>5, <2>2 DEF NodeStep, RegisterNode, SendHeartbeat, ReceiveHeartbeat, LoseHeartbeat,
       TimePasses, RemoveNode, RemoveVersions, RemoveGuard, RemoveRow, taskVars, agentVars,
       Frozen, Called
  <2> QED BY <2>1, <2>2
<1>6. CASE Restart
  BY <1>0, <1>6 DEF Restart, TaskTypeOK, Underway, agentVars, Frozen, Called, Dropped
<1>7. CASE MarkStaleNodes \/ UNCHANGED vars
  BY <1>7 DEF MarkStaleNodes, vars, taskVars, agentVars, Frozen, Called
<1> QED BY <1>1, <1>2, <1>3, <1>4, <1>5, <1>6, <1>7 DEF Next

(* A handler of its own that has neither a result nor called the agent     *)
(* keeps it so until it marks the node or the agent answers.               *)
LEMMA EarlyStep ==
  ASSUME IndInv, EarlyInv, [Next]_vars
  PROVE  EarlyInv'
<1> DEFINE E1 == {"idle", "history", "find", "guard", "check", "version", "store", "mark"}
<1> SUFFICES ASSUME NEW u \in Task
             PROVE  /\ pc'[u] \in E1 \cup {"wait"} => result'[u] = "none"
                    /\ pc'[u] \in E1 => rpc'[u] = "none"
  BY DEF EarlyInv
<1>0. TypeOK /\ TaskTypeOK /\ AgentTypeOK
  BY DEF IndInv, TypeOK
<1>1. /\ pc[u] \in E1 \cup {"wait"} => result[u] = "none"
      /\ pc[u] \in E1 => rpc[u] = "none"
  BY DEF EarlyInv
<1>2. CASE StartTask(u)
  BY <1>0, <1>1, <1>2 DEF StartTask, DeployPolicy, RollbackPolicy, FsmRollback, ReadNode, GiveUp,
     Goto, TaskTypeOK, agentVars
<1>3. CASE TaskStep(u)
  <2>1. CASE RollbackHistory(u) \/ FsmRollbackNode(u) \/ BeginDeploy(u) \/ EndDeploy(u)
    BY <1>0, <1>1, <2>1 DEF RollbackHistory, FsmRollbackNode, BeginDeploy, EndDeploy, ReadNode,
       GiveUp, Goto, TaskTypeOK, agentVars
  <2>2. CASE CheckRequest(u) \/ ReadVersion(u) \/ StorePolicy(u) \/ SettleState(u)
    BY <1>0, <1>1, <2>2 DEF CheckRequest, ReadVersion, StorePolicy, SettleState, After,
       GiveUp, Goto, TaskTypeOK, agentVars
  <2>3. CASE MarkDeploying(u) \/ StorageFails(u)
    BY <1>0, <1>1, <2>3 DEF MarkDeploying, StorageFails, After, GiveUp, Goto, TaskTypeOK, AgentTypeOK
  <2>4. CASE (\E r \in DeploymentResult : AwaitAgent(u, r)) \/ RecordDeployment(u) \/ StoreTorn(u)
    BY <1>0, <1>1, <2>4 DEF AwaitAgent, RecordDeployment, StoreTorn, After, GiveUp, Goto, TaskTypeOK,
       agentVars
  <2> QED BY <1>3, <2>1, <2>2, <2>3, <2>4 DEF TaskStep
<1>4. CASE Frozen(u) /\ Dropped(u)
  BY <1>4 DEF Dropped
<1>5. CASE Frozen(u) /\ Called(u)
  BY <1>1, <1>5 DEF Frozen, Called, AgentApply
<1> QED BY <1>0, <1>2, <1>3, <1>4, <1>5, HandlerMove

(* A result is final, and the version and policy it is about stay.         *)
LEMMA ResultLasts ==
  ASSUME IndInv, EarlyInv, [Next]_vars, NEW u \in Task, result[u] # "none"
  PROVE  /\ Frozen(u)
         /\ pc[u] \in {"release", "done", "dropped"} => pc'[u] \in {"release", "done", "dropped"}
<1>0. TypeOK /\ TaskTypeOK
  BY DEF IndInv, TypeOK
<1>1. pc[u] \in {"settle", "record", "release", "done", "dropped"}
  BY <1>0 DEF EarlyInv, TaskTypeOK, PC
<1>2. ~StartTask(u)
  BY <1>1 DEF StartTask, DeployPolicy, RollbackPolicy, FsmRollback
<1>3. CASE TaskStep(u)
  BY <1>0, <1>1, <1>3 DEF TaskStep, RollbackHistory, FsmRollbackNode, BeginDeploy, EndDeploy,
     CheckRequest, ReadVersion, StorePolicy, MarkDeploying, AwaitAgent, SettleState,
     RecordDeployment, StorageFails, StoreTorn, Goto, TaskTypeOK, Frozen
<1>4. CASE Frozen(u) /\ (Dropped(u) \/ Called(u))
  BY <1>4 DEF Dropped, Called
<1> QED BY <1>0, <1>2, <1>3, <1>4, HandlerMove

(* Where results come from.                                                *)
LEMMA ResultMoves ==
  ASSUME IndInv, [Next]_vars, NEW u \in Task, result'[u] # result[u],
         result'[u] \in DeploymentResult \cup {"NoChange"}
  PROVE  \/ result'[u] = "NoChange" /\ ReadVersion(u)
         \/ result'[u] \in DeploymentResult /\ AwaitAgent(u, result'[u])
<1>0. TypeOK /\ TaskTypeOK
  BY DEF IndInv, TypeOK
<1>1. ~StartTask(u)
  BY <1>0 DEF StartTask, DeployPolicy, RollbackPolicy, FsmRollback, ReadNode, GiveUp, Goto,
     TaskTypeOK, DeploymentResult
<1>2. CASE TaskStep(u)
  <2>1. CASE \E r \in DeploymentResult : AwaitAgent(u, r)
    <3>1. PICK r \in DeploymentResult : AwaitAgent(u, r)
      BY <2>1
    <3>2. result'[u] = r
      BY <1>0, <3>1 DEF AwaitAgent, GiveUp, TaskTypeOK
    <3> QED BY <3>1, <3>2
  <2>2. CASE ReadVersion(u)
    BY <1>0, <2>2 DEF ReadVersion, GiveUp, TaskTypeOK
  <2>3. ~RollbackHistory(u) /\ ~FsmRollbackNode(u) /\ ~BeginDeploy(u) /\ ~EndDeploy(u)
    BY <1>0 DEF RollbackHistory, FsmRollbackNode, BeginDeploy, EndDeploy, ReadNode, GiveUp,
       TaskTypeOK, DeploymentResult
  <2>4. ~CheckRequest(u) /\ ~StorePolicy(u) /\ ~MarkDeploying(u) /\ ~SettleState(u)
    BY <1>0 DEF CheckRequest, StorePolicy, MarkDeploying, SettleState, GiveUp,
       TaskTypeOK, DeploymentResult
  <2>5. ~RecordDeployment(u) /\ ~StorageFails(u) /\ ~StoreTorn(u)
    BY <1>0 DEF RecordDeployment, StorageFails, StoreTorn, GiveUp, TaskTypeOK, DeploymentResult
  <2> QED BY <1>2, <2>1, <2>2, <2>3, <2>4, <2>5 DEF TaskStep
<1> QED BY <1>0, <1>1, <1>2, HandlerMove DEF Frozen

(* A handler that waits for its agent goes on waiting, gets an answer, or  *)
(* is dropped.                                                             *)
LEMMA WaitMoves ==
  ASSUME IndInv, [Next]_vars, NEW u \in Task, Unsettled(u)
  PROVE  \/ Unsettled(u)' \/ pc'[u] = "dropped"
         \/ \E r \in DeploymentResult : AwaitAgent(u, r)
<1>0. TypeOK /\ TaskTypeOK
  BY DEF IndInv, TypeOK
<1>1. ~StartTask(u)
  BY DEF Unsettled, StartTask, DeployPolicy, RollbackPolicy, FsmRollback
<1>2. CASE TaskStep(u)
  BY <1>0, <1>2 DEF Unsettled, TaskStep, RollbackHistory, FsmRollbackNode, BeginDeploy, EndDeploy,
     CheckRequest, ReadVersion, StorePolicy, MarkDeploying, SettleState,
     RecordDeployment, StorageFails, StoreTorn, GiveUp, Goto, TaskTypeOK
<1> QED BY <1>0, <1>1, <1>2, HandlerMove DEF Unsettled, Dropped, Called

(* How a call is open or through: the handler has just made it, or it was  *)
(* open before.                                                            *)
LEMMA CallMoves ==
  ASSUME IndInv, EarlyInv, [Next]_vars, NEW u \in Task,
         rpc'[u] \in {"sent", "compiled", "applied"}
  PROVE  \/ pc'[u] = "wait" /\ rpc'[u] = "sent"
         \/ /\ tnode'[u] = tnode[u] /\ want'[u] = want[u]
            /\ \/ rpc'[u] = rpc[u]
               \/ rpc[u] = "sent" /\ rpc'[u] = "compiled"
               \/ AgentApply(u)
<1>0. TypeOK /\ TaskTypeOK /\ AgentTypeOK
  BY DEF IndInv, TypeOK
<1>1. ~StartTask(u)
  BY <1>0 DEF EarlyInv, StartTask, DeployPolicy, RollbackPolicy, FsmRollback, agentVars
<1>2. CASE TaskStep(u)
  <2>1. CASE RollbackHistory(u) \/ FsmRollbackNode(u)
    BY <2>1 DEF EarlyInv, RollbackHistory, FsmRollbackNode, agentVars
  <2>2. CASE ~RollbackHistory(u) /\ ~FsmRollbackNode(u)
    BY <1>0, <1>2, <2>2 DEF TaskStep, BeginDeploy, EndDeploy,
       CheckRequest, ReadVersion, StorePolicy, MarkDeploying, AwaitAgent, SettleState,
       RecordDeployment, StorageFails, StoreTorn, GiveUp, Goto, TaskTypeOK, AgentTypeOK, agentVars
  <2> QED BY <2>1, <2>2
<1> QED BY <1>0, <1>1, <1>2, HandlerMove DEF Frozen, Dropped, Called

(* Only record_deployment adds an audit record.                            *)
LEMMA AuditStep ==
  ASSUME IndInv, EarlyInv, AuditInv, [Next]_vars
  PROVE  AuditInv'
<1> SUFFICES ASSUME NEW d \in deployments'
             PROVE  pc'[d.id] \in {"release", "done", "dropped"} /\ d = RecordOf(d.id)'
  BY DEF AuditInv
<1>0. StorageTypeOK /\ TaskTypeOK
  BY DEF IndInv, TypeOK
<1>1. CASE d \in deployments
  <2>1. d \in DeploymentRecord
    BY <1>0, <1>1 DEF StorageTypeOK
  <2>2. d.id \in Task /\ d.result \in DeploymentResult
    BY <2>1 DEF DeploymentRecord
  <2>3. pc[d.id] \in {"release", "done", "dropped"} /\ d = RecordOf(d.id)
    BY <1>1 DEF AuditInv
  <2>4. result[d.id] # "none"
    BY <2>2, <2>3 DEF RecordOf, DeploymentResult
  <2>5. Frozen(d.id) /\ pc'[d.id] \in {"release", "done", "dropped"}
    BY <2>2, <2>3, <2>4, ResultLasts
  <2> QED BY <2>3, <2>5 DEF RecordOf, Frozen
<1>2. ASSUME NEW t \in Task, RecordDeployment(t), d = RecordOf(t)
      PROVE  pc'[d.id] \in {"release", "done", "dropped"} /\ d = RecordOf(d.id)'
  <2>1. d.id = t
    BY <1>2 DEF RecordOf
  <2> QED BY <1>0, <1>2, <2>1 DEF RecordDeployment, RecordOf, After, Goto, TaskTypeOK
<1> DEFINE Added == \E t \in Task : RecordDeployment(t) /\ d = RecordOf(t)
<1>3. ASSUME NEW t \in Task, StartTask(t) PROVE d \in deployments
  BY <1>3 DEF StartTask, DeployPolicy, RollbackPolicy, FsmRollback, storageVars
<1>4. ASSUME NEW t \in Task, TaskStep(t) PROVE d \in deployments \/ Added
  <2>1. CASE RecordDeployment(t)
    BY <2>1 DEF RecordDeployment
  <2>2. CASE ~RecordDeployment(t)
    BY <1>4, <2>2 DEF TaskStep, RollbackHistory, FsmRollbackNode, BeginDeploy, EndDeploy, CheckRequest,
       ReadVersion, StorePolicy, MarkDeploying, AwaitAgent, SettleState, StorageFails, StoreTorn,
       storageVars
  <2> QED BY <2>1, <2>2
<1>5. ASSUME NEW t \in Task,
             Disconnect(t) \/ AgentCompile(t) \/ AgentApply(t) \/ AgentCancel(t)
      PROVE  d \in deployments
  BY <1>5 DEF Disconnect, AgentCompile, AgentApply, AgentCancel, storageVars
<1>6. ASSUME NEW n \in Node, NodeStep(n) PROVE d \in deployments
  BY <1>6 DEF NodeStep, RegisterNode, SendHeartbeat, ReceiveHeartbeat, LoseHeartbeat,
     TimePasses, AgentStop, RemoveNode, RemoveVersions, RemoveGuard, RemoveRow, storageVars
<1>7. MarkStaleNodes \/ Restart \/ UNCHANGED vars => d \in deployments
  BY DEF MarkStaleNodes, Restart, vars, storageVars
<1>8. CASE Added
  BY <1>2, <1>8
<1> HIDE DEF Added
<1> QED BY <1>1, <1>3, <1>4, <1>5, <1>6, <1>7, <1>8 DEF Next

(* An agent does not come back, and changes its policy only where it       *)
(* applies one.                                                            *)
LEMMA AgentMoves ==
  ASSUME IndInv, [Next]_vars, NEW n \in Node, agentUp'[n]
  PROVE  /\ agentUp[n] \/ Fresh(n)
         /\ active'[n] = active[n] \/ \E t \in Task : tnode[t] = n /\ AgentApply(t)
<1>0. AgentTypeOK
  BY DEF IndInv, TypeOK
<1> DEFINE Goal == /\ agentUp[n] \/ Fresh(n)
                   /\ active'[n] = active[n] \/ \E t \in Task : tnode[t] = n /\ AgentApply(t)
<1>1. ASSUME UNCHANGED <<agentUp, active>> PROVE Goal
  BY <1>1
<1>2. ASSUME NEW t \in Task, StartTask(t) PROVE Goal
  BY <1>1, <1>2 DEF StartTask, DeployPolicy, RollbackPolicy, FsmRollback, agentVars
<1>3. ASSUME NEW t \in Task, TaskStep(t) PROVE Goal
  BY <1>1, <1>3 DEF TaskStep, RollbackHistory, FsmRollbackNode, BeginDeploy, EndDeploy, CheckRequest,
     ReadVersion, StorePolicy, MarkDeploying, AwaitAgent, SettleState, RecordDeployment,
     StorageFails, StoreTorn, agentVars
<1>4. ASSUME NEW t \in Task, Disconnect(t) \/ AgentCompile(t) \/ AgentCancel(t) PROVE Goal
  BY <1>1, <1>4 DEF Disconnect, AgentCompile, AgentCancel, agentVars
<1>5. ASSUME NEW t \in Task, AgentApply(t) PROVE Goal
  <2>1. agentUp' = agentUp /\ (tnode[t] # n => active'[n] = active[n])
    BY <1>0, <1>5 DEF AgentApply, AgentTypeOK
  <2> QED BY <1>5, <2>1
<1>6. ASSUME NEW m \in Node, NodeStep(m) PROVE Goal
  <2>1. CASE RegisterNode(m)
    BY <1>0, <2>1 DEF RegisterNode, AgentTypeOK
  <2>2. CASE AgentStop(m)
    BY <1>0, <2>2 DEF AgentStop, AgentTypeOK
  <2>3. CASE ~RegisterNode(m) /\ ~AgentStop(m)
    BY <1>1, <1>6, <2>3 DEF NodeStep, SendHeartbeat, ReceiveHeartbeat, LoseHeartbeat, TimePasses,
       RemoveNode, RemoveVersions, RemoveGuard, RemoveRow, agentVars
  <2> QED BY <2>1, <2>2, <2>3
<1>7. CASE MarkStaleNodes \/ Restart \/ UNCHANGED vars
  BY <1>1, <1>7 DEF MarkStaleNodes, Restart, vars, agentVars
<1> QED BY <1>2, <1>3, <1>4, <1>5, <1>6, <1>7 DEF Next

(* What may be relied on of a node now could be before.                    *)
LEMMA RegularLasts ==
  ASSUME IndInv, TornEnds, EarlyInv, [Next]_vars, NEW n \in Node, Regular(n)'
  PROVE  Regular(n)
<1>1. OnlyGuarded(n) /\ Whole(n)
  BY ConditionsLast DEF Regular
<1>2. Answered(n)
  <2> SUFFICES ASSUME NEW t \in Task, tnode[t] = n,
                      pc[t] = "dropped" \/ result[t] \in {"Timeout", "AgentUnreachable"}
               PROVE  FALSE
    BY DEF Answered
  <2>1. CASE pc[t] = "dropped"
    <3>1. tnode'[t] = n
      BY <2>1, HandlerKeeps
    <3>2. pc'[t] = "dropped"
      <4>1. ~StartTask(t) /\ ~TaskStep(t)
        BY <2>1 DEF StartTask, DeployPolicy, RollbackPolicy, FsmRollback, TaskStep, RollbackHistory,
           FsmRollbackNode, BeginDeploy, EndDeploy, CheckRequest, ReadVersion, StorePolicy,
           MarkDeploying, AwaitAgent, SettleState, RecordDeployment, StorageFails, StoreTorn
      <4> QED BY <2>1, <4>1, HandlerMove DEF IndInv, Dropped, Called
    <3> QED BY <3>1, <3>2 DEF Regular, Answered
  <2>2. CASE result[t] \in {"Timeout", "AgentUnreachable"}
    <3>1. Frozen(t)
      BY <2>2, ResultLasts
    <3> QED BY <2>2, <3>1 DEF Regular, Answered, Frozen
  <2> QED BY <2>1, <2>2
<1>3. removal'[n] = "none" /\ (Live(n)' => Live(n) \/ Fresh(n)) /\ (Fresh(n)' => Fresh(n))
  BY NodesComeAndGo DEF Regular
<1>4. Live(n)' \/ Fresh(n)'
  BY <1>3 DEF Live, Fresh, Present
<1>5. removal[n] = "none"
  BY <1>3, <1>4 DEF Live, Fresh
<1>6. ASSUME Present(n) PROVE agentUp[n]
  <2>1. ~Fresh(n)
    BY <1>6 DEF Fresh, Present
  <2>2. agentUp'[n]
    BY <1>3, <1>4, <2>1 DEF Regular, Live
  <2> QED BY <2>1, <2>2, AgentMoves
<1> QED BY <1>1, <1>2, <1>5, <1>6 DEF Regular

(* deploy_to_node runs once at a time on a node of guarded handlers.       *)
LEMMA OneAtATime ==
  ASSUME IndInv, NEW n \in Node, OnlyGuarded(n), removal[n] = "none",
         NEW t \in Task, NEW u \in Task, tnode[t] = n, tnode[u] = n,
         pc[t] \in Critical, pc[u] \in Critical
  PROVE  t = u /\ Live(n)
<1>1. Guarded(t) /\ Guarded(u) /\ ~Fresh(n)
  BY UnderwayClaims DEF Underway, Finished, Critical, OnlyGuarded
<1>2. Live(n)
  BY <1>1 DEF Live, Fresh, Present
<1>3. Held(t) /\ Held(u)
  BY <1>1 DEF Held
<1> QED BY <1>2, <1>3 DEF IndInv, GuardedExclusion

(* A step of the controller or of an agent keeps what is known of the      *)
(* agent of a regular node.                                                *)
LEMMA NodeRunsStep ==
  ASSUME IndInv, TablesInv, RunInv, [Next]_vars, NEW n \in Node, Regular(n)'
  PROVE  NodeRuns(n)'
<1>i. TornEnds /\ EarlyInv /\ EarlyInv' /\ TaskTypeOK /\ StorageTypeOK
  BY EarlyStep DEF TablesInv, RunInv, IndInv, TypeOK
<1>r. Regular(n) /\ OnlyGuarded(n) /\ Whole(n) /\ removal[n] = "none"
  BY <1>i, RegularLasts DEF Regular
<1>n. NodeRuns(n) /\ NodeTables(n)
  BY <1>r DEF RunInv, TablesInv
<1>t. \A t \in Task : tnode[t] = n => TaskRuns(t)
  BY <1>n DEF NodeRuns
<1>a. /\ removal'[n] = "none"
      /\ \A t \in Task : tnode'[t] = n =>
           pc'[t] # "dropped" /\ result'[t] \notin {"Timeout", "AgentUnreachable", "Torn"}
  BY DEF Regular, Answered, Whole
<1>h. history[n] \in Seq(Policy) /\ Len(history[n]) \in Nat
  BY <1>i DEF StorageTypeOK
<1>1. \A t, u \in Task : tnode[t] = n /\ tnode[u] = n /\ pc[t] \in Critical /\ pc[u] \in Critical =>
        t = u /\ Live(n)
  BY <1>r, OneAtATime
<1>k. \A t \in Task : pc[t] \in Versioned => pc[t] \in Critical /\ pc[t] # "store"
  BY DEF Versioned, Critical
<1>w. \A t \in Task : Unsettled(t) => pc[t] \in Critical /\ pc[t] \in Versioned
  BY DEF Unsettled, Versioned, Critical
\* A store_policy of n, by the one handler in deploy_to_node, or the same versions.
<1> DEFINE Stores(t) == /\ tnode[t] = n /\ tnode'[t] = n /\ pc[t] = "store" /\ pc'[t] = "mark"
                        /\ want[t] \in Policy /\ history'[n] = Append(history[n], want[t])
<1>2. history'[n] = history[n] \/ \E t \in Task : Stores(t)
  <2>1. ASSUME NEW t \in Task, StorePolicy(t), tnode[t] = n, Writable(n),
               history'[n] = Append(history[n], want[t])
        PROVE  Stores(t)
    BY <1>i, <2>1 DEF StorePolicy, Goto, GiveUp, TaskTypeOK, IndInv, TaskLocals, Critical
  <2>2. ASSUME NEW t \in Task, StoreTorn(t), tnode[t] = n PROVE FALSE
    BY <1>i, <1>a, <2>2 DEF StoreTorn, GiveUp, TaskTypeOK
  <2> HIDE DEF Stores
  <2> QED BY <1>a, <2>1, <2>2, TablesMove
<1>3. ASSUME NEW t \in Task, Stores(t)
      PROVE  /\ Len(history'[n]) = Len(history[n]) + 1
             /\ \A i \in 1 .. Len(history[n]) : history'[n][i] = history[n][i]
  BY <1>h, <1>3
<1>4. Len(history'[n]) \in Nat /\ Len(history'[n]) >= Len(history[n])
  BY <1>h, <1>2, <1>3
<1>5. ASSUME NEW t \in Task, NEW u \in Task, Stores(t), tnode[u] = n, pc[u] \in Critical
      PROVE  u = t
  BY <1>1, <1>5 DEF Critical
<1> HIDE DEF Stores
\* A policy applied at the agent is that of the one handler that waits.
<1>6. ASSUME NEW t \in Task, tnode[t] = n, AgentApply(t)
      PROVE  pc[t] = "wait" /\ pc'[t] = "wait" /\ tnode'[t] = n /\ Unsettled(t) /\ Unsettled(t)'
  <2>1. pc[t] = "wait" /\ pc' = pc /\ tnode' = tnode
    BY <1>t, <1>6 DEF TaskRuns, AgentApply, taskVars
  <2> QED BY <1>6, <2>1 DEF Unsettled
<1>7. ASSUME Present(n)'
      PROVE  active'[n] = active[n] \/ \E t \in Task : tnode[t] = n /\ AgentApply(t)
  BY <1>7, AgentMoves DEF Regular
\* An id that is still free has no versions and no handler in deploy_to_node.
<1>8. ASSUME ~Present(n)'
      PROVE  history'[n] = << >> /\ \A t \in Task : tnode'[t] = n => pc'[t] \notin Critical
  <2>1. Fresh(n)'
    BY <1>a, <1>8 DEF Fresh, Present
  <2>2. IndInv' /\ OnlyGuarded(n)'
    BY TypeStep, LocalsStep, ClaimedStep, ExclusionStep DEF IndInv, Regular
  <2>3. NodeTables(n)'
    BY <2>2, TablesStep DEF TablesInv
  <2>4. ASSUME NEW t \in Task, tnode'[t] = n, pc'[t] \in Critical PROVE FALSE
    BY <2>1, <2>2, <2>4 DEF IndInv, ClaimedIds, OnlyGuarded, Underway, Critical, Finished
  <2> QED BY <2>1, <2>3, <2>4 DEF NodeTables
\* The versions handlers know on their way are the newest.
<1>9. ASSUME NEW t \in Task, tnode'[t] = n, pc'[t] \in Versioned
      PROVE  ver'[t] = Len(history'[n])
  <2>1. tnode[t] = n /\ want'[t] = want[t] /\ pc'[t] # "version"
    BY <1>9, TaskMoves DEF Versioned
  <2>2. CASE pc[t] \in Versioned /\ ver'[t] = ver[t]
    <3>1. ver[t] = Len(history[n])
      BY <1>t, <2>1, <2>2 DEF TaskRuns, Versioned
    <3>2. \A u \in Task : ~Stores(u)
      BY <1>k, <1>5, <2>1, <2>2 DEF Stores
    <3> QED BY <1>2, <2>2, <3>1, <3>2
  <2>3. CASE StorePolicy(t) /\ Writable(tnode[t]) /\ ver'[t] = Len(history[tnode[t]]) + 1
    <3>1. history'[n] = Append(history[n], want[t])
      BY <1>i, <2>1, <2>3 DEF StorePolicy, StorageTypeOK
    <3> QED BY <1>h, <2>1, <2>3, <3>1
  <2>4. CASE ReadVersion(t) /\ ver'[t] = Len(history[tnode[t]])
    BY <2>1, <2>4 DEF ReadVersion, storageVars
  <2> QED BY <1>9, <2>1, <2>2, <2>3, <2>4, TaskMoves
\* A handler that waits did so before, or has just stored its version.
<1>10. ASSUME NEW u \in Task, tnode'[u] = n, Unsettled(u)'
       PROVE  tnode[u] = n /\ (Unsettled(u) \/ Stores(u))
  <2>1. pc'[u] \in Versioned /\ pc'[u] # "version" /\ result'[u] = "none"
    BY <1>i, <1>10 DEF Unsettled, Versioned, EarlyInv
  <2>2. tnode[u] = n
    BY <1>10, <2>1, TaskMoves
  <2>3. CASE pc[u] \in Versioned /\ ~Unsettled(u)
    <3>1. result[u] # "none"
      BY <2>3 DEF Versioned, Unsettled, IndInv, TaskLocals, DeploymentResult
    <3> QED BY <1>i, <2>1, <3>1, ResultLasts DEF Frozen
  <2>4. CASE StorePolicy(u) /\ Writable(tnode[u])
    BY <1>i, <1>10, <2>2, <2>4 DEF StorePolicy, Stores, Goto, TaskTypeOK, StorageTypeOK, IndInv,
       TaskLocals, Critical
  <2>5. ~ReadVersion(u)
    BY <1>i, <1>10 DEF ReadVersion, GiveUp, Goto, TaskTypeOK, Unsettled
  <2> QED BY <2>1, <2>2, <2>3, <2>4, <2>5, TaskMoves
\* Handlers with a result, from before or from this step.
<1> DEFINE Answers(t) == \/ result[t] = result'[t] /\ Frozen(t)
                         \/ AwaitAgent(t, result'[t]) /\ result'[t] \in {"Success", "AgentFailure"}
                         \/ ReadVersion(t) /\ result'[t] = "NoChange"
<1>11. ASSUME NEW t \in Task, tnode'[t] = n,
              result'[t] \in {"Success", "AgentFailure", "NoChange"}
       PROVE  tnode[t] = n /\ Answers(t)
  <2>1. CASE result'[t] = result[t]
    BY <1>i, <1>11, <2>1, ResultLasts DEF Frozen
  <2>2. CASE result'[t] # result[t]
    <3>0. result'[t] \in DeploymentResult \cup {"NoChange"}
      BY <1>11 DEF DeploymentResult
    <3>1. AwaitAgent(t, result'[t]) \/ (ReadVersion(t) /\ result'[t] = "NoChange")
      BY <2>2, <3>0, ResultMoves
    <3>2. tnode[t] = n
      BY <1>11, <3>1 DEF AwaitAgent, ReadVersion
    <3>3. AwaitAgent(t, result'[t]) => result'[t] \in {"Success", "AgentFailure"}
      <4> SUFFICES ASSUME AwaitAgent(t, result'[t]), result'[t] = "NoChange" PROVE FALSE
        BY <1>11
      <4>1. pc'[t] = "settle" /\ IndInv'
        BY <1>i, TypeStep, LocalsStep, ClaimedStep, ExclusionStep DEF AwaitAgent, GiveUp, Goto, TaskTypeOK, IndInv
      <4> QED BY <4>1 DEF IndInv, TaskLocals, DeploymentResult
    <3> QED BY <3>1, <3>2, <3>3
  <2> QED BY <2>1, <2>2
<1> HIDE DEF Answers
\* An answer that has just come is about the newest version.
<1>12. ASSUME NEW t \in Task, tnode[t] = n, NEW r, AwaitAgent(t, r)
       PROVE  /\ pc[t] = "wait" /\ ver[t] = Len(history[n]) /\ history'[n] = history[n]
              /\ ver[t] \in 1 .. Len(history[n]) /\ history[n][ver[t]] = want[t]
              /\ UNCHANGED <<ver, active, tnode, want>>
              /\ r = "Success" => active[n] = want[t]
  <2>1. pc[t] = "wait" /\ UNCHANGED <<ver, history, active, rpc, tnode, want>>
    BY <1>12 DEF AwaitAgent, storageVars, agentVars
  <2>2. ver[t] = Len(history[n]) /\ (rpc[t] = "applied" => active[n] = want[t])
    BY <1>t, <1>12, <2>1 DEF TaskRuns
  <2>3. Live(n)
    BY <1>1, <1>12, <2>1 DEF Critical
  <2>4. Recorded(n, ver[t], want[t])
    BY <1>n, <1>12, <2>1, <2>3 DEF NodeTables, TaskRecords
  <2>5. ver[t] \in DOMAIN history[n] /\ history[n][ver[t]] = want[t]
    BY <1>r, <2>4 DEF Recorded
  <2> QED BY <1>h, <1>12, <2>1, <2>2, <2>5 DEF AwaitAgent
<1>13. ASSUME NEW t \in Task, tnode[t] = n, ReadVersion(t)
       PROVE  /\ pc[t] = "version" /\ ver'[t] = Len(history[n]) /\ history'[n] = history[n]
              /\ Len(history[n]) \in 1 .. Len(history[n])
  <2>1. /\ pc[t] = "version" /\ UNCHANGED storageVars /\ ver'[t] = Len(history[n])
    BY <1>i, <1>13 DEF ReadVersion, TaskTypeOK
  <2>2. Live(n) /\ want[t] \in Policy
    BY <1>1, <1>13, <2>1 DEF Critical, IndInv, TaskLocals
  <2>3. Recorded(n, Len(history[n]), want[t])
    BY <1>n, <1>13, <2>1, <2>2, DeployAssumption DEF NodeTables, TaskRecords
  <2> QED BY <1>h, <2>1, <2>3 DEF Recorded, storageVars
\* The new answer is of the only handler in deploy_to_node.
<1>14. ASSUME NEW t \in Task, tnode[t] = n, pc[t] \in Critical, pc'[t] \notin {"mark", "wait"},
              history'[n] = history[n], NEW u \in Task, tnode'[u] = n
       PROVE  ~Unsettled(u)'
  <2> SUFFICES ASSUME Unsettled(u)' PROVE FALSE
    OBVIOUS
  <2>1. u # t
    BY <1>14 DEF Unsettled
  <2>2. tnode[u] = n /\ (Unsettled(u) \/ Stores(u))
    BY <1>10, <1>14
  <2>3. pc[u] \in Critical
    BY <1>w, <2>2 DEF Stores, Critical
  <2> QED BY <1>1, <1>14, <2>1, <2>2, <2>3
<1>15. ASSUME NEW t \in Task, tnode'[t] = n, result'[t] \in {"Success", "NoChange"}
       PROVE  /\ ver'[t] \in 1 .. Len(history'[n])
              /\ \A u \in Task : tnode'[u] = n /\ Unsettled(u)' => ver'[t] < Len(history'[n])
  <2>0. tnode[t] = n /\ Answers(t)
    BY <1>11, <1>15
  <2>1. CASE result[t] = result'[t] /\ Frozen(t)
    <3>1. /\ ver'[t] = ver[t] /\ ver[t] \in 1 .. Len(history[n])
          /\ \A u \in Task : tnode[u] = n /\ Unsettled(u) => ver[t] < Len(history[n])
      BY <1>t, <1>15, <2>0, <2>1 DEF TaskRuns, Frozen
    <3>2. ver'[t] \in 1 .. Len(history'[n])
      BY <1>h, <1>4, <3>1
    <3>3. ASSUME NEW u \in Task, tnode'[u] = n, Unsettled(u)' PROVE ver[t] < Len(history'[n])
      <4>1. tnode[u] = n /\ (Unsettled(u) \/ Stores(u))
        BY <1>10, <3>3
      <4> QED BY <1>h, <1>3, <1>4, <3>1, <4>1
    <3> QED BY <3>1, <3>2, <3>3
  <2>2. CASE AwaitAgent(t, result'[t])
    <3>1. pc[t] \in Critical /\ pc'[t] \notin {"mark", "wait"}
      BY <1>i, <2>2 DEF AwaitAgent, GiveUp, Goto, TaskTypeOK, Critical
    <3> QED BY <1>12, <1>14, <2>0, <2>2, <3>1
  <2>3. CASE ReadVersion(t)
    <3>1. pc[t] \in Critical /\ pc'[t] \notin {"mark", "wait"}
      BY <1>i, <2>3 DEF ReadVersion, GiveUp, Goto, TaskTypeOK, Critical
    <3> QED BY <1>13, <1>14, <2>0, <2>3, <3>1
  <2> QED BY <2>0, <2>1, <2>2, <2>3 DEF Answers
<1>16. ASSUME NEW t \in Task, tnode'[t] = n, result'[t] = "Success",
              ver'[t] = Len(history'[n])
       PROVE  active'[n] = history'[n][ver'[t]]
  <2>0. tnode[t] = n /\ Answers(t) /\ ver'[t] \in 1 .. Len(history'[n])
    BY <1>11, <1>15, <1>16
  <2>1. CASE result[t] = result'[t] /\ Frozen(t)
    <3>1. /\ ver'[t] = ver[t] /\ ver[t] \in 1 .. Len(history[n])
          /\ \A u \in Task : tnode[u] = n /\ Unsettled(u) => ver[t] < Len(history[n])
          /\ ver[t] = Len(history[n]) => active[n] = history[n][ver[t]]
      BY <1>t, <1>16, <2>0, <2>1 DEF TaskRuns, Frozen
    <3>2. \A u \in Task : ~Stores(u)
      BY <1>h, <1>3, <1>16, <3>1
    <3>3. history'[n] = history[n]
      BY <1>2, <3>2
    <3>4. ver[t] = Len(history[n]) /\ active[n] = history[n][ver[t]]
      BY <1>16, <3>1, <3>3
    <3>5. \A u \in Task : ~(tnode[u] = n /\ AgentApply(u))
      BY <1>h, <1>6, <3>1, <3>4
    <3>6. Present(n)'
      BY <1>8, <2>0
    <3>7. active'[n] = active[n]
      BY <1>7, <3>5, <3>6
    <3> QED BY <3>1, <3>3, <3>4, <3>7
  <2>2. CASE AwaitAgent(t, result'[t])
    BY <1>12, <1>16, <2>0, <2>2
  <2>3. CASE ReadVersion(t) /\ result'[t] = "NoChange"
    BY <1>16, <2>3
  <2> QED BY <2>0, <2>1, <2>2, <2>3 DEF Answers
\* An open call is that of a handler that waits for it.
<1>17. ASSUME NEW t \in Task, tnode'[t] = n, rpc'[t] \in {"sent", "compiled"}
       PROVE  pc'[t] = "wait"
  <2> SUFFICES ASSUME pc'[t] # "wait" PROVE FALSE
    OBVIOUS
  <2>1. tnode[t] = n /\ rpc[t] \in {"sent", "compiled"}
    <3>1. ~AgentApply(t)
      BY <1>17 DEF AgentApply, IndInv, TypeOK, AgentTypeOK
    <3> QED BY <1>i, <1>17, <3>1, CallMoves
  <2>2. pc[t] = "wait"
    BY <1>t, <2>1 DEF TaskRuns
  <2>3. ~Unsettled(t)' /\ pc'[t] # "dropped"
    <3>1. pc'[t] # "mark"
      BY <1>17, <2>1, <2>2, EarlyStep, <1>i DEF EarlyInv
    <3> QED BY <1>a, <1>17, <3>1 DEF Unsettled
  <2>4. PICK r \in DeploymentResult : AwaitAgent(t, r)
    BY <2>2, <2>3, WaitMoves DEF Unsettled
  <2>5. r \in {"Timeout", "AgentUnreachable"} /\ result'[t] = r
    BY <1>i, <2>1, <2>4 DEF AwaitAgent, GiveUp, TaskTypeOK, DeploymentResult
  <2> QED BY <1>a, <1>17, <2>5
\* An apply that a handler has not noticed yet.
<1>18. ASSUME NEW t \in Task, tnode'[t] = n, pc'[t] = "wait", rpc'[t] = "applied"
       PROVE  active'[n] = want'[t]
  <2>1. Present(n)'
    BY <1>8, <1>18 DEF Critical
  <2>2. tnode[t] = n /\ want'[t] = want[t] /\ (rpc'[t] = rpc[t] \/ AgentApply(t))
    BY <1>i, <1>18, CallMoves
  <2>3. CASE AgentApply(t)
    BY <2>2, <2>3 DEF AgentApply, IndInv, TypeOK, AgentTypeOK
  <2>4. CASE rpc[t] = "applied"
    <3>1. Unsettled(t) \/ Stores(t)
      BY <1>10, <1>18 DEF Unsettled
    <3>2. pc[t] = "wait"
      BY <1>i, <2>4, <3>1 DEF Unsettled, Stores, EarlyInv
    <3>3. active[n] = want[t]
      BY <1>t, <2>2, <2>4, <3>2 DEF TaskRuns
    <3>4. ASSUME NEW u \in Task, tnode[u] = n, AgentApply(u) PROVE FALSE
      <4>1. u = t
        BY <1>1, <1>6, <2>2, <3>2, <3>4 DEF Critical
      <4> QED BY <2>4, <3>4, <4>1 DEF AgentApply
    <3> QED BY <1>7, <2>1, <2>2, <3>3, <3>4
  <2> QED BY <1>18, <2>2, <2>3, <2>4
<1>19. \A t \in Task : tnode'[t] = n => TaskRuns(t)'
  BY <1>9, <1>15, <1>16, <1>17, <1>18 DEF TaskRuns, Versioned
\* The newest version runs, is on its way, or was rejected.
<1>20. NewestRuns(n)'
  <2>1. ASSUME NEW t \in Task, Stores(t) PROVE NewestRuns(n)'
    BY <2>1 DEF Stores, NewestRuns, Unsettled
  <2>2. CASE history'[n] = history[n]
    <3>1. ASSUME NEW t \in Task, tnode[t] = n, result[t] = "AgentFailure", ver[t] = Len(history[n])
          PROVE  Denied(n)'
      BY <1>i, <2>2, <3>1, ResultLasts DEF Frozen, Denied
    <3>2. CASE active[n] = history[n][Len(history[n])]
      <4>1. CASE active'[n] = active[n]
        BY <2>2, <3>2, <4>1 DEF NewestRuns
      <4>2. CASE ~Present(n)'
        BY <1>8, <4>2 DEF NewestRuns
      <4>3. CASE \E t \in Task : tnode[t] = n /\ AgentApply(t)
        BY <1>6, <4>3 DEF NewestRuns
      <4> QED BY <1>7, <4>1, <4>2, <4>3
    <3>3. ASSUME NEW t \in Task, tnode[t] = n, Unsettled(t) PROVE NewestRuns(n)'
      <4>1. pc[t] # "idle"
        BY <3>3 DEF Unsettled
      <4>2. tnode'[t] = n
        BY <1>i, <3>3, <4>1, HandlerKeeps
      <4>3. CASE Unsettled(t)'
        BY <4>2, <4>3 DEF NewestRuns
      <4>4. ASSUME NEW r \in DeploymentResult, AwaitAgent(t, r) PROVE NewestRuns(n)'
        <5>1. /\ ver'[t] = Len(history'[n]) /\ history'[n][ver'[t]] = want[t]
              /\ r = "Success" => active'[n] = want[t]
          BY <1>12, <3>3, <4>4
        <5>2. result'[t] = r /\ r \in {"Success", "AgentFailure"}
          BY <1>i, <1>a, <4>2, <4>4 DEF AwaitAgent, GiveUp, TaskTypeOK, DeploymentResult
        <5> QED BY <4>2, <5>1, <5>2 DEF NewestRuns, Denied
      <4> QED BY <1>a, <3>3, <4>2, <4>3, <4>4, WaitMoves
    <3>4. CASE history[n] = << >>
      BY <2>2, <3>4 DEF NewestRuns
    <3>5. CASE Denied(n)
      BY <3>1, <3>5 DEF Denied, NewestRuns
    <3> QED BY <1>n, <3>2, <3>3, <3>4, <3>5 DEF NodeRuns, NewestRuns
  <2> QED BY <1>2, <2>1, <2>2
<1> QED BY <1>19, <1>20 DEF NodeRuns

(* If the newest version of a node was deployed with success, no call to   *)
(* its agent was abandoned and no store_policy cut in two, the agent runs  *)
(* that version; so it does if a request was skipped as a no-op, unless    *)
(* the agent had rejected that very version (deploy_to_node).  For any     *)
(* nodes, handlers and policies, both backends and every set of faults.    *)
THEOREM SuccessRuns == Spec => []LatestSuccessIsRunning
<1> DEFINE I == IndInv /\ TablesInv /\ RunInv
<1>1. Init => I
  <2> SUFFICES ASSUME Init PROVE EarlyInv /\ AuditInv /\ \A n \in Node : NodeRuns(n)
    BY InitInd, TablesInit DEF RunInv
  <2>1. EarlyInv /\ AuditInv
    BY DEF Init, EarlyInv, AuditInv
  <2> QED BY <2>1 DEF Init, NodeRuns, NewestRuns, TaskRuns
<1>2. I /\ [Next]_vars => I'
  <2> SUFFICES ASSUME I, [Next]_vars PROVE IndInv' /\ TablesInv' /\ RunInv'
    OBVIOUS
  <2>1. IndInv'
    BY TypeStep, LocalsStep, ClaimedStep, ExclusionStep DEF IndInv
  <2>2. RunInv'
    BY EarlyStep, AuditStep, NodeRunsStep DEF RunInv
  <2> QED BY <2>1, <2>2, TablesStep
<1>3. I => LatestSuccessIsRunning
  <2> SUFFICES ASSUME I, NEW d \in deployments, NEW n, n = d.node,
                      Live(n) /\ agentUp[n], OnlyGuarded(n) /\ Answered(n) /\ Whole(n),
                      d.version = Len(history[n]), d.result = "Success",
                      result[d.id] = "NoChange" => ~Denied(n)
               PROVE  active[n] = d.policy
    BY DEF LatestSuccessIsRunning
  <2>0. d \in DeploymentRecord
    BY DEF IndInv, TypeOK, StorageTypeOK
  <2>1. n \in Node /\ d.id \in Task
    BY <2>0 DEF DeploymentRecord
  <2>2. Regular(n)
    BY DEF Regular, Live
  <2>3. NodeRuns(n) /\ NodeTables(n)
    BY <2>1, <2>2 DEF RunInv, TablesInv
  <2>4. d.version \in DOMAIN history[n] /\ history[n][d.version] = d.policy
    BY <2>3 DEF NodeTables, Recorded
  <2>5. d = RecordOf(d.id)
    BY DEF RunInv, AuditInv
  <2>6. /\ tnode[d.id] = n /\ ver[d.id] = d.version
        /\ result[d.id] = "Success" \/ result[d.id] = "NoChange"
    BY <2>5 DEF RecordOf
  <2>7. TaskRuns(d.id)
    BY <2>1, <2>3, <2>6 DEF NodeRuns
  <2>8. CASE result[d.id] = "Success"
    BY <2>4, <2>6, <2>7, <2>8 DEF TaskRuns
  <2>9. CASE result[d.id] = "NoChange"
    <3>1. \A u \in Task : ~(tnode[u] = n /\ Unsettled(u))
      BY <2>1, <2>6, <2>7, <2>9 DEF TaskRuns, IndInv, TypeOK, StorageTypeOK
    <3>2. history[n] # << >>
      BY <2>4
    <3> QED BY <2>3, <2>4, <2>9, <3>1, <3>2 DEF NodeRuns, NewestRuns
  <2> QED BY <2>6, <2>8, <2>9
<1> HIDE DEF I
<1> QED BY <1>1, <1>2, <1>3, PTL DEF Spec
=============================================================================
