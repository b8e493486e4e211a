---------------------------- MODULE Deploy_proofs ----------------------------
(***************************************************************************)
(* Proofs about Deploy: the inductive invariant IndInv, and with it type   *)
(* correctness and the mutual exclusion of the guarded handlers, for any   *)
(* numbers of nodes, policies and handlers, both backends and every set of *)
(* faults.                                                                 *)
(***************************************************************************)
EXTENDS DeployProperties, TLAPS

(* Whatever version rollback_policy or execute_rollback resolves to, the   *)
(* history holds a policy under that number.                               *)
LEMMA TargetIsPolicy ==
  ASSUME StorageTypeOK, NEW n \in Node, NEW v, NEW limit,
         NEW w \in RollbackTarget(n, v, limit)
  PROVE  history[n][w] \in Policy
BY DEF RollbackTarget, Recent, StorageTypeOK

(* The empty tables of a new controller satisfy the invariant.             *)
LEMMA InitInd == Init => IndInv
<1> SUFFICES ASSUME Init PROVE IndInv
  OBVIOUS
<1>1. TypeOK
  BY DeployAssumption DEF Init, TypeOK, StorageTypeOK, TaskTypeOK, AgentTypeOK,
     NodeState, Kind, PC, Result, DeploymentResult
<1>2. TaskLocals /\ ClaimedIds /\ GuardedExclusion
  BY DEF Init, TaskLocals, ClaimedIds, GuardedExclusion, Underway, Held, Critical, Finished
<1> QED BY <1>1, <1>2 DEF IndInv

(* No step takes a table, a handler's local or an agent out of its type.   *)
LEMMA TypeStep == IndInv /\ [Next]_vars => TypeOK'
<1> SUFFICES ASSUME IndInv, [Next]_vars PROVE StorageTypeOK' /\ TaskTypeOK' /\ AgentTypeOK'
  BY DEF TypeOK
<1>0. StorageTypeOK /\ TaskTypeOK /\ AgentTypeOK /\ TaskLocals
  BY DEF IndInv, TypeOK
<1>s. ASSUME UNCHANGED storageVars PROVE StorageTypeOK'
  BY <1>0, <1>s DEF StorageTypeOK, storageVars
<1>t. ASSUME UNCHANGED taskVars PROVE TaskTypeOK'
  BY <1>0, <1>t DEF TaskTypeOK, taskVars
<1>a. ASSUME UNCHANGED agentVars PROVE AgentTypeOK'
  BY <1>0, <1>a DEF AgentTypeOK, agentVars
<1> DEFINE Goal == StorageTypeOK' /\ TaskTypeOK' /\ AgentTypeOK'
<1>1. CASE UNCHANGED vars
  BY <1>1, <1>s, <1>t, <1>a DEF vars
<1>2. ASSUME NEW t \in Task, StartTask(t) PROVE Goal
  <2>1. ASSUME NEW n \in Node, NEW p \in Policy, DeployPolicy(t, n, p) PROVE Goal
    <3>0. kind' \in [Task -> Kind]
      BY <1>0, <2>1 DEF DeployPolicy, TaskTypeOK, Kind
    <3>1. TaskTypeOK'
      BY <1>0, <2>1, <3>0 DEF DeployPolicy, StorageTypeOK, TaskTypeOK, ReadNode, GiveUp, Goto,
         Present, PC, Result
    <3> QED BY <2>1, <3>1, <1>s, <1>a DEF DeployPolicy
  <2>2. ASSUME NEW n \in Node, NEW v \in Target, RollbackPolicy(t, n, v) PROVE Goal
    <3>1. TaskTypeOK'
      BY <1>0, <2>2, DeployAssumption, ZenonT(60) DEF RollbackPolicy, StorageTypeOK, TaskTypeOK,
         ReadNode, GiveUp, Goto, Present, Kind, PC, Result
    <3> QED BY <2>2, <3>1, <1>s, <1>a DEF RollbackPolicy
  <2>3. ASSUME NEW n \in Node, FsmRollback(t, n) PROVE Goal
    <3>1. TaskTypeOK'
      BY <1>0, <2>3, TargetIsPolicy DEF FsmRollback, TaskTypeOK, GiveUp, Goto, Kind, PC, Result
    <3> QED BY <2>3, <3>1, <1>s, <1>a DEF FsmRollback
  <2> QED BY <1>2, <2>1, <2>2, <2>3 DEF StartTask
<1>3. ASSUME NEW t \in Task, TaskStep(t) PROVE Goal
  <2>1. CASE RollbackHistory(t)
    <3>1. TaskTypeOK'
      BY <1>0, <2>1, TargetIsPolicy DEF RollbackHistory, TaskTypeOK, GiveUp, Goto, PC, Result
    <3> QED BY <2>1, <3>1, <1>s, <1>a DEF RollbackHistory
  <2>2. CASE FsmRollbackNode(t)
    <3>1. TaskTypeOK'
      BY <1>0, <2>2 DEF FsmRollbackNode, StorageTypeOK, TaskTypeOK, ReadNode, Present,
         GiveUp, Goto, PC, Result
    <3> QED BY <2>2, <3>1, <1>s, <1>a DEF FsmRollbackNode
  <2>3. CASE BeginDeploy(t) \/ EndDeploy(t)
    <3>1. TaskTypeOK'
      BY <1>0, <2>3 DEF BeginDeploy, EndDeploy, TaskTypeOK, GiveUp, Goto, PC, Result
    <3>2. StorageTypeOK'
      BY <1>0, <2>3 DEF BeginDeploy, EndDeploy, StorageTypeOK, TaskTypeOK
    <3> QED BY <2>3, <3>1, <3>2, <1>a DEF BeginDeploy, EndDeploy
  <2>4a. CASE CheckRequest(t)
    <3>1. TaskTypeOK'
      BY <1>0, <2>4a DEF CheckRequest, TaskTypeOK, GiveUp, Goto, After, PC, Result, NodeState
    <3> QED BY <2>4a, <3>1, <1>s, <1>a DEF CheckRequest
  <2>l. Len(history[tnode[t]]) \in Nat /\ Len(history[tnode[t]]) + 1 \in Nat
    BY <1>0 DEF StorageTypeOK, TaskTypeOK
  <2>4b. CASE ReadVersion(t)
    <3>1. TaskTypeOK'
      BY <1>0, <2>4b, <2>l DEF ReadVersion, TaskTypeOK, GiveUp, Goto, PC, Result
    <3> QED BY <2>4b, <3>1, <1>s, <1>a DEF ReadVersion
  <2>5. CASE StorePolicy(t)
    <3>1. TaskTypeOK'
      BY <1>0, <2>5, <2>l, ZenonT(60) DEF StorePolicy, TaskTypeOK, GiveUp, Goto, After, PC, Result
    <3>2. want[t] \in Policy
      BY <1>0, <2>5 DEF StorePolicy, TaskLocals, Critical
    <3>3. Append(history[tnode[t]], want[t]) \in Seq(Policy)
      BY <1>0, <3>2 DEF StorageTypeOK, TaskTypeOK
    <3>4. history' \in [Node -> Seq(Policy)]
      BY <1>0, <2>5, <3>3 DEF StorePolicy, StorageTypeOK
    <3>5. current' \in [Node -> Policy \cup {NoPolicy}]
      BY <1>0, <2>5, <3>2 DEF StorePolicy, StorageTypeOK
    <3>6. StorageTypeOK'
      BY <1>0, <2>5, <3>4, <3>5 DEF StorePolicy, StorageTypeOK
    <3> QED BY <2>5, <3>1, <3>6, <1>a DEF StorePolicy
  <2>6. CASE MarkDeploying(t)
    <3>1. TaskTypeOK' /\ AgentTypeOK'
      BY <1>0, <2>6 DEF MarkDeploying, TaskTypeOK, AgentTypeOK, Goto, PC
    <3>2. StorageTypeOK'
      BY <1>0, <2>6 DEF MarkDeploying, UpdateNodeState, StorageTypeOK, NodeState
    <3> QED BY <3>1, <3>2
  <2>7. ASSUME NEW r \in DeploymentResult, AwaitAgent(t, r) PROVE Goal
    <3>1. TaskTypeOK'
      BY <1>0, <2>7 DEF AwaitAgent, TaskTypeOK, GiveUp, Goto, PC, Result
    <3> QED BY <2>7, <3>1, <1>s, <1>a DEF AwaitAgent
  <2>8. CASE SettleState(t)
    <3>1. TaskTypeOK'
      BY <1>0, <2>8 DEF SettleState, TaskTypeOK, Goto, PC
    <3>2. StorageTypeOK'
      BY <1>0, <2>8 DEF SettleState, UpdateNodeState, StorageTypeOK, NodeState
    <3> QED BY <2>8, <3>1, <3>2, <1>a DEF SettleState
  <2>9. CASE RecordDeployment(t)
    <3>1. TaskTypeOK'
      BY <1>0, <2>9 DEF RecordDeployment, TaskTypeOK, Goto, After, PC
    <3>2. RecordOf(t) \in DeploymentRecord
      BY <1>0, <2>9 DEF RecordDeployment, RecordOf, DeploymentRecord, DeploymentResult,
         TaskTypeOK, TaskLocals, Critical
    <3>3. StorageTypeOK'
      BY <1>0, <2>9, <3>2 DEF RecordDeployment, StorageTypeOK
    <3> QED BY <2>9, <3>1, <3>3, <1>a DEF RecordDeployment
  <2>10. CASE StorageFails(t)
    <3>1. TaskTypeOK' /\ AgentTypeOK'
      BY <1>0, <2>10 DEF StorageFails, TaskTypeOK, AgentTypeOK, GiveUp, Goto, After, PC, Result
    <3> QED BY <2>10, <3>1, <1>s DEF StorageFails
  <2>11. CASE StoreTorn(t)
    <3>1. TaskTypeOK'
      BY <1>0, <2>11 DEF StoreTorn, TaskTypeOK, GiveUp, Goto, After, PC, Result
    <3>2. want[t] \in Policy
      BY <1>0, <2>11 DEF StoreTorn, TaskLocals, Critical
    <3>3. Append(history[tnode[t]], want[t]) \in Seq(Policy)
      BY <1>0, <3>2 DEF StorageTypeOK, TaskTypeOK
    <3>4. StorageTypeOK'
      BY <1>0, <2>11, <3>3 DEF StoreTorn, StorageTypeOK
    <3> QED BY <2>11, <3>1, <3>4, <1>a DEF StoreTorn
  <2> QED
    BY <1>3, <2>1, <2>2, <2>3, <2>4a, <2>4b, <2>5, <2>6, <2>7, <2>8, <2>9, <2>10, <2>11 DEF TaskStep
<1>4. ASSUME NEW t \in Task,
             Disconnect(t) \/ AgentCompile(t) \/ AgentApply(t) \/ AgentCancel(t)
      PROVE  Goal
  <2>1. CASE Disconnect(t)
    <3>1. TaskTypeOK'
      BY <1>0, <2>1 DEF Disconnect, TaskTypeOK, Goto, PC
    <3> QED BY <2>1, <3>1, <1>s, <1>a DEF Disconnect
  <2>2. CASE AgentCompile(t) \/ AgentApply(t) \/ AgentCancel(t)
    <3>1. AgentTypeOK'
      BY <1>0, <2>2 DEF AgentCompile, AgentApply, AgentCancel, AgentTypeOK, TaskTypeOK
    <3> QED BY <2>2, <3>1, <1>s, <1>t DEF AgentCompile, AgentApply, AgentCancel
  <2> QED BY <1>4, <2>1, <2>2
<1>5. ASSUME NEW n \in Node, NodeStep(n) PROVE Goal
  <2>1. CASE RegisterNode(n)
    <3>1. StorageTypeOK' /\ AgentTypeOK'
      BY <1>0, <2>1 DEF RegisterNode, StorageTypeOK, AgentTypeOK, NodeState
    <3> QED BY <2>1, <3>1, <1>t DEF RegisterNode
  <2>2. CASE SendHeartbeat(n) \/ LoseHeartbeat(n) \/ AgentStop(n)
    <3>1. AgentTypeOK'
      BY <1>0, <2>2 DEF SendHeartbeat, LoseHeartbeat, AgentStop, AgentTypeOK
    <3> QED BY <2>2, <3>1, <1>s, <1>t DEF SendHeartbeat, LoseHeartbeat, AgentStop
  <2>3. CASE ReceiveHeartbeat(n)
    <3>1. StorageTypeOK' /\ AgentTypeOK'
      BY <1>0, <2>3 DEF ReceiveHeartbeat, StorageTypeOK, AgentTypeOK, NodeState
    <3> QED BY <2>3, <3>1, <1>t DEF ReceiveHeartbeat
  <2>e. << >> \in Seq(Policy)
    OBVIOUS
  <2>4. CASE TimePasses(n) \/ RemoveGuard(n) \/ RemoveRow(n)
    <3>1. StorageTypeOK'
      BY <1>0, <2>4 DEF TimePasses, RemoveGuard, RemoveRow, StorageTypeOK
    <3> QED BY <2>4, <3>1, <1>t, <1>a DEF TimePasses, RemoveGuard, RemoveRow
  <2>6. CASE RemoveVersions(n)
    <3>1. StorageTypeOK'
      BY <1>0, <2>6, <2>e DEF RemoveVersions, StorageTypeOK
    <3> QED BY <2>6, <3>1, <1>t, <1>a DEF RemoveVersions
  <2>5. CASE RemoveNode(n)
    <3>1. StorageTypeOK'
      BY <1>0, <2>5, <2>e, ZenonT(60) DEF RemoveNode, StorageTypeOK
    <3> QED BY <2>5, <3>1, <1>t, <1>a DEF RemoveNode
  <2> QED BY <1>5, <2>1, <2>2, <2>3, <2>4, <2>5, <2>6 DEF NodeStep
<1>6. CASE MarkStaleNodes
  <2>1. StorageTypeOK'
    BY <1>0, <1>6 DEF MarkStaleNodes, StorageTypeOK, NodeState
  <2> QED BY <1>6, <2>1, <1>t, <1>a DEF MarkStaleNodes
<1>7. CASE Restart
  <2>1. StorageTypeOK' /\ TaskTypeOK'
    BY <1>0, <1>7 DEF Restart, StorageTypeOK, TaskTypeOK, PC
  <2> QED BY <1>7, <2>1, <1>a DEF Restart
<1> QED BY <1>1, <1>2, <1>3, <1>4, <1>5, <1>6, <1>7 DEF Next

(* A handler that reaches a table has the policy and the result it writes. *)
LEMMA LocalsStep == IndInv /\ [Next]_vars => TaskLocals'
<1> SUFFICES ASSUME IndInv, [Next]_vars PROVE TaskLocals'
  OBVIOUS
<1>0. StorageTypeOK /\ TaskTypeOK /\ TaskLocals
  BY DEF IndInv, TypeOK
<1>1. ASSUME UNCHANGED <<pc, kind, want, result>> PROVE TaskLocals'
  BY <1>0, <1>1 DEF TaskLocals, Guarded
<1>2. ASSUME NEW t \in Task, StartTask(t) PROVE TaskLocals'
  <2>1. ASSUME NEW n \in Node, NEW p \in Policy, DeployPolicy(t, n, p) PROVE TaskLocals'
    BY <1>0, <2>1 DEF DeployPolicy, ReadNode, GiveUp, Goto, TaskTypeOK, TaskLocals, Critical,
     Guarded, GuardedKind
  <2>2. ASSUME NEW n \in Node, NEW v \in Target, RollbackPolicy(t, n, v) PROVE TaskLocals'
    BY <1>0, <2>2 DEF RollbackPolicy, ReadNode, GiveUp, Goto, TaskTypeOK, TaskLocals, Critical,
     Guarded, GuardedKind
  <2>3. ASSUME NEW n \in Node, FsmRollback(t, n) PROVE TaskLocals'
    BY <1>0, <2>3, TargetIsPolicy DEF FsmRollback, GiveUp, Goto, TaskTypeOK, TaskLocals, Critical,
     Guarded, GuardedKind
  <2> QED BY <1>2, <2>1, <2>2, <2>3 DEF StartTask
<1>3. ASSUME NEW t \in Task, TaskStep(t) PROVE TaskLocals'
  <2>1. CASE RollbackHistory(t)
    BY <1>0, <2>1, TargetIsPolicy DEF RollbackHistory, GiveUp, Goto, TaskTypeOK, TaskLocals, Critical,
     Guarded, GuardedKind
  <2>2. CASE FsmRollbackNode(t)
    BY <1>0, <2>2 DEF FsmRollbackNode, ReadNode, GiveUp, Goto, TaskTypeOK, TaskLocals, Critical,
     Guarded, GuardedKind
  <2>3. CASE BeginDeploy(t) \/ EndDeploy(t)
    BY <1>0, <2>3 DEF BeginDeploy, EndDeploy, GiveUp, Goto, TaskTypeOK, TaskLocals, Critical,
     Guarded, GuardedKind
  <2>4. CASE CheckRequest(t) \/ ReadVersion(t)
    BY <1>0, <2>4 DEF CheckRequest, ReadVersion, After, GiveUp, Goto, TaskTypeOK, TaskLocals, Critical,
     Guarded, GuardedKind
  <2>5. CASE StorePolicy(t) \/ MarkDeploying(t)
    BY <1>0, <2>5 DEF StorePolicy, MarkDeploying, After, GiveUp, Goto, TaskTypeOK, TaskLocals, Critical,
     Guarded, GuardedKind
  <2>6. ASSUME NEW r \in DeploymentResult, AwaitAgent(t, r) PROVE TaskLocals'
    BY <1>0, <2>6 DEF AwaitAgent, GiveUp, Goto, TaskTypeOK, TaskLocals, Critical,
     Guarded, GuardedKind
  <2>7. CASE SettleState(t) \/ RecordDeployment(t)
    BY <1>0, <2>7 DEF SettleState, RecordDeployment, After, Goto, TaskTypeOK, TaskLocals, Critical,
     Guarded, GuardedKind
  <2>8. CASE StorageFails(t) \/ StoreTorn(t)
    BY <1>0, <2>8 DEF StorageFails, StoreTorn, After, GiveUp, Goto, TaskTypeOK, TaskLocals, Critical,
     Guarded, GuardedKind
  <2> QED BY <1>3, <2>1, <2>2, <2>3, <2>4, <2>5, <2>6, <2>7, <2>8 DEF TaskStep
<1>4. ASSUME NEW t \in Task, Disconnect(t) PROVE TaskLocals'
  BY <1>0, <1>4 DEF Disconnect, Goto, TaskTypeOK, TaskLocals, Critical,
     Guarded, GuardedKind
<1>5. CASE Restart
  BY <1>0, <1>5 DEF Restart, TaskTypeOK, TaskLocals, Critical,
     Guarded, GuardedKind
<1>6. ASSUME NEW t \in Task, AgentCompile(t) \/ AgentApply(t) \/ AgentCancel(t) PROVE TaskLocals'
  BY <1>1, <1>6 DEF AgentCompile, AgentApply, AgentCancel, taskVars
<1>7. ASSUME NEW n \in Node, NodeStep(n) PROVE TaskLocals'
  BY <1>1, <1>7 DEF NodeStep, RegisterNode, SendHeartbeat, ReceiveHeartbeat, LoseHeartbeat,
     TimePasses, AgentStop, RemoveNode, RemoveVersions, RemoveGuard, RemoveRow, taskVars
<1>8. CASE MarkStaleNodes \/ UNCHANGED vars
  BY <1>1, <1>8 DEF MarkStaleNodes, vars, taskVars
<1> QED BY <1>2, <1>3, <1>4, <1>5, <1>6, <1>7, <1>8 DEF Next

(* A node id is assigned once: a step only ever takes a node from free to  *)
(* registered, and from registered to removed.                             *)
LEMMA NodesComeAndGo ==
  ASSUME IndInv, [Next]_vars, NEW n \in Node
  PROVE  /\ Fresh(n)' => Fresh(n)
         /\ Live(n)' => Live(n) \/ Fresh(n)
<1>0. StorageTypeOK /\ AgentTypeOK /\ TaskTypeOK
  BY DEF IndInv, TypeOK
<1> DEFINE Goal == (Fresh(n)' => Fresh(n)) /\ (Live(n)' => Live(n) \/ Fresh(n))
<1> USE DEF Fresh, Live, Present
<1>1. ASSUME UNCHANGED <<nodeState, removal>> PROVE Goal
  BY <1>1
<1>2. ASSUME NEW t \in Task, StartTask(t) PROVE Goal
  BY <1>1, <1>2 DEF StartTask, DeployPolicy, RollbackPolicy, FsmRollback, storageVars
<1>3. ASSUME NEW m \in Node, NEW s \in NodeState, UpdateNodeState(m, s), UNCHANGED removal
      PROVE  Goal
  BY <1>0, <1>3 DEF UpdateNodeState, StorageTypeOK, NodeState
<1>4. ASSUME NEW t \in Task, TaskStep(t) PROVE Goal
  <2>1. CASE MarkDeploying(t)
    BY <1>0, <1>3, <2>1 DEF MarkDeploying, NodeState, TaskTypeOK
  <2>2. CASE SettleState(t)
    BY <1>0, <1>3, <2>2 DEF SettleState, NodeState, TaskTypeOK
  <2>3. CASE ~MarkDeploying(t) /\ ~SettleState(t)
    BY <1>1, <1>4, <2>3 DEF TaskStep, RollbackHistory, FsmRollbackNode, BeginDeploy, EndDeploy,
       CheckRequest, ReadVersion, StorePolicy, AwaitAgent, RecordDeployment, StorageFails, StoreTorn,
       storageVars
  <2> QED BY <2>1, <2>2, <2>3
<1>5. ASSUME NEW t \in Task,
             Disconnect(t) \/ AgentCompile(t) \/ AgentApply(t) \/ AgentCancel(t)
      PROVE  Goal
  BY <1>1, <1>5 DEF Disconnect, AgentCompile, AgentApply, AgentCancel, storageVars
<1>6. ASSUME NEW m \in Node, NodeStep(m) PROVE Goal
  <2>1. CASE RegisterNode(m) \/ ReceiveHeartbeat(m)
    BY <1>0, <2>1 DEF RegisterNode, ReceiveHeartbeat, StorageTypeOK, AgentTypeOK
  <2>2. CASE RemoveNode(m)
    BY <1>0, <2>2 DEF RemoveNode, StorageTypeOK
  <2>3. CASE RemoveVersions(m) \/ RemoveGuard(m) \/ RemoveRow(m)
    BY <1>0, <2>3 DEF RemoveVersions, RemoveGuard, RemoveRow, StorageTypeOK
  <2>4. CASE SendHeartbeat(m) \/ LoseHeartbeat(m) \/ TimePasses(m) \/ AgentStop(m)
    BY <1>1, <2>4 DEF SendHeartbeat, LoseHeartbeat, TimePasses, AgentStop, storageVars
  <2> QED BY <1>6, <2>1, <2>2, <2>3, <2>4 DEF NodeStep
<1>7. CASE MarkStaleNodes
  BY <1>0, <1>7 DEF MarkStaleNodes, StaleNodes, StorageTypeOK
<1>8. CASE Restart
  BY <1>0, <1>8 DEF Restart, StorageTypeOK
<1>9. CASE UNCHANGED vars
  BY <1>1, <1>9 DEF vars, storageVars
<1> QED BY <1>2, <1>4, <1>5, <1>6, <1>7, <1>8, <1>9 DEF Next

(* How a guarded handler u gets to be under way, and inside the guarded    *)
(* section: it was already, or it has just read its node, or begin_deploy  *)
(* has just admitted it.                                                   *)
LEMMA HandlerMoves ==
  ASSUME IndInv, [Next]_vars, NEW u \in Task, Guarded(u)'
  PROVE  /\ Underway(u)' => \/ Present(tnode'[u]) /\ UNCHANGED storageVars
                            \/ Guarded(u) /\ Underway(u) /\ tnode'[u] = tnode[u]
         /\ Held(u)' => /\ Guarded(u) /\ tnode'[u] = tnode[u]
                        /\ Held(u) \/ (pc[u] = "guard" /\ BeginDeploy(u) /\ tnode[u] \notin deploying)
<1>0. StorageTypeOK /\ TaskTypeOK /\ TaskLocals
  BY DEF IndInv, TypeOK
<1> DEFINE
      In == Underway(u)' => \/ Present(tnode'[u]) /\ UNCHANGED storageVars
                            \/ Guarded(u) /\ Underway(u) /\ tnode'[u] = tnode[u]
      Enter == Held(u)' => /\ Guarded(u) /\ tnode'[u] = tnode[u]
                           /\ Held(u) \/ (pc[u] = "guard" /\ BeginDeploy(u) /\ tnode[u] \notin deploying)
      Goal == In /\ Enter
<1> USE DEF Guarded, Underway, Held
<1>1. ASSUME UNCHANGED <<pc, kind, tnode>> PROVE Goal
  BY <1>1
<1>2. ASSUME NEW t \in Task, StartTask(t) PROVE Goal
  <2>1. ASSUME NEW n \in Node, NEW p \in Policy, DeployPolicy(t, n, p) PROVE Goal
    BY <1>0, <2>1 DEF DeployPolicy, ReadNode, GiveUp, Goto, TaskTypeOK, Critical, Finished
  <2>2. ASSUME NEW n \in Node, NEW v \in Target, RollbackPolicy(t, n, v) PROVE Goal
    BY <1>0, <2>2 DEF RollbackPolicy, ReadNode, GiveUp, Goto, TaskTypeOK, Critical, Finished
  <2>3. ASSUME NEW n \in Node, FsmRollback(t, n) PROVE Goal
    BY <1>0, <2>3 DEF FsmRollback, GiveUp, Goto, TaskTypeOK, GuardedKind
  <2> QED BY <1>2, <2>1, <2>2, <2>3 DEF StartTask
<1>3. ASSUME NEW t \in Task, TaskStep(t) PROVE Goal
  <2>1. CASE FsmRollbackNode(t)
    BY <1>0, <2>1 DEF FsmRollbackNode, ReadNode, GiveUp, Goto, TaskTypeOK, TaskLocals, Critical, Finished
  <2>2. CASE BeginDeploy(t)
    BY <1>0, <2>2 DEF BeginDeploy, GiveUp, Goto, TaskTypeOK, Critical, Finished
  <2>3. CASE RollbackHistory(t)
    BY <1>0, <2>3 DEF RollbackHistory, GiveUp, Goto, TaskTypeOK, Critical, Finished
  <2>4. CASE EndDeploy(t) \/ CheckRequest(t) \/ ReadVersion(t)
    BY <1>0, <2>4 DEF EndDeploy, CheckRequest, ReadVersion, After, GiveUp, Goto, TaskTypeOK, Critical, Finished
  <2>5. CASE StorePolicy(t) \/ MarkDeploying(t) \/ SettleState(t)
    BY <1>0, <2>5 DEF StorePolicy, MarkDeploying, SettleState, After, GiveUp, Goto, TaskTypeOK, Critical, Finished
  <2>6. ASSUME NEW r \in DeploymentResult, AwaitAgent(t, r) PROVE Goal
    BY <1>0, <2>6 DEF AwaitAgent, GiveUp, Goto, TaskTypeOK, Critical, Finished
  <2>7. CASE RecordDeployment(t) \/ StorageFails(t) \/ StoreTorn(t)
    BY <1>0, <2>7 DEF RecordDeployment, StorageFails, StoreTorn, After, GiveUp, Goto, TaskTypeOK, Critical, Finished
  <2> QED BY <1>3, <2>1, <2>2, <2>3, <2>4, <2>5, <2>6, <2>7 DEF TaskStep
<1>4. ASSUME NEW t \in Task, Disconnect(t) PROVE Goal
  BY <1>0, <1>4 DEF Disconnect, Goto, TaskTypeOK, Critical, Finished
<1>5. CASE Restart
  BY <1>0, <1>5 DEF Restart, TaskTypeOK, Critical, Finished
<1>6. ASSUME NEW t \in Task, AgentCompile(t) \/ AgentApply(t) \/ AgentCancel(t) PROVE Goal
  BY <1>1, <1>6 DEF AgentCompile, AgentApply, AgentCancel, taskVars
<1>7. ASSUME NEW n \in Node, NodeStep(n) PROVE Goal
  BY <1>1, <1>7 DEF NodeStep, RegisterNode, SendHeartbeat, ReceiveHeartbeat, LoseHeartbeat,
     TimePasses, AgentStop, RemoveNode, RemoveVersions, RemoveGuard, RemoveRow, taskVars
<1>8. CASE MarkStaleNodes \/ UNCHANGED vars
  BY <1>1, <1>8 DEF MarkStaleNodes, vars, taskVars
<1> QED BY <1>2, <1>3, <1>4, <1>5, <1>6, <1>7, <1>8 DEF Next

(* The guard of a registered node is only dropped by end_deploy of a       *)
(* handler inside the guarded section, or by a restart that ends them all. *)
LEMMA GuardDropped ==
  ASSUME IndInv, [Next]_vars, NEW n \in deploying, n \notin deploying'
  PROVE  \/ ~Live(n)'
         \/ \E t \in Task : Held(t) /\ tnode[t] = n /\ EndDeploy(t)
         \/ \A u \in Task : ~Held(u)'
<1>0. StorageTypeOK /\ TaskTypeOK /\ TaskLocals
  BY DEF IndInv, TypeOK
<1>1. ASSUME NEW t \in Task, EndDeploy(t) PROVE Held(t) /\ tnode[t] = n
  BY <1>0, <1>1 DEF EndDeploy, Held, TaskLocals, Critical
<1>2. ASSUME NEW t \in Task, StartTask(t) PROVE FALSE
  BY <1>2 DEF StartTask, DeployPolicy, RollbackPolicy, FsmRollback, storageVars
<1>3. ASSUME NEW t \in Task, TaskStep(t) PROVE EndDeploy(t)
  BY <1>3 DEF TaskStep, RollbackHistory, FsmRollbackNode, BeginDeploy, CheckRequest, ReadVersion,
     StorePolicy, MarkDeploying, AwaitAgent, SettleState, RecordDeployment, StorageFails, StoreTorn,
     storageVars
<1>4. ASSUME NEW t \in Task,
             Disconnect(t) \/ AgentCompile(t) \/ AgentApply(t) \/ AgentCancel(t)
      PROVE  FALSE
  BY <1>4 DEF Disconnect, AgentCompile, AgentApply, AgentCancel, storageVars
<1>5. ASSUME NEW m \in Node, NodeStep(m) PROVE ~Live(n)'
  <2>1. RemoveGuard(m)
    BY <1>5 DEF NodeStep, RegisterNode, SendHeartbeat, ReceiveHeartbeat, LoseHeartbeat,
       TimePasses, AgentStop, RemoveNode, RemoveVersions, RemoveRow, storageVars
  <2> QED BY <1>0, <2>1 DEF RemoveGuard, StorageTypeOK, Live
<1>6. CASE Restart
  BY <1>0, <1>6 DEF Restart, Held, Critical, Finished, TaskTypeOK
<1>7. ~(MarkStaleNodes \/ UNCHANGED vars)
  BY DEF MarkStaleNodes, vars, storageVars
<1> QED BY <1>1, <1>2, <1>3, <1>4, <1>5, <1>6, <1>7 DEF Next

(* A guarded handler runs only for a node that has been registered.        *)
LEMMA ClaimedStep == IndInv /\ [Next]_vars => ClaimedIds'
<1> SUFFICES ASSUME IndInv, [Next]_vars, NEW t \in Task, Guarded(t)', Underway(t)'
             PROVE  ~Fresh(tnode[t])'
  BY DEF ClaimedIds
<1>1. tnode'[t] \in Node
  BY TypeStep DEF TypeOK, TaskTypeOK
<1>2. CASE Present(tnode'[t]) /\ UNCHANGED storageVars
  BY <1>2 DEF Fresh, Present, storageVars
<1>3. CASE Guarded(t) /\ Underway(t) /\ tnode'[t] = tnode[t]
  <2>1. ~Fresh(tnode[t])
    BY <1>3 DEF IndInv, ClaimedIds
  <2> QED BY <1>1, <1>3, <2>1, NodesComeAndGo DEF Fresh
<1> QED BY <1>2, <1>3, HandlerMoves

(* Two guarded handlers never meet on a live node: one enters only when    *)
(* the guard is clear, and the guard is set while another is inside.       *)
LEMMA ExclusionStep == IndInv /\ [Next]_vars => GuardedExclusion'
<1> SUFFICES ASSUME IndInv, [Next]_vars PROVE GuardedExclusion'
  OBVIOUS
<1>0. TaskTypeOK /\ GuardedExclusion /\ ClaimedIds
  BY DEF IndInv, TypeOK
<1>1. ASSUME NEW t \in Task, Held(t)', Live(tnode[t])'
      PROVE  /\ tnode'[t] = tnode[t] /\ Live(tnode[t])
             /\ Held(t) \/ (BeginDeploy(t) /\ tnode[t] \notin deploying)
  <2>1. /\ Guarded(t) /\ tnode'[t] = tnode[t]
        /\ Held(t) \/ (pc[t] = "guard" /\ BeginDeploy(t) /\ tnode[t] \notin deploying)
    BY <1>1, HandlerMoves DEF Held
  <2>2. Underway(t)
    BY <2>1 DEF Underway, Held, Critical, Finished
  <2>3. ~Fresh(tnode[t]) /\ tnode[t] \in Node
    BY <1>0, <2>1, <2>2 DEF ClaimedIds, TaskTypeOK
  <2>4. Live(tnode[t])
    BY <1>1, <2>1, <2>3, NodesComeAndGo DEF Live, Present
  <2> QED BY <2>1, <2>4
<1>2. ASSUME NEW t \in Task, Held(t)', Live(tnode[t])'
      PROVE  tnode'[t] \in deploying'
  <2>1. CASE BeginDeploy(t)
    BY <1>0, <1>1, <1>2, <2>1 DEF BeginDeploy, GiveUp, Goto, Held, Critical, TaskTypeOK
  <2>2. CASE Held(t)
    <3>1. tnode[t] \in deploying /\ Live(tnode[t])
      BY <1>0, <1>1, <1>2, <2>2 DEF GuardedExclusion
    <3>2. ASSUME NEW s \in Task, Held(s), tnode[s] = tnode[t], EndDeploy(s) PROVE FALSE
      <4>1. s = t
        BY <1>0, <2>2, <3>1, <3>2 DEF GuardedExclusion
      <4> QED BY <1>0, <1>2, <3>2, <4>1 DEF EndDeploy, Goto, Held, Critical, TaskTypeOK
    <3> QED BY <1>1, <1>2, <3>1, <3>2, GuardDropped DEF Live, Present
  <2> QED BY <1>1, <1>2, <2>1, <2>2
<1>3. ASSUME NEW t \in Task, NEW u \in Task, Held(t)', Live(tnode[t])', Held(u)',
             tnode'[u] = tnode'[t]
      PROVE  u = t
  <2>0. Live(tnode[u])'
    BY <1>3 DEF Live, Present
  <2>1. tnode[u] = tnode[t] /\ Live(tnode[t]) /\ Live(tnode[u])
    BY <1>1, <1>3, <2>0
  <2>2. CASE Held(t) /\ Held(u)
    BY <1>0, <2>1, <2>2 DEF GuardedExclusion
  <2>3. CASE Held(t) /\ ~Held(u)
    BY <1>0, <1>1, <1>3, <2>0, <2>1, <2>3 DEF GuardedExclusion
  <2>4. CASE ~Held(t) /\ Held(u)
    BY <1>0, <1>1, <1>3, <2>0, <2>1, <2>4 DEF GuardedExclusion
  <2>5. CASE ~Held(t) /\ ~Held(u)
    <3>1. BeginDeploy(t) /\ pc[u] = "guard"
      BY <1>1, <1>3, <2>0, <2>5 DEF BeginDeploy
    <3> QED BY <1>0, <1>3, <3>1 DEF BeginDeploy, GiveUp, Goto, Held, Critical, TaskTypeOK
  <2> QED BY <2>2, <2>3, <2>4, <2>5
<1> QED BY <1>2, <1>3 DEF GuardedExclusion

(* Types, what a handler knows at each control point, that a handler on    *)
(* its way found its node registered, and the exclusion of begin_deploy    *)
(* and end_deploy hold together in every state of the controller: none of  *)
(* them is preserved without the others.                                   *)
THEOREM Inductive == Spec => []IndInv
<1>1. IndInv /\ [Next]_vars => IndInv'
  BY TypeStep, LocalsStep, ClaimedStep, ExclusionStep DEF IndInv
<1> QED BY InitInd, <1>1, PTL DEF Spec

(* The tables, the handlers' locals and the agents keep their types,       *)
(* whatever the handlers, the faults and their order: in particular only   *)
(* policies enter a version history and only real outcomes an audit record *)
(* (store_policy, record_deployment).                                      *)
THEOREM TypeCorrect == Spec => []TypeOK
<1>1. IndInv => TypeOK
  BY DEF IndInv
<1> QED BY <1>1, Inductive, PTL

(* begin_deploy and end_deploy serialise the handlers that call them on    *)
(* every registered node: for any number of handlers and nodes, on either  *)
(* backend, with clients that disconnect, nodes that are removed, storage  *)
(* errors and restarts.                                                    *)
THEOREM DeployGuardExcludes == Spec => []GuardedExclusion
<1>1. IndInv => GuardedExclusion
  BY DEF IndInv
<1> QED BY <1>1, Inductive, PTL
-----------------------------------------------------------------------------
(***************************************************************************)
(* Who leaves a guard set.                                                 *)
(***************************************************************************)
(* Only the handlers that take the guard wait for it.                      *)
GuardSeekers == \A t \in Task : pc[t] \in {"history", "guard"} => Guarded(t)

LeakInv == GuardSeekers /\ LeakedOnlyByDrop

(* deploy_policy and rollback_policy lead to begin_deploy, and             *)
(* execute_rollback does not.                                              *)
LEMMA SeekersStep == IndInv /\ GuardSeekers /\ [Next]_vars => GuardSeekers'
<1> SUFFICES ASSUME IndInv, GuardSeekers, [Next]_vars, NEW u \in Task,
                    pc'[u] \in {"history", "guard"}
             PROVE  Guarded(u)'
  BY DEF GuardSeekers
<1>0. TaskTypeOK
  BY DEF IndInv, TypeOK
<1> USE DEF GuardSeekers, Guarded, GuardedKind
<1>1. ASSUME UNCHANGED <<pc, kind>> PROVE Guarded(u)'
  BY <1>1
<1>2. ASSUME NEW t \in Task, StartTask(t) PROVE Guarded(u)'
  <2>1. ASSUME NEW n \in Node, NEW p \in Policy, DeployPolicy(t, n, p) PROVE Guarded(u)'
    BY <1>0, <2>1 DEF DeployPolicy, ReadNode, GiveUp, Goto, TaskTypeOK
  <2>2. ASSUME NEW n \in Node, NEW v \in Target, RollbackPolicy(t, n, v) PROVE Guarded(u)'
    BY <1>0, <2>2 DEF RollbackPolicy, ReadNode, GiveUp, Goto, TaskTypeOK
  <2>3. ASSUME NEW n \in Node, FsmRollback(t, n) PROVE Guarded(u)'
    BY <1>0, <2>3 DEF FsmRollback, GiveUp, Goto, TaskTypeOK
  <2> QED BY <1>2, <2>1, <2>2, <2>3 DEF StartTask
<1>3. ASSUME NEW t \in Task, TaskStep(t) PROVE Guarded(u)'
  <2>1. CASE FsmRollbackNode(t) \/ BeginDeploy(t) \/ RollbackHistory(t)
    BY <1>0, <2>1 DEF FsmRollbackNode, BeginDeploy, RollbackHistory, ReadNode, GiveUp, Goto, TaskTypeOK
  <2>2. CASE EndDeploy(t) \/ CheckRequest(t) \/ ReadVersion(t)
    BY <1>0, <2>2 DEF EndDeploy, CheckRequest, ReadVersion, After, GiveUp, Goto, TaskTypeOK
  <2>3. CASE StorePolicy(t) \/ MarkDeploying(t) \/ SettleState(t)
    BY <1>0, <2>3 DEF StorePolicy, MarkDeploying, SettleState, After, GiveUp, Goto, TaskTypeOK
  <2>4. ASSUME NEW r \in DeploymentResult, AwaitAgent(t, r) PROVE Guarded(u)'
    BY <1>0, <2>4 DEF AwaitAgent, GiveUp, Goto, TaskTypeOK
  <2>5. CASE RecordDeployment(t) \/ StorageFails(t) \/ StoreTorn(t)
    BY <1>0, <2>5 DEF RecordDeployment, StorageFails, StoreTorn, After, GiveUp, Goto, TaskTypeOK
  <2> QED BY <1>3, <2>1, <2>2, <2>3, <2>4, <2>5 DEF TaskStep
<1>4. ASSUME NEW t \in Task, Disconnect(t) PROVE Guarded(u)'
  BY <1>0, <1>4 DEF Disconnect, Goto, TaskTypeOK
<1>5. CASE Restart
  BY <1>0, <1>5 DEF Restart, TaskTypeOK
<1>6. ASSUME NEW t \in Task, AgentCompile(t) \/ AgentApply(t) \/ AgentCancel(t) PROVE Guarded(u)'
  BY <1>1, <1>6 DEF AgentCompile, AgentApply, AgentCancel, taskVars
<1>7. ASSUME NEW n \in Node, NodeStep(n) PROVE Guarded(u)'
  BY <1>1, <1>7 DEF NodeStep, RegisterNode, SendHeartbeat, ReceiveHeartbeat, LoseHeartbeat,
     TimePasses, AgentStop, RemoveNode, RemoveVersions, RemoveGuard, RemoveRow, taskVars
<1>8. CASE MarkStaleNodes \/ UNCHANGED vars
  BY <1>1, <1>8 DEF MarkStaleNodes, vars, taskVars
<1> QED BY <1>2, <1>3, <1>4, <1>5, <1>6, <1>7, <1>8 DEF Next

(* A handler inside the guarded section stays there, is dropped, or leaves *)
(* through end_deploy; one that was dropped stays dropped; a restart       *)
(* clears all guards.                                                      *)
LEMMA HolderStays ==
  ASSUME IndInv, [Next]_vars, NEW u \in Task, Held(u) \/ pc[u] = "dropped"
  PROVE  \/ tnode'[u] = tnode[u] /\ (Held(u)' \/ pc'[u] = "dropped")
         \/ EndDeploy(u)
         \/ deploying' = {}
<1>0. TaskTypeOK /\ TaskLocals
  BY DEF IndInv, TypeOK
<1> DEFINE Stays == tnode'[u] = tnode[u] /\ (Held(u)' \/ pc'[u] = "dropped")
<1> USE DEF Guarded, Held
<1>1. ASSUME UNCHANGED <<pc, kind, tnode>> PROVE Stays
  BY <1>1
<1>2. ASSUME NEW t \in Task, StartTask(t) PROVE Stays
  <2>1. pc[t] = "idle"
    BY <1>2 DEF StartTask, DeployPolicy, RollbackPolicy, FsmRollback
  <2>2. u # t
    BY <2>1 DEF Critical
  <2> QED BY <1>0, <1>2, <2>2 DEF StartTask, DeployPolicy, RollbackPolicy, FsmRollback,
             ReadNode, GiveUp, Goto, TaskTypeOK
<1>3. ASSUME NEW t \in Task, TaskStep(t) PROVE Stays \/ EndDeploy(u)
  <2>1. CASE FsmRollbackNode(t)
    BY <1>0, <2>1 DEF FsmRollbackNode, ReadNode, GiveUp, Goto, TaskTypeOK, Critical
  <2>2. CASE BeginDeploy(t) \/ RollbackHistory(t)
    BY <1>0, <2>2 DEF BeginDeploy, RollbackHistory, GiveUp, Goto, TaskTypeOK, Critical
  <2>3. CASE EndDeploy(t)
    BY <1>0, <2>3 DEF EndDeploy, Goto, TaskTypeOK
  <2>4. CASE CheckRequest(t) \/ ReadVersion(t)
    BY <1>0, <2>4 DEF CheckRequest, ReadVersion, After, GiveUp, Goto, TaskTypeOK, Critical
  <2>5. CASE StorePolicy(t) \/ MarkDeploying(t) \/ SettleState(t)
    BY <1>0, <2>5 DEF StorePolicy, MarkDeploying, SettleState, After, GiveUp, Goto, TaskTypeOK, Critical
  <2>6. ASSUME NEW r \in DeploymentResult, AwaitAgent(t, r) PROVE Stays
    BY <1>0, <2>6 DEF AwaitAgent, GiveUp, Goto, TaskTypeOK, Critical
  <2>7. CASE RecordDeployment(t) \/ StorageFails(t) \/ StoreTorn(t)
    BY <1>0, <2>7 DEF RecordDeployment, StorageFails, StoreTorn, After, GiveUp, Goto, TaskTypeOK, Critical
  <2> QED BY <1>3, <2>1, <2>2, <2>3, <2>4, <2>5, <2>6, <2>7 DEF TaskStep
<1>4. ASSUME NEW t \in Task, Disconnect(t) PROVE Stays
  BY <1>0, <1>4 DEF Disconnect, Goto, TaskTypeOK, Critical
<1>5. CASE Restart
  BY <1>5 DEF Restart
<1>6. ASSUME NEW t \in Task, AgentCompile(t) \/ AgentApply(t) \/ AgentCancel(t) PROVE Stays
  BY <1>1, <1>6 DEF AgentCompile, AgentApply, AgentCancel, taskVars
<1>7. ASSUME NEW n \in Node, NodeStep(n) PROVE Stays
  BY <1>1, <1>7 DEF NodeStep, RegisterNode, SendHeartbeat, ReceiveHeartbeat, LoseHeartbeat,
     TimePasses, AgentStop, RemoveNode, RemoveVersions, RemoveGuard, RemoveRow, taskVars
<1>8. CASE MarkStaleNodes \/ UNCHANGED vars
  BY <1>1, <1>8 DEF MarkStaleNodes, vars, taskVars
<1> QED BY <1>2, <1>3, <1>4, <1>5, <1>6, <1>7, <1>8 DEF Next

(* A guard is set by begin_deploy and nothing else.                        *)
LEMMA GuardTaken ==
  ASSUME [Next]_vars, NEW n \in deploying', n \notin deploying
  PROVE  \E t \in Task : BeginDeploy(t) /\ tnode[t] = n
<1>1. ASSUME NEW t \in Task, StartTask(t) PROVE FALSE
  BY <1>1 DEF StartTask, DeployPolicy, RollbackPolicy, FsmRollback, storageVars
<1>2. ASSUME NEW t \in Task, TaskStep(t) PROVE BeginDeploy(t) /\ tnode[t] = n
  <2>1. BeginDeploy(t)
    BY <1>2 DEF TaskStep, RollbackHistory, FsmRollbackNode, EndDeploy, CheckRequest, ReadVersion,
       StorePolicy, MarkDeploying, AwaitAgent, SettleState, RecordDeployment, StorageFails, StoreTorn,
       storageVars
  <2> QED BY <2>1 DEF BeginDeploy
<1>3. ASSUME NEW t \in Task,
             Disconnect(t) \/ AgentCompile(t) \/ AgentApply(t) \/ AgentCancel(t)
      PROVE  FALSE
  BY <1>3 DEF Disconnect, AgentCompile, AgentApply, AgentCancel, storageVars
<1>4. ASSUME NEW m \in Node, NodeStep(m) PROVE FALSE
  BY <1>4 DEF NodeStep, RegisterNode, SendHeartbeat, ReceiveHeartbeat, LoseHeartbeat,
     TimePasses, AgentStop, RemoveNode, RemoveVersions, RemoveGuard, RemoveRow, storageVars
<1>5. ~Restart
  BY DEF Restart
<1>6. ~(MarkStaleNodes \/ UNCHANGED vars)
  BY DEF MarkStaleNodes, vars, storageVars
<1> QED BY <1>1, <1>2, <1>3, <1>4, <1>5, <1>6 DEF Next

(* A guard that stays set keeps the handler that accounts for it.          *)
LEMMA LeakStep == IndInv /\ LeakInv /\ [Next]_vars => LeakInv'
<1> SUFFICES ASSUME IndInv, LeakInv, [Next]_vars, NEW n \in deploying'
             PROVE  \E t \in Task : tnode'[t] = n /\ (Held(t)' \/ pc'[t] = "dropped")
  BY SeekersStep DEF LeakInv, LeakedOnlyByDrop
<1>0. TaskTypeOK /\ GuardSeekers
  BY DEF IndInv, TypeOK, LeakInv
<1>1. CASE n \notin deploying
  <2>1. PICK t \in Task : BeginDeploy(t) /\ tnode[t] = n
    BY <1>1, GuardTaken
  <2>2. pc'[t] = "check" /\ tnode'[t] = n
    BY <1>0, <1>1, <2>1 DEF BeginDeploy, Goto, TaskTypeOK
  <2>3. Guarded(t)'
    BY <1>0, <2>1 DEF BeginDeploy, GuardSeekers, Guarded
  <2> QED BY <2>2, <2>3 DEF Held, Critical
<1>2. CASE n \in deploying
  <2>1. PICK t \in Task : tnode[t] = n /\ (Held(t) \/ pc[t] = "dropped")
    BY <1>2 DEF LeakInv, LeakedOnlyByDrop
  <2>2. ~EndDeploy(t)
    BY <2>1 DEF EndDeploy
  <2>3. deploying' # {}
    OBVIOUS
  <2> QED BY <2>1, <2>2, <2>3, HolderStays
<1> QED BY <1>1, <1>2

(* Only a handler that was dropped leaves the deploy guard set behind it:  *)
(* refusals, errors, timeouts and restarts all release it, for any number  *)
(* of nodes and handlers and both backends (end_deploy).                   *)
THEOREM OnlyDropsLeak == Spec => []LeakedOnlyByDrop
<1>1. Init => LeakInv
  BY DEF Init, LeakInv, GuardSeekers, LeakedOnlyByDrop
<1>2. LeakInv => LeakedOnlyByDrop
  BY DEF LeakInv
<1> QED BY <1>1, <1>2, LeakStep, Inductive, PTL DEF Spec
=============================================================================
