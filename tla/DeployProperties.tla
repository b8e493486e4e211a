-------------------------- MODULE DeployProperties --------------------------
(***************************************************************************)
(* What policy deployment guarantees: the safety and liveness properties   *)
(* of Deploy, the inductive invariant behind them, and the abstract        *)
(* specification it implements.                                            *)
(***************************************************************************)
EXTENDS Deploy

(* While a node is registered and not being removed, at most one handler   *)
(* that takes the deploy guard is between begin_deploy and end_deploy on   *)
(* it, and the guard is set meanwhile (Storage::begin_deploy).             *)
GuardedExclusion ==
  \A t \in Task : Held(t) /\ Live(tnode[t]) =>
    /\ tnode[t] \in deploying
    /\ \A u \in Task : Held(u) /\ tnode[u] = tnode[t] => u = t

(* A guard that is set belongs to a handler between begin_deploy and       *)
(* end_deploy, or to one that was dropped: every other way out of a        *)
(* handler (refusals, errors, timeouts) and a restart release it, and only *)
(* the drop of a handler leaks it (end_deploy after deploy_to_node).       *)
LeakedOnlyByDrop ==
  \A n \in deploying : \E t \in Task : tnode[t] = n /\ (Held(t) \/ pc[t] = "dropped")

(* No handler that bypasses the guard has touched n.                       *)
OnlyGuarded(n) == \A t \in Task : tnode[t] = n => pc[t] = "idle" \/ Guarded(t)

(* No store_policy of n stopped half way.                                  *)
Whole(n) == \A t \in Task : tnode[t] = n => result[t] # "Torn"

(* Every audit record of a registered node names a version that exists;    *)
(* the version holds the policy the record is about, the no-change records *)
(* included, unless a store_policy was cut in two, after which the policy  *)
(* compared is not the newest version's (record_deployment after           *)
(* store_policy, or after get_policy_history).                             *)
RecordedVersionExists ==
  \A d \in deployments : Live(d.node) /\ OnlyGuarded(d.node) =>
    /\ d.version \in DOMAIN history[d.node]
    /\ Whole(d.node) => history[d.node][d.version] = d.policy

(* Every deploy of n so far got an answer from the agent.                  *)
Answered(n) ==
  \A t \in Task : tnode[t] = n =>
    pc[t] # "dropped" /\ result[t] \notin {"Timeout", "AgentUnreachable"}

(* The deploy that stored the newest version of n was rejected.            *)
Denied(n) ==
  \E t \in Task : /\ tnode[t] = n /\ result[t] = "AgentFailure"
                  /\ ver[t] = Len(history[n])

(* If the newest version of a node was deployed with success and no call   *)
(* to its agent was ever abandoned, the agent runs that version.  So it    *)
(* does if a request was skipped because the policy was "already active",  *)
(* unless the agent had rejected that very version: store_policy comes     *)
(* before the agent's answer, and a heartbeat makes the node Active again, *)
(* so a retry of a rejected policy is skipped (deploy_to_node's no-op      *)
(* test, on a node state read before the guard was taken).  After a        *)
(* store_policy that was cut in two the policy such a retry is compared    *)
(* with may be an older, rejected one, so nothing is promised then.        *)
LatestSuccessIsRunning ==
  \A d \in deployments :
    /\ Live(d.node) /\ agentUp[d.node]
    /\ OnlyGuarded(d.node) /\ Answered(d.node) /\ Whole(d.node)
    /\ d.version = Len(history[d.node])
    /\ d.result = "Success"
    /\ result[d.id] = "NoChange" => ~Denied(d.node)
    => active[d.node] = d.policy

(* A node the reaper took Offline comes back by a heartbeat only: a deploy *)
(* that was under way neither revives it nor moves it to Error.            *)
OnlyHeartbeatRevives ==
  [][\A n \in Node : nodeState[n] = "Offline" /\ nodeState'[n] # "Offline" =>
       nodeState'[n] = "Absent" \/ nodeState'[n] = hb[n]]_vars

(* Every handler ends, whatever the agent does (the deploy timeout).       *)
TasksEnd == \A t \in Task : pc[t] # "idle" ~> pc[t] \in Finished

(* A node does not stay Deploying: its deploy settles it, or a heartbeat   *)
(* or the reaper does, even if the handler was dropped.                    *)
DeployingIsTransient ==
  \A n \in Node : nodeState[n] = "Deploying" ~> nodeState[n] # "Deploying"

(* A node whose agent has ended is Offline for good in the end, unless it  *)
(* never sent a heartbeat.                                                 *)
DeadAgentGoesOffline ==
  \A n \in Node : ~Fresh(n) /\ ~agentUp[n] ~>
                    [](nodeState[n] \in {"Offline", "Registered", "Absent"})
-----------------------------------------------------------------------------
(***************************************************************************)
(* The inductive invariant behind GuardedExclusion.  Exclusion alone is    *)
(* not inductive: registering a node would make one live whose handlers    *)
(* already run, unless every running handler read its node from the table; *)
(* the tables keep their types because a handler has a policy and a result *)
(* by the time it writes them; and only a handler that took the guard may  *)
(* reach end_deploy.                                                       *)
(***************************************************************************)
Underway(t) == pc[t] \notin Finished \cup {"idle"}

TaskLocals ==
  \A t \in Task :
    /\ pc[t] \in Critical \cup {"find", "guard"} => want[t] \in Policy
    /\ pc[t] = "settle" => result[t] \in DeploymentResult
    /\ pc[t] = "record" => result[t] \in DeploymentResult \cup {"NoChange"}
    /\ pc[t] = "find" => ~Guarded(t)
    /\ pc[t] = "release" => Guarded(t)

ClaimedIds == \A t \in Task : Guarded(t) /\ Underway(t) => ~Fresh(tnode[t])

IndInv == TypeOK /\ TaskLocals /\ ClaimedIds /\ GuardedExclusion
-----------------------------------------------------------------------------
(***************************************************************************)
(* Refinement of SerialDeploy by the handlers that take the guard.         *)
(***************************************************************************)
Owners(n) == {t \in Task : Held(t) /\ tnode[t] = n}

memberBar == [n \in Node |-> IF Live(n) THEN "in" ELSE IF Fresh(n) THEN "new" ELSE "out"]
ownerBar  == [n \in Node |-> IF Live(n) /\ Owners(n) # {}
                             THEN CHOOSE t \in Task : t \in Owners(n) ELSE NoTask]
logBar    == [n \in Node |-> IF Live(n) THEN history[n] ELSE << >>]

Serial == INSTANCE SerialDeploy
            WITH member <- memberBar, owner <- ownerBar, log <- logBar

(* Without FSM rollbacks, deployment implements SerialDeploy: only the one *)
(* handler that holds the deploy guard of a registered node extends its    *)
(* version history, and no step rewrites it (store_policy, begin_deploy,   *)
(* end_deploy, remove_node).                                               *)
RefinesSerialDeploy == Serial!ASpec
=============================================================================
