----------------------------- MODULE FsmEngine -----------------------------
(***************************************************************************)
(* The FSM engine: operators define state machines that roll a policy out, *)
(* start instances of them, advance and cancel them by hand, while the     *)
(* engine's background loop evaluates every running instance.              *)
(*                                                                         *)
(* An instance is one row, read and written whole.  The engine and each    *)
(* request handler read the row, change their own copy of it, run the      *)
(* action of the state entered (which deploys to nodes, one at a time) and *)
(* write the copy back.  Nothing serialises them: each storage call and    *)
(* each deploy is an action of its own.                                    *)
(*                                                                         *)
(* What deploying to one node does is the business of module Deploy; here  *)
(* it succeeds, fails, or is given up and may take effect later.  What     *)
(* makes a counter condition true is left to module CounterCondition; here *)
(* it holds or does not.                                                   *)
(***************************************************************************)
EXTENDS Naturals, Sequences, FiniteSets

CONSTANTS
  Node,          \* nodes, with the labels they have
  Fleet,         \* the nodes registered at the start, in storage order
  State,         \* state names
  Definition,    \* definitions an operator may submit, see IsDefinition
  NoDefinition,
  Inst, NoInst,  \* instance identifiers, and no row
  Engine,        \* controllers that run the evaluation loop (one, the leader)
  Client,        \* concurrent executions of request handlers
  Slow,          \* nodes that may act on a call the controller has given up
  Requests,      \* what operators may ask for, see Request
  Faults         \* what may go wrong, see Fault

(* "define" and "delete" are create_fsm_definition and                     *)
(* delete_fsm_definition once instances exist.                             *)
Request == {"start", "adaptive", "advance", "cancel", "define", "delete"}
(* disconnect: a client goes away and its handler is dropped; restart: the *)
(* controller restarts on its database; storage: a storage call fails;     *)
(* fleet: nodes are registered and removed.                                *)
Fault == {"disconnect", "restart", "storage", "fleet"}

Condition == {"all_succeeded", "any_failed", "manual", "after", "counter"}
(* select: the nodes that match the label of the action's selector; limit: *)
(* how many of them it takes; percent: batch_percent, of a batch.          *)
Action == [do: {"none", "alert", "rollback", "deploy", "batch"},
           select: SUBSET Node, limit: Nat, percent: Nat]
Transition == [to: State, when: Condition]

(* A definition as parsed: its states are the domain of its three maps.    *)
IsDefinition(d) ==
  /\ d.initial \in State
  /\ DOMAIN d.transitions \subseteq State
  /\ DOMAIN d.action = DOMAIN d.transitions
  /\ d.terminal \subseteq DOMAIN d.transitions
  /\ \A s \in DOMAIN d.transitions :
       d.action[s] \in Action /\ d.transitions[s] \in Seq(Transition)

ASSUME FsmAssumption ==
  /\ Fleet \in Seq(Node)
  /\ \A j, k \in 1 .. Len(Fleet) : Fleet[j] = Fleet[k] => j = k
  /\ IsFiniteSet(Node)
  /\ Inst # {}
  /\ \A d \in Definition : IsDefinition(d)
  /\ NoDefinition \notin Definition
  /\ Engine \cap Client = {}
  /\ Slow \subseteq Node
  /\ Requests \subseteq Request
  /\ Faults \subseteq Fault

Worker == Engine \cup Client

VARIABLES
  defn,     \* fsm_definitions: the definition stored under the one name used
  inst,     \* fsm_instances
  fleet,    \* what list_nodes returns
  departed, \* nodes removed; their ids are never used again
  applied,  \* nodes that run what an instance deployed and did not roll back
  open,     \* an instance's calls that were given up and may yet be acted on
  unanswered, \* history: nodes whose deploy by an instance was given up
  \* ---- per worker ----
  step,     \* "idle", or what it is about to do
  id,       \* the instance it works on
  copy,     \* its copy of the row
  plan,     \* the definition it read
  todo,     \* engine: the rows listed at the start of the pass, not yet done
  left,     \* nodes its action has yet to deploy to or roll back
  ok, bad   \* nodes it did with and without success

rowVars    == <<defn, inst>>
agentVars  == <<applied, open, unanswered>>
nodeVars   == <<fleet, departed, agentVars>>
actionVars == <<left, ok, bad>>
workVars   == <<step, id, copy, plan, todo, actionVars>>
vars == <<rowVars, nodeVars, workVars>>

Status == {"Running", "Completed", "Failed", "Cancelled"}

Count == 0 .. Cardinality(Node)

(* last is last_action_result, as its counts; <<0, 0>> stands for None too *)
(* because no condition tells them apart.  due: updated_at is so long ago  *)
(* that an "after" transition of the state may fire.                       *)
Instance == [state: State, status: Status, history: Seq(State \cup {"cancelled"}),
             due: BOOLEAN, rules: BOOLEAN, targets: SUBSET Node,
             deployed: SUBSET Node, failed: SUBSET Node,
             last: Count \X Count, cursor: Count]

Row == Instance \cup {NoInst}

(* A call to the agent of a node.                                          *)
Call == {"deploy", "rollback"} \X Node

ASSUME NoInstAssumption == NoInst \notin Instance

TypeOK ==
  /\ defn \in Definition \cup {NoDefinition}
  /\ inst \in [Inst -> Row]
  /\ fleet \in Seq(Node)
  /\ departed \subseteq Node
  /\ applied \in [Inst -> SUBSET Node]
  /\ open \in [Inst -> SUBSET Call] /\ unanswered \in [Inst -> SUBSET Node]
  /\ step \in [Worker -> {"idle", "pass", "advance", "cancel", "act", "deploy", "rollback", "write"}]
  /\ id \in [Worker -> Inst]
  /\ copy \in [Worker -> Row]
  /\ plan \in [Worker -> Definition \cup {NoDefinition}]
  /\ DOMAIN todo = Worker
  /\ \A w \in Worker : DOMAIN todo[w] \subseteq Inst /\ \A i \in DOMAIN todo[w] : todo[w][i] \in Row
  /\ left \in [Worker -> SUBSET Node] /\ ok \in [Worker -> SUBSET Node]
  /\ bad \in [Worker -> SUBSET Node]
-----------------------------------------------------------------------------
(***************************************************************************)
(* Definitions.                                                            *)
(***************************************************************************)
(* Variant: validate does not look where transitions lead.                 *)
ValidSomeTarget(d) ==
  /\ d.initial \in DOMAIN d.transitions
  /\ \A s \in d.terminal : d.transitions[s] = << >>
  /\ d.terminal # {}

(* FsmDefinition::validate *)
Valid(d) ==
  /\ d.initial \in DOMAIN d.transitions
  /\ \A s \in DOMAIN d.transitions : \A k \in 1 .. Len(d.transitions[s]) :
       d.transitions[s][k].to \in DOMAIN d.transitions
  /\ \A s \in d.terminal : d.transitions[s] = << >>
  /\ d.terminal # {}

(* create_fsm_definition: an invalid definition is refused, one of the     *)
(* same name is replaced whatever instances of it are doing.               *)
CreateDefinition(d) ==
  /\ Valid(d)
  /\ defn = NoDefinition \/ "define" \in Requests
  /\ defn' = d
  /\ UNCHANGED <<inst, nodeVars, workVars>>

DeleteDefinition ==
  /\ "delete" \in Requests
  /\ defn' = NoDefinition
  /\ UNCHANGED <<inst, nodeVars, workVars>>
-----------------------------------------------------------------------------
(***************************************************************************)
(* A worker's steps.                                                       *)
(***************************************************************************)
Goto(w, s) == step' = [step EXCEPT ![w] = s]

(* The rest of a worker's state goes back to what it is when idle.         *)
Forget(w) ==
  /\ copy' = [copy EXCEPT ![w] = NoInst]
  /\ plan' = [plan EXCEPT ![w] = NoDefinition]
  /\ UNCHANGED id

Rest(w) == IF w \in Engine THEN "pass" ELSE "idle"

(* FsmInstance::new with FsmContext::for_deployment or for_adaptive_policy *)
NewInstance(d, rules, targets) ==
  [state |-> d.initial, status |-> "Running", history |-> <<d.initial>>,
   due |-> FALSE, rules |-> rules, targets |-> targets, deployed |-> {},
   failed |-> {}, last |-> <<0, 0>>, cursor |-> 0]

(* FsmInstance::transition *)
Moved(r, s) ==
  [r EXCEPT !.state = s, !.history = Append(@, s), !.due = FALSE]

(* A state is entered: its action comes next.                              *)
Enter(w, r, d) ==
  /\ copy' = [copy EXCEPT ![w] = r]
  /\ plan' = [plan EXCEPT ![w] = d]
  /\ Goto(w, "act")

(* The worker's copy is ready to be written.                               *)
Ready(w, r) == copy' = [copy EXCEPT ![w] = r] /\ Goto(w, "write")

(* fire_transition completes an instance that entered a terminal state;    *)
(* start_instance, whose row is not stored yet, does not.                  *)
Closed(w, r) ==
  IF inst[id[w]] # NoInst /\ r.state \in plan[w].terminal
  THEN [r EXCEPT !.status = "Completed"] ELSE r

(* start_instance and start_adaptive_instance.  An adaptive instance       *)
(* targets the listed nodes that match a label the request gives, at least *)
(* one, and need not have rules to deploy.                                 *)
StartInstance(w, i) ==
  /\ step[w] = "idle" /\ defn # NoDefinition
  /\ inst[i] = NoInst /\ \A v \in Worker : step[v] # "idle" => id[v] # i
  /\ \/ "start" \in Requests /\ Enter(w, NewInstance(defn, TRUE, {}), defn)
     \/ /\ "adaptive" \in Requests
        /\ \E rules \in BOOLEAN, targets \in SUBSET {fleet[k] : k \in DOMAIN fleet} :
             targets # {} /\ Enter(w, NewInstance(defn, rules, targets), defn)
  /\ id' = [id EXCEPT ![w] = i]
  /\ UNCHANGED <<rowVars, nodeVars, todo, actionVars>>

(* advance_instance and cancel_instance read the row first.                *)
ReadRunning(w, i, request) ==
  /\ step[w] = "idle" /\ request \in Requests
  /\ inst[i] # NoInst /\ inst[i].status = "Running"
  /\ id' = [id EXCEPT ![w] = i]
  /\ copy' = [copy EXCEPT ![w] = inst[i]]
  /\ Goto(w, request)
  /\ UNCHANGED <<rowVars, nodeVars, plan, todo, actionVars>>

(* advance_instance: any transition out of the current state may be named; *)
(* when none is, the one taken is among them too.                          *)
AdvanceInstance(w) ==
  LET r == copy[w]
      ways == IF defn # NoDefinition /\ r.state \in DOMAIN defn.transitions
              THEN defn.transitions[r.state] ELSE << >>
  IN
  /\ step[w] = "advance"
  /\ \/ /\ \E k \in DOMAIN ways : Enter(w, Moved(r, ways[k].to), defn)
        /\ UNCHANGED id
     \/ /\ ways = << >>
        /\ Goto(w, "idle") /\ Forget(w)
  /\ UNCHANGED <<rowVars, nodeVars, todo, actionVars>>

(* cancel_instance *)
CancelInstance(w) ==
  /\ step[w] = "cancel"
  /\ Ready(w, [copy[w] EXCEPT !.status = "Cancelled", !.history = Append(@, "cancelled")])
  /\ UNCHANGED <<rowVars, nodeVars, id, plan, todo, actionVars>>
-----------------------------------------------------------------------------
(***************************************************************************)
(* The evaluation loop.                                                    *)
(***************************************************************************)
(* Variant: instances are listed whatever their status.                    *)
RunningOrNot == {i \in Inst : inst[i] # NoInst}

(* list_fsm_instances(Running) *)
Running == {i \in Inst : inst[i] # NoInst /\ inst[i].status = "Running"}

(* evaluate_all lists the running instances, rows and all.                 *)
ListRunning(w) ==
  /\ step[w] = "idle"
  /\ todo' = [todo EXCEPT ![w] = [i \in Running |-> inst[i]]]
  /\ Goto(w, "pass")
  /\ UNCHANGED <<rowVars, nodeVars, id, copy, plan, actionVars>>

EndPass(w) ==
  /\ step[w] = "pass" /\ DOMAIN todo[w] = {}
  /\ Goto(w, "idle")
  /\ UNCHANGED <<rowVars, nodeVars, id, copy, plan, todo, actionVars>>

(* Variant: an action without failures has succeeded, empty ones too.      *)
HoldsVacuously(r, c) ==
  \/ c = "all_succeeded" /\ r.last[2] = 0
  \/ c = "any_failed" /\ r.last[2] > 0
  \/ c = "after" /\ r.due

(* evaluate_condition: what the row settles.  "manual" never holds here.   *)
Holds(r, c) ==
  \/ c = "all_succeeded" /\ r.last[2] = 0 /\ r.last[1] > 0
  \/ c = "any_failed" /\ r.last[2] > 0
  \/ c = "after" /\ r.due

(* The first transition whose condition is true fires.                     *)
Firing(r, d) ==
  LET ts == d.transitions[r.state]
  IN {k \in 1 .. Len(ts) : /\ Holds(r, ts[k].when) \/ ts[k].when = "counter"
                           /\ \A j \in 1 .. k - 1 : ~Holds(r, ts[j].when)}

(* Every transition may turn out not to fire.                              *)
Quiet(r, d) ==
  \A k \in 1 .. Len(d.transitions[r.state]) : ~Holds(r, d.transitions[r.state][k].when)

(* Variant: a missing definition is waited for.                            *)
EvaluateWaits(w, i) ==
  LET r == todo[w][i]
  IN
  /\ step[w] = "pass" /\ i \in DOMAIN todo[w]
  /\ todo' = [todo EXCEPT ![w] = [j \in DOMAIN todo[w] \ {i} |-> todo[w][j]]]
  /\ id' = [id EXCEPT ![w] = i]
  /\ \/ defn = NoDefinition /\ UNCHANGED <<step, copy, plan>>
     \/ /\ defn # NoDefinition /\ r.state \in defn.terminal
        /\ Ready(w, [r EXCEPT !.status = "Completed"]) /\ UNCHANGED plan
     \/ /\ defn # NoDefinition /\ r.state \in DOMAIN defn.transitions \ defn.terminal
        /\ \/ \E k \in Firing(r, defn) :
                Enter(w, Moved(r, defn.transitions[r.state][k].to), defn)
           \/ Quiet(r, defn) /\ Ready(w, r) /\ UNCHANGED plan
  /\ UNCHANGED <<rowVars, nodeVars, actionVars>>

(* evaluate_all for one of the rows listed, then evaluate_instance: the    *)
(* definition is read now, the row is the one listed at the start of the   *)
(* pass, and it is written back even when nothing changed.                 *)
Evaluate(w, i) ==
  LET r == todo[w][i]
  IN
  /\ step[w] = "pass" /\ i \in DOMAIN todo[w]
  /\ todo' = [todo EXCEPT ![w] = [j \in DOMAIN todo[w] \ {i} |-> todo[w][j]]]
  /\ id' = [id EXCEPT ![w] = i]
  /\ \/ /\ defn = NoDefinition
        /\ Ready(w, [r EXCEPT !.status = "Failed"])
        /\ UNCHANGED plan
     \/ /\ defn # NoDefinition /\ r.state \notin DOMAIN defn.transitions
        /\ UNCHANGED <<step, copy, plan>>
     \/ /\ defn # NoDefinition /\ r.state \in defn.terminal
        /\ Ready(w, [r EXCEPT !.status = "Completed"])
        /\ UNCHANGED plan
     \/ /\ defn # NoDefinition /\ r.state \in DOMAIN defn.transitions \ defn.terminal
        /\ \/ \E k \in Firing(r, defn) :
                Enter(w, Moved(r, defn.transitions[r.state][k].to), defn)
           \/ Quiet(r, defn) /\ Ready(w, r) /\ UNCHANGED plan
  /\ UNCHANGED <<rowVars, nodeVars, actionVars>>
-----------------------------------------------------------------------------
(***************************************************************************)
(* execute_action for the state the worker's copy has entered.             *)
(***************************************************************************)
(* A state the definition lacks has no action.                             *)
ActionOf(w) ==
  IF copy[w].state \in DOMAIN plan[w].action THEN plan[w].action[copy[w].state]
  ELSE [do |-> "none", limit |-> 0, percent |-> 0]

(* No action, an alert (fire and forget), a deploy without rules and a     *)
(* rollback of no node leave the context, the last result included, alone. *)
NothingToDo(w) ==
  \/ ActionOf(w).do \in {"none", "alert"}
  \/ ActionOf(w).do \in {"deploy", "batch"} /\ ~copy[w].rules
  \/ ActionOf(w).do = "rollback" /\ copy[w].deployed = {}

ActNothing(w) ==
  /\ step[w] = "act" /\ NothingToDo(w)
  /\ Ready(w, Closed(w, copy[w]))
  /\ UNCHANGED <<rowVars, nodeVars, id, plan, todo, actionVars>>

Least(a, b) == IF a < b THEN a ELSE b

(* The positions of the nodes that match the label of an action, in the    *)
(* order list_nodes returns them, the place of one among them, how many    *)
(* the limit leaves, and the nodes in certain places.                      *)
Matching(a) == {k \in DOMAIN fleet : fleet[k] \in a.select}
Place(a, k) == Cardinality({j \in Matching(a) : j <= k})
Total(a) == Least(Cardinality(Matching(a)), a.limit)
Pick(a, places) == {fleet[k] : k \in {j \in Matching(a) : Place(a, j) \in places}}

(* batch_percent of n nodes: rounded up, at least one, at most all.        *)
BatchSize(n, percent) ==
  LET up == (n * percent + 99) \div 100
  IN Least(IF up = 0 THEN 1 ELSE up, n)

(* Variant: every batch begins at the first node.                          *)
BatchFromFirst(w, n) == 1 .. BatchSize(n, ActionOf(w).percent)

(* The places of the batch the cursor points at, of n nodes.               *)
Batch(w, n) ==
  copy[w].cursor + 1 .. Least(copy[w].cursor + BatchSize(n, ActionOf(w).percent), n)

(* execute_deploy up to the first deploy: nothing matches, all batches are *)
(* done, or the nodes chosen become targets.  The cursor is the instance's *)
(* and counts on through actions with other selectors.                     *)
SelectNodes(w) ==
  LET r == copy[w]
      a == ActionOf(w)
      chosen == IF a.do = "batch" THEN Batch(w, Total(a)) ELSE 1 .. Total(a)
      done == IF a.do = "batch" /\ Matching(a) # {}
              THEN <<Cardinality(r.deployed), Cardinality(r.failed)>> ELSE <<0, 0>>
  IN
  /\ step[w] = "act" /\ a.do \in {"deploy", "batch"} /\ ~NothingToDo(w)
  /\ \/ /\ chosen = {}
        /\ Ready(w, Closed(w, [r EXCEPT !.last = done]))
        /\ UNCHANGED left
     \/ /\ chosen # {}
        /\ copy' = [copy EXCEPT ![w].targets = @ \cup Pick(a, chosen),
                                ![w].cursor = IF a.do = "batch" THEN @ + Cardinality(chosen) ELSE @]
        /\ left' = [left EXCEPT ![w] = Pick(a, chosen)]
        /\ Goto(w, "deploy")
  /\ UNCHANGED <<rowVars, nodeVars, id, plan, todo, ok, bad>>

(* list_nodes fails: the action ends without a result of its own.          *)
SelectFails(w) ==
  /\ "storage" \in Faults
  /\ step[w] = "act" /\ ActionOf(w).do \in {"deploy", "batch"} /\ ~NothingToDo(w)
  /\ Ready(w, Closed(w, copy[w]))
  /\ UNCHANGED <<rowVars, nodeVars, id, plan, todo, actionVars>>

(* execute_rollback *)
SelectRollback(w) ==
  /\ step[w] = "act" /\ ActionOf(w).do = "rollback" /\ ~NothingToDo(w)
  /\ left' = [left EXCEPT ![w] = copy[w].deployed]
  /\ Goto(w, "rollback")
  /\ UNCHANGED <<rowVars, nodeVars, id, copy, plan, todo, ok, bad>>

(* What the agent of node n does when it acts on a call.                   *)
Act(i, what, n) ==
  applied' = [applied EXCEPT ![i] = IF what = "deploy" THEN @ \cup {n} ELSE @ \ {n}]

(* A call is given up: it timed out or the connection broke.               *)
GiveUp(i, what, n) ==
  /\ n \in Slow \ departed
  /\ open' = [open EXCEPT ![i] = @ \cup {<<what, n>>}]
  /\ unanswered' = [unanswered EXCEPT ![i] = IF what = "deploy" THEN @ \cup {n} ELSE @]

(* One node of deploy_to_nodes or of execute_rollback.  It fails where the *)
(* node is gone (the database takes no row of a removed node), its guard   *)
(* is taken, no version precedes, or the deploy does; it takes as long as  *)
(* the deploy timeout allows.  A call in flight when its handler stops is  *)
(* one given up just before.                                               *)
DoNode(w, n) ==
  LET i == id[w]
  IN
  /\ step[w] \in {"deploy", "rollback"} /\ n \in left[w]
  /\ left' = [left EXCEPT ![w] = @ \ {n}]
  /\ \/ /\ n \notin departed
        /\ ok' = [ok EXCEPT ![w] = @ \cup {n}]
        /\ Act(i, step[w], n)
        /\ UNCHANGED <<bad, open, unanswered>>
     \/ /\ bad' = [bad EXCEPT ![w] = @ \cup {n}]
        /\ GiveUp(i, step[w], n) \/ UNCHANGED <<open, unanswered>>
        /\ UNCHANGED <<ok, applied>>
  /\ UNCHANGED <<rowVars, fleet, departed, step, id, copy, plan, todo>>

(* Variant: only the nodes of the last batch are remembered as deployed.   *)
WithResultLastOnly(r, what, good, poor) ==
  [r EXCEPT !.deployed = IF what = "deploy" THEN good ELSE @,
            !.failed = IF what = "deploy" THEN @ \cup poor ELSE @,
            !.last = <<Cardinality(good), Cardinality(poor)>>]

(* Variant: the counts of an action are added to those of the last one.    *)
WithResultAdded(r, what, good, poor) ==
  [r EXCEPT !.deployed = IF what = "deploy" THEN @ \cup good ELSE @,
            !.failed = IF what = "deploy" THEN @ \cup poor ELSE @,
            !.last = <<@[1] + Cardinality(good), @[2] + Cardinality(poor)>>]

(* What an action leaves in the context: a rollback only its counts.       *)
WithResult(r, what, good, poor) ==
  [r EXCEPT !.deployed = IF what = "deploy" THEN @ \cup good ELSE @,
            !.failed = IF what = "deploy" THEN @ \cup poor ELSE @,
            !.last = <<Cardinality(good), Cardinality(poor)>>]

EndAction(w) ==
  /\ step[w] \in {"deploy", "rollback"} /\ left[w] = {}
  /\ Ready(w, Closed(w, WithResult(copy[w], step[w], ok[w], bad[w])))
  /\ ok' = [ok EXCEPT ![w] = {}]
  /\ bad' = [bad EXCEPT ![w] = {}]
  /\ UNCHANGED <<rowVars, nodeVars, id, plan, todo, left>>

(* store_fsm_instance and update_fsm_instance: the row becomes the copy.   *)
WriteInstance(w) ==
  /\ step[w] = "write"
  /\ inst' = [inst EXCEPT ![id[w]] = copy[w]]
  /\ Goto(w, Rest(w)) /\ Forget(w)
  /\ UNCHANGED <<defn, nodeVars, todo, actionVars>>

(* The write fails: the engine carries on, a handler answers an error.     *)
WriteFails(w) ==
  /\ "storage" \in Faults
  /\ step[w] = "write"
  /\ Goto(w, Rest(w)) /\ Forget(w)
  /\ UNCHANGED <<rowVars, nodeVars, todo, actionVars>>
-----------------------------------------------------------------------------
(***************************************************************************)
(* The rest of the world.                                                  *)
(***************************************************************************)
(* Handlers that stop where they are.                                      *)
Stopped(W) ==
  /\ step' = [w \in Worker |-> IF w \in W THEN "idle" ELSE step[w]]
  /\ copy' = [w \in Worker |-> IF w \in W THEN NoInst ELSE copy[w]]
  /\ plan' = [w \in Worker |-> IF w \in W THEN NoDefinition ELSE plan[w]]
  /\ todo' = [w \in Worker |-> IF w \in W THEN << >> ELSE todo[w]]
  /\ left' = [w \in Worker |-> IF w \in W THEN {} ELSE left[w]]
  /\ ok' = [w \in Worker |-> IF w \in W THEN {} ELSE ok[w]]
  /\ bad' = [w \in Worker |-> IF w \in W THEN {} ELSE bad[w]]
  /\ UNCHANGED <<rowVars, nodeVars, id>>

Disconnect(w) ==
  /\ "disconnect" \in Faults
  /\ w \in Client /\ step[w] # "idle"
  /\ Stopped({w})

Restart ==
  /\ "restart" \in Faults
  /\ \E w \in Worker : step[w] # "idle"
  /\ Stopped(Worker)

NodeJoins(n) ==
  /\ "fleet" \in Faults
  /\ n \notin departed /\ \A k \in DOMAIN fleet : fleet[k] # n
  /\ fleet' = Append(fleet, n)
  /\ UNCHANGED <<rowVars, departed, agentVars, workVars>>

NodeLeaves(n) ==
  /\ "fleet" \in Faults
  /\ \E k \in DOMAIN fleet :
       /\ fleet[k] = n
       /\ fleet' = [j \in 1 .. Len(fleet) - 1 |-> fleet[IF j < k THEN j ELSE j + 1]]
  /\ departed' = departed \cup {n}
  /\ applied' = [i \in Inst |-> applied[i] \ {n}]
  /\ open' = [i \in Inst |-> {c \in open[i] : c[2] # n}]
  /\ unanswered' = [i \in Inst |-> unanswered[i] \ {n}]
  /\ UNCHANGED <<rowVars, workVars>>

(* An agent acts on a call that the controller has given up.               *)
LateAct(i, c) ==
  /\ c \in open[i]
  /\ Act(i, c[1], c[2])
  /\ open' = [open EXCEPT ![i] = @ \ {c}]
  /\ UNCHANGED <<rowVars, fleet, departed, unanswered, workVars>>

Ripe(r) == IF r = NoInst THEN r ELSE [r EXCEPT !.due = TRUE]

(* Time passes: every row and every copy of one is old enough for timers.  *)
TimePasses ==
  /\ \E i \in Running : ~inst[i].due
  /\ inst' = [i \in Inst |-> Ripe(inst[i])]
  /\ copy' = [w \in Worker |-> Ripe(copy[w])]
  /\ todo' = [w \in Worker |-> [i \in DOMAIN todo[w] |-> Ripe(todo[w][i])]]
  /\ UNCHANGED <<defn, nodeVars, step, id, plan, actionVars>>
-----------------------------------------------------------------------------
Init ==
  /\ defn = NoDefinition
  /\ inst = [i \in Inst |-> NoInst]
  /\ fleet = Fleet
  /\ departed = {}
  /\ applied = [i \in Inst |-> {}]
  /\ open = [i \in Inst |-> {}]
  /\ unanswered = [i \in Inst |-> {}]
  /\ step = [w \in Worker |-> "idle"]
  /\ id = [w \in Worker |-> CHOOSE i \in Inst : TRUE]
  /\ copy = [w \in Worker |-> NoInst]
  /\ plan = [w \in Worker |-> NoDefinition]
  /\ todo = [w \in Worker |-> << >>]
  /\ left = [w \in Worker |-> {}]
  /\ ok = [w \in Worker |-> {}]
  /\ bad = [w \in Worker |-> {}]

(* A worker carries on with what it has begun.                             *)
WorkerStep(w) ==
  \/ AdvanceInstance(w) \/ CancelInstance(w)
  \/ ActNothing(w) \/ SelectNodes(w) \/ SelectRollback(w)
  \/ \E n \in Node : DoNode(w, n)
  \/ EndAction(w) \/ WriteInstance(w)

EngineStep(w) ==
  \/ ListRunning(w) \/ EndPass(w)
  \/ \E i \in Inst : Evaluate(w, i)

Next ==
  \/ \E d \in Definition : CreateDefinition(d)
  \/ DeleteDefinition
  \/ \E w \in Client, i \in Inst :
       \/ StartInstance(w, i)
       \/ ReadRunning(w, i, "advance") \/ ReadRunning(w, i, "cancel")
  \/ \E w \in Engine : EngineStep(w)
  \/ \E w \in Worker : WorkerStep(w) \/ SelectFails(w) \/ WriteFails(w) \/ Disconnect(w)
  \/ Restart \/ TimePasses
  \/ \E n \in Node : NodeJoins(n) \/ NodeLeaves(n)
  \/ \E i \in Inst, c \in Call : LateAct(i, c)

Spec == Init /\ [][Next]_vars

(* Handlers and the loop run to their end (every deploy has a timeout),    *)
(* the loop ticks for ever and time passes.                                *)
Fairness ==
  /\ \A w \in Worker : WF_vars(WorkerStep(w))
  /\ \A w \in Engine : WF_vars(EngineStep(w))
  /\ WF_vars(TimePasses)

FairSpec == Spec /\ Fairness
-----------------------------------------------------------------------------
(***************************************************************************)
(* Properties.                                                             *)
(***************************************************************************)
Rows == {i \in Inst : inst[i] # NoInst}
(* No worker is in the middle of work on instance i.                       *)
Settled(i) == \A w \in Worker : step[w] \notin {"idle", "pass"} => id[w] # i

(* An instance is in a state its definition has, and it has completed only *)
(* in a terminal one: what validate refuses and advance_instance,          *)
(* evaluate_instance and fire_transition look up keep it there.  For       *)
(* definitions that are not replaced.                                      *)
StateIsDefined ==
  \A i \in Rows : defn # NoDefinition =>
    /\ inst[i].state \in DOMAIN defn.transitions
    /\ inst[i].status = "Completed" => inst[i].state \in defn.terminal

(* The definition deploys in batches only, all with the same selector but  *)
(* for the limit.                                                          *)
BatchActions(d) == {d.action[s] : s \in {t \in DOMAIN d.action : d.action[t].do = "batch"}}
OnlyBatches(d) ==
  /\ \A s \in DOMAIN d.action : d.action[s].do # "deploy"
  /\ \A a, b \in BatchActions(d) : a.select = b.select

(* A batched rollout skips no node and takes none twice: the targets are   *)
(* the nodes that match the selector up to the batch cursor, in every row  *)
(* and every copy a worker holds, whatever rows are overwritten by older   *)
(* ones (execute_deploy).  For a fleet that has not changed and            *)
(* definitions that deploy in batches only, with one label: batch_cursor   *)
(* is shared by all states, so a batch with another label would go on      *)
(* where the first has ended, and skip nodes.                              *)
BatchesArePrefix ==
  (defn # NoDefinition /\ OnlyBatches(defn) /\ fleet = Fleet) =>
    \A r \in {inst[i] : i \in Rows} \cup {copy[w] : w \in Worker}, a \in BatchActions(defn) :
      r # NoInst => r.targets = Pick(a, 1 .. r.cursor)

(* States whose action deploys, in any of the definitions.                 *)
Deploying ==
  {s \in State : \E d \in Definition :
                   s \in DOMAIN d.action /\ d.action[s].do \in {"deploy", "batch"}}

(* No failed deploy leads to a state in good: d begins in one of them,     *)
(* enters them from one another only, leaves a deploy for one of them only *)
(* if all succeeded, and rolls back in none.                               *)
Gated(d, good) ==
  /\ d.initial \in good
  /\ \A s \in DOMAIN d.action \cap good : d.action[s].do # "rollback"
  /\ \A s \in DOMAIN d.transitions : \A k \in DOMAIN d.transitions[s] :
       d.transitions[s][k].to \in good =>
         s \in good /\ (s \in Deploying => d.transitions[s][k].when = "all_succeeded")

(* State s is entered through all_succeeded only.                          *)
OnSuccess(d, s) ==
  /\ s # d.initial
  /\ \A p \in DOMAIN d.transitions : \A k \in DOMAIN d.transitions[p] :
       d.transitions[p][k].to = s => d.transitions[p][k].when = "all_succeeded"

(* The states a rollout has to earn, like "complete" of a canary rollout.  *)
Passed(good) == {s \in good \ Deploying : \A d \in Definition : OnSuccess(d, s)}
Earned ==
  UNION {Passed(good) : good \in {g \in SUBSET State : \A d \in Definition : Gated(d, g)}}

(* A rollout completes by itself only when it was earned: every node it    *)
(* targeted, at least one, was deployed to and none failed                 *)
(* (evaluate_condition's all_succeeded after execute_deploy), whatever     *)
(* nodes leave and join, handlers stop and rows are overwritten meanwhile. *)
CompletionIsEarned ==
  \A i \in Rows : inst[i].state \in Earned =>
    /\ inst[i].targets # {}
    /\ inst[i].deployed = inst[i].targets
    /\ inst[i].failed = {}

(* The context of an instance that nobody is working on knows every node   *)
(* that runs what the instance deployed (execute_deploy, execute_rollback  *)
(* and the writes that follow).  A rollback visits deployed_nodes only: it *)
(* reaches all of them but those whose deploy was given up unanswered, and *)
(* they are among failed_nodes.                                            *)
ContextTracksDeployed ==
  \A i \in Inst : Settled(i) =>
    LET deployed == IF inst[i] = NoInst THEN {} ELSE inst[i].deployed
        failed == IF inst[i] = NoInst THEN {} ELSE inst[i].failed
    IN /\ applied[i] \subseteq deployed \cup failed
       /\ applied[i] \ unanswered[i] \subseteq deployed

(* An instance that completed, failed or was cancelled stays so: the       *)
(* status only goes from Running to one of the three.                      *)
StatusIsFinal ==
  [][\A i \in Rows : inst[i].status # "Running" => inst'[i].status = inst[i].status]_vars

(* A transition that is in the history stays there: every write of a row   *)
(* extends the history of the row it replaces.                             *)
HistoryKept ==
  [][\A i \in Rows : /\ Len(inst'[i].history) >= Len(inst[i].history)
                     /\ SubSeq(inst'[i].history, 1, Len(inst[i].history)) = inst[i].history]_vars

(* The instance is waiting for the engine: its definition is gone, it has  *)
(* reached a terminal state, or a transition out of its state can fire.    *)
Due(i) ==
  /\ i \in Running
  /\ \/ defn = NoDefinition
     \/ inst[i].state \in defn.terminal
     \/ /\ inst[i].state \in DOMAIN defn.transitions
        /\ ~Quiet(inst[i], defn)

(* The operators leave things as they are: no request is being handled and *)
(* the definition is d.                                                    *)
HandsOff(d) == defn = d /\ \A w \in Client : step[w] = "idle"

(* A restart that cuts work short, and is not just the end of a pass.      *)
Interrupts == Restart /\ \A w \in Engine : ~EndPass(w)

(* No running instance waits for ever once the operators leave it alone    *)
(* and the controller stays up: one whose definition was deleted is        *)
(* failed, one in a terminal state is completed, one with a condition or a *)
(* timer that holds moves on (evaluate_all, evaluate_instance), whatever   *)
(* the requests and restarts that went before have overwritten or cut      *)
(* short.  While requests keep coming their writes can undo the engine's   *)
(* each time.                                                              *)
EvaluationProgresses ==
  <>[][~Interrupts]_vars =>
    \A d \in Definition \cup {NoDefinition}, i \in Inst : []<>~(HandsOff(d) /\ Due(i))
=============================================================================
