-------------------------- MODULE FsmEngine_proofs --------------------------
(***************************************************************************)
(* Proofs about FsmEngine, for any nodes, definitions, instances, engines  *)
(* and clients: types, that instances stay in states their definition has, *)
(* and that batched rollouts go through the fleet in order.                *)
(***************************************************************************)
EXTENDS FsmEngine, FiniteSetTheorems, TLAPS
-----------------------------------------------------------------------------
(***************************************************************************)
(* The operators on rows.                                                  *)
(***************************************************************************)
(* The parts of a row.                                                     *)
LEMMA RowParts ==
  ASSUME NEW r \in Instance
  PROVE  /\ r.state \in State /\ r.status \in Status /\ r.history \in Seq(State \cup {"cancelled"})
         /\ r.due \in BOOLEAN /\ r.rules \in BOOLEAN /\ r.targets \in SUBSET Node
         /\ r.deployed \in SUBSET Node /\ r.failed \in SUBSET Node
         /\ r.last \in Count \X Count /\ r.cursor \in Count
BY DEF Instance

(* How many nodes an action reached is a count.                            *)
LEMMA SomeNodes ==
  ASSUME NEW S \in SUBSET Node
  PROVE  IsFiniteSet(S) /\ Cardinality(S) \in Count
<1>1. IsFiniteSet(Node)
  BY FsmAssumption
<1>2. IsFiniteSet(S) /\ Cardinality(S) <= Cardinality(Node)
  BY <1>1, FS_Subset
<1>3. Cardinality(S) \in Nat /\ Cardinality(Node) \in Nat
  BY <1>1, <1>2, FS_CardinalityType
<1> QED BY <1>2, <1>3 DEF Count

LEMMA NewIsInstance ==
  ASSUME NEW d \in Definition, NEW rules \in BOOLEAN, NEW targets \in SUBSET Node
  PROVE  NewInstance(d, rules, targets) \in Instance
<1>1. d.initial \in State
  BY FsmAssumption DEF IsDefinition
<1>2. 0 \in Count
  BY SomeNodes, FS_EmptySet
<1>3. <<d.initial>> \in Seq(State \cup {"cancelled"})
  BY <1>1
<1> QED BY <1>1, <1>2, <1>3 DEF NewInstance, Instance, Status

LEMMA MovedIsInstance ==
  ASSUME NEW r \in Instance, NEW s \in State
  PROVE  Moved(r, s) \in Instance
<1>1. Append(r.history, s) \in Seq(State \cup {"cancelled"})
  BY RowParts
<1> QED BY <1>1 DEF Moved, Instance

LEMMA StatusIsInstance ==
  ASSUME NEW r \in Instance, NEW s \in Status
  PROVE  /\ [r EXCEPT !.status = s] \in Instance
         /\ [r EXCEPT !.status = s, !.history = Append(@, "cancelled")] \in Instance
<1>1. Append(r.history, "cancelled") \in Seq(State \cup {"cancelled"})
  BY RowParts
<1> QED BY <1>1 DEF Instance

LEMMA ClosedIsInstance ==
  ASSUME NEW r \in Instance, NEW w \in Worker
  PROVE  Closed(w, r) \in Instance
BY StatusIsInstance DEF Closed, Status

LEMMA ResultIsInstance ==
  ASSUME NEW r \in Instance, NEW what, NEW good \in SUBSET Node, NEW poor \in SUBSET Node
  PROVE  WithResult(r, what, good, poor) \in Instance
<1>1. <<Cardinality(good), Cardinality(poor)>> \in Count \X Count
  BY SomeNodes
<1>2. r.deployed \cup good \in SUBSET Node /\ r.failed \cup poor \in SUBSET Node
  BY RowParts
<1> QED BY <1>1, <1>2 DEF WithResult, Instance

LEMMA RipeIsRow ==
  ASSUME NEW r \in Row
  PROVE  Ripe(r) \in Row /\ (r # NoInst => Ripe(r) = [r EXCEPT !.due = TRUE] /\ r \in Instance)
BY DEF Ripe, Row, Instance

(* A list of nodes without repetitions is no longer than the set of nodes. *)
NoRepeats(s) == \A j, k \in 1 .. Len(s) : s[j] = s[k] => j = k

LEMMA FleetIsShort ==
  ASSUME NEW s \in Seq(Node), NoRepeats(s)
  PROVE  Len(s) \in Count
<1>1. IsFiniteSet(Node) /\ Cardinality(Node) \in Nat /\ Len(s) \in Nat
  BY FsmAssumption, FS_CardinalityType
<1>2. s \in Injection(1 .. Len(s), Node)
  BY DEF NoRepeats, Injection, IsInjective
<1>3. Cardinality(1 .. Len(s)) <= Cardinality(Node)
  BY <1>1, <1>2, FS_Injection
<1>4. Cardinality(1 .. Len(s)) = Len(s)
  <2>1. 1 \in Int /\ Len(s) \in Int
    BY <1>1
  <2>2. Cardinality(1 .. Len(s)) = IF 1 > Len(s) THEN 0 ELSE Len(s) - 1 + 1
    BY <2>1, FS_Interval, Zenon
  <2> QED BY <1>1, <2>2
<1> QED BY <1>1, <1>3, <1>4 DEF Count
-----------------------------------------------------------------------------
(***************************************************************************)
(* Types.  TypeOK alone is not inductive: a step changes fields of the     *)
(* worker's copy, so a worker that has something to do must hold a row,    *)
(* and a definition when it executes an action; the rows it has listed     *)
(* must be rows; and the fleet must not list a node twice, or the batch    *)
(* cursor could pass the number of nodes.                                  *)
(***************************************************************************)
Busy == {"advance", "cancel", "act", "deploy", "rollback", "write"}

Holding(w) ==
  /\ step[w] \in Busy => copy[w] \in Instance
  /\ step[w] \in {"act", "deploy", "rollback"} => plan[w] \in Definition
  /\ \A i \in DOMAIN todo[w] : todo[w][i] \in Instance

TypeInv == TypeOK /\ NoRepeats(fleet) /\ \A w \in Worker : Holding(w)

(* The parts of a stored definition.                                       *)
LEMMA DefinitionParts ==
  ASSUME NEW d \in Definition
  PROVE  /\ d.initial \in State /\ DOMAIN d.transitions \subseteq State
         /\ DOMAIN d.action = DOMAIN d.transitions /\ d.terminal \subseteq DOMAIN d.transitions
         /\ \A s \in DOMAIN d.transitions :
              /\ d.action[s].limit \in Nat /\ d.action[s].percent \in Nat
              /\ \A k \in 1 .. Len(d.transitions[s]) : d.transitions[s][k].to \in State
         /\ \A s \in DOMAIN d.transitions : DOMAIN d.transitions[s] = 1 .. Len(d.transitions[s])
<1>1. IsDefinition(d)
  BY FsmAssumption
<1>2. ASSUME NEW s \in DOMAIN d.transitions
      PROVE  /\ d.action[s].limit \in Nat /\ d.action[s].percent \in Nat
             /\ \A k \in 1 .. Len(d.transitions[s]) : d.transitions[s][k].to \in State
             /\ DOMAIN d.transitions[s] = 1 .. Len(d.transitions[s])
  <2>1. d.action[s] \in Action /\ d.transitions[s] \in Seq(Transition)
    BY <1>1 DEF IsDefinition
  <2>2. \A k \in 1 .. Len(d.transitions[s]) : d.transitions[s][k] \in Transition
    BY <2>1
  <2>3. DOMAIN d.transitions[s] = 1 .. Len(d.transitions[s])
    BY <2>1
  <2> QED BY <2>1, <2>2, <2>3 DEF Action, Transition
<1> QED BY <1>1, <1>2 DEF IsDefinition

(* A row that is there is an instance.                                     *)
LEMMA RowIsInstance ==
  ASSUME TypeOK, NEW i \in Inst, inst[i] # NoInst
  PROVE  inst[i] \in Instance
BY DEF TypeOK, Row

LEMMA TypeInit == Init => TypeInv
<1> SUFFICES ASSUME Init PROVE TypeInv
  OBVIOUS
<1>1. NoRepeats(Fleet)
  BY FsmAssumption DEF NoRepeats
<1>2. TypeOK
  <2>1. (CHOOSE i \in Inst : TRUE) \in Inst
    BY FsmAssumption
  <2>2. id \in [Worker -> Inst]
    BY <2>1 DEF Init
  <2>3. /\ DOMAIN todo = Worker
        /\ \A w \in Worker : DOMAIN todo[w] \subseteq Inst /\ \A i \in DOMAIN todo[w] : todo[w][i] \in Row
    BY DEF Init
  <2> QED BY <2>2, <2>3, FsmAssumption DEF Init, TypeOK, Row
<1>3. \A w \in Worker : Holding(w)
  BY DEF Init, Holding, Busy
<1> QED BY <1>1, <1>2, <1>3 DEF Init, TypeInv

(* What a worker may be left with: the other workers are as they were, and *)
(* its own step, copy, plan and list have their types.                     *)
Only(w) == /\ step' = [step EXCEPT ![w] = step'[w]] /\ copy' = [copy EXCEPT ![w] = copy'[w]]
           /\ plan' = [plan EXCEPT ![w] = plan'[w]]
           /\ \/ todo' = todo
              \/ \E T : /\ todo' = [todo EXCEPT ![w] = T] /\ DOMAIN T \subseteq Inst
                        /\ \A i \in DOMAIN T : T[i] \in Instance

WorkerTypes ==
  /\ step \in [Worker -> {"idle", "pass", "advance", "cancel", "act", "deploy", "rollback", "write"}]
  /\ copy \in [Worker -> Row] /\ plan \in [Worker -> Definition \cup {NoDefinition}]
  /\ DOMAIN todo = Worker
  /\ \A v \in Worker : DOMAIN todo[v] \subseteq Inst /\ Holding(v)

LEMMA WorkerStepTypes ==
  ASSUME TypeInv, NEW w \in Worker, Only(w),
         step'[w] \in {"idle", "pass", "advance", "cancel", "act", "deploy", "rollback", "write"},
         copy'[w] \in Row, plan'[w] \in Definition \cup {NoDefinition},
         step'[w] \in Busy => copy'[w] \in Instance,
         step'[w] \in {"act", "deploy", "rollback"} => plan'[w] \in Definition
  PROVE  WorkerTypes'
<1>1. TypeOK /\ \A v \in Worker : Holding(v)
  BY DEF TypeInv
<1>2. DOMAIN todo' = Worker /\ \A v \in Worker :
        DOMAIN todo'[v] \subseteq Inst /\ \A i \in DOMAIN todo'[v] : todo'[v][i] \in Instance
  BY <1>1 DEF TypeOK, Holding, Only
<1>3. \A v \in Worker : Holding(v)'
  BY <1>1, <1>2 DEF TypeOK, Holding, Only
<1> QED BY <1>1, <1>2, <1>3 DEF TypeOK, WorkerTypes, Only

RowTypes == /\ defn \in Definition \cup {NoDefinition} /\ inst \in [Inst -> Row]
            /\ fleet \in Seq(Node) /\ NoRepeats(fleet)
            /\ departed \subseteq Node /\ applied \in [Inst -> SUBSET Node]
            /\ open \in [Inst -> SUBSET Call] /\ unanswered \in [Inst -> SUBSET Node]

ActionTypes == /\ id \in [Worker -> Inst]
               /\ left \in [Worker -> SUBSET Node] /\ ok \in [Worker -> SUBSET Node]
               /\ bad \in [Worker -> SUBSET Node]

LEMMA TypeParts == TypeInv <=> RowTypes /\ WorkerTypes /\ ActionTypes
<1>1. TypeInv => RowTypes /\ WorkerTypes /\ ActionTypes
  BY DEF TypeInv, TypeOK, RowTypes, WorkerTypes, ActionTypes
<1>2. WorkerTypes => \A w \in Worker : \A i \in DOMAIN todo[w] : todo[w][i] \in Row
  BY DEF WorkerTypes, Holding, Row
<1>3. RowTypes /\ WorkerTypes /\ ActionTypes => TypeInv
  BY <1>2 DEF TypeInv, TypeOK, RowTypes, WorkerTypes, ActionTypes
<1> QED BY <1>1, <1>3

LEMMA TypePartsNext ==
  ASSUME RowTypes', WorkerTypes', ActionTypes' PROVE TypeInv'
BY TypeParts, PTL

(* What advance_instance does: it takes a transition of the stored         *)
(* definition, or there is none to take.                                   *)
AdvanceBy(w) ==
  /\ defn # NoDefinition /\ copy[w].state \in DOMAIN defn.transitions
  /\ \E k \in DOMAIN defn.transitions[copy[w].state] :
       Enter(w, Moved(copy[w], defn.transitions[copy[w].state][k].to), defn)

LEMMA AdvanceShape ==
  ASSUME NEW w \in Worker, AdvanceInstance(w)
  PROVE  /\ step[w] = "advance" /\ UNCHANGED <<rowVars, nodeVars, todo, actionVars>>
         /\ AdvanceBy(w) \/ (Goto(w, "idle") /\ Forget(w))
<1> DEFINE here == defn # NoDefinition /\ copy[w].state \in DOMAIN defn.transitions
           ways == IF here THEN defn.transitions[copy[w].state] ELSE << >>
<1>1. /\ step[w] = "advance" /\ UNCHANGED <<rowVars, nodeVars, todo, actionVars>>
      /\ \/ \E k \in DOMAIN ways : Enter(w, Moved(copy[w], ways[k].to), defn)
         \/ Goto(w, "idle") /\ Forget(w)
  BY Zenon DEF AdvanceInstance
<1>2. (here => ways = defn.transitions[copy[w].state]) /\ (~here => DOMAIN ways = {})
  OBVIOUS
<1> HIDE DEF ways
<1> QED BY <1>1, <1>2, Zenon DEF AdvanceBy

(* Requests.                                                               *)
LEMMA RequestTypes ==
  ASSUME TypeInv, NEW w \in Worker, NEW i \in Inst,
         \/ StartInstance(w, i)
         \/ \E q \in {"advance", "cancel"} : ReadRunning(w, i, q)
         \/ AdvanceInstance(w) \/ CancelInstance(w)
  PROVE  TypeInv'
<1>0. RowTypes /\ WorkerTypes /\ ActionTypes /\ TypeOK
  BY TypeParts DEF TypeInv
<1>1. RowTypes' /\ ActionTypes'
  BY <1>0 DEF StartInstance, ReadRunning, AdvanceInstance, CancelInstance, Forget, rowVars, nodeVars, agentVars,
     actionVars, RowTypes, ActionTypes
<1>2. CASE StartInstance(w, i)
  <2>1. PICK rules \in BOOLEAN, targets \in SUBSET Node :
          defn \in Definition /\ Enter(w, NewInstance(defn, rules, targets), defn)
    <3>1. {fleet[k] : k \in DOMAIN fleet} \subseteq Node /\ {} \in SUBSET Node
      BY <1>0 DEF RowTypes
    <3> QED BY <1>0, <1>2, <3>1 DEF StartInstance, RowTypes
  <2>2. NewInstance(defn, rules, targets) \in Instance
    BY <2>1, NewIsInstance
  <2>3. Only(w) /\ step'[w] = "act" /\ copy'[w] \in Instance /\ plan'[w] \in Definition
    BY <1>0, <1>2, <2>1, <2>2 DEF StartInstance, Enter, Goto, WorkerTypes, Only
  <2>4. WorkerTypes'
    BY <2>3, WorkerStepTypes DEF Row
  <2> QED BY <1>1, <2>4, TypePartsNext
<1>3. ASSUME NEW q \in {"advance", "cancel"}, ReadRunning(w, i, q) PROVE TypeInv'
  <2>1. Only(w) /\ step'[w] = q /\ copy'[w] \in Instance /\ plan'[w] = plan[w]
    BY <1>0, <1>3, RowIsInstance DEF ReadRunning, Goto, WorkerTypes, Only
  <2>2. WorkerTypes'
    BY <1>0, <2>1, WorkerStepTypes DEF Row, WorkerTypes
  <2> QED BY <1>1, <2>2, TypePartsNext
<1>4. CASE AdvanceInstance(w)
  <2>0. /\ step[w] = "advance" /\ todo' = todo
        /\ AdvanceBy(w) \/ (Goto(w, "idle") /\ Forget(w))
    BY <1>4, AdvanceShape
  <2>1. copy[w] \in Instance
    BY <1>0, <2>0 DEF WorkerTypes, Holding, Busy
  <2>2. CASE \E s \in State : defn \in Definition /\ Enter(w, Moved(copy[w], s), defn)
    <3>1. Only(w) /\ step'[w] = "act" /\ copy'[w] \in Instance /\ plan'[w] \in Definition
      BY <1>0, <2>0, <2>1, <2>2, MovedIsInstance DEF Enter, Goto, WorkerTypes, Only
    <3> QED BY <1>1, <3>1, WorkerStepTypes, TypePartsNext DEF Row
  <2>3. CASE Goto(w, "idle") /\ Forget(w)
    <3>1. Only(w) /\ step'[w] = "idle" /\ copy'[w] \in Row /\ plan'[w] \in Definition \cup {NoDefinition}
      BY <1>0, <2>0, <2>3 DEF Forget, Goto, WorkerTypes, Only, Row
    <3> QED BY <1>1, <3>1, WorkerStepTypes, TypePartsNext DEF Busy
  <2>4. ASSUME defn # NoDefinition, copy[w].state \in DOMAIN defn.transitions,
               NEW k \in DOMAIN defn.transitions[copy[w].state],
               Enter(w, Moved(copy[w], defn.transitions[copy[w].state][k].to), defn)
        PROVE  \E s \in State : defn \in Definition /\ Enter(w, Moved(copy[w], s), defn)
    <3>1. defn \in Definition
      BY <1>0, <2>4 DEF RowTypes
    <3>2. defn.transitions[copy[w].state][k].to \in State
      BY <2>4, <3>1, DefinitionParts
    <3> QED BY <2>4, <3>1, <3>2
  <2> QED BY <2>0, <2>2, <2>3, <2>4 DEF AdvanceBy
<1>5. CASE CancelInstance(w)
  <2>1. copy[w] \in Instance
    BY <1>0, <1>5 DEF CancelInstance, WorkerTypes, Holding, Busy
  <2>2. [copy[w] EXCEPT !.status = "Cancelled", !.history = Append(@, "cancelled")] \in Instance
    BY <2>1, StatusIsInstance DEF Status
  <2>3. Only(w) /\ step'[w] = "write" /\ copy'[w] \in Instance /\ plan'[w] = plan[w]
    BY <1>0, <1>5, <2>2 DEF CancelInstance, Ready, Goto, WorkerTypes, Only
  <2>4. WorkerTypes'
    BY <1>0, <2>3, WorkerStepTypes DEF Row, WorkerTypes
  <2> QED BY <1>1, <2>4, TypePartsNext
<1> QED BY <1>2, <1>3, <1>4, <1>5

(* Everything but the worker's step, copy, plan and list is as it was, or  *)
(* of its type.                                                            *)
LEMMA StepTypes ==
  ASSUME TypeInv, NEW w \in Worker, RowTypes', ActionTypes', Only(w),
         \/ step'[w] \in Busy /\ copy'[w] \in Instance /\ plan'[w] \in Definition
         \/ step'[w] = "write" /\ copy'[w] \in Instance /\ plan'[w] = plan[w]
         \/ step'[w] \in {"idle", "pass"} /\ copy'[w] \in Row /\ plan'[w] \in Definition \cup {NoDefinition}
  PROVE  TypeInv'
<1>1. plan[w] \in Definition \cup {NoDefinition}
  BY DEF TypeInv, TypeOK
<1>2. /\ step'[w] \in {"idle", "pass", "advance", "cancel", "act", "deploy", "rollback", "write"}
      /\ copy'[w] \in Row /\ plan'[w] \in Definition \cup {NoDefinition}
      /\ step'[w] \in Busy => copy'[w] \in Instance
      /\ step'[w] \in {"act", "deploy", "rollback"} => plan'[w] \in Definition
  BY <1>1 DEF Row, Busy
<1>3. WorkerTypes'
  BY <1>2, WorkerStepTypes
<1> QED BY <1>3, TypePartsNext

(* The evaluation loop.                                                    *)
LEMMA LoopTypes ==
  ASSUME TypeInv, NEW w \in Worker, NEW i \in Inst,
         ListRunning(w) \/ EndPass(w) \/ Evaluate(w, i)
  PROVE  TypeInv'
<1>0. RowTypes /\ WorkerTypes /\ ActionTypes /\ TypeOK
  BY TypeParts DEF TypeInv
<1>1. RowTypes' /\ ActionTypes'
  BY <1>0 DEF ListRunning, EndPass, Evaluate, rowVars, nodeVars, agentVars, actionVars, RowTypes, ActionTypes
<1>2. copy[w] \in Row /\ plan[w] \in Definition \cup {NoDefinition} /\ Holding(w)
  BY <1>0 DEF WorkerTypes
<1>3. CASE ListRunning(w)
  <2> DEFINE T == [j \in Running |-> inst[j]]
  <2>1. DOMAIN T \subseteq Inst /\ \A j \in DOMAIN T : T[j] \in Instance
    BY <1>0, RowIsInstance DEF Running
  <2>2. Only(w) /\ step'[w] = "pass" /\ copy' = copy /\ plan' = plan
    BY <1>0, <1>3, <2>1 DEF ListRunning, Goto, WorkerTypes, Only
  <2> QED BY <1>1, <1>2, <2>2, StepTypes
<1>4. CASE EndPass(w)
  <2>1. Only(w) /\ step'[w] = "idle" /\ copy' = copy /\ plan' = plan
    BY <1>0, <1>4 DEF EndPass, Goto, WorkerTypes, Only
  <2> QED BY <1>1, <1>2, <2>1, StepTypes
<1>5. CASE Evaluate(w, i)
  <2> DEFINE r == todo[w][i]
             T == [j \in DOMAIN todo[w] \ {i} |-> todo[w][j]]
  <2>1. /\ todo' = [todo EXCEPT ![w] = T] /\ r \in Instance /\ step[w] = "pass"
        /\ DOMAIN T \subseteq Inst /\ \A j \in DOMAIN T : T[j] \in Instance
    BY <1>0, <1>2, <1>5 DEF Evaluate, WorkerTypes, Holding
  <2>2. ASSUME NEW c \in Instance, Ready(w, c), UNCHANGED plan
        PROVE  TypeInv'
    <3>1. Only(w) /\ step'[w] = "write" /\ copy'[w] \in Instance /\ plan'[w] = plan[w]
      BY <1>0, <2>1, <2>2 DEF Ready, Goto, WorkerTypes, Only
    <3> QED BY <1>1, <3>1, StepTypes
  <2>3. ASSUME NEW s \in State, defn \in Definition, Enter(w, Moved(r, s), defn)
        PROVE  TypeInv'
    <3>1. Moved(r, s) \in Instance
      BY <2>1, MovedIsInstance
    <3>2. Only(w) /\ step'[w] \in Busy /\ copy'[w] \in Instance /\ plan'[w] \in Definition
      BY <1>0, <2>1, <2>3, <3>1 DEF Enter, Goto, WorkerTypes, Only, Busy
    <3> QED BY <1>1, <3>2, StepTypes
  <2>4. ASSUME UNCHANGED <<step, copy, plan>>
        PROVE  TypeInv'
    <3>1. Only(w) /\ step'[w] = "pass" /\ copy'[w] \in Row /\ plan'[w] \in Definition \cup {NoDefinition}
      BY <1>0, <1>2, <2>1, <2>4 DEF WorkerTypes, Only
    <3> QED BY <1>1, <3>1, StepTypes
  <2>5. ASSUME defn # NoDefinition, r.state \in DOMAIN defn.transitions, NEW k \in Firing(r, defn)
        PROVE  defn \in Definition /\ defn.transitions[r.state][k].to \in State
    <3>1. defn \in Definition
      BY <1>0, <2>5 DEF RowTypes
    <3>2. k \in 1 .. Len(defn.transitions[r.state])
      BY <2>5 DEF Firing
    <3> QED BY <2>5, <3>1, <3>2, DefinitionParts
  <2>6. /\ [r EXCEPT !.status = "Failed"] \in Instance
        /\ [r EXCEPT !.status = "Completed"] \in Instance
    BY <2>1, StatusIsInstance DEF Status
  <2>7. \/ \E c \in Instance : Ready(w, c) /\ UNCHANGED plan
        \/ UNCHANGED <<step, copy, plan>>
        \/ /\ defn # NoDefinition /\ r.state \in DOMAIN defn.transitions
           /\ \E k \in Firing(r, defn) : Enter(w, Moved(r, defn.transitions[r.state][k].to), defn)
    BY <1>5, <2>1, <2>6 DEF Evaluate
  <2> QED BY <2>2, <2>3, <2>4, <2>5, <2>7
<1> QED BY <1>3, <1>4, <1>5

LEMMA LeastBounds ==
  ASSUME NEW a \in Int, NEW b \in Int
  PROVE  Least(a, b) \in Int /\ Least(a, b) <= a /\ Least(a, b) <= b /\ Least(a, b) \in {a, b}
BY DEF Least

(* What a deploy action selects: no more nodes than there are.             *)
LEMMA PickParts ==
  ASSUME TypeInv, NEW a, a.limit \in Nat
  PROVE  /\ Total(a) \in Nat /\ Total(a) <= Cardinality(Node) /\ Cardinality(Node) \in Nat
         /\ \A S : Pick(a, S) \in SUBSET Node
<1>1. fleet \in Seq(Node) /\ NoRepeats(fleet) /\ DOMAIN fleet = 1 .. Len(fleet) /\ Len(fleet) \in Nat
  BY DEF TypeInv, TypeOK
<1>2. Len(fleet) <= Cardinality(Node) /\ Cardinality(Node) \in Nat
  BY <1>1, FleetIsShort, FsmAssumption, FS_CardinalityType DEF Count
<1>3. Cardinality(Matching(a)) \in Nat /\ Cardinality(Matching(a)) <= Len(fleet)
  <2>1. Matching(a) \subseteq 1 .. Len(fleet)
    BY <1>1 DEF Matching
  <2>2. 1 \in Int /\ Len(fleet) \in Int
    BY <1>1
  <2>3. /\ IsFiniteSet(1 .. Len(fleet))
        /\ Cardinality(1 .. Len(fleet)) = IF 1 > Len(fleet) THEN 0 ELSE Len(fleet) - 1 + 1
    BY <2>2, FS_Interval, Zenon
  <2>4. Cardinality(1 .. Len(fleet)) = Len(fleet)
    BY <1>1, <2>3
  <2>5. IsFiniteSet(Matching(a)) /\ Cardinality(Matching(a)) <= Cardinality(1 .. Len(fleet))
    BY <2>1, <2>3, FS_Subset
  <2> QED BY <2>4, <2>5, FS_CardinalityType
<1>4. Total(a) \in {Cardinality(Matching(a)), a.limit} /\ Total(a) <= Cardinality(Matching(a))
  <2>1. Cardinality(Matching(a)) \in Int /\ a.limit \in Int
    BY <1>3
  <2> QED BY <2>1, LeastBounds, Zenon DEF Total
<1>5. \A S : Pick(a, S) \in SUBSET Node
  BY <1>1 DEF Pick, Matching
<1> QED BY <1>2, <1>3, <1>4, <1>5

(* A batch is a run of places that starts at the cursor.                *)
LEMMA BatchSizeIsInt ==
  ASSUME NEW n \in Nat, NEW percent \in Nat
  PROVE  BatchSize(n, percent) \in Nat
<1>1. n * percent \in Nat
  OBVIOUS
<1> DEFINE p == n * percent
<1>2. (p + 99) \div 100 \in Nat
  <2>1. p \in Nat
    BY <1>1
  <2> HIDE DEF p
  <2>2. p + 99 \in Nat
    BY <2>1
  <2> QED BY <2>2
<1> HIDE DEF p
<1>3. BatchSize(n, percent) = Least(IF (p + 99) \div 100 = 0 THEN 1 ELSE (p + 99) \div 100, n)
  BY DEF BatchSize, p
<1> DEFINE u == IF (p + 99) \div 100 = 0 THEN 1 ELSE (p + 99) \div 100
<1>4. u \in Nat
  BY <1>2
<1> HIDE DEF u
<1>5. u \in Int /\ n \in Int
  BY <1>4
<1>6. Least(u, n) \in {u, n}
  BY <1>5, LeastBounds, Zenon
<1> QED BY <1>3, <1>4, <1>6 DEF u

LEMMA BatchParts ==
  ASSUME NEW w \in Worker, copy[w] \in Instance, NEW n \in Nat, ActionOf(w).percent \in Nat,
         Batch(w, n) # {}
  PROVE  /\ Batch(w, n) \subseteq 1 .. n
         /\ copy[w].cursor + Cardinality(Batch(w, n)) <= n
         /\ copy[w].cursor + Cardinality(Batch(w, n)) \in Nat
         /\ Batch(w, n) = copy[w].cursor + 1 .. copy[w].cursor + Cardinality(Batch(w, n))
<1> DEFINE c == copy[w].cursor
           m == Least(c + BatchSize(n, ActionOf(w).percent), n)
<1>0. Cardinality(Node) \in Nat
  BY FsmAssumption, FS_CardinalityType
<1>1. c \in Nat
  BY <1>0, RowParts DEF Count
<1>2. m \in Int /\ m <= n
  <2>1. BatchSize(n, ActionOf(w).percent) \in Nat
    BY BatchSizeIsInt
  <2>2. c + BatchSize(n, ActionOf(w).percent) \in Int /\ n \in Int
    BY <1>1, <2>1
  <2> QED BY <2>2, LeastBounds, Zenon
<1>3. Batch(w, n) = c + 1 .. m
  BY DEF Batch
<1> HIDE DEF c, m
<1>4. c + 1 \in Int /\ c + 1 <= m
  BY <1>1, <1>2, <1>3
<1>5. Cardinality(c + 1 .. m) = IF c + 1 > m THEN 0 ELSE m - (c + 1) + 1
  BY <1>2, <1>4, FS_Interval, Zenon
<1>6. Cardinality(c + 1 .. m) = m - c
  BY <1>1, <1>2, <1>4, <1>5
<1>7. c + Cardinality(Batch(w, n)) = m
  BY <1>1, <1>2, <1>3, <1>6
<1> QED BY <1>1, <1>2, <1>3, <1>4, <1>7 DEF c

(* What the action of a state does.                                        *)
LEMMA ActionParts ==
  ASSUME TypeInv, NEW w \in Worker, step[w] \in {"act", "deploy", "rollback"}
  PROVE  /\ copy[w] \in Instance /\ plan[w] \in Definition
         /\ ActionOf(w).limit \in Nat /\ ActionOf(w).percent \in Nat
<1>1. copy[w] \in Instance /\ plan[w] \in Definition
  BY DEF TypeInv, Holding, Busy
<1>2. DOMAIN plan[w].action = DOMAIN plan[w].transitions
  BY <1>1, DefinitionParts
<1> QED BY <1>1, <1>2, DefinitionParts DEF ActionOf

(* Selecting nodes: a batch stays within the fleet.                        *)
LEMMA SelectTypes ==
  ASSUME TypeInv, NEW w \in Worker, SelectNodes(w)
  PROVE  TypeInv'
<1>0. RowTypes /\ WorkerTypes /\ ActionTypes /\ TypeOK
  BY TypeParts DEF TypeInv
<1> DEFINE r == copy[w]
           a == ActionOf(w)
           n == Total(a)
           chosen == IF a.do = "batch" THEN Batch(w, n) ELSE 1 .. n
           picked == Pick(a, chosen)
           done == IF a.do = "batch" /\ Matching(a) # {}
                   THEN <<Cardinality(r.deployed), Cardinality(r.failed)>> ELSE <<0, 0>>
<1>1. step[w] = "act" /\ r \in Instance /\ plan[w] \in Definition /\ a.limit \in Nat /\ a.percent \in Nat
  BY ActionParts DEF SelectNodes
<1>2. /\ n \in Nat /\ n <= Cardinality(Node) /\ Cardinality(Node) \in Nat
      /\ picked \in SUBSET Node
  BY <1>1, PickParts
<1>3. CASE chosen = {} /\ Ready(w, Closed(w, [r EXCEPT !.last = done])) /\ UNCHANGED left
  <2>1. done \in Count \X Count
    <3>1. r.deployed \in SUBSET Node /\ r.failed \in SUBSET Node
      BY <1>1, RowParts
    <3>2. 0 \in Count
      BY SomeNodes, FS_EmptySet
    <3> QED BY <3>1, <3>2, SomeNodes
  <2>2. [r EXCEPT !.last = done] \in Instance
    <3> HIDE DEF done
    <3> QED BY <1>1, <2>1 DEF Instance
  <2> HIDE DEF done
  <2>3. Closed(w, [r EXCEPT !.last = done]) \in Instance
    BY <2>2, ClosedIsInstance
  <2>4. Only(w) /\ step'[w] = "write" /\ copy'[w] \in Instance /\ plan'[w] = plan[w]
    BY <1>0, <1>3, <2>3 DEF SelectNodes, Ready, Goto, WorkerTypes, Only
  <2>5. RowTypes' /\ ActionTypes'
    BY <1>0, <1>3 DEF SelectNodes, rowVars, nodeVars, agentVars, RowTypes, ActionTypes
  <2> QED BY <2>4, <2>5, StepTypes
<1>4. CASE /\ chosen # {}
           /\ copy' = [copy EXCEPT ![w].targets = @ \cup picked,
                                   ![w].cursor = IF a.do = "batch" THEN @ + Cardinality(chosen) ELSE @]
           /\ left' = [left EXCEPT ![w] = picked]
           /\ Goto(w, "deploy")
  <2>1. a.do = "batch" => r.cursor + Cardinality(chosen) \in Count
    <3>1. CASE a.do = "batch"
      <4>1. chosen = Batch(w, n)
        BY <3>1
      <4>2. /\ Batch(w, n) \subseteq 1 .. n
            /\ r.cursor + Cardinality(Batch(w, n)) <= n
            /\ r.cursor + Cardinality(Batch(w, n)) \in Nat
        BY <1>1, <1>2, <1>4, <4>1, BatchParts, Zenon
      <4> HIDE DEF n, chosen, r
      <4> DEFINE e == r.cursor + Cardinality(Batch(w, n))
      <4>3. e \in Count
        <5>1. e \in Nat /\ e <= n
          BY <4>2
        <5> HIDE DEF e
        <5> QED BY <1>2, <5>1 DEF Count
      <4> QED BY <4>1, <4>2, <4>3
    <3>2. CASE a.do # "batch"
      BY <3>2
    <3> QED BY <3>1, <3>2
  <2> DEFINE c == [r EXCEPT !.targets = @ \cup picked,
                            !.cursor = IF a.do = "batch" THEN @ + Cardinality(chosen) ELSE @]
  <2>3. c \in Instance
    <3>1. r.targets \cup picked \in SUBSET Node
      BY <1>1, <1>2, RowParts
    <3> HIDE DEF picked, chosen, a
    <3> QED BY <1>1, <2>1, <3>1, RowParts DEF Instance
  <2>4. copy' = [copy EXCEPT ![w] = c] /\ copy'[w] = c
    BY <1>0, <1>4 DEF WorkerTypes
  <2> HIDE DEF c, picked
  <2>5. Only(w) /\ step'[w] \in Busy /\ copy'[w] \in Instance /\ plan'[w] \in Definition
    BY <1>0, <1>1, <1>4, <2>3, <2>4 DEF SelectNodes, Goto, WorkerTypes, Only, Busy
  <2>6. RowTypes' /\ ActionTypes'
    BY <1>0, <1>2, <1>4 DEF SelectNodes, rowVars, nodeVars, agentVars, RowTypes, ActionTypes
  <2> QED BY <2>5, <2>6, StepTypes
<1> QED BY <1>3, <1>4 DEF SelectNodes

(* The rest of an action, and the write that follows.                      *)
LEMMA WorkTypes ==
  ASSUME TypeInv, NEW w \in Worker,
         \/ ActNothing(w) \/ SelectFails(w) \/ SelectRollback(w)
         \/ \E n \in Node : DoNode(w, n)
         \/ EndAction(w) \/ WriteInstance(w) \/ WriteFails(w)
  PROVE  TypeInv'
<1>0. RowTypes /\ WorkerTypes /\ ActionTypes /\ TypeOK /\ Holding(w)
  BY TypeParts DEF TypeInv
<1>1. CASE ActNothing(w) \/ SelectFails(w)
  <2>1. Closed(w, copy[w]) \in Instance
    BY <1>1, ActionParts, ClosedIsInstance DEF ActNothing, SelectFails
  <2>2. Only(w) /\ step'[w] = "write" /\ copy'[w] \in Instance /\ plan'[w] = plan[w]
    BY <1>0, <1>1, <2>1 DEF ActNothing, SelectFails, Ready, Goto, WorkerTypes, Only
  <2>3. RowTypes' /\ ActionTypes'
    BY <1>0, <1>1 DEF ActNothing, SelectFails, rowVars, nodeVars, agentVars, actionVars, RowTypes, ActionTypes
  <2> QED BY <2>2, <2>3, StepTypes
<1>2. CASE SelectRollback(w)
  <2>1. copy[w] \in Instance /\ plan[w] \in Definition
    BY <1>2, ActionParts DEF SelectRollback
  <2>2. Only(w) /\ step'[w] \in Busy /\ copy'[w] \in Instance /\ plan'[w] \in Definition
    BY <1>0, <1>2, <2>1 DEF SelectRollback, Goto, WorkerTypes, Only, Busy
  <2>3. copy[w].deployed \in SUBSET Node
    BY <2>1, RowParts
  <2>4. RowTypes' /\ ActionTypes'
    BY <1>0, <1>2, <2>3 DEF SelectRollback, rowVars, nodeVars, agentVars, RowTypes, ActionTypes
  <2> QED BY <2>2, <2>4, StepTypes
<1>3. ASSUME NEW n \in Node, DoNode(w, n) PROVE TypeInv'
  <2>0. /\ id[w] \in Inst /\ <<step[w], n>> \in Call
        /\ applied \in [Inst -> SUBSET Node] /\ open \in [Inst -> SUBSET Call]
        /\ unanswered \in [Inst -> SUBSET Node]
    <3>1. step[w] \in {"deploy", "rollback"} /\ id[w] \in Inst
      BY <1>0, <1>3 DEF DoNode, ActionTypes
    <3>2. <<step[w], n>> \in Call
      BY <3>1 DEF Call
    <3> QED BY <1>0, <3>1, <3>2 DEF RowTypes
  <2>1. RowTypes' /\ ActionTypes'
    <3>1. applied' \in [Inst -> SUBSET Node]
      BY <1>3, <2>0 DEF DoNode, Act
    <3>2. open' \in [Inst -> SUBSET Call] /\ unanswered' \in [Inst -> SUBSET Node]
      BY <1>3, <2>0 DEF DoNode, GiveUp
    <3>3. ActionTypes'
      BY <1>0, <1>3 DEF DoNode, ActionTypes
    <3> QED BY <1>0, <1>3, <3>1, <3>2, <3>3 DEF DoNode, rowVars, RowTypes
  <2>2. WorkerTypes'
    BY <1>0, <1>3 DEF DoNode, WorkerTypes, Holding
  <2> QED BY <2>1, <2>2, TypePartsNext
<1>4. CASE EndAction(w)
  <2>1. copy[w] \in Instance /\ ok[w] \in SUBSET Node /\ bad[w] \in SUBSET Node
    BY <1>0, <1>4, ActionParts DEF EndAction, ActionTypes
  <2>2. Closed(w, WithResult(copy[w], step[w], ok[w], bad[w])) \in Instance
    BY <2>1, ResultIsInstance, ClosedIsInstance
  <2>3. Only(w) /\ step'[w] = "write" /\ copy'[w] \in Instance /\ plan'[w] = plan[w]
    BY <1>0, <1>4, <2>2 DEF EndAction, Ready, Goto, WorkerTypes, Only
  <2>4. RowTypes' /\ ActionTypes'
    BY <1>0, <1>4 DEF EndAction, rowVars, nodeVars, agentVars, RowTypes, ActionTypes
  <2> QED BY <2>3, <2>4, StepTypes
<1>5. CASE WriteInstance(w) \/ WriteFails(w)
  <2>1. Only(w) /\ step'[w] \in {"idle", "pass"} /\ copy'[w] = NoInst /\ plan'[w] = NoDefinition
    BY <1>0, <1>5 DEF WriteInstance, WriteFails, Forget, Goto, Rest, WorkerTypes, Only
  <2>2. copy[w] \in Row
    BY <1>0 DEF WorkerTypes
  <2>3. RowTypes' /\ ActionTypes'
    BY <1>0, <1>5, <2>2 DEF WriteInstance, WriteFails, Forget, rowVars, nodeVars, agentVars, actionVars, RowTypes, ActionTypes
  <2> QED BY <2>1, <2>3, StepTypes DEF Row
<1> QED BY <1>1, <1>2, <1>3, <1>4, <1>5

(* The rest of the world.                                                  *)
LEMMA StoppedTypes ==
  ASSUME TypeInv, NEW W, Stopped(W)
  PROVE  TypeInv'
<1>0. RowTypes /\ WorkerTypes /\ ActionTypes
  BY TypeParts
<1>1. RowTypes' /\ ActionTypes'
  BY <1>0 DEF Stopped, rowVars, nodeVars, agentVars, RowTypes, ActionTypes
<1>2. WorkerTypes'
  BY <1>0 DEF Stopped, WorkerTypes, Holding, Row, Busy
<1> QED BY <1>1, <1>2, TypePartsNext

LEMMA TimeTypes ==
  ASSUME TypeInv, TimePasses
  PROVE  TypeInv'
<1>0. RowTypes /\ WorkerTypes /\ ActionTypes
  BY TypeParts
<1>1. \A r \in Row : Ripe(r) \in Row
  BY RipeIsRow
<1>2. \A r \in Instance : Ripe(r) \in Instance
  <2> SUFFICES ASSUME NEW r \in Instance PROVE Ripe(r) \in Instance
    OBVIOUS
  <2> QED BY DEF Ripe, Instance
<1>3. RowTypes' /\ ActionTypes'
  BY <1>0, <1>1 DEF TimePasses, nodeVars, agentVars, actionVars, RowTypes, ActionTypes
<1>4. WorkerTypes'
  BY <1>0, <1>1, <1>2 DEF TimePasses, nodeVars, agentVars, actionVars, WorkerTypes, Holding
<1> QED BY <1>3, <1>4, TypePartsNext

LEMMA FleetTypes ==
  ASSUME TypeInv, NEW n \in Node, NodeJoins(n) \/ NodeLeaves(n)
  PROVE  TypeInv'
<1>0. RowTypes /\ WorkerTypes /\ ActionTypes
  BY TypeParts
<1>1. fleet' \in Seq(Node) /\ NoRepeats(fleet')
  <2>1. fleet \in Seq(Node) /\ NoRepeats(fleet) /\ Len(fleet) \in Nat /\ DOMAIN fleet = 1 .. Len(fleet)
    BY <1>0 DEF RowTypes
  <2>2. CASE NodeJoins(n)
    <3>1. /\ fleet' \in Seq(Node) /\ Len(fleet') = Len(fleet) + 1
          /\ \A j \in 1 .. Len(fleet) + 1 : fleet'[j] = IF j \in 1 .. Len(fleet) THEN fleet[j] ELSE n
      BY <2>1, <2>2 DEF NodeJoins
    <3>2. \A j \in 1 .. Len(fleet) : fleet[j] # n
      BY <2>1, <2>2 DEF NodeJoins
    <3> QED BY <2>1, <3>1, <3>2 DEF NoRepeats
  <2>3. CASE NodeLeaves(n)
    <3>1. PICK k \in 1 .. Len(fleet) :
            fleet' = [j \in 1 .. Len(fleet) - 1 |-> fleet[IF j < k THEN j ELSE j + 1]]
      BY <2>1, <2>3 DEF NodeLeaves
    <3>2. Len(fleet) - 1 \in Nat
      BY <2>1
    <3>3. fleet' \in [1 .. Len(fleet) - 1 -> Node]
      BY <2>1, <3>1
    <3>4. fleet' \in Seq(Node) /\ Len(fleet') = Len(fleet) - 1
      BY <3>2, <3>3
    <3>5. \A j \in 1 .. Len(fleet) - 1 : fleet'[j] = fleet[IF j < k THEN j ELSE j + 1]
      BY <3>1
    <3>6. \A j, l \in 1 .. Len(fleet) - 1 : fleet'[j] = fleet'[l] => j = l
      <4> SUFFICES ASSUME NEW j \in 1 .. Len(fleet) - 1, NEW l \in 1 .. Len(fleet) - 1,
                          fleet'[j] = fleet'[l]
                   PROVE  j = l
        OBVIOUS
      <4> DEFINE p(x) == IF x < k THEN x ELSE x + 1
      <4>1. p(j) \in 1 .. Len(fleet) /\ p(l) \in 1 .. Len(fleet)
        BY <2>1
      <4>2. fleet[p(j)] = fleet[p(l)]
        BY <3>5
      <4>3. p(j) = p(l)
        BY <2>1, <4>1, <4>2 DEF NoRepeats
      <4> QED BY <2>1, <4>3
    <3> QED BY <3>4, <3>6 DEF NoRepeats
  <2> QED BY <2>2, <2>3
<1>2. RowTypes' /\ ActionTypes'
  <2>1. /\ applied' \in [Inst -> SUBSET Node] /\ open' \in [Inst -> SUBSET Call]
        /\ unanswered' \in [Inst -> SUBSET Node] /\ departed' \subseteq Node
    BY <1>0 DEF NodeJoins, NodeLeaves, agentVars, RowTypes
  <2> QED BY <1>0, <1>1, <2>1 DEF NodeJoins, NodeLeaves, rowVars, workVars, actionVars, RowTypes, ActionTypes
<1>3. WorkerTypes'
  BY <1>0 DEF NodeJoins, NodeLeaves, rowVars, workVars, actionVars, WorkerTypes, Holding
<1> QED BY <1>2, <1>3, TypePartsNext

LEMMA LateTypes ==
  ASSUME TypeInv, NEW i \in Inst, NEW c \in Call, LateAct(i, c)
  PROVE  TypeInv'
<1>0. RowTypes /\ WorkerTypes /\ ActionTypes
  BY TypeParts
<1>1. c[2] \in Node
  BY DEF Call
<1>2. RowTypes' /\ ActionTypes'
  BY <1>0, <1>1 DEF LateAct, Act, rowVars, workVars, actionVars, RowTypes, ActionTypes
<1>3. WorkerTypes'
  BY <1>0 DEF LateAct, rowVars, workVars, actionVars, WorkerTypes, Holding
<1> QED BY <1>2, <1>3, TypePartsNext

LEMMA TypeStep == TypeInv /\ [Next]_vars => TypeInv'
<1> SUFFICES ASSUME TypeInv, [Next]_vars PROVE TypeInv'
  OBVIOUS
<1>0. RowTypes /\ WorkerTypes /\ ActionTypes
  BY TypeParts
<1>1. ASSUME NEW d \in Definition, CreateDefinition(d) PROVE TypeInv'
  <2>1. RowTypes' /\ WorkerTypes' /\ ActionTypes'
    BY <1>0, <1>1 DEF CreateDefinition, nodeVars, agentVars, workVars, actionVars, RowTypes, WorkerTypes, Holding, ActionTypes
  <2> QED BY <2>1, TypePartsNext
<1>2. CASE DeleteDefinition
  <2>1. RowTypes' /\ WorkerTypes' /\ ActionTypes'
    BY <1>0, <1>2 DEF DeleteDefinition, nodeVars, agentVars, workVars, actionVars, RowTypes, WorkerTypes, Holding, ActionTypes
  <2> QED BY <2>1, TypePartsNext
<1>3. ASSUME NEW w \in Client, NEW i \in Inst,
             StartInstance(w, i) \/ ReadRunning(w, i, "advance") \/ ReadRunning(w, i, "cancel")
      PROVE  TypeInv'
  BY <1>3, RequestTypes DEF Worker
<1>4. ASSUME NEW w \in Engine, EngineStep(w) PROVE TypeInv'
  BY <1>4, FsmAssumption, LoopTypes DEF EngineStep, Worker
<1>5. ASSUME NEW w \in Worker, WorkerStep(w) \/ SelectFails(w) \/ WriteFails(w) PROVE TypeInv'
  <2>1. PICK i \in Inst : TRUE
    BY FsmAssumption
  <2> QED BY <1>5, <2>1, RequestTypes, SelectTypes, WorkTypes DEF WorkerStep
<1>6. CASE Restart \/ \E w \in Worker : Disconnect(w)
  BY <1>6, StoppedTypes DEF Restart, Disconnect
<1>7. ASSUME NEW n \in Node, NodeJoins(n) \/ NodeLeaves(n) PROVE TypeInv'
  BY <1>7, FleetTypes
<1>8. CASE UNCHANGED vars
  <2>1. RowTypes' /\ WorkerTypes' /\ ActionTypes'
    BY <1>0, <1>8 DEF vars, rowVars, nodeVars, agentVars, workVars, actionVars, RowTypes, WorkerTypes, Holding, ActionTypes
  <2> QED BY <2>1, TypePartsNext
<1> QED BY <1>1, <1>2, <1>3, <1>4, <1>5, <1>6, <1>7, <1>8, TimeTypes, LateTypes DEF Next

(* Types hold together with what they rest on: a worker that has something *)
(* to do holds a row, one that executes an action a definition, and no     *)
(* node is listed twice (evaluate_all, advance_instance, list_nodes).      *)
THEOREM TypesHold == Spec => []TypeInv
<1> QED BY TypeInit, TypeStep, PTL DEF Spec

(* Every variable of the engine keeps its type, whatever requests, faults  *)
(* and restarts interleave.                                                *)
THEOREM EngineTypes == Spec => []TypeOK
<1>1. TypeInv => TypeOK
  BY DEF TypeInv
<1> QED BY <1>1, TypesHold, PTL
-----------------------------------------------------------------------------
(***************************************************************************)
(* Instances stay in states their definition has, and batches go through   *)
(* the fleet in order.  StateIsDefined speaks of stored rows only; the     *)
(* invariant speaks of the copies and the listed rows as well, because any *)
(* of them may be written later, and it knows that every worker's plan is  *)
(* the stored definition and that only running rows are moved.             *)
(***************************************************************************)
(* Definitions stay as they are once created; for the batches, no instance *)
(* starts with targets and the fleet does not change.                      *)
Settles == Requests \cap {"define", "delete"} = {}
Rollout == "adaptive" \notin Requests /\ "fleet" \notin Faults

(* The first c nodes of the fleet that match the label of an action.       *)
Labelled(a) == {k \in DOMAIN Fleet : Fleet[k] \in a.select}
Upto(a, c) == {Fleet[k] : k \in {j \in Labelled(a) : Cardinality({m \in Labelled(a) : m <= j}) \in 1 .. c}}

LEMMA PickIsUpto ==
  ASSUME NEW a, NEW b, a.select = b.select, fleet = Fleet, NEW c
  PROVE  Pick(a, 1 .. c) = Upto(b, c)
BY DEF Pick, Matching, Place, Upto, Labelled

Prefix(d, r) ==
  (Rollout /\ OnlyBatches(d)) => \A a \in BatchActions(d) : r.targets = Upto(a, r.cursor)

Fits(d, r) ==
  /\ d # NoDefinition /\ r.state \in DOMAIN d.transitions
  /\ r.status = "Completed" => r.state \in d.terminal
  /\ Prefix(d, r)

Moving == {"advance", "cancel", "act", "deploy", "rollback"}

Steady(w) ==
  /\ copy[w] # NoInst \/ step[w] \in Busy => Fits(defn, copy[w])
  /\ step[w] \in Moving => copy[w].status = "Running"
  /\ plan[w] \in {defn, NoDefinition}
  /\ \A i \in DOMAIN todo[w] : Fits(defn, todo[w][i]) /\ todo[w][i].status = "Running"

StateInv ==
  /\ defn # NoDefinition => Valid(defn)
  /\ Rollout => fleet = Fleet
  /\ \A i \in Inst : inst[i] # NoInst => Fits(defn, inst[i])
  /\ \A w \in Worker : Steady(w)

LEMMA StateInit == Init => StateInv
BY DEF Init, StateInv, Steady, Busy, Moving

(* A row that differs from one that fits in other fields only fits.        *)
LEMMA SameFits ==
  ASSUME NEW d, NEW r, Fits(d, r), NEW s, s.state = r.state, s.targets = r.targets, s.cursor = r.cursor,
         s.status = "Completed" => r.status = "Completed" \/ r.state \in d.terminal
  PROVE  Fits(d, s)
BY DEF Fits, Prefix

LEMMA NewFits ==
  ASSUME NEW d \in Definition, Valid(d), NEW rules, NEW targets, Rollout => targets = {}
  PROVE  Fits(d, NewInstance(d, rules, targets)) /\ NewInstance(d, rules, targets).status = "Running"
<1>1. \A a : Upto(a, 0) = {}
  BY DEF Upto
<1>2. d # NoDefinition
  BY FsmAssumption
<1> QED BY <1>1, <1>2 DEF NewInstance, Fits, Prefix, Valid

LEMMA MovedFits ==
  ASSUME NEW d, NEW r \in Instance, Fits(d, r), r.status = "Running", NEW s \in DOMAIN d.transitions
  PROVE  Fits(d, Moved(r, s)) /\ Moved(r, s).status = "Running"
BY DEF Moved, Instance, Fits, Prefix

LEMMA StatusFits ==
  ASSUME NEW d, NEW r \in Instance, Fits(d, r), NEW s \in Status,
         s = "Completed" => r.state \in d.terminal
  PROVE  /\ Fits(d, [r EXCEPT !.status = s])
         /\ Fits(d, [r EXCEPT !.status = s, !.history = Append(@, "cancelled")])
BY DEF Instance, Fits, Prefix

LEMMA ClosedFits ==
  ASSUME NEW w \in Worker, NEW r \in Instance, Fits(plan[w], r)
  PROVE  Fits(plan[w], Closed(w, r))
BY StatusFits DEF Closed, Status

LEMMA ResultFits ==
  ASSUME NEW d, NEW r \in Instance, Fits(d, r), NEW what, NEW good, NEW poor
  PROVE  Fits(d, WithResult(r, what, good, poor))
BY DEF WithResult, Instance, Fits, Prefix

LEMMA RipeFits ==
  ASSUME NEW d, NEW r \in Row, Fits(d, r)
  PROVE  Fits(d, Ripe(r)) /\ Ripe(r).status = r.status
BY DEF Ripe, Row, Instance, Fits, Prefix

(* Where the transitions of a valid definition lead.                       *)
LEMMA ValidTargets ==
  ASSUME NEW d \in Definition, Valid(d), NEW s \in DOMAIN d.transitions, NEW k \in DOMAIN d.transitions[s]
  PROVE  d.transitions[s][k].to \in DOMAIN d.transitions
BY DefinitionParts DEF Valid

(* One worker moved: the rows, the definition and the fleet did not.       *)
LEMMA StateFrame ==
  ASSUME TypeInv, StateInv, NEW w \in Worker, Only(w),
         defn' = defn, inst' = inst, Rollout => fleet' = fleet,
         copy'[w] # NoInst \/ step'[w] \in Busy => Fits(defn, copy'[w]),
         step'[w] \in Moving => copy'[w].status = "Running",
         plan'[w] \in {plan[w], defn, NoDefinition},
         \/ todo' = todo
         \/ \A i \in DOMAIN todo'[w] : Fits(defn, todo'[w][i]) /\ todo'[w][i].status = "Running"
  PROVE  StateInv'
<1>1. /\ step \in [Worker -> {"idle", "pass", "advance", "cancel", "act", "deploy", "rollback", "write"}]
      /\ copy \in [Worker -> Row] /\ plan \in [Worker -> Definition \cup {NoDefinition}]
      /\ DOMAIN todo = Worker
  BY DEF TypeInv, TypeOK
<1>2. \A v \in Worker \ {w} : /\ step'[v] = step[v] /\ copy'[v] = copy[v] /\ plan'[v] = plan[v]
                              /\ todo'[v] = todo[v]
  BY <1>1 DEF Only
<1>3. \A v \in Worker \ {w} : Steady(v)'
  BY <1>2 DEF StateInv, Steady
<1>4. Steady(w)'
  BY DEF StateInv, Steady
<1> QED BY <1>3, <1>4 DEF StateInv

LEMMA RequestFits ==
  ASSUME TypeInv, StateInv, NEW w \in Worker, NEW i \in Inst,
         \/ StartInstance(w, i)
         \/ \E q \in {"advance", "cancel"} : ReadRunning(w, i, q)
         \/ AdvanceInstance(w) \/ CancelInstance(w)
  PROVE  StateInv'
<1>0. RowTypes /\ WorkerTypes /\ TypeOK /\ Steady(w)
  BY TypeParts DEF TypeInv, StateInv
<1>1. defn' = defn /\ inst' = inst /\ fleet' = fleet /\ todo' = todo
  BY DEF StartInstance, ReadRunning, AdvanceInstance, CancelInstance, rowVars, nodeVars, agentVars
<1>2. CASE StartInstance(w, i)
  <2>1. PICK rules \in BOOLEAN, targets \in SUBSET Node :
          /\ defn \in Definition /\ Enter(w, NewInstance(defn, rules, targets), defn)
          /\ Rollout => targets = {}
    <3>1. {fleet[k] : k \in DOMAIN fleet} \subseteq Node /\ {} \in SUBSET Node
      BY <1>0 DEF RowTypes
    <3> QED BY <1>0, <1>2, <3>1 DEF StartInstance, RowTypes, Rollout
  <2>2. Valid(defn)
    BY <1>2 DEF StartInstance, StateInv
  <2> DEFINE c == NewInstance(defn, rules, targets)
  <2>3. Fits(defn, c) /\ c.status = "Running"
    BY <2>1, <2>2, NewFits
  <2> HIDE DEF c
  <2>4. Only(w) /\ step'[w] = "act" /\ copy'[w] = c /\ plan'[w] = defn
    BY <1>0, <1>1, <1>2, <2>1 DEF StartInstance, Enter, Goto, WorkerTypes, Only, c
  <2> QED BY <1>1, <2>3, <2>4, StateFrame
<1>3. ASSUME NEW q \in {"advance", "cancel"}, ReadRunning(w, i, q) PROVE StateInv'
  <2>1. Only(w) /\ step'[w] = q /\ copy'[w] = inst[i] /\ plan' = plan
    BY <1>0, <1>1, <1>3 DEF ReadRunning, Goto, WorkerTypes, Only
  <2>2. Fits(defn, inst[i]) /\ inst[i].status = "Running"
    BY <1>3 DEF ReadRunning, StateInv
  <2> QED BY <1>1, <2>1, <2>2, StateFrame
<1>4. CASE AdvanceInstance(w)
  <2>1. copy[w] \in Instance /\ Fits(defn, copy[w]) /\ copy[w].status = "Running"
    BY <1>0, <1>4 DEF AdvanceInstance, WorkerTypes, Holding, Steady, Busy, Moving
  <2>2. ASSUME NEW s \in DOMAIN defn.transitions, Enter(w, Moved(copy[w], s), defn)
        PROVE  StateInv'
    <3> DEFINE c == Moved(copy[w], s)
    <3>1. Fits(defn, c) /\ c.status = "Running"
      BY <2>1, MovedFits
    <3> HIDE DEF c
    <3>2. Only(w) /\ step'[w] = "act" /\ copy'[w] = c /\ plan'[w] = defn
      BY <1>0, <1>1, <2>2 DEF Enter, Goto, WorkerTypes, Only, c
    <3> QED BY <1>1, <3>1, <3>2, StateFrame
  <2>3. CASE Goto(w, "idle") /\ Forget(w)
    <3>1. Only(w) /\ step'[w] = "idle" /\ copy'[w] = NoInst /\ plan'[w] = NoDefinition
      BY <1>0, <1>1, <2>3 DEF Forget, Goto, WorkerTypes, Only
    <3> QED BY <1>1, <3>1, StateFrame DEF Busy, Moving
  <2>4. ASSUME copy[w].state \in DOMAIN defn.transitions, defn # NoDefinition,
               NEW k \in DOMAIN defn.transitions[copy[w].state]
        PROVE  defn.transitions[copy[w].state][k].to \in DOMAIN defn.transitions
    <3>1. defn \in Definition /\ Valid(defn)
      BY <1>0, <2>4 DEF RowTypes, StateInv
    <3> QED BY <2>4, <3>1, ValidTargets
  <2> QED BY <1>4, <2>2, <2>3, <2>4, AdvanceShape DEF AdvanceBy
<1>5. CASE CancelInstance(w)
  <2> DEFINE c == [copy[w] EXCEPT !.status = "Cancelled", !.history = Append(@, "cancelled")]
  <2>1. copy[w] \in Instance /\ Fits(defn, copy[w])
    BY <1>0, <1>5 DEF CancelInstance, WorkerTypes, Holding, Steady, Busy
  <2>2. Fits(defn, c)
    BY <2>1, StatusFits DEF Status
  <2> HIDE DEF c
  <2>3. Only(w) /\ step'[w] = "write" /\ copy'[w] = c /\ plan' = plan
    BY <1>0, <1>1, <1>5 DEF CancelInstance, Ready, Goto, WorkerTypes, Only, c
  <2> QED BY <1>1, <2>2, <2>3, StateFrame DEF Moving
<1> QED BY <1>2, <1>3, <1>4, <1>5

LEMMA LoopFits ==
  ASSUME TypeInv, StateInv, NEW w \in Worker, NEW i \in Inst,
         ListRunning(w) \/ EndPass(w) \/ Evaluate(w, i)
  PROVE  StateInv'
<1>0. RowTypes /\ WorkerTypes /\ TypeOK /\ Steady(w) /\ Holding(w)
  BY TypeParts DEF TypeInv, StateInv
<1>1. defn' = defn /\ inst' = inst /\ fleet' = fleet
  BY DEF ListRunning, EndPass, Evaluate, rowVars, nodeVars, agentVars
<1>3. CASE ListRunning(w)
  <2> DEFINE T == [j \in Running |-> inst[j]]
  <2>1. /\ DOMAIN T \subseteq Inst /\ \A j \in DOMAIN T : T[j] \in Instance
        /\ \A j \in DOMAIN T : Fits(defn, T[j]) /\ T[j].status = "Running"
    BY <1>0, RowIsInstance DEF Running, StateInv
  <2>2. Only(w) /\ step'[w] = "pass" /\ copy' = copy /\ plan' = plan /\ todo'[w] = T
    BY <1>0, <1>3, <2>1 DEF ListRunning, Goto, WorkerTypes, Only
  <2> QED BY <1>0, <1>1, <2>1, <2>2, StateFrame DEF Steady, Busy, Moving
<1>4. CASE EndPass(w)
  <2>1. Only(w) /\ step'[w] = "idle" /\ copy' = copy /\ plan' = plan /\ todo' = todo
    BY <1>0, <1>4 DEF EndPass, Goto, WorkerTypes, Only
  <2> QED BY <1>0, <1>1, <2>1, StateFrame DEF Steady, Busy, Moving
<1>5. CASE Evaluate(w, i)
  <2> DEFINE r == todo[w][i]
             T == [j \in DOMAIN todo[w] \ {i} |-> todo[w][j]]
  <2>1. /\ todo' = [todo EXCEPT ![w] = T] /\ r \in Instance /\ step[w] = "pass"
        /\ DOMAIN T \subseteq Inst /\ \A j \in DOMAIN T : T[j] \in Instance
        /\ Fits(defn, r) /\ r.status = "Running"
    BY <1>0, <1>5 DEF Evaluate, WorkerTypes, Holding, Steady
  <2>2. /\ todo'[w] = T
        /\ \A j \in DOMAIN T : Fits(defn, T[j]) /\ T[j].status = "Running"
    BY <1>0, <2>1 DEF WorkerTypes, Steady
  <2>3. ASSUME NEW c, Fits(defn, c), Ready(w, c), UNCHANGED plan
        PROVE  StateInv'
    <3>1. Only(w) /\ step'[w] = "write" /\ copy'[w] = c /\ plan' = plan
      BY <1>0, <2>1, <2>3 DEF Ready, Goto, WorkerTypes, Only
    <3> QED BY <1>1, <2>2, <2>3, <3>1, StateFrame DEF Moving
  <2>4. ASSUME NEW s \in DOMAIN defn.transitions, Enter(w, Moved(r, s), defn)
        PROVE  StateInv'
    <3> DEFINE c == Moved(r, s)
    <3>1. Fits(defn, c) /\ c.status = "Running"
      BY <2>1, MovedFits
    <3> HIDE DEF c
    <3>2. Only(w) /\ step'[w] = "act" /\ copy'[w] = c /\ plan'[w] = defn
      BY <1>0, <2>1, <2>4 DEF Enter, Goto, WorkerTypes, Only, c
    <3> QED BY <1>1, <2>2, <3>1, <3>2, StateFrame
  <2>5. defn # NoDefinition /\ r.state \in DOMAIN defn.transitions /\ defn \in Definition /\ Valid(defn)
    BY <1>0, <2>1 DEF Fits, RowTypes, StateInv
  <2>6. ASSUME NEW k \in Firing(r, defn)
        PROVE  defn.transitions[r.state][k].to \in DOMAIN defn.transitions
    <3>1. k \in 1 .. Len(defn.transitions[r.state])
      BY <2>6 DEF Firing
    <3> QED BY <2>5, <3>1, ValidTargets, DefinitionParts
  <2>7. r.state \in defn.terminal => Fits(defn, [r EXCEPT !.status = "Completed"])
    BY <2>1, StatusFits DEF Status
  <2>8. \/ \E c : Fits(defn, c) /\ Ready(w, c) /\ UNCHANGED plan
        \/ \E k \in Firing(r, defn) : Enter(w, Moved(r, defn.transitions[r.state][k].to), defn)
    <3>1. \/ r.state \in defn.terminal /\ Ready(w, [r EXCEPT !.status = "Completed"]) /\ UNCHANGED plan
          \/ \E k \in Firing(r, defn) : Enter(w, Moved(r, defn.transitions[r.state][k].to), defn)
          \/ Ready(w, r) /\ UNCHANGED plan
      BY <1>5, <2>5 DEF Evaluate
    <3> QED BY <2>1, <2>7, <3>1
  <2> QED BY <2>3, <2>4, <2>6, <2>8
<1> QED BY <1>3, <1>4, <1>5

(* The worker that executes an action acts on the stored definition.       *)
LEMMA ActingFits ==
  ASSUME TypeInv, StateInv, NEW w \in Worker, step[w] \in {"act", "deploy", "rollback"}
  PROVE  /\ plan[w] = defn /\ copy[w] \in Instance /\ Fits(plan[w], copy[w])
         /\ OnlyBatches(defn) => ActionOf(w).do # "deploy"
         /\ ActionOf(w).do = "batch" => ActionOf(w) \in BatchActions(defn)
<1>1. copy[w] \in Instance /\ plan[w] \in Definition /\ Steady(w)
  BY ActionParts DEF StateInv
<1>2. plan[w] = defn
  BY <1>1, FsmAssumption DEF Steady
<1>3. Fits(defn, copy[w])
  BY <1>1 DEF Steady, Busy
<1>4. DOMAIN defn.action = DOMAIN defn.transitions
  BY <1>1, <1>2, DefinitionParts
<1> QED BY <1>1, <1>2, <1>3, <1>4 DEF ActionOf, OnlyBatches, BatchActions, Fits

LEMMA SelectFits ==
  ASSUME TypeInv, StateInv, NEW w \in Worker, SelectNodes(w)
  PROVE  StateInv'
<1>0. RowTypes /\ WorkerTypes /\ TypeOK /\ Steady(w)
  BY TypeParts DEF TypeInv, StateInv
<1> DEFINE r == copy[w]
           a == ActionOf(w)
           n == Total(a)
           chosen == IF a.do = "batch" THEN Batch(w, n) ELSE 1 .. n
           picked == Pick(a, chosen)
           done == IF a.do = "batch" /\ Matching(a) # {}
                   THEN <<Cardinality(r.deployed), Cardinality(r.failed)>> ELSE <<0, 0>>
<1>1. /\ step[w] = "act" /\ r \in Instance /\ plan[w] = defn /\ Fits(defn, r)
      /\ a.limit \in Nat /\ a.percent \in Nat /\ r.status = "Running"
      /\ OnlyBatches(defn) => a.do = "batch" /\ a \in BatchActions(defn)
  BY <1>0, ActionParts, ActingFits DEF SelectNodes, Steady, Moving
<1>2. defn' = defn /\ inst' = inst /\ fleet' = fleet /\ todo' = todo /\ plan' = plan
  BY DEF SelectNodes, rowVars, nodeVars, agentVars
<1>3. CASE Ready(w, Closed(w, [r EXCEPT !.last = done]))
  <2> HIDE DEF done
  <2> DEFINE q == [r EXCEPT !.last = done]
             c == Closed(w, q)
  <2>1. Fits(defn, q)
    BY <1>1, SameFits DEF Instance
  <2>2. q.state = r.state /\ q.targets = r.targets /\ q.cursor = r.cursor
    BY <1>1 DEF Instance
  <2>3. /\ c.state = q.state /\ c.targets = q.targets /\ c.cursor = q.cursor
        /\ c.status = "Completed" => q.status = "Completed" \/ q.state \in defn.terminal
    BY <1>1 DEF Closed, Instance
  <2>4. Fits(defn, c)
    <3> HIDE DEF q, c
    <3> QED BY <2>1, <2>3, SameFits
  <2> HIDE DEF c
  <2>5. Only(w) /\ step'[w] = "write" /\ copy'[w] = c
    BY <1>0, <1>2, <1>3 DEF Ready, Goto, WorkerTypes, Only, c
  <2> QED BY <1>2, <2>4, <2>5, StateFrame DEF Moving
<1>4. CASE /\ chosen # {}
           /\ copy' = [copy EXCEPT ![w].targets = @ \cup picked,
                                   ![w].cursor = IF a.do = "batch" THEN @ + Cardinality(chosen) ELSE @]
           /\ Goto(w, "deploy")
  <2> DEFINE c == [r EXCEPT !.targets = @ \cup picked,
                            !.cursor = IF a.do = "batch" THEN @ + Cardinality(chosen) ELSE @]
  <2>1. copy' = [copy EXCEPT ![w] = c]
    BY <1>0, <1>4 DEF WorkerTypes
  <2>2. c.state = r.state /\ c.status = r.status
    BY <1>1 DEF Instance
  <2>3. ASSUME Rollout, OnlyBatches(defn), NEW b \in BatchActions(defn)
        PROVE  c.targets = Upto(b, c.cursor)
    <3>1. a.do = "batch" /\ fleet = Fleet /\ r.targets = Upto(b, r.cursor) /\ a.select = b.select
      BY <1>1, <2>3 DEF StateInv, Fits, Prefix, OnlyBatches
    <3>2. n \in Nat /\ r.cursor \in Nat
      <4>1. r.cursor \in Count /\ Cardinality(Node) \in Nat
        BY <1>1, RowParts, FsmAssumption, FS_CardinalityType
      <4> QED BY <1>1, <4>1, PickParts DEF Count
    <3> DEFINE m == Cardinality(chosen)
    <3>3. chosen = r.cursor + 1 .. r.cursor + m /\ r.cursor + m \in Nat
      <4>1. chosen = Batch(w, n)
        BY <3>1
      <4>2. Batch(w, n) # {}
        BY <1>4, <4>1
      <4>3. /\ r.cursor + Cardinality(Batch(w, n)) \in Nat
            /\ Batch(w, n) = r.cursor + 1 .. r.cursor + Cardinality(Batch(w, n))
        BY <1>1, <3>2, <4>2, BatchParts, Zenon
      <4> QED BY <4>1, <4>3
    <3>4. c.targets = r.targets \cup picked /\ c.cursor = r.cursor + m
      BY <1>1, <3>1 DEF Instance
    <3> HIDE DEF m, c, r, n, chosen
    <3>5. 1 .. r.cursor + m = (1 .. r.cursor) \cup chosen
      <4> DEFINE e == r.cursor + m
      <4>1. e \in Nat /\ chosen = r.cursor + 1 .. e /\ chosen # {}
        BY <1>4, <3>3
      <4> HIDE DEF e
      <4>2. 1 .. e = (1 .. r.cursor) \cup chosen
        BY <3>2, <4>1
      <4> QED BY <4>2 DEF e
    <3>6. Pick(a, 1 .. r.cursor + m) = Pick(a, 1 .. r.cursor) \cup picked
      <4> HIDE DEF a
      <4> QED BY <3>5 DEF Pick
    <3>7. Pick(a, 1 .. r.cursor) = Upto(b, r.cursor) /\ Pick(a, 1 .. r.cursor + m) = Upto(b, r.cursor + m)
      <4> HIDE DEF a
      <4> QED BY <3>1, PickIsUpto
    <3> HIDE DEF picked, a
    <3> QED BY <3>1, <3>4, <3>6, <3>7
  <2>4. Fits(defn, c)
    <3> HIDE DEF c
    <3> QED BY <1>1, <2>2, <2>3 DEF Fits, Prefix
  <2> HIDE DEF c
  <2>5. Only(w) /\ step'[w] = "deploy" /\ copy'[w] = c /\ c.status = "Running"
    BY <1>0, <1>1, <1>2, <1>4, <2>1, <2>2 DEF Goto, WorkerTypes, Only
  <2> QED BY <1>2, <2>4, <2>5, StateFrame
<1> QED BY <1>3, <1>4 DEF SelectNodes

LEMMA WorkFits ==
  ASSUME TypeInv, StateInv, NEW w \in Worker,
         \/ ActNothing(w) \/ SelectFails(w) \/ SelectRollback(w)
         \/ \E n \in Node : DoNode(w, n)
         \/ EndAction(w) \/ WriteInstance(w) \/ WriteFails(w)
  PROVE  StateInv'
<1>0. RowTypes /\ WorkerTypes /\ TypeOK /\ Steady(w) /\ Holding(w)
  BY TypeParts DEF TypeInv, StateInv
<1>1. defn' = defn /\ fleet' = fleet /\ todo' = todo
  BY DEF ActNothing, SelectFails, SelectRollback, DoNode, EndAction, WriteInstance, WriteFails, rowVars, nodeVars, agentVars
<1>2. CASE ActNothing(w) \/ SelectFails(w)
  <2> DEFINE c == Closed(w, copy[w])
  <2>1. plan[w] = defn /\ copy[w] \in Instance /\ Fits(plan[w], copy[w])
    BY <1>2, ActingFits DEF ActNothing, SelectFails
  <2>2. Fits(defn, c)
    BY <2>1, ClosedFits
  <2> HIDE DEF c
  <2>3. Only(w) /\ step'[w] = "write" /\ copy'[w] = c /\ plan' = plan /\ inst' = inst
    BY <1>0, <1>1, <1>2 DEF ActNothing, SelectFails, Ready, Goto, WorkerTypes, Only, c, rowVars
  <2> QED BY <1>1, <2>2, <2>3, StateFrame DEF Moving
<1>3. CASE SelectRollback(w)
  <2>1. plan[w] = defn /\ copy[w] \in Instance /\ Fits(plan[w], copy[w]) /\ copy[w].status = "Running"
    BY <1>0, <1>3, ActingFits DEF SelectRollback, Steady, Moving
  <2>2. Only(w) /\ step'[w] = "rollback" /\ copy' = copy /\ plan' = plan /\ inst' = inst
    BY <1>0, <1>1, <1>3 DEF SelectRollback, Goto, WorkerTypes, Only, rowVars
  <2> QED BY <1>1, <2>1, <2>2, StateFrame
<1>4. ASSUME NEW n \in Node, DoNode(w, n) PROVE StateInv'
  BY <1>1, <1>4 DEF DoNode, rowVars, StateInv, Steady
<1>5. CASE EndAction(w)
  <2> DEFINE q == WithResult(copy[w], step[w], ok[w], bad[w])
             c == Closed(w, q)
  <2>1. plan[w] = defn /\ copy[w] \in Instance /\ Fits(plan[w], copy[w]) /\ ok[w] \in SUBSET Node /\ bad[w] \in SUBSET Node
    BY <1>0, <1>5, ActingFits DEF EndAction, TypeOK
  <2>2. q \in Instance /\ Fits(defn, q)
    BY <2>1, ResultIsInstance, ResultFits
  <2> HIDE DEF q
  <2>3. Fits(defn, c)
    BY <2>1, <2>2, ClosedFits
  <2> HIDE DEF c
  <2>4. Only(w) /\ step'[w] = "write" /\ copy'[w] = c /\ plan' = plan /\ inst' = inst
    BY <1>0, <1>1, <1>5 DEF EndAction, Ready, Goto, WorkerTypes, Only, c, q, rowVars
  <2> QED BY <1>1, <2>3, <2>4, StateFrame DEF Moving
<1>6. CASE WriteInstance(w) \/ WriteFails(w)
  <2>1. Only(w) /\ step'[w] \in {"idle", "pass"} /\ copy'[w] = NoInst /\ plan'[w] = NoDefinition
    BY <1>0, <1>6 DEF WriteInstance, WriteFails, Forget, Goto, Rest, WorkerTypes, Only
  <2>2. \A v \in Worker : Steady(v)'
    <3>1. \A v \in Worker \ {w} : step'[v] = step[v] /\ copy'[v] = copy[v] /\ plan'[v] = plan[v]
      BY <1>0, <2>1 DEF Only, WorkerTypes
    <3>2. \A v \in Worker \ {w} : Steady(v)'
      BY <1>1, <3>1 DEF StateInv, Steady
    <3>3. Steady(w)'
      BY <1>0, <1>1, <2>1 DEF Steady, Busy, Moving
    <3> QED BY <3>2, <3>3
  <2>3. \A i \in Inst : inst'[i] # NoInst => Fits(defn, inst'[i])
    BY <1>0, <1>6 DEF WriteInstance, WriteFails, rowVars, StateInv, Steady, Busy, RowTypes
  <2> QED BY <1>1, <2>2, <2>3 DEF StateInv
<1> QED BY <1>2, <1>3, <1>4, <1>5, <1>6

LEMMA WorldFits ==
  ASSUME TypeInv, StateInv, Settles,
         \/ \E d \in Definition : CreateDefinition(d)
         \/ DeleteDefinition
         \/ \E W : Stopped(W)
         \/ \E n \in Node : NodeJoins(n) \/ NodeLeaves(n)
         \/ \E i \in Inst, c \in Call : LateAct(i, c)
         \/ TimePasses
         \/ UNCHANGED vars
  PROVE  StateInv'
<1>0. RowTypes /\ WorkerTypes /\ TypeOK
  BY TypeParts DEF TypeInv
<1>1. ASSUME NEW d \in Definition, CreateDefinition(d) PROVE StateInv'
  <2>1. defn = NoDefinition /\ Valid(d) /\ defn' = d
    BY <1>1 DEF CreateDefinition, Settles
  <2>2. \A r : ~Fits(NoDefinition, r)
    BY DEF Fits
  <2>3. inst' = inst /\ copy' = copy /\ step' = step /\ plan' = plan /\ todo' = todo /\ fleet' = fleet
    BY <1>1 DEF CreateDefinition, nodeVars, agentVars, workVars
  <2> QED BY <2>1, <2>2, <2>3 DEF StateInv, Steady
<1>2. ASSUME DeleteDefinition PROVE FALSE
  BY <1>2 DEF DeleteDefinition, Settles
<1>3. ASSUME NEW W, Stopped(W) PROVE StateInv'
  <2>1. \A v \in Worker : Steady(v)'
    BY <1>0, <1>3 DEF Stopped, rowVars, StateInv, Steady, Busy, Moving
  <2> QED BY <1>3, <2>1 DEF Stopped, rowVars, nodeVars, agentVars, StateInv
<1>4. ASSUME NEW n \in Node, NodeJoins(n) \/ NodeLeaves(n) PROVE StateInv'
  <2>1. ~Rollout /\ defn' = defn /\ inst' = inst /\ copy' = copy /\ step' = step /\ plan' = plan /\ todo' = todo
    BY <1>4 DEF NodeJoins, NodeLeaves, rowVars, workVars, Rollout
  <2> QED BY <2>1 DEF StateInv, Steady
<1>5. CASE TimePasses
  <2>1. defn' = defn /\ fleet' = fleet /\ step' = step /\ plan' = plan
    BY <1>5 DEF TimePasses, nodeVars, agentVars
  <2>2. \A i \in Inst : inst'[i] # NoInst => Fits(defn, inst'[i])
    <3>1. \A i \in Inst : inst'[i] = Ripe(inst[i])
      BY <1>5 DEF TimePasses
    <3>2. Ripe(NoInst) = NoInst
      BY DEF Ripe
    <3> QED BY <1>0, <3>1, <3>2, RipeFits DEF StateInv, RowTypes
  <2>3. ASSUME NEW w \in Worker PROVE Steady(w)'
    <3>1. copy'[w] = Ripe(copy[w]) /\ copy[w] \in Row
      BY <1>0, <1>5 DEF TimePasses, WorkerTypes
    <3>2. copy[w] = NoInst => copy'[w] = NoInst
      BY <3>1 DEF Ripe
    <3>3. Steady(w)
      BY DEF StateInv
    <3>4. copy'[w] # NoInst \/ step'[w] \in Busy => Fits(defn, copy'[w])
      BY <2>1, <3>1, <3>2, <3>3, RipeFits DEF Steady
    <3>5. step'[w] \in Moving => copy'[w].status = "Running"
      BY <2>1, <3>1, <3>3, RipeFits DEF Steady, Busy, Moving
    <3>6. /\ DOMAIN todo'[w] = DOMAIN todo[w]
          /\ \A i \in DOMAIN todo[w] : todo'[w][i] = Ripe(todo[w][i]) /\ todo[w][i] \in Row
      BY <1>0, <1>5 DEF TimePasses, TypeOK
    <3>7. \A i \in DOMAIN todo'[w] : Fits(defn, todo'[w][i]) /\ todo'[w][i].status = "Running"
      BY <3>3, <3>6, RipeFits DEF Steady
    <3> QED BY <2>1, <3>3, <3>4, <3>5, <3>7 DEF Steady
  <2> QED BY <2>1, <2>2, <2>3 DEF StateInv
<1>6. CASE UNCHANGED vars \/ \E i \in Inst, c \in Call : LateAct(i, c)
  BY <1>6 DEF LateAct, vars, rowVars, nodeVars, agentVars, workVars, StateInv, Steady
<1> QED BY <1>1, <1>2, <1>3, <1>4, <1>5, <1>6

LEMMA StateStep ==
  ASSUME TypeInv, StateInv, Settles, [Next]_vars
  PROVE  StateInv'
<1>1. ASSUME NEW w \in Client, NEW i \in Inst,
             StartInstance(w, i) \/ ReadRunning(w, i, "advance") \/ ReadRunning(w, i, "cancel")
      PROVE  StateInv'
  BY <1>1, RequestFits DEF Worker
<1>2. ASSUME NEW w \in Engine, EngineStep(w) PROVE StateInv'
  BY <1>2, FsmAssumption, LoopFits DEF EngineStep, Worker
<1>3. ASSUME NEW w \in Worker, WorkerStep(w) \/ SelectFails(w) \/ WriteFails(w) PROVE StateInv'
  <2>1. PICK i \in Inst : TRUE
    BY FsmAssumption
  <2> QED BY <1>3, <2>1, RequestFits, SelectFits, WorkFits DEF WorkerStep
<1>4. CASE Restart \/ \E w \in Worker : Disconnect(w)
  BY <1>4, WorldFits DEF Restart, Disconnect
<1> QED BY <1>1, <1>2, <1>3, <1>4, WorldFits DEF Next

(* Every stored row, every copy of one that a worker holds and every row   *)
(* it has listed is in a state its definition has, and in a terminal one   *)
(* if it has completed: so whichever of them store_fsm_instance writes     *)
(* last fits.                                                              *)
THEOREM StatesFit ==
  ASSUME Settles
  PROVE  Spec => []StateInv
<1>1. TypeInv /\ StateInv /\ [Next]_vars => StateInv'
  BY StateStep
<1> QED BY <1>1, StateInit, TypesHold, PTL DEF Spec

(* An instance is in a state its definition has, and has completed only in *)
(* a terminal one, with any number of engines and handlers overwriting     *)
(* each other's rows, handlers dropped, restarts and failing writes: as    *)
(* long as the definition of running instances is not replaced or deleted. *)
THEOREM StatesAreDefined ==
  ASSUME Settles
  PROVE  Spec => []StateIsDefined
<1>1. StateInv => StateIsDefined
  BY DEF StateInv, StateIsDefined, Rows, Fits
<1> QED BY <1>1, StatesFit, PTL

(* A batched rollout skips no node and takes none twice, under the same    *)
(* interleavings, when the fleet does not change meanwhile, no instance is *)
(* started with targets (adaptive policies are) and all batches are of one *)
(* label (execute_deploy's batch_cursor counts the nodes of any label).    *)
THEOREM BatchesStayInOrder ==
  ASSUME Settles, Rollout
  PROVE  Spec => []BatchesArePrefix
<1>1. StateInv => BatchesArePrefix
  <2> SUFFICES ASSUME StateInv, OnlyBatches(defn), fleet = Fleet,
                      NEW r \in {inst[i] : i \in Rows} \cup {copy[w] : w \in Worker},
                      NEW a \in BatchActions(defn), r # NoInst
               PROVE  r.targets = Pick(a, 1 .. r.cursor)
    BY DEF BatchesArePrefix
  <2>1. Fits(defn, r)
    BY DEF StateInv, Steady, Rows
  <2> QED BY <2>1, PickIsUpto DEF Fits, Prefix
<1> QED BY <1>1, StatesFit, PTL
-----------------------------------------------------------------------------
(***************************************************************************)
(* A rollout that completes has earned it.  CompletionIsEarned speaks of   *)
(* stored rows in the states to earn; the invariant follows a row through  *)
(* every state on the way there, in the copies and lists that may be       *)
(* written later, and through an action: what it targeted is what it has   *)
(* deployed to and what is left to do.                                     *)
(***************************************************************************)
(* No request moves an instance without a condition or gives it targets.   *)
Unforced == Requests \cap {"advance", "adaptive"} = {}

(* A set of states that no failed deploy leads to.                         *)
IsGate(good) == good \subseteq State /\ \A d \in Definition : Gated(d, good)

Clean(r) == r.deployed = r.targets /\ r.failed = {}

(* A row between actions.                                                  *)
Gate(good, r) ==
  r.state \in good =>
    /\ r.state \notin Deploying => Clean(r)
    /\ r.last[2] = 0 /\ r.last[1] > 0 => Clean(r) /\ r.targets # {}
    /\ r.state \in Passed(good) => r.targets # {}

(* A row whose state was entered and has not yet acted.                    *)
Fresh(good, r) == Gate(good, r) /\ (r.state \in good => Clean(r))

Careful(good, w) ==
  /\ step[w] # "advance"
  /\ step[w] \in {"cancel", "write"} => Gate(good, copy[w])
  /\ step[w] = "act" => Fresh(good, copy[w])
  /\ step[w] = "deploy" /\ copy[w].state \in good =>
       /\ copy[w].state \in Deploying /\ copy[w].failed = {}
       /\ copy[w].targets = copy[w].deployed \cup left[w] \cup ok[w] \cup bad[w]
  /\ step[w] = "rollback" => copy[w].state \notin good
  /\ step[w] \notin {"deploy", "rollback"} => ok[w] = {} /\ bad[w] = {}
  /\ \A i \in DOMAIN todo[w] : Gate(good, todo[w][i])

GateInv(good) ==
  /\ \A i \in Inst : inst[i] # NoInst => Gate(good, inst[i])
  /\ \A w \in Worker : Careful(good, w)

LEMMA GateInit ==
  ASSUME NEW good
  PROVE  Init => GateInv(good)
BY DEF Init, GateInv, Careful

(* A row with the same state, nodes and result is as good.                 *)
LEMMA SameGate ==
  ASSUME NEW good, NEW r, Gate(good, r), NEW s, s.state = r.state, s.targets = r.targets,
         s.deployed = r.deployed, s.failed = r.failed, s.last = r.last
  PROVE  Gate(good, s)
BY DEF Gate, Clean

LEMMA NewIsFresh ==
  ASSUME NEW good, NEW d \in Definition, NEW rules
  PROVE  Fresh(good, NewInstance(d, rules, {}))
<1> DEFINE r == NewInstance(d, rules, {})
<1>1. /\ r.state = d.initial /\ r.targets = {} /\ r.deployed = {} /\ r.failed = {}
      /\ r.last = <<0, 0>>
  BY DEF NewInstance
<1>2. d.initial \notin Passed(good)
  BY DEF Passed, OnSuccess
<1>3. Clean(r) /\ ~(r.last[1] > 0)
  BY <1>1 DEF Clean
<1>4. r.state \notin Passed(good)
  BY <1>1, <1>2
<1> HIDE DEF r
<1>5. Fresh(good, r)
  BY <1>3, <1>4 DEF Fresh, Gate
<1> QED BY <1>5 DEF r

LEMMA StatusGate ==
  ASSUME NEW good, NEW r \in Instance, Gate(good, r), NEW s
  PROVE  /\ Gate(good, [r EXCEPT !.status = s])
         /\ Gate(good, [r EXCEPT !.status = s, !.history = Append(@, "cancelled")])
<1> DEFINE p == [r EXCEPT !.status = s]
           q == [r EXCEPT !.status = s, !.history = Append(@, "cancelled")]
<1>1. /\ p.state = r.state /\ p.targets = r.targets /\ p.deployed = r.deployed
      /\ p.failed = r.failed /\ p.last = r.last
      /\ q.state = r.state /\ q.targets = r.targets /\ q.deployed = r.deployed
      /\ q.failed = r.failed /\ q.last = r.last
  BY DEF Instance
<1> HIDE DEF p, q
<1>2. Gate(good, p) /\ Gate(good, q)
  BY <1>1, SameGate
<1> QED BY <1>2 DEF p, q

LEMMA ClosedGate ==
  ASSUME NEW good, NEW w, NEW r \in Instance, Gate(good, r)
  PROVE  Gate(good, Closed(w, r))
BY StatusGate DEF Closed

LEMMA RipeGate ==
  ASSUME NEW good, NEW r \in Instance, Gate(good, r)
  PROVE  Gate(good, Ripe(r))
BY SameGate DEF Ripe, Instance

(* evaluate_instance fires a transition: into a good state from a good one *)
(* whose deploy, if it had one, succeeded.                                 *)
LEMMA FiringGate ==
  ASSUME NEW good, IsGate(good), NEW d \in Definition, NEW r \in Instance,
         r.state \in DOMAIN d.transitions, Gate(good, r), NEW k \in Firing(r, d)
  PROVE  Fresh(good, Moved(r, d.transitions[r.state][k].to))
<1> DEFINE t == d.transitions[r.state][k]
           q == Moved(r, t.to)
<1>1. /\ q.state = t.to /\ q.targets = r.targets /\ q.deployed = r.deployed
      /\ q.failed = r.failed /\ q.last = r.last
  BY DEF Moved, Instance
<1>2. k \in DOMAIN d.transitions[r.state] /\ (Holds(r, t.when) \/ t.when = "counter")
  BY DefinitionParts DEF Firing
<1>3. t.when = "all_succeeded" => r.last[2] = 0 /\ r.last[1] > 0
  BY <1>2 DEF Holds
<1>4. t.to \in good => r.state \in good /\ (r.state \in Deploying => t.when = "all_succeeded")
  BY <1>2 DEF IsGate, Gated
<1>5. t.to \in Passed(good) => t.when = "all_succeeded"
  BY <1>2 DEF Passed, OnSuccess
<1> HIDE DEF q, t
<1>6. q.state \in good => Clean(q)
  BY <1>1, <1>3, <1>4 DEF Gate, Clean
<1>7. q.state \in good /\ q.last[2] = 0 /\ q.last[1] > 0 => q.targets # {}
  BY <1>1, <1>4 DEF Gate
<1>8. q.state \in good /\ q.state \in Passed(good) => q.targets # {}
  BY <1>1, <1>3, <1>5, <1>7
<1>9. Fresh(good, q)
  BY <1>6, <1>7, <1>8 DEF Fresh, Gate
<1> QED BY <1>9 DEF q, t

(* The result of an action on every node it took on.                       *)
LEMMA ResultGate ==
  ASSUME NEW good, NEW r \in Instance, NEW what, NEW g \in SUBSET Node, NEW b \in SUBSET Node,
         r.state \in good =>
           /\ what = "deploy" /\ r.state \in Deploying /\ r.failed = {}
           /\ r.targets = r.deployed \cup g \cup b
  PROVE  Gate(good, WithResult(r, what, g, b))
<1> DEFINE q == WithResult(r, what, g, b)
<1> SUFFICES ASSUME q.state \in good PROVE Gate(good, q)
  BY DEF Gate
<1>1. /\ q.state = r.state /\ q.targets = r.targets
      /\ q.last = <<Cardinality(g), Cardinality(b)>>
      /\ what = "deploy" => q.deployed = r.deployed \cup g /\ q.failed = r.failed \cup b
  BY DEF WithResult, Instance
<1>2. /\ what = "deploy" /\ r.state \in Deploying /\ r.failed = {}
      /\ r.targets = r.deployed \cup g \cup b
  BY <1>1
<1>3. Cardinality(b) = 0 => b = {}
  BY SomeNodes, FS_EmptySet
<1>4. Cardinality(g) > 0 => g # {}
  BY FS_EmptySet
<1>5. q.state \notin Passed(good)
  BY <1>1, <1>2 DEF Passed
<1> HIDE DEF q
<1> QED BY <1>1, <1>2, <1>3, <1>4, <1>5 DEF Gate, Clean

(* One worker moved, the rows did not.                                     *)
LEMMA GateFrame ==
  ASSUME TypeInv, NEW good, GateInv(good), NEW w \in Worker, Only(w), inst' = inst,
         \A v \in Worker \ {w} : left'[v] = left[v] /\ ok'[v] = ok[v] /\ bad'[v] = bad[v],
         Careful(good, w)'
  PROVE  GateInv(good)'
<1>1. /\ step \in [Worker -> {"idle", "pass", "advance", "cancel", "act", "deploy", "rollback", "write"}]
      /\ copy \in [Worker -> Row] /\ DOMAIN todo = Worker
  BY DEF TypeInv, TypeOK
<1>2. \A v \in Worker \ {w} :
        step'[v] = step[v] /\ copy'[v] = copy[v] /\ todo'[v] = todo[v]
  BY <1>1 DEF Only
<1>3. \A v \in Worker \ {w} : Careful(good, v)'
  BY <1>2 DEF GateInv, Careful
<1> QED BY <1>3 DEF GateInv

LEMMA RequestGates ==
  ASSUME TypeInv, NEW good, GateInv(good), Unforced, NEW w \in Worker, NEW i \in Inst,
         \/ StartInstance(w, i)
         \/ \E q \in {"advance", "cancel"} : ReadRunning(w, i, q)
         \/ AdvanceInstance(w) \/ CancelInstance(w)
  PROVE  GateInv(good)'
<1>0. RowTypes /\ WorkerTypes /\ TypeOK /\ Careful(good, w)
  BY TypeParts DEF TypeInv, GateInv
<1>1. inst' = inst /\ todo' = todo /\ left' = left /\ ok' = ok /\ bad' = bad
  BY DEF StartInstance, ReadRunning, AdvanceInstance, CancelInstance, rowVars, actionVars
<1>2. CASE StartInstance(w, i)
  <2>1. defn \in Definition /\ Enter(w, NewInstance(defn, TRUE, {}), defn) /\ step[w] = "idle"
    BY <1>0, <1>2 DEF StartInstance, Unforced, RowTypes
  <2> DEFINE c == NewInstance(defn, TRUE, {})
  <2>2. Fresh(good, c)
    BY <2>1, NewIsFresh
  <2> HIDE DEF c
  <2>3. Only(w) /\ step'[w] = "act" /\ copy'[w] = c
    BY <1>0, <1>1, <2>1 DEF Enter, Goto, WorkerTypes, Only, c
  <2> QED BY <1>0, <1>1, <2>1, <2>2, <2>3, GateFrame DEF Careful
<1>3. ASSUME ReadRunning(w, i, "cancel") PROVE GateInv(good)'
  <2>1. Only(w) /\ step[w] = "idle" /\ step'[w] = "cancel" /\ copy'[w] = inst[i]
    BY <1>0, <1>1, <1>3 DEF ReadRunning, Goto, WorkerTypes, Only
  <2>2. Gate(good, inst[i])
    BY <1>3 DEF ReadRunning, GateInv
  <2> QED BY <1>0, <1>1, <2>1, <2>2, GateFrame DEF Careful
<1>4. ~ReadRunning(w, i, "advance") /\ ~AdvanceInstance(w)
  BY <1>0 DEF ReadRunning, AdvanceInstance, Unforced, Careful
<1>5. CASE CancelInstance(w)
  <2> DEFINE c == [copy[w] EXCEPT !.status = "Cancelled", !.history = Append(@, "cancelled")]
  <2>1. copy[w] \in Instance /\ Gate(good, copy[w]) /\ step[w] = "cancel"
    BY <1>0, <1>5 DEF CancelInstance, WorkerTypes, Holding, Busy, Careful
  <2>2. Gate(good, c)
    BY <2>1, StatusGate
  <2> HIDE DEF c
  <2>3. Only(w) /\ step'[w] = "write" /\ copy'[w] = c
    BY <1>0, <1>1, <1>5 DEF CancelInstance, Ready, Goto, WorkerTypes, Only, c
  <2> QED BY <1>0, <1>1, <2>1, <2>2, <2>3, GateFrame DEF Careful
<1> QED BY <1>2, <1>3, <1>4, <1>5

LEMMA LoopGates ==
  ASSUME TypeInv, NEW good, IsGate(good), GateInv(good), NEW w \in Worker, NEW i \in Inst,
         ListRunning(w) \/ EndPass(w) \/ Evaluate(w, i)
  PROVE  GateInv(good)'
<1>0. RowTypes /\ WorkerTypes /\ TypeOK /\ Careful(good, w) /\ Holding(w)
  BY TypeParts DEF TypeInv, GateInv
<1>1. inst' = inst /\ left' = left /\ ok' = ok /\ bad' = bad
  BY DEF ListRunning, EndPass, Evaluate, rowVars, actionVars
<1>3. CASE ListRunning(w)
  <2> DEFINE T == [j \in Running |-> inst[j]]
  <2>1. /\ DOMAIN T \subseteq Inst /\ \A j \in DOMAIN T : T[j] \in Instance
        /\ \A j \in DOMAIN T : Gate(good, T[j])
    BY <1>0, RowIsInstance DEF Running, GateInv
  <2>2. Only(w) /\ step[w] = "idle" /\ step'[w] = "pass" /\ todo'[w] = T
    BY <1>0, <1>3, <2>1 DEF ListRunning, Goto, WorkerTypes, Only
  <2> QED BY <1>0, <1>1, <2>1, <2>2, GateFrame DEF Careful
<1>4. CASE EndPass(w)
  <2>1. Only(w) /\ step[w] = "pass" /\ step'[w] = "idle" /\ todo' = todo
    BY <1>0, <1>4 DEF EndPass, Goto, WorkerTypes, Only
  <2> QED BY <1>0, <1>1, <2>1, GateFrame DEF Careful
<1>5. CASE Evaluate(w, i)
  <2> DEFINE r == todo[w][i]
             T == [j \in DOMAIN todo[w] \ {i} |-> todo[w][j]]
  <2>1. /\ todo' = [todo EXCEPT ![w] = T] /\ r \in Instance /\ step[w] = "pass"
        /\ DOMAIN T \subseteq Inst /\ \A j \in DOMAIN T : T[j] \in Instance
        /\ Gate(good, r)
    BY <1>0, <1>5 DEF Evaluate, WorkerTypes, Holding, Careful
  <2>2. /\ todo'[w] = T
        /\ \A j \in DOMAIN T : Gate(good, T[j])
    BY <1>0, <2>1 DEF WorkerTypes, Careful
  <2>3. ASSUME NEW c, Gate(good, c), Ready(w, c), UNCHANGED plan
        PROVE  GateInv(good)'
    <3>1. Only(w) /\ step'[w] = "write" /\ copy'[w] = c
      BY <1>0, <2>1, <2>3 DEF Ready, Goto, WorkerTypes, Only
    <3> QED BY <1>0, <1>1, <2>1, <2>2, <2>3, <3>1, GateFrame DEF Careful
  <2>4. ASSUME NEW c, Fresh(good, c), Enter(w, c, defn)
        PROVE  GateInv(good)'
    <3>1. Only(w) /\ step'[w] = "act" /\ copy'[w] = c
      BY <1>0, <2>1, <2>4 DEF Enter, Goto, WorkerTypes, Only
    <3> QED BY <1>0, <1>1, <2>1, <2>2, <2>4, <3>1, GateFrame DEF Careful
  <2>5. CASE UNCHANGED <<step, copy, plan>>
    <3>1. Only(w) /\ step' = step /\ copy' = copy
      BY <1>0, <2>1, <2>5 DEF WorkerTypes, Only
    <3> QED BY <1>0, <1>1, <2>1, <2>2, <3>1, GateFrame DEF Careful
  <2>6. \A s : Gate(good, [r EXCEPT !.status = s])
    BY <2>1, StatusGate
  <2>7. ASSUME defn # NoDefinition, r.state \in DOMAIN defn.transitions, NEW k \in Firing(r, defn)
        PROVE  Fresh(good, Moved(r, defn.transitions[r.state][k].to))
    <3>1. defn \in Definition
      BY <1>0, <2>7 DEF RowTypes
    <3> HIDE DEF r
    <3> QED BY <2>1, <2>7, <3>1, FiringGate
  <2>8. \/ UNCHANGED <<step, copy, plan>>
        \/ \E c : Gate(good, c) /\ Ready(w, c) /\ UNCHANGED plan
        \/ \E c : Fresh(good, c) /\ Enter(w, c, defn)
    <3>1. \/ UNCHANGED <<step, copy, plan>>
          \/ \E s : Ready(w, [r EXCEPT !.status = s]) /\ UNCHANGED plan
          \/ /\ defn # NoDefinition /\ r.state \in DOMAIN defn.transitions
             /\ \E k \in Firing(r, defn) : Enter(w, Moved(r, defn.transitions[r.state][k].to), defn)
          \/ Ready(w, r) /\ UNCHANGED plan
      BY <1>5 DEF Evaluate
    <3> HIDE DEF r
    <3> QED BY <2>1, <2>6, <2>7, <3>1
  <2> QED BY <2>3, <2>4, <2>5, <2>8
<1> QED BY <1>3, <1>4, <1>5

(* The nodes an action takes on become targets and are left to do; one     *)
(* that takes on none leaves the counts of what it has done so far.        *)
LEMMA SelectGates ==
  ASSUME TypeInv, NEW good, IsGate(good), GateInv(good), NEW w \in Worker, SelectNodes(w)
  PROVE  GateInv(good)'
<1>0. RowTypes /\ WorkerTypes /\ TypeOK /\ Careful(good, w)
  BY TypeParts DEF TypeInv, GateInv
<1> DEFINE r == copy[w]
           a == ActionOf(w)
           n == Total(a)
           chosen == IF a.do = "batch" THEN Batch(w, n) ELSE 1 .. n
           picked == Pick(a, chosen)
           done == IF a.do = "batch" /\ Matching(a) # {}
                   THEN <<Cardinality(r.deployed), Cardinality(r.failed)>> ELSE <<0, 0>>
<1>1. /\ step[w] = "act" /\ r \in Instance /\ plan[w] \in Definition
      /\ Fresh(good, r) /\ ok[w] = {} /\ bad[w] = {} /\ a.do \in {"deploy", "batch"}
  BY <1>0, ActionParts DEF SelectNodes, Careful
<1>2. inst' = inst /\ todo' = todo /\ plan' = plan /\ ok' = ok /\ bad' = bad
  BY DEF SelectNodes, rowVars
<1>3. r.state \in Deploying
  <2>1. r.state \in DOMAIN plan[w].action /\ plan[w].action[r.state].do \in {"deploy", "batch"}
    BY <1>1 DEF ActionOf
  <2>2. r.state \in State
    BY <1>1, RowParts
  <2> QED BY <1>1, <2>1, <2>2 DEF Deploying
<1>4. CASE Ready(w, Closed(w, [r EXCEPT !.last = done])) /\ UNCHANGED left
  <2> DEFINE q == [r EXCEPT !.last = done]
             c == Closed(w, q)
  <2>1. /\ q.state = r.state /\ q.targets = r.targets /\ q.deployed = r.deployed
        /\ q.failed = r.failed /\ q.last = done
    BY <1>1 DEF Instance
  <2>2. done[1] > 0 => r.deployed # {}
    <3>1. Cardinality({}) = 0
      BY FS_EmptySet
    <3>2. done[1] \in {Cardinality(r.deployed), 0}
      <4> HIDE DEF r, chosen
      <4>1. CASE a.do = "batch" /\ Matching(a) # {}
        BY <4>1
      <4>2. CASE ~(a.do = "batch" /\ Matching(a) # {})
        BY <4>2
      <4> QED BY <4>1, <4>2
    <3> HIDE DEF done, r
    <3> QED BY <3>1, <3>2
  <2>3. q \in Instance
    <3>1. 0 \in Count
      BY SomeNodes, FS_EmptySet
    <3>2. done \in Count \X Count
      BY <1>1, <3>1, SomeNodes, RowParts
    <3> HIDE DEF done
    <3> QED BY <1>1, <3>2 DEF Instance
  <2> HIDE DEF q, done
  <2>4. Gate(good, q)
    <3>1. q.state \notin Passed(good)
      BY <1>3, <2>1 DEF Passed
    <3>2. q.state \in good => Clean(q) /\ (done[1] > 0 => q.targets # {})
      BY <1>1, <2>1, <2>2 DEF Fresh, Clean
    <3> QED BY <1>3, <2>1, <3>1, <3>2 DEF Gate
  <2>5. Gate(good, c)
    BY <2>3, <2>4, ClosedGate
  <2> HIDE DEF c
  <2>6. Only(w) /\ step'[w] = "write" /\ copy'[w] = c
    BY <1>0, <1>2, <1>4 DEF Ready, Goto, WorkerTypes, Only, c, q
  <2> QED BY <1>0, <1>1, <1>2, <1>4, <2>5, <2>6, GateFrame DEF Careful
<1>5. CASE /\ copy' = [copy EXCEPT ![w].targets = @ \cup picked,
                                   ![w].cursor = IF a.do = "batch" THEN @ + Cardinality(chosen) ELSE @]
           /\ left' = [left EXCEPT ![w] = picked]
           /\ Goto(w, "deploy")
  <2> DEFINE c == [r EXCEPT !.targets = @ \cup picked,
                            !.cursor = IF a.do = "batch" THEN @ + Cardinality(chosen) ELSE @]
  <2> HIDE DEF picked, chosen
  <2>1. copy' = [copy EXCEPT ![w] = c]
    BY <1>0, <1>5 DEF WorkerTypes
  <2>2. /\ c.state = r.state /\ c.targets = r.targets \cup picked /\ c.deployed = r.deployed
        /\ c.failed = r.failed
    BY <1>1 DEF Instance
  <2> HIDE DEF c
  <2>3. left'[w] = picked /\ \A v \in Worker \ {w} : left'[v] = left[v]
    BY <1>0, <1>5 DEF TypeOK
  <2>4. Only(w) /\ step'[w] = "deploy" /\ copy'[w] = c
    BY <1>0, <1>2, <1>5, <2>1 DEF Goto, WorkerTypes, Only
  <2>5. c.state \in good =>
          /\ c.state \in Deploying /\ c.failed = {}
          /\ c.targets = c.deployed \cup left'[w] \cup ok'[w] \cup bad'[w]
    BY <1>1, <1>2, <1>3, <2>2, <2>3 DEF Fresh, Clean
  <2>6. Careful(good, w)'
    BY <1>0, <1>2, <2>4, <2>5 DEF Careful
  <2> QED BY <1>2, <2>3, <2>4, <2>6, GateFrame
<1> QED BY <1>4, <1>5 DEF SelectNodes

(* The steps of an action after its nodes were selected, and the write.    *)
LEMMA WorkGates ==
  ASSUME TypeInv, NEW good, IsGate(good), GateInv(good), NEW w \in Worker,
         \/ ActNothing(w) \/ SelectFails(w) \/ SelectRollback(w)
         \/ \E n \in Node : DoNode(w, n)
         \/ EndAction(w) \/ WriteInstance(w) \/ WriteFails(w)
  PROVE  GateInv(good)'
<1>0. RowTypes /\ WorkerTypes /\ TypeOK /\ Careful(good, w)
  BY TypeParts DEF TypeInv, GateInv
<1>1. todo' = todo
  BY DEF ActNothing, SelectFails, SelectRollback, DoNode, EndAction, WriteInstance, WriteFails
<1>2. CASE ActNothing(w) \/ SelectFails(w)
  <2> DEFINE c == Closed(w, copy[w])
  <2>1. step[w] = "act" /\ copy[w] \in Instance /\ Gate(good, copy[w])
    BY <1>0, <1>2, ActionParts DEF ActNothing, SelectFails, Careful, Fresh
  <2>2. Gate(good, c)
    BY <2>1, ClosedGate
  <2> HIDE DEF c
  <2>3. Only(w) /\ step'[w] = "write" /\ copy'[w] = c
    BY <1>0, <1>1, <1>2 DEF ActNothing, SelectFails, Ready, Goto, WorkerTypes, Only, c
  <2>4. inst' = inst /\ left' = left /\ ok' = ok /\ bad' = bad
    BY <1>2 DEF ActNothing, SelectFails, rowVars, actionVars
  <2> QED BY <1>0, <1>1, <2>1, <2>2, <2>3, <2>4, GateFrame DEF Careful
<1>3. CASE SelectRollback(w)
  <2>1. step[w] = "act" /\ copy[w] \in Instance /\ plan[w] \in Definition
    BY <1>3, ActionParts DEF SelectRollback
  <2>2. copy[w].state \notin good
    <3>1. copy[w].state \in DOMAIN plan[w].action /\ plan[w].action[copy[w].state].do = "rollback"
      BY <1>3 DEF SelectRollback, ActionOf
    <3> QED BY <2>1, <3>1 DEF IsGate, Gated
  <2>3. Only(w) /\ step'[w] = "rollback" /\ copy' = copy
    BY <1>0, <1>1, <1>3 DEF SelectRollback, Goto, WorkerTypes, Only
  <2>4. /\ inst' = inst /\ ok' = ok /\ bad' = bad
        /\ \A v \in Worker \ {w} : left'[v] = left[v]
    BY <1>0, <1>3 DEF SelectRollback, rowVars, TypeOK
  <2> QED BY <1>0, <1>1, <2>2, <2>3, <2>4, GateFrame DEF Careful
<1>4. ASSUME NEW n \in Node, DoNode(w, n) PROVE GateInv(good)'
  <2>1. /\ step[w] \in {"deploy", "rollback"} /\ n \in left[w]
        /\ left' = [left EXCEPT ![w] = @ \ {n}]
        /\ \/ ok' = [ok EXCEPT ![w] = @ \cup {n}] /\ bad' = bad
           \/ bad' = [bad EXCEPT ![w] = @ \cup {n}] /\ ok' = ok
        /\ inst' = inst /\ step' = step /\ copy' = copy /\ plan' = plan
    BY <1>4 DEF DoNode, rowVars
  <2>2. /\ left'[w] = left[w] \ {n}
        /\ \/ ok'[w] = ok[w] \cup {n} /\ bad'[w] = bad[w]
           \/ bad'[w] = bad[w] \cup {n} /\ ok'[w] = ok[w]
        /\ \A v \in Worker \ {w} : left'[v] = left[v] /\ ok'[v] = ok[v] /\ bad'[v] = bad[v]
    BY <1>0, <2>1 DEF TypeOK
  <2>3. left'[w] \cup ok'[w] \cup bad'[w] = left[w] \cup ok[w] \cup bad[w]
    BY <2>1, <2>2
  <2>4. Only(w)
    BY <1>0, <1>1, <2>1 DEF WorkerTypes, Only
  <2>5. Careful(good, w)'
    <3>1. /\ step'[w] = step[w] /\ copy'[w] = copy[w] /\ todo'[w] = todo[w]
          /\ step[w] \in {"deploy", "rollback"}
      BY <1>1, <2>1
    <3>2. step[w] = "deploy" /\ copy[w].state \in good =>
            copy[w].targets = copy[w].deployed \cup left'[w] \cup ok'[w] \cup bad'[w]
      BY <1>0, <2>3 DEF Careful
    <3> QED BY <1>0, <3>1, <3>2 DEF Careful
  <2> QED BY <2>1, <2>2, <2>4, <2>5, GateFrame
<1>5. CASE EndAction(w)
  <2> DEFINE q == WithResult(copy[w], step[w], ok[w], bad[w])
             c == Closed(w, q)
  <2>1. /\ copy[w] \in Instance /\ ok[w] \in SUBSET Node /\ bad[w] \in SUBSET Node
        /\ step[w] \in {"deploy", "rollback"} /\ left[w] = {}
    BY <1>0, <1>5, ActionParts DEF EndAction, TypeOK
  <2>2. copy[w].state \in good =>
          /\ step[w] = "deploy" /\ copy[w].state \in Deploying /\ copy[w].failed = {}
          /\ copy[w].targets = copy[w].deployed \cup ok[w] \cup bad[w]
    BY <1>0, <2>1 DEF Careful
  <2>3. q \in Instance /\ Gate(good, q)
    BY <2>1, <2>2, ResultIsInstance, ResultGate
  <2> HIDE DEF q
  <2>4. Gate(good, c)
    BY <2>3, ClosedGate
  <2> HIDE DEF c
  <2>5. Only(w) /\ step'[w] = "write" /\ copy'[w] = c
    BY <1>0, <1>1, <1>5 DEF EndAction, Ready, Goto, WorkerTypes, Only, c, q
  <2>6. /\ ok'[w] = {} /\ bad'[w] = {} /\ inst' = inst /\ left' = left
        /\ \A v \in Worker \ {w} : ok'[v] = ok[v] /\ bad'[v] = bad[v]
    BY <1>0, <1>5 DEF EndAction, rowVars, TypeOK
  <2> QED BY <1>0, <1>1, <2>4, <2>5, <2>6, GateFrame DEF Careful
<1>6. CASE WriteInstance(w) \/ WriteFails(w)
  <2>1. /\ Only(w) /\ step[w] = "write" /\ step'[w] \in {"idle", "pass"} /\ copy'[w] = NoInst
        /\ left' = left /\ ok' = ok /\ bad' = bad
        /\ inst' = [inst EXCEPT ![id[w]] = copy[w]] \/ inst' = inst
    BY <1>0, <1>1, <1>6 DEF WriteInstance, WriteFails, rowVars, Forget, Goto, Rest, WorkerTypes, Only, actionVars
  <2>2. \A i \in Inst : inst'[i] # NoInst => Gate(good, inst'[i])
    BY <1>0, <2>1 DEF GateInv, Careful, RowTypes
  <2>3. \A v \in Worker \ {w} : step'[v] = step[v] /\ copy'[v] = copy[v]
    BY <1>0, <2>1 DEF Only, WorkerTypes
  <2>4. \A v \in Worker \ {w} : Careful(good, v)'
    BY <1>1, <2>1, <2>3 DEF GateInv, Careful
  <2>5. Careful(good, w)'
    BY <1>0, <1>1, <2>1 DEF Careful
  <2> QED BY <2>2, <2>4, <2>5 DEF GateInv
<1> QED BY <1>2, <1>3, <1>4, <1>5, <1>6

LEMMA WorldGates ==
  ASSUME TypeInv, NEW good, GateInv(good),
         \/ \E d \in Definition : CreateDefinition(d)
         \/ DeleteDefinition
         \/ \E W : Stopped(W)
         \/ \E n \in Node : NodeJoins(n) \/ NodeLeaves(n)
         \/ \E i \in Inst, c \in Call : LateAct(i, c)
         \/ TimePasses
         \/ UNCHANGED vars
  PROVE  GateInv(good)'
<1>0. RowTypes /\ WorkerTypes /\ TypeOK
  BY TypeParts DEF TypeInv
<1>1. ASSUME UNCHANGED <<inst, workVars>> PROVE GateInv(good)'
  BY <1>1 DEF workVars, actionVars, GateInv, Careful
<1>2. ASSUME NEW W, Stopped(W) PROVE GateInv(good)'
  <2>1. \A w \in Worker : Careful(good, w)'
    BY <1>0, <1>2 DEF Stopped, GateInv, Careful
  <2> QED BY <1>2, <2>1 DEF Stopped, rowVars, GateInv
<1>3. CASE TimePasses
  <2>1. step' = step /\ left' = left /\ ok' = ok /\ bad' = bad
    BY <1>3 DEF TimePasses, actionVars
  <2>2. Ripe(NoInst) = NoInst
    BY DEF Ripe
  <2>3. ASSUME NEW r \in Row, r # NoInst
        PROVE  /\ Gate(good, r) => Gate(good, Ripe(r))
               /\ Fresh(good, r) => Fresh(good, Ripe(r))
               /\ Ripe(r).state = r.state /\ Ripe(r).targets = r.targets
               /\ Ripe(r).deployed = r.deployed /\ Ripe(r).failed = r.failed
    <3>1. r \in Instance
      BY <2>3 DEF Row
    <3>2. /\ Ripe(r).state = r.state /\ Ripe(r).targets = r.targets
          /\ Ripe(r).deployed = r.deployed /\ Ripe(r).failed = r.failed
      BY <2>3, <3>1 DEF Ripe, Instance
    <3>3. Gate(good, r) => Gate(good, Ripe(r))
      BY <3>1, RipeGate
    <3> QED BY <3>2, <3>3 DEF Fresh, Clean
  <2>4. \A i \in Inst : inst'[i] # NoInst => Gate(good, inst'[i])
    <3>1. \A i \in Inst : inst'[i] = Ripe(inst[i])
      BY <1>3 DEF TimePasses
    <3> QED BY <1>0, <2>2, <2>3, <3>1 DEF GateInv, RowTypes
  <2>5. ASSUME NEW w \in Worker PROVE Careful(good, w)'
    <3>1. copy'[w] = Ripe(copy[w]) /\ copy[w] \in Row
      BY <1>0, <1>3 DEF TimePasses, WorkerTypes
    <3>2. step[w] \in {"cancel", "write", "act", "deploy", "rollback"} => copy[w] # NoInst
      BY FsmAssumption, NoInstAssumption DEF TypeInv, Holding, Busy
    <3>3. Careful(good, w)
      BY DEF GateInv
    <3>4. /\ DOMAIN todo'[w] = DOMAIN todo[w]
          /\ \A i \in DOMAIN todo[w] : todo'[w][i] = Ripe(todo[w][i]) /\ todo[w][i] \in Instance
      BY <1>0, <1>3 DEF TimePasses, WorkerTypes, TypeInv, Holding
    <3>5. \A i \in DOMAIN todo'[w] : Gate(good, todo'[w][i])
      BY <3>3, <3>4, RipeGate DEF Careful
    <3> QED BY <2>1, <2>3, <3>1, <3>2, <3>3, <3>5 DEF Careful
  <2> QED BY <2>4, <2>5 DEF GateInv
<1> QED BY <1>1, <1>2, <1>3 DEF CreateDefinition, DeleteDefinition, NodeJoins, NodeLeaves, LateAct, vars, rowVars

LEMMA GateStep ==
  ASSUME TypeInv, Unforced, NEW good, IsGate(good), GateInv(good), [Next]_vars
  PROVE  GateInv(good)'
<1>1. ASSUME NEW w \in Client, NEW i \in Inst,
             StartInstance(w, i) \/ ReadRunning(w, i, "advance") \/ ReadRunning(w, i, "cancel")
      PROVE  GateInv(good)'
  BY <1>1, RequestGates DEF Worker
<1>2. ASSUME NEW w \in Engine, EngineStep(w) PROVE GateInv(good)'
  <2>1. PICK i \in Inst : ListRunning(w) \/ EndPass(w) \/ Evaluate(w, i)
    BY <1>2, FsmAssumption DEF EngineStep
  <2> QED BY <2>1, LoopGates DEF Worker
<1>3. ASSUME NEW w \in Worker, WorkerStep(w) \/ SelectFails(w) \/ WriteFails(w) PROVE GateInv(good)'
  <2>1. PICK i \in Inst : TRUE
    BY FsmAssumption
  <2> QED BY <1>3, <2>1, RequestGates, SelectGates, WorkGates DEF WorkerStep
<1>4. CASE Restart \/ \E w \in Worker : Disconnect(w)
  BY <1>4, WorldGates DEF Restart, Disconnect
<1> QED BY <1>1, <1>2, <1>3, <1>4, WorldGates DEF Next

(* A rollout completes by itself only when it was earned: whatever states  *)
(* its definitions let it reach through all_succeeded alone, an instance   *)
(* that is in one of them targeted at least one node, deployed to all it   *)
(* targeted and failed on none (evaluate_condition after execute_deploy),  *)
(* with any number of engines and handlers overwriting each other's rows,  *)
(* definitions replaced and deleted under it, nodes joining and leaving,   *)
(* handlers dropped, restarts and failing storage.  An operator's advance  *)
(* and an adaptive instance, which targets nodes before it deploys, are    *)
(* left out: either reaches a completion that was not earned.              *)
THEOREM CompletionsAreEarned ==
  ASSUME Unforced
  PROVE  Spec => []CompletionIsEarned
<1> DEFINE Safe == \A good \in SUBSET State : IsGate(good) => GateInv(good)
<1>1. Init => Safe
  BY GateInit
<1>2. TypeInv /\ Safe /\ [Next]_vars => Safe'
  <2> SUFFICES ASSUME TypeInv, Safe, [Next]_vars, NEW good \in SUBSET State, IsGate(good)
               PROVE  GateInv(good)'
    BY DEF IsGate, Gated, Deploying
  <2> QED BY GateStep
<1>3. Safe => CompletionIsEarned
  <2> SUFFICES ASSUME Safe, NEW i \in Rows, inst[i].state \in Earned
               PROVE  /\ inst[i].targets # {}
                      /\ inst[i].deployed = inst[i].targets
                      /\ inst[i].failed = {}
    BY DEF CompletionIsEarned
  <2>1. PICK good \in SUBSET State : IsGate(good) /\ inst[i].state \in Passed(good)
    BY DEF Earned, IsGate
  <2>2. Gate(good, inst[i])
    BY <2>1 DEF GateInv, Rows
  <2>3. inst[i].state \in good /\ inst[i].state \notin Deploying
    BY <2>1 DEF Passed
  <2> QED BY <2>1, <2>2, <2>3 DEF Gate, Clean
<1> QED BY <1>1, <1>2, <1>3, TypesHold, PTL DEF Spec
=============================================================================
