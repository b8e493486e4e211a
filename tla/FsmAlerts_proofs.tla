-------------------------- MODULE FsmAlerts_proofs --------------------------
(***************************************************************************)
(* Proofs about the FSM engine with its webhook deliveries, for any nodes, *)
(* definitions, instances, clients, deliveries, retries and restarts.      *)
(***************************************************************************)
EXTENDS FsmAlerts, FsmEngine_proofs
-----------------------------------------------------------------------------
(***************************************************************************)
(* Ownership.  Nothing in the code locks an instance.  With one engine and *)
(* no advance and cancel requests, the order of the steps does: a client   *)
(* that starts an instance is alone with it until the row is stored, the   *)
(* engine with every row it has listed until its pass is over.  So what    *)
(* the engine listed or copied is still what the row says.                 *)
(***************************************************************************)
Alone == Requests \cap {"advance", "cancel"} = {} /\ \A e, f \in Engine : e = f

Working == {"act", "deploy", "rollback", "write"}

Extends(h, g) == Len(h) >= Len(g) /\ SubSeq(h, 1, Len(g)) = g

(* The row of instance i is the one listed, but for the time passed.       *)
Listed(w, i) ==
  /\ inst[i] # NoInst /\ inst[i].status = "Running"
  /\ todo[w][i].history = inst[i].history
  /\ todo[w][i].deployed = inst[i].deployed /\ todo[w][i].failed = inst[i].failed

Owned(w) ==
  IF w \in Client THEN inst[id[w]] = NoInst
  ELSE /\ id[w] \notin DOMAIN todo[w]
       /\ inst[id[w]] # NoInst /\ inst[id[w]].status = "Running"
       /\ Extends(copy[w].history, inst[id[w]].history)

Owns(w) ==
  /\ step[w] \notin {"advance", "cancel"}
  /\ w \in Client => step[w] # "pass" /\ DOMAIN todo[w] = {}
  /\ \A i \in DOMAIN todo[w] : Listed(w, i)
  /\ step[w] \in Working => Owned(w)

Apart(v, w) == step[v] \in Working /\ step[w] \in Working => id[v] # id[w]

OwnInv == /\ \A w \in Worker : Owns(w)
          /\ \A v, w \in Client : v # w => Apart(v, w)

LEMMA OwnInit == Init => OwnInv
BY DEF Init, OwnInv, Owns, Apart, Working, Worker

LEMMA ExtendsParts ==
  ASSUME NEW S, NEW g \in Seq(S)
  PROVE  Extends(g, g) /\ \A s \in S : Extends(Append(g, s), g)
<1>1. SubSeq(g, 1, Len(g)) = g
  OBVIOUS
<1>2. ASSUME NEW s \in S PROVE Extends(Append(g, s), g)
  <2>1. /\ Len(Append(g, s)) = Len(g) + 1 /\ Append(g, s) \in Seq(S) /\ Len(g) \in Nat
        /\ \A k \in 1 .. Len(g) : Append(g, s)[k] = g[k]
    OBVIOUS
  <2>2. SubSeq(Append(g, s), 1, Len(g)) = g
    BY <2>1
  <2> QED BY <2>1, <2>2 DEF Extends
<1> QED BY <1>1, <1>2 DEF Extends

(* Instances are clients' or engines'.                                     *)
LEMMA Sides ==
  ASSUME NEW w \in Worker
  PROVE  (w \in Client /\ w \notin Engine) \/ (w \in Engine /\ w \notin Client)
BY FsmAssumption DEF Worker

(* Two workers never work on the same instance.                            *)
LEMMA NeverShared ==
  ASSUME OwnInv, Alone, NEW v \in Worker, NEW w \in Worker, v # w,
         step[v] \in Working, step[w] \in Working
  PROVE  id[v] # id[w]
BY Sides DEF OwnInv, Owns, Owned, Apart, Alone

(* One worker moved, and no row changed.                                   *)
LEMMA OwnFrame ==
  ASSUME TypeInv, OwnInv, NEW w \in Worker, Only(w), inst' = inst,
         id' = [id EXCEPT ![w] = id'[w]], Owns(w)',
         (w \in Client /\ step'[w] \in Working) =>
           \A v \in Client \ {w} : step[v] \in Working => id[v] # id'[w]
  PROVE  OwnInv'
<1>1. /\ step \in [Worker -> {"idle", "pass", "advance", "cancel", "act", "deploy", "rollback", "write"}]
      /\ copy \in [Worker -> Row] /\ id \in [Worker -> Inst] /\ DOMAIN todo = Worker
  BY DEF TypeInv, TypeOK
<1>2. \A v \in Worker \ {w} : /\ step'[v] = step[v] /\ copy'[v] = copy[v] /\ id'[v] = id[v]
                              /\ todo'[v] = todo[v]
  BY <1>1 DEF Only
<1>3. \A v \in Worker \ {w} : Owns(v)'
  BY <1>2 DEF OwnInv, Owns, Owned, Listed
<1>4. \A v \in Client \ {w} : w \in Client => Apart(v, w)' /\ Apart(w, v)'
  BY <1>2 DEF Apart, Worker
<1>5. \A u, v \in Client \ {w} : u # v => Apart(u, v)'
  BY <1>2 DEF OwnInv, Apart, Worker
<1> QED BY <1>3, <1>4, <1>5 DEF OwnInv

(* The step is not one of a request that is excluded.                      *)
LEMMA NoRequests ==
  ASSUME OwnInv, Alone, NEW w \in Worker, NEW i \in Inst
  PROVE  /\ ~ReadRunning(w, i, "advance") /\ ~ReadRunning(w, i, "cancel")
         /\ ~AdvanceInstance(w) /\ ~CancelInstance(w)
BY DEF ReadRunning, AdvanceInstance, CancelInstance, OwnInv, Owns, Alone

LEMMA StartOwns ==
  ASSUME TypeInv, OwnInv, NEW w \in Client, NEW i \in Inst, StartInstance(w, i)
  PROVE  OwnInv'
<1>0. RowTypes /\ WorkerTypes /\ ActionTypes /\ w \in Worker
  BY TypeParts DEF Worker
<1>1. /\ step' = [step EXCEPT ![w] = "act"] /\ id' = [id EXCEPT ![w] = i]
      /\ inst' = inst /\ todo' = todo
      /\ \E c, p : copy' = [copy EXCEPT ![w] = c] /\ plan' = [plan EXCEPT ![w] = p]
  BY DEF StartInstance, Enter, Goto, rowVars
<1>2. inst[i] = NoInst /\ \A v \in Worker : step[v] # "idle" => id[v] # i
  BY DEF StartInstance
<1>3. Only(w) /\ step'[w] = "act" /\ id'[w] = i
  BY <1>0, <1>1 DEF WorkerTypes, ActionTypes, Only
<1>4. Owns(w)'
  BY <1>0, <1>1, <1>2, <1>3 DEF OwnInv, Owns, Owned, Working, Listed
<1>5. \A v \in Client \ {w} : step[v] \in Working => id[v] # id'[w]
  BY <1>2, <1>3 DEF Working, Worker
<1> QED BY <1>0, <1>1, <1>3, <1>4, <1>5, OwnFrame

(* Where the loop may leave a worker's copy: moved on, or with another     *)
(* status only.                                                            *)
LEMMA LoopOwns ==
  ASSUME TypeInv, OwnInv, NEW w \in Engine, NEW i \in Inst,
         ListRunning(w) \/ EndPass(w) \/ Evaluate(w, i)
  PROVE  OwnInv'
<1>0. RowTypes /\ WorkerTypes /\ ActionTypes /\ TypeOK /\ w \in Worker /\ w \notin Client
  BY TypeParts, FsmAssumption DEF TypeInv, Worker
<1>1. inst' = inst /\ Owns(w) /\ Holding(w)
  BY <1>0 DEF ListRunning, EndPass, Evaluate, rowVars, OwnInv, WorkerTypes
<1>2. CASE ListRunning(w)
  <2> DEFINE T == [j \in Running |-> inst[j]]
  <2>1. DOMAIN T \subseteq Inst /\ \A j \in DOMAIN T : T[j] \in Instance
    BY <1>0, RowIsInstance DEF Running
  <2>2. Only(w) /\ step'[w] = "pass" /\ todo'[w] = T /\ id' = id
    BY <1>0, <1>2, <2>1 DEF ListRunning, Goto, WorkerTypes, Only
  <2>3. Owns(w)'
    BY <1>0, <1>1, <2>2 DEF Owns, Listed, Running, Working
  <2> QED BY <1>0, <1>1, <2>2, <2>3, OwnFrame DEF ActionTypes
<1>3. CASE EndPass(w)
  <2>1. Only(w) /\ step'[w] = "idle" /\ todo' = todo /\ id' = id
    BY <1>0, <1>3 DEF EndPass, Goto, WorkerTypes, Only
  <2>2. Owns(w)'
    BY <1>0, <1>1, <2>1 DEF Owns, Listed, Working
  <2> QED BY <1>0, <1>1, <2>1, <2>2, OwnFrame DEF ActionTypes
<1>4. CASE Evaluate(w, i)
  <2> DEFINE r == todo[w][i]
             T == [j \in DOMAIN todo[w] \ {i} |-> todo[w][j]]
  <2>1. /\ todo' = [todo EXCEPT ![w] = T] /\ todo'[w] = T /\ r \in Instance /\ step[w] = "pass"
        /\ DOMAIN T \subseteq Inst /\ \A j \in DOMAIN T : T[j] \in Instance
        /\ id' = [id EXCEPT ![w] = i] /\ id'[w] = i /\ i \in DOMAIN todo[w]
    BY <1>0, <1>1, <1>4 DEF Evaluate, WorkerTypes, Holding, ActionTypes
  <2>2. Listed(w, i) /\ \A j \in DOMAIN T : Listed(w, j) /\ j # i
    BY <1>1, <2>1 DEF Owns
  <2>3. inst[i] \in Instance
    BY <1>0, <2>2, RowIsInstance DEF Listed
  <2>4. Extends(r.history, inst[i].history)
    BY <2>2, <2>3, RowParts, ExtendsParts DEF Listed
  <2>5. ASSUME NEW c, NEW p, NEW s \in {"act", "write"}, Extends(c.history, inst[i].history),
               step' = [step EXCEPT ![w] = s], copy' = [copy EXCEPT ![w] = c],
               plan' = [plan EXCEPT ![w] = p]
        PROVE  OwnInv'
    <3>1. Only(w) /\ step'[w] = s /\ copy'[w] = c
      BY <1>0, <2>1, <2>5 DEF WorkerTypes, Only
    <3>2. Owned(w)'
      BY <1>0, <1>1, <2>1, <2>2, <2>5, <3>1 DEF Owned, Listed
    <3>3. Owns(w)'
      BY <1>0, <1>1, <2>1, <2>2, <3>1, <3>2 DEF Owns, Listed
    <3> QED BY <1>0, <1>1, <2>1, <3>1, <3>3, OwnFrame
  <2>6. ASSUME NEW c, c.history = r.history, Ready(w, c), UNCHANGED plan
        PROVE  OwnInv'
    <3>1. plan' = [plan EXCEPT ![w] = plan[w]]
      BY <1>0, <2>6 DEF WorkerTypes
    <3> QED BY <2>4, <2>5, <2>6, <3>1 DEF Ready, Goto
  <2>7. ASSUME NEW s \in State, Enter(w, Moved(r, s), defn)
        PROVE  OwnInv'
    <3>1. Extends(Moved(r, s).history, inst[i].history)
      <4>1. Moved(r, s).history = Append(inst[i].history, s)
        BY <2>1, <2>2 DEF Moved, Instance, Listed
      <4> QED BY <2>3, <4>1, RowParts, ExtendsParts
    <3> QED BY <2>5, <2>7, <3>1 DEF Enter, Goto
  <2>8. ASSUME UNCHANGED <<step, copy, plan>>
        PROVE  OwnInv'
    <3>1. Only(w) /\ step'[w] = "pass"
      BY <1>0, <2>1, <2>8 DEF WorkerTypes, Only
    <3>2. Owns(w)'
      BY <1>0, <1>1, <2>1, <2>2, <3>1 DEF Owns, Listed, Working
    <3> QED BY <1>0, <1>1, <2>1, <3>1, <3>2, OwnFrame
  <2>9. ASSUME defn # NoDefinition, r.state \in DOMAIN defn.transitions, NEW k \in Firing(r, defn)
        PROVE  defn.transitions[r.state][k].to \in State
    <3>1. defn \in Definition
      BY <1>0, <2>9 DEF RowTypes
    <3>2. k \in 1 .. Len(defn.transitions[r.state])
      BY <2>9 DEF Firing
    <3> QED BY <2>9, <3>1, <3>2, DefinitionParts
  <2>10. \A s : [r EXCEPT !.status = s].history = r.history
    BY <2>1 DEF Instance
  <2>11. \/ \E c : c.history = r.history /\ Ready(w, c) /\ UNCHANGED plan
         \/ UNCHANGED <<step, copy, plan>>
         \/ /\ defn # NoDefinition /\ r.state \in DOMAIN defn.transitions
            /\ \E k \in Firing(r, defn) : Enter(w, Moved(r, defn.transitions[r.state][k].to), defn)
    BY <1>4, <2>10 DEF Evaluate
  <2> QED BY <2>6, <2>7, <2>8, <2>9, <2>11
<1> QED BY <1>2, <1>3, <1>4

(* Actions leave the history of the copy alone.                            *)
LEMMA ActOwns ==
  ASSUME TypeInv, OwnInv, NEW w \in Worker,
         \/ ActNothing(w) \/ SelectNodes(w) \/ SelectFails(w) \/ SelectRollback(w)
         \/ \E n \in Node : DoNode(w, n)
         \/ EndAction(w)
  PROVE  /\ OwnInv'
         /\ inst' = inst /\ id' = id /\ todo' = todo /\ copy'[w].history = copy[w].history
         /\ step[w] \in Working /\ step'[w] \in Working
         /\ \A v \in Worker \ {w} : step'[v] = step[v] /\ copy'[v] = copy[v]
<1>0. RowTypes /\ WorkerTypes /\ ActionTypes /\ TypeOK
  BY TypeParts DEF TypeInv
<1>1. inst' = inst /\ todo' = todo /\ plan' = plan /\ id' = id /\ Owns(w)
  BY DEF ActNothing, SelectNodes, SelectFails, SelectRollback, DoNode, EndAction, rowVars, OwnInv
<1>2. step[w] \in {"act", "deploy", "rollback"} /\ copy[w] \in Instance
  <2>1. step[w] \in {"act", "deploy", "rollback"}
    BY DEF ActNothing, SelectNodes, SelectFails, SelectRollback, DoNode, EndAction
  <2> QED BY <2>1, ActionParts
<1>3. ASSUME NEW c, c.history = copy[w].history, NEW s \in Working,
             step' = [step EXCEPT ![w] = s], copy' = [copy EXCEPT ![w] = c]
      PROVE  /\ OwnInv' /\ copy'[w].history = copy[w].history /\ step'[w] \in Working
             /\ \A v \in Worker \ {w} : step'[v] = step[v] /\ copy'[v] = copy[v]
  <2>1. Only(w) /\ step'[w] = s /\ copy'[w] = c
    BY <1>0, <1>1, <1>3 DEF WorkerTypes, Only
  <2>2. Owns(w)'
    BY <1>1, <1>2, <1>3, <2>1 DEF Owns, Owned, Listed, Working
  <2>3. w \in Client => \A v \in Client \ {w} : step[v] \in Working => id[v] # id'[w]
    BY <1>1, <1>2 DEF OwnInv, Apart, Working
  <2>4. id' = [id EXCEPT ![w] = id'[w]]
    BY <1>0, <1>1 DEF ActionTypes
  <2>5. OwnInv'
    BY <1>1, <2>1, <2>2, <2>3, <2>4, OwnFrame
  <2> QED BY <1>0, <1>3, <2>1, <2>5 DEF WorkerTypes
<1>4. \A r \in Instance : Closed(w, r).history = r.history
  BY DEF Closed, Instance
<1>5. CASE ActNothing(w) \/ SelectFails(w)
  <2>1. Ready(w, Closed(w, copy[w]))
    BY <1>5 DEF ActNothing, SelectFails
  <2> QED BY <1>1, <1>2, <1>3, <1>4, <2>1 DEF Ready, Goto, Working
<1>6. CASE SelectNodes(w)
  <2>1. ASSUME NEW done, Ready(w, Closed(w, [copy[w] EXCEPT !.last = done]))
        PROVE  \E c : c.history = copy[w].history /\ Ready(w, c)
    <3> DEFINE q == [copy[w] EXCEPT !.last = done]
    <3>1. Closed(w, q).history = copy[w].history
      BY <1>2 DEF Closed, Instance
    <3> QED BY <2>1, <3>1
  <2>2. ASSUME NEW T, NEW k, copy' = [copy EXCEPT ![w].targets = T, ![w].cursor = k]
        PROVE  \E c : c.history = copy[w].history /\ copy' = [copy EXCEPT ![w] = c]
    <3> DEFINE c == [copy[w] EXCEPT !.targets = T, !.cursor = k]
    <3>1. c.history = copy[w].history
      BY <1>2 DEF Instance
    <3>2. copy' = [copy EXCEPT ![w] = c]
      BY <1>0, <2>2 DEF WorkerTypes
    <3> QED BY <3>1, <3>2
  <2>3. \/ \E c : c.history = copy[w].history /\ Ready(w, c)
        \/ /\ Goto(w, "deploy")
           /\ \E c : c.history = copy[w].history /\ copy' = [copy EXCEPT ![w] = c]
    <3>1. \/ \E done : Ready(w, Closed(w, [copy[w] EXCEPT !.last = done]))
          \/ Goto(w, "deploy") /\ \E T, k : copy' = [copy EXCEPT ![w].targets = T, ![w].cursor = k]
      BY <1>6, ZenonT(60) DEF SelectNodes
    <3> QED BY <2>1, <2>2, <3>1
  <2> QED BY <1>1, <1>2, <1>3, <2>3 DEF Ready, Goto, Working
<1>7. CASE SelectRollback(w)
  <2>1. step' = [step EXCEPT ![w] = "rollback"] /\ copy' = [copy EXCEPT ![w] = copy[w]]
    BY <1>0, <1>7 DEF SelectRollback, Goto, WorkerTypes
  <2> QED BY <1>1, <1>2, <1>3, <2>1 DEF Working
<1>8. ASSUME NEW n \in Node, DoNode(w, n)
      PROVE  step' = [step EXCEPT ![w] = step[w]] /\ copy' = [copy EXCEPT ![w] = copy[w]]
  BY <1>0, <1>8 DEF DoNode, WorkerTypes
<1>9. CASE EndAction(w)
  <2> DEFINE q == WithResult(copy[w], step[w], ok[w], bad[w])
  <2>1. q \in Instance /\ q.history = copy[w].history
    <3>1. ok[w] \in SUBSET Node /\ bad[w] \in SUBSET Node
      BY <1>0 DEF ActionTypes
    <3>2. q \in Instance
      BY <1>2, <3>1, ResultIsInstance
    <3>3. q.history = copy[w].history
      BY <1>2 DEF WithResult, Instance
    <3> QED BY <3>2, <3>3
  <2>2. Closed(w, q).history = copy[w].history
    BY <1>4, <2>1
  <2> QED BY <1>1, <1>2, <1>3, <1>9, <2>2 DEF EndAction, Ready, Goto, Working
<1> QED BY <1>1, <1>2, <1>3, <1>5, <1>6, <1>7, <1>8, <1>9 DEF Working

(* What a step does to the rows that are stored: it may end a running one  *)
(* and extend its history.                                                 *)
Kept(i) ==
  inst[i] # NoInst =>
    /\ inst[i].status # "Running" => inst'[i].status = inst[i].status
    /\ Extends(inst'[i].history, inst[i].history)

LEMMA SameKept ==
  ASSUME TypeInv, NEW i \in Inst, inst'[i] = inst[i] PROVE Kept(i)
<1> SUFFICES ASSUME inst[i] # NoInst PROVE Extends(inst[i].history, inst[i].history)
  BY DEF Kept
<1>1. inst[i].history \in Seq(State \cup {"cancelled"})
  BY RowIsInstance, RowParts DEF TypeInv
<1> QED BY <1>1, ExtendsParts

LEMMA WriteOwns ==
  ASSUME TypeInv, OwnInv, Alone, NEW w \in Worker, WriteInstance(w) \/ WriteFails(w)
  PROVE  OwnInv' /\ \A i \in Inst : Kept(i)
<1>0. RowTypes /\ WorkerTypes /\ ActionTypes /\ TypeOK /\ Owns(w) /\ step[w] \in Working /\ Owned(w)
  BY TypeParts DEF TypeInv, OwnInv, Owns, WriteInstance, WriteFails, Working
<1>1. /\ todo' = todo /\ id' = id /\ step'[w] = Rest(w)
      /\ \A v \in Worker \ {w} : step'[v] = step[v] /\ copy'[v] = copy[v]
      /\ \A i \in Inst \ {id[w]} : inst'[i] = inst[i]
  BY <1>0 DEF WriteInstance, WriteFails, Forget, Goto, rowVars, WorkerTypes, RowTypes, ActionTypes
<1>2. \A v \in Worker \ {w} : Owns(v)'
  <2> SUFFICES ASSUME NEW v \in Worker \ {w} PROVE Owns(v)'
    OBVIOUS
  <2>1. Owns(v)
    BY DEF OwnInv
  <2>2. ASSUME NEW i \in DOMAIN todo[v] PROVE i # id[w] /\ i \in Inst
    <3>1. Listed(v, i) /\ v \in Engine /\ i \in Inst
      BY <1>0, <2>1, Sides DEF Owns, WorkerTypes
    <3>2. w \in Client
      BY <3>1, Sides DEF Alone
    <3> QED BY <1>0, <3>1, <3>2 DEF Owned, Listed
  <2>3. step[v] \in Working => id[v] # id[w] /\ id[v] \in Inst
    BY <1>0, NeverShared DEF ActionTypes
  <2>4. \A i \in DOMAIN todo[v] : Listed(v, i)'
    BY <1>1, <2>1, <2>2 DEF Owns, Listed
  <2>5. step'[v] \in Working => Owned(v)'
    BY <1>1, <2>1, <2>3 DEF Owns, Owned
  <2> QED BY <1>1, <2>1, <2>4, <2>5 DEF Owns
<1>3. Owns(w)'
  <2>1. step'[w] \notin Working /\ step'[w] \notin {"advance", "cancel"} /\ (w \in Client => step'[w] # "pass")
    BY <1>1, Sides DEF Rest, Working
  <2>2. \A i \in DOMAIN todo[w] : Listed(w, i)'
    <3> SUFFICES ASSUME NEW i \in DOMAIN todo[w] PROVE Listed(w, i)'
      OBVIOUS
    <3>1. w \notin Client /\ i \in Inst
      BY <1>0 DEF Owns, WorkerTypes
    <3>2. i # id[w]
      BY <1>0, <3>1 DEF Owned
    <3> QED BY <1>0, <1>1, <3>1, <3>2 DEF Owns, Listed
  <2> QED BY <1>0, <1>1, <2>1, <2>2 DEF Owns
<1>4. \A u, v \in Client : u # v => Apart(u, v)'
  BY <1>1, Sides DEF OwnInv, Apart, Worker, Rest, Working
<1>5. Kept(id[w])
  <2>1. CASE inst' = inst
    BY <1>0, <2>1, SameKept DEF ActionTypes
  <2>2. CASE inst' = [inst EXCEPT ![id[w]] = copy[w]]
    <3>1. inst'[id[w]] = copy[w]
      BY <1>0, <2>2 DEF RowTypes, ActionTypes
    <3> QED BY <1>0, <3>1 DEF Kept, Owned
  <2> QED BY <2>1, <2>2 DEF WriteInstance, WriteFails, rowVars
<1>6. \A i \in Inst : Kept(i)
  BY <1>1, <1>5, SameKept
<1> QED BY <1>2, <1>3, <1>4, <1>6 DEF OwnInv

LEMMA StoppedOwns ==
  ASSUME TypeInv, OwnInv, NEW S, Stopped(S)
  PROVE  OwnInv' /\ \A i \in Inst : Kept(i)
<1>1. inst' = inst /\ id' = id
  BY DEF Stopped, rowVars
<1>2. \A v \in Worker : /\ step'[v] \in {step[v], "idle"}
                        /\ step'[v] # "idle" => copy'[v] = copy[v] /\ todo'[v] = todo[v]
                        /\ todo'[v] \in {todo[v], << >>}
  BY DEF Stopped
<1>3. \A v \in Worker : Owns(v)'
  BY <1>1, <1>2 DEF OwnInv, Owns, Owned, Listed, Working
<1>4. \A u, v \in Client : u # v => Apart(u, v)'
  BY <1>1, <1>2 DEF OwnInv, Apart, Worker, Working
<1> QED BY <1>1, <1>3, <1>4, SameKept DEF OwnInv

LEMMA RipeParts ==
  ASSUME NEW r \in Row
  PROVE  /\ (Ripe(r) = NoInst) <=> (r = NoInst)
         /\ Ripe(r).status = r.status /\ Ripe(r).history = r.history
         /\ Ripe(r).deployed = r.deployed /\ Ripe(r).failed = r.failed
<1>1. CASE r = NoInst
  BY <1>1 DEF Ripe
<1>2. CASE r # NoInst
  <2>1. r \in Instance /\ Ripe(r) = [r EXCEPT !.due = TRUE]
    BY <1>2 DEF Row, Ripe
  <2>2. [r EXCEPT !.due = TRUE] \in Instance
    BY <2>1 DEF Instance
  <2>3. /\ [r EXCEPT !.due = TRUE].status = r.status /\ [r EXCEPT !.due = TRUE].history = r.history
        /\ [r EXCEPT !.due = TRUE].deployed = r.deployed /\ [r EXCEPT !.due = TRUE].failed = r.failed
    BY <2>1 DEF Instance
  <2> QED BY <1>2, <2>1, <2>2, <2>3, NoInstAssumption
<1> QED BY <1>1, <1>2

LEMMA TimeOwns ==
  ASSUME TypeInv, OwnInv, TimePasses
  PROVE  OwnInv' /\ \A i \in Inst : Kept(i)
<1>0. RowTypes /\ WorkerTypes /\ ActionTypes /\ TypeOK
  BY TypeParts DEF TypeInv
<1>1. /\ step' = step /\ id' = id
      /\ \A i \in Inst : inst'[i] = Ripe(inst[i]) /\ inst[i] \in Row
      /\ \A w \in Worker : copy'[w] = Ripe(copy[w]) /\ copy[w] \in Row
      /\ \A w \in Worker : /\ DOMAIN todo'[w] = DOMAIN todo[w]
                           /\ \A i \in DOMAIN todo[w] : todo'[w][i] = Ripe(todo[w][i]) /\ todo[w][i] \in Row
      /\ \A w \in Worker : id[w] \in Inst /\ DOMAIN todo[w] \subseteq Inst
  BY <1>0 DEF TimePasses, RowTypes, WorkerTypes, ActionTypes, TypeOK
<1>2. \A i \in Inst : /\ (inst'[i] = NoInst) <=> (inst[i] = NoInst)
                      /\ inst'[i].status = inst[i].status /\ inst'[i].history = inst[i].history
                      /\ inst'[i].deployed = inst[i].deployed /\ inst'[i].failed = inst[i].failed
  BY <1>1, RipeParts
<1>3. \A w \in Worker : copy'[w].history = copy[w].history
  BY <1>1, RipeParts
<1>4. ASSUME NEW w \in Worker PROVE Owns(w)'
  <2>1. Owns(w)
    BY DEF OwnInv
  <2>2. \A i \in DOMAIN todo[w] : /\ todo'[w][i].history = todo[w][i].history
                                 /\ todo'[w][i].deployed = todo[w][i].deployed
                                 /\ todo'[w][i].failed = todo[w][i].failed
    BY <1>1, RipeParts
  <2>3. \A i \in DOMAIN todo[w] : Listed(w, i)'
    BY <1>1, <1>2, <2>1, <2>2 DEF Owns, Listed
  <2>4. Owned(w) => Owned(w)'
    BY <1>1, <1>2, <1>3 DEF Owned
  <2> QED BY <1>1, <2>1, <2>3, <2>4 DEF Owns
<1>5. \A u, v \in Client : u # v => Apart(u, v)'
  BY <1>1 DEF OwnInv, Apart
<1>6. ASSUME NEW i \in Inst, inst[i] # NoInst PROVE Extends(inst'[i].history, inst[i].history)
  <2>1. inst[i].history \in Seq(State \cup {"cancelled"})
    BY <1>0, <1>6, RowIsInstance, RowParts
  <2> QED BY <1>2, <2>1, ExtendsParts
<1> QED BY <1>2, <1>4, <1>5, <1>6 DEF OwnInv, Kept

(* A step of the engine, or a restart of the controller.                   *)
Move == [Next]_vars \/ Stopped(Worker)

LEMMA MoveTypes == TypeInv /\ Move => TypeInv'
BY TypeStep, StoppedTypes DEF Move

LEMMA QuietOwns ==
  ASSUME TypeInv, OwnInv, UNCHANGED <<inst, step, id, copy, todo>>
  PROVE  OwnInv' /\ \A i \in Inst : Kept(i)
<1>1. OwnInv'
  BY DEF OwnInv, Owns, Owned, Listed, Apart
<1> QED BY <1>1, SameKept

LEMMA OwnStep ==
  ASSUME TypeInv, OwnInv, Alone, Move
  PROVE  OwnInv' /\ \A i \in Inst : Kept(i)
<1>1. CASE \/ \E d \in Definition : CreateDefinition(d)
           \/ DeleteDefinition
           \/ \E n \in Node : NodeJoins(n) \/ NodeLeaves(n)
           \/ \E i \in Inst, c \in Call : LateAct(i, c)
           \/ UNCHANGED vars
  <2>1. UNCHANGED <<inst, step, id, copy, todo>>
    BY <1>1 DEF CreateDefinition, DeleteDefinition, NodeJoins, NodeLeaves, LateAct, vars, rowVars, nodeVars, agentVars, workVars
  <2> QED BY <2>1, QuietOwns
<1>2. ASSUME NEW w \in Client, NEW i \in Inst,
             StartInstance(w, i) \/ ReadRunning(w, i, "advance") \/ ReadRunning(w, i, "cancel")
      PROVE  OwnInv' /\ \A j \in Inst : Kept(j)
  <2>1. StartInstance(w, i)
    BY <1>2, NoRequests DEF Worker
  <2>2. inst' = inst
    BY <2>1 DEF StartInstance, rowVars
  <2> QED BY <2>1, <2>2, StartOwns, SameKept
<1>3. ASSUME NEW w \in Engine, EngineStep(w) PROVE OwnInv' /\ \A j \in Inst : Kept(j)
  <2>1. PICK i \in Inst : ListRunning(w) \/ EndPass(w) \/ Evaluate(w, i)
    BY <1>3, FsmAssumption DEF EngineStep
  <2>2. inst' = inst
    BY <2>1 DEF ListRunning, EndPass, Evaluate, rowVars
  <2> QED BY <2>1, <2>2, LoopOwns, SameKept
<1>4. ASSUME NEW w \in Worker, WorkerStep(w) \/ SelectFails(w) \/ WriteFails(w)
      PROVE  OwnInv' /\ \A j \in Inst : Kept(j)
  <2>1. PICK i \in Inst : TRUE
    BY FsmAssumption
  <2>2. CASE WriteInstance(w) \/ WriteFails(w)
    BY <2>2, WriteOwns
  <2>3. CASE \/ ActNothing(w) \/ SelectNodes(w) \/ SelectFails(w) \/ SelectRollback(w)
             \/ \E n \in Node : DoNode(w, n)
             \/ EndAction(w)
    BY <2>3, ActOwns, SameKept
  <2> QED BY <1>4, <2>1, <2>2, <2>3, NoRequests DEF WorkerStep
<1>5. CASE Stopped(Worker) \/ Restart \/ \E w \in Worker : Disconnect(w)
  BY <1>5, StoppedOwns DEF Restart, Disconnect
<1>6. CASE TimePasses
  BY <1>6, TimeOwns
<1> QED BY <1>1, <1>2, <1>3, <1>4, <1>5, <1>6 DEF Move, Next

(* The engine's part of every step of the engine with its deliveries.      *)
LEMMA AlertMoves == [AlertNext]_allVars => Move
<1> SUFFICES ASSUME [AlertNext]_allVars PROVE Move
  OBVIOUS
<1>1. CASE \E w \in Worker : ActAlert(w)
  BY <1>1 DEF ActAlert, Move, Next, WorkerStep
<1>2. CASE RestartAll
  BY <1>2 DEF RestartAll, Move
<1>3. CASE EngineOnly
  BY <1>3 DEF EngineOnly, Move
<1>4. CASE DeliveryOnly \/ UNCHANGED allVars
  BY <1>4 DEF DeliveryOnly, allVars, Move
<1> QED BY <1>1, <1>2, <1>3, <1>4 DEF AlertNext

(* Types hold of the engine with its webhooks too: execute_alert spawns a  *)
(* delivery and goes on, and a delivery changes nothing of the engine.     *)
THEOREM AlertTypes == AlertSpec => []TypeInv
<1>1. AlertInit => TypeInv
  BY TypeInit DEF AlertInit
<1>2. TypeInv /\ [AlertNext]_allVars => TypeInv'
  BY AlertMoves, MoveTypes
<1> QED BY <1>1, <1>2, PTL DEF AlertSpec

(* With one engine and no advance and cancel requests, what the engine has *)
(* listed or copied is still what the row says, but for the transition it  *)
(* is making, and a starting client is alone with its instance             *)
(* (start_instance, evaluate_all).                                         *)
THEOREM RowsAreOwned ==
  ASSUME Alone
  PROVE  AlertSpec => []OwnInv
<1>1. AlertInit => OwnInv
  BY OwnInit DEF AlertInit
<1>2. TypeInv /\ OwnInv /\ [AlertNext]_allVars => OwnInv'
  BY AlertMoves, OwnStep
<1> QED BY <1>1, <1>2, AlertTypes, PTL DEF AlertSpec

(* An instance that has ended stays as it ended: with one engine and no    *)
(* advance and cancel requests nobody writes an older copy of a row over   *)
(* it, whatever definitions are replaced or deleted, handlers dropped,     *)
(* writes failing, nodes leaving and controllers restarting.               *)
THEOREM StatusStaysFinal ==
  ASSUME Alone
  PROVE  AlertSpec => StatusIsFinal
<1>1. TypeInv /\ OwnInv /\ [AlertNext]_allVars =>
        [\A i \in Rows : inst[i].status # "Running" => inst'[i].status = inst[i].status]_vars
  BY AlertMoves, OwnStep DEF Kept, Rows
<1> QED BY <1>1, AlertTypes, RowsAreOwned, PTL DEF AlertSpec, StatusIsFinal

(* No transition is lost from a history, under the same conditions.        *)
THEOREM HistoryStaysKept ==
  ASSUME Alone
  PROVE  AlertSpec => HistoryKept
<1>1. TypeInv /\ OwnInv /\ [AlertNext]_allVars =>
        [\A i \in Rows : /\ Len(inst'[i].history) >= Len(inst[i].history)
                         /\ SubSeq(inst'[i].history, 1, Len(inst[i].history)) = inst[i].history]_vars
  BY AlertMoves, OwnStep DEF Kept, Rows, Extends
<1> QED BY <1>1, AlertTypes, RowsAreOwned, PTL DEF AlertSpec, HistoryKept
-----------------------------------------------------------------------------
(***************************************************************************)
(* What the context knows of the nodes that run what was deployed.  While  *)
(* a worker works on an instance, its copy knows them, together with the   *)
(* nodes of the deploy it is at; while nobody does, the row knows them.    *)
(* The nodes an agent may yet deploy to are among those given up, and      *)
(* those among the failed ones.                                            *)
(***************************************************************************)
(* Nothing cuts work short.                                                *)
Steadfast == Faults \cap {"storage", "restart", "disconnect"} = {}

Tracks(i, deployed, failed) ==
  /\ applied[i] \subseteq deployed \cup unanswered[i]
  /\ unanswered[i] \subseteq failed
  /\ \A n \in Node : <<"deploy", n>> \in open[i] => n \in unanswered[i]

Reached(w) == IF step[w] = "deploy" THEN copy[w].deployed \cup ok[w] ELSE copy[w].deployed
Missed(w) == IF step[w] = "deploy" THEN copy[w].failed \cup bad[w] ELSE copy[w].failed

Known(i) == IF inst[i] = NoInst THEN {} ELSE inst[i].deployed
KnownFailed(i) == IF inst[i] = NoInst THEN {} ELSE inst[i].failed

Unowned(i) == \A w \in Worker : step[w] \in Working => id[w] # i

TracksInv ==
  /\ \A w \in Worker : step[w] \in Working => Tracks(id[w], Reached(w), Missed(w))
  /\ \A i \in Inst : Unowned(i) => Tracks(i, Known(i), KnownFailed(i))

LEMMA TracksInit == Init => TracksInv
<1> SUFFICES ASSUME Init PROVE TracksInv
  OBVIOUS
<1>1. \A i \in Inst : applied[i] = {} /\ open[i] = {} /\ unanswered[i] = {}
  BY DEF Init
<1>2. \A w \in Worker : step[w] = "idle"
  BY DEF Init
<1> QED BY <1>1, <1>2 DEF TracksInv, Tracks, Working

(* Worker v goes on as it was.                                             *)
Same(v) == /\ step'[v] = step[v] /\ copy'[v] = copy[v]
           /\ ok'[v] = ok[v] /\ bad'[v] = bad[v]

(* A worker that has begun to work on an instance that nobody worked on.   *)
LEMMA BeginTracks ==
  ASSUME TracksInv, TypeInv, NEW w \in Worker, step[w] \notin Working, inst' = inst, UNCHANGED agentVars,
         \A v \in Worker \ {w} : Same(v) /\ id'[v] = id[v],
         step'[w] \in Working =>
           /\ step'[w] # "deploy" /\ Unowned(id'[w]) /\ id'[w] \in Inst
           /\ Known(id'[w]) \subseteq copy'[w].deployed /\ KnownFailed(id'[w]) \subseteq copy'[w].failed
  PROVE  TracksInv'
<1>0. applied' = applied /\ open' = open /\ unanswered' = unanswered
  BY DEF agentVars
<1>1. ASSUME NEW v \in Worker, step'[v] \in Working PROVE Tracks(id[v], Reached(v), Missed(v))'
  <2>1. CASE v # w
    BY <1>0, <1>1, <2>1 DEF TracksInv, Tracks, Reached, Missed, Same
  <2>2. CASE v = w
    <3>1. Tracks(id'[w], Known(id'[w]), KnownFailed(id'[w]))
      BY <1>1, <2>2 DEF TracksInv
    <3>2. Reached(w)' = copy'[w].deployed /\ Missed(w)' = copy'[w].failed
      BY <1>1, <2>2 DEF Reached, Missed
    <3> QED BY <1>0, <1>1, <2>2, <3>1, <3>2 DEF Tracks
  <2> QED BY <2>1, <2>2
<1>2. \A i \in Inst : Unowned(i)' => Unowned(i)
  BY DEF Unowned, Same
<1>3. \A i \in Inst : Known(i)' = Known(i) /\ KnownFailed(i)' = KnownFailed(i)
  BY DEF Known, KnownFailed
<1> QED BY <1>0, <1>1, <1>2, <1>3 DEF TracksInv, Tracks

LEMMA StartTracks ==
  ASSUME TypeInv, OwnInv, TracksInv, NEW w \in Client, NEW i \in Inst, StartInstance(w, i)
  PROVE  TracksInv'
<1>0. RowTypes /\ WorkerTypes /\ ActionTypes /\ w \in Worker
  BY TypeParts DEF Worker
<1>1. /\ step' = [step EXCEPT ![w] = "act"] /\ id' = [id EXCEPT ![w] = i] /\ step[w] = "idle"
      /\ inst' = inst /\ UNCHANGED agentVars /\ ok' = ok /\ bad' = bad
      /\ \E c : copy' = [copy EXCEPT ![w] = c]
  BY DEF StartInstance, Enter, Goto, rowVars, nodeVars, actionVars
<1>2. Known(i) = {} /\ KnownFailed(i) = {} /\ Unowned(i)
  BY DEF StartInstance, Known, KnownFailed, Unowned, Working
<1>3. step'[w] = "act" /\ id'[w] = i
  BY <1>0, <1>1 DEF WorkerTypes, ActionTypes
<1>4. \A v \in Worker \ {w} : Same(v) /\ id'[v] = id[v]
  BY <1>0, <1>1 DEF WorkerTypes, ActionTypes, Same
<1>5. step[w] \notin Working
  BY <1>1 DEF Working
<1> QED BY <1>0, <1>1, <1>2, <1>3, <1>4, <1>5, BeginTracks

LEMMA LoopTracks ==
  ASSUME TypeInv, OwnInv, Alone, TracksInv, NEW w \in Engine, NEW i \in Inst,
         ListRunning(w) \/ EndPass(w) \/ Evaluate(w, i)
  PROVE  TracksInv'
<1>0. RowTypes /\ WorkerTypes /\ ActionTypes /\ w \in Worker /\ w \notin Client
  BY TypeParts, FsmAssumption DEF Worker
<1>1. /\ inst' = inst /\ UNCHANGED agentVars /\ ok' = ok /\ bad' = bad
      /\ step[w] \in {"idle", "pass"} /\ step[w] \notin Working
  BY DEF ListRunning, EndPass, Evaluate, rowVars, nodeVars, actionVars, Working
<1>2. CASE ListRunning(w) \/ EndPass(w)
  <2>1. step'[w] \in {"idle", "pass"} /\ id' = id /\ copy' = copy /\ \A v \in Worker \ {w} : step'[v] = step[v]
    BY <1>0, <1>2 DEF ListRunning, EndPass, Goto, WorkerTypes
  <2> QED BY <1>0, <1>1, <2>1, BeginTracks DEF Working, Same
<1>3. CASE Evaluate(w, i)
  <2> DEFINE r == todo[w][i]
             AsListed(c) == c.deployed = r.deployed /\ c.failed = r.failed
  <2>1. id'[w] = i /\ i \in DOMAIN todo[w] /\ r \in Instance /\ Listed(w, i)
    BY <1>0, <1>3 DEF Evaluate, WorkerTypes, ActionTypes, Holding, OwnInv, Owns
  <2>2. \A v \in Worker \ {w} : Same(v) /\ id'[v] = id[v]
    BY <1>0, <1>1, <1>3 DEF Evaluate, Ready, Enter, Goto, WorkerTypes, ActionTypes, Same
  <2>3. Unowned(i)
    <3> SUFFICES ASSUME NEW v \in Worker, step[v] \in Working PROVE id[v] # i
      BY DEF Unowned
    <3>1. v \in Client
      BY <1>1, Sides DEF Alone
    <3> QED BY <2>1, <3>1 DEF OwnInv, Owns, Owned, Listed
  <2>4. Known(i) = r.deployed /\ KnownFailed(i) = r.failed
    BY <2>1 DEF Listed, Known, KnownFailed
  <2>5. \A s : AsListed(Moved(r, s)) /\ AsListed([r EXCEPT !.status = s])
    BY <2>1 DEF Moved, Instance
  <2>6. step' = step \/ (step'[w] \in {"act", "write"} /\ AsListed(copy'[w]))
    <3>1. step' = step \/ \E c : AsListed(c) /\ (Ready(w, c) \/ Enter(w, c, defn))
      BY <1>3, <2>5 DEF Evaluate
    <3>2. ASSUME NEW c, AsListed(c), Ready(w, c) \/ Enter(w, c, defn)
          PROVE  step'[w] \in {"act", "write"} /\ AsListed(copy'[w])
      BY <1>0, <3>2 DEF Ready, Enter, Goto, WorkerTypes
    <3> QED BY <3>1, <3>2
  <2> QED BY <1>0, <1>1, <2>1, <2>2, <2>3, <2>4, <2>6, BeginTracks
<1> QED BY <1>2, <1>3

(* A worker goes on with the instance it works on.                         *)
LEMMA GoOnTracks ==
  ASSUME TypeInv, OwnInv, Alone, TracksInv, NEW w \in Worker,
         step[w] \in Working, step'[w] \in Working, inst' = inst, id' = id,
         \A v \in Worker \ {w} : Same(v),
         \A i \in Inst \ {id[w]} :
           applied'[i] = applied[i] /\ open'[i] = open[i] /\ unanswered'[i] = unanswered[i],
         Tracks(id[w], Reached(w), Missed(w)) => Tracks(id[w], Reached(w), Missed(w))'
  PROVE  TracksInv'
<1>1. \A v \in Worker : id[v] \in Inst
  BY DEF TypeInv, TypeOK
<1>2. \A v \in Worker \ {w} : step[v] \in Working => id[v] # id[w]
  BY NeverShared
<1>3. ASSUME NEW v \in Worker, step'[v] \in Working PROVE Tracks(id[v], Reached(v), Missed(v))'
  <2>1. CASE v = w
    BY <2>1 DEF TracksInv
  <2>2. CASE v # w
    <3>1. Tracks(id[v], Reached(v), Missed(v)) /\ id[v] \in Inst \ {id[w]}
      BY <1>1, <1>2, <1>3, <2>2 DEF TracksInv, Same
    <3>2. Reached(v)' = Reached(v) /\ Missed(v)' = Missed(v)
      BY <2>2 DEF Reached, Missed, Same
    <3> QED BY <3>1, <3>2 DEF Tracks
  <2> QED BY <2>1, <2>2
<1>4. \A i \in Inst : Unowned(i)' => Unowned(i) /\ i # id[w]
  BY DEF Unowned, Same
<1>5. \A i \in Inst : Known(i)' = Known(i) /\ KnownFailed(i)' = KnownFailed(i)
  BY DEF Known, KnownFailed
<1> QED BY <1>3, <1>4, <1>5 DEF TracksInv, Tracks

(* A worker goes on, and its agents have done nothing.                     *)
LEMMA StayTracks ==
  ASSUME TypeInv, OwnInv, Alone, TracksInv, NEW w \in Worker,
         step[w] \in Working, step'[w] \in Working, inst' = inst, id' = id,
         \A v \in Worker \ {w} : Same(v), UNCHANGED agentVars,
         Reached(w) \subseteq Reached(w)', Missed(w) \subseteq Missed(w)'
  PROVE  TracksInv'
<1>1. Tracks(id[w], Reached(w), Missed(w)) => Tracks(id[w], Reached(w), Missed(w))'
  BY DEF Tracks, agentVars
<1> QED BY <1>1, GoOnTracks DEF agentVars

LEMMA ActTracks ==
  ASSUME TypeInv, OwnInv, Alone, TracksInv, NEW w \in Worker,
         \/ ActNothing(w) \/ SelectNodes(w) \/ SelectFails(w) \/ SelectRollback(w)
         \/ \E n \in Node : DoNode(w, n)
         \/ EndAction(w)
  PROVE  TracksInv'
<1>0. RowTypes /\ WorkerTypes /\ ActionTypes
  BY TypeParts
<1>1. /\ inst' = inst /\ id' = id /\ step[w] \in Working /\ step'[w] \in Working
      /\ \A v \in Worker \ {w} : step'[v] = step[v] /\ copy'[v] = copy[v]
  BY ActOwns
<1>2. step[w] \in {"act", "deploy", "rollback"} /\ copy[w] \in Instance
  <2>1. step[w] \in {"act", "deploy", "rollback"}
    BY DEF ActNothing, SelectNodes, SelectFails, SelectRollback, DoNode, EndAction
  <2> QED BY <2>1, ActionParts
<1> DEFINE AsCopy(c) == c.deployed = copy[w].deployed /\ c.failed = copy[w].failed
<1>3. \A r \in Instance : Closed(w, r).deployed = r.deployed /\ Closed(w, r).failed = r.failed
  BY DEF Closed, Instance
<1>4. CASE ActNothing(w) \/ SelectFails(w)
  <2>1. /\ step[w] = "act" /\ step'[w] = "write" /\ AsCopy(copy'[w])
        /\ ok' = ok /\ bad' = bad /\ UNCHANGED agentVars
    BY <1>0, <1>2, <1>3, <1>4 DEF ActNothing, SelectFails, Ready, Goto, WorkerTypes, nodeVars, actionVars
  <2> QED BY <1>1, <2>1, StayTracks DEF Reached, Missed, Same
<1>5. CASE SelectNodes(w)
  <2>1. step[w] = "act" /\ ok' = ok /\ bad' = bad /\ UNCHANGED agentVars
    BY <1>5 DEF SelectNodes, nodeVars
  <2>2. AsCopy(copy'[w])
    <3>1. \/ \E done : Ready(w, Closed(w, [copy[w] EXCEPT !.last = done]))
          \/ \E T, k : copy' = [copy EXCEPT ![w].targets = T, ![w].cursor = k]
      BY <1>5 DEF SelectNodes
    <3>2. ASSUME NEW done, Ready(w, Closed(w, [copy[w] EXCEPT !.last = done]))
          PROVE  AsCopy(copy'[w])
      <4>1. AsCopy(Closed(w, [copy[w] EXCEPT !.last = done]))
        BY <1>2 DEF Closed, Instance
      <4> QED BY <1>0, <3>2, <4>1 DEF Ready, WorkerTypes
    <3>3. ASSUME NEW T, NEW k, copy' = [copy EXCEPT ![w].targets = T, ![w].cursor = k]
          PROVE  AsCopy(copy'[w])
      BY <1>0, <1>2, <3>3 DEF WorkerTypes, Instance
    <3> QED BY <3>1, <3>2, <3>3
  <2> QED BY <1>1, <2>1, <2>2, StayTracks DEF Reached, Missed, Same
<1>6. CASE SelectRollback(w)
  <2>1. /\ step[w] = "act" /\ step'[w] = "rollback" /\ copy' = copy
        /\ ok' = ok /\ bad' = bad /\ UNCHANGED agentVars
    BY <1>0, <1>6 DEF SelectRollback, Goto, WorkerTypes, nodeVars
  <2> QED BY <1>1, <2>1, StayTracks DEF Reached, Missed, Same
<1>7. ASSUME NEW n \in Node, DoNode(w, n) PROVE TracksInv'
  <2>1. /\ step' = step /\ copy' = copy /\ step[w] \in {"deploy", "rollback"} /\ id[w] \in Inst
        /\ \A v \in Worker \ {w} : ok'[v] = ok[v] /\ bad'[v] = bad[v]
    BY <1>0, <1>7 DEF DoNode, ActionTypes
  <2>2. \A i \in Inst \ {id[w]} :
          applied'[i] = applied[i] /\ open'[i] = open[i] /\ unanswered'[i] = unanswered[i]
    BY <1>0, <1>7 DEF DoNode, Act, GiveUp, RowTypes
  <2>3. Tracks(id[w], Reached(w), Missed(w)) => Tracks(id[w], Reached(w), Missed(w))'
    <3>1. CASE /\ ok' = [ok EXCEPT ![w] = @ \cup {n}] /\ Act(id[w], step[w], n)
               /\ UNCHANGED <<bad, open, unanswered>>
      <4>1. /\ ok'[w] = ok[w] \cup {n} /\ bad' = bad /\ open' = open /\ unanswered' = unanswered
            /\ applied'[id[w]] = IF step[w] = "deploy" THEN applied[id[w]] \cup {n} ELSE applied[id[w]] \ {n}
        BY <1>0, <2>1, <3>1 DEF Act, RowTypes, ActionTypes
      <4> QED BY <1>1, <2>1, <4>1 DEF Tracks, Reached, Missed
    <3>2. CASE /\ bad' = [bad EXCEPT ![w] = @ \cup {n}] /\ UNCHANGED <<ok, applied>>
               /\ GiveUp(id[w], step[w], n) \/ UNCHANGED <<open, unanswered>>
      <4>1. /\ bad'[w] = bad[w] \cup {n} /\ ok' = ok /\ applied' = applied
            /\ \/ open'[id[w]] = open[id[w]] /\ unanswered'[id[w]] = unanswered[id[w]]
               \/ /\ open'[id[w]] = open[id[w]] \cup {<<step[w], n>>}
                  /\ unanswered'[id[w]] = IF step[w] = "deploy" THEN unanswered[id[w]] \cup {n}
                                          ELSE unanswered[id[w]]
        BY <1>0, <2>1, <3>2 DEF GiveUp, RowTypes, ActionTypes
      <4> QED BY <1>1, <2>1, <4>1 DEF Tracks, Reached, Missed
    <3> QED BY <1>7, <3>1, <3>2 DEF DoNode
  <2> QED BY <1>1, <2>1, <2>2, <2>3, GoOnTracks DEF Same
<1>8. CASE EndAction(w)
  <2> DEFINE q == WithResult(copy[w], step[w], ok[w], bad[w])
  <2>1. q \in Instance
    BY <1>0, <1>2, ResultIsInstance DEF ActionTypes
  <2>2. q.deployed = Reached(w) /\ q.failed = Missed(w)
    BY <1>2 DEF WithResult, Instance, Reached, Missed
  <2>3. Closed(w, q).deployed = Reached(w) /\ Closed(w, q).failed = Missed(w)
    BY <1>3, <2>1, <2>2
  <2>4. /\ copy'[w].deployed = Reached(w) /\ copy'[w].failed = Missed(w)
        /\ step'[w] = "write" /\ UNCHANGED agentVars
    BY <1>0, <1>8, <2>3 DEF EndAction, Ready, Goto, WorkerTypes, nodeVars
  <2>5. Reached(w)' = Reached(w) /\ Missed(w)' = Missed(w)
    BY <2>4 DEF Reached, Missed
  <2>6. \A v \in Worker \ {w} : ok'[v] = ok[v] /\ bad'[v] = bad[v]
    BY <1>0, <1>8 DEF EndAction, ActionTypes
  <2> QED BY <1>1, <2>4, <2>5, <2>6, StayTracks DEF Same
<1> QED BY <1>4, <1>5, <1>6, <1>7, <1>8

LEMMA WriteTracks ==
  ASSUME TypeInv, OwnInv, Alone, TracksInv, NEW w \in Worker, WriteInstance(w)
  PROVE  TracksInv'
<1>0. RowTypes /\ WorkerTypes /\ ActionTypes /\ Holding(w)
  BY TypeParts DEF WorkerTypes
<1>1. /\ step[w] = "write" /\ step'[w] = Rest(w) /\ id' = id
      /\ applied' = applied /\ open' = open /\ unanswered' = unanswered
      /\ \A v \in Worker \ {w} : Same(v)
      /\ \A i \in Inst \ {id[w]} : inst'[i] = inst[i]
      /\ inst'[id[w]] = copy[w] /\ id[w] \in Inst
  BY <1>0 DEF WriteInstance, Forget, Goto, nodeVars, agentVars, actionVars, RowTypes, WorkerTypes, ActionTypes, Same
<1>2. step'[w] \notin Working
  BY <1>1 DEF Rest, Working
<1>3. \A v \in Worker : step'[v] \in Working => Tracks(id[v], Reached(v), Missed(v))'
  BY <1>1, <1>2 DEF TracksInv, Tracks, Reached, Missed, Same
<1>4. Tracks(id[w], copy[w].deployed, copy[w].failed)
  BY <1>1 DEF TracksInv, Reached, Missed, Working
<1>5. Known(id[w])' = copy[w].deployed /\ KnownFailed(id[w])' = copy[w].failed
  <2>1. copy[w] # NoInst
    BY <1>0, <1>1, NoInstAssumption DEF Holding, Busy
  <2> QED BY <1>1, <2>1 DEF Known, KnownFailed
<1>6. \A i \in Inst \ {id[w]} : /\ Known(i)' = Known(i) /\ KnownFailed(i)' = KnownFailed(i)
                                /\ Unowned(i)' => Unowned(i)
  BY <1>1 DEF Known, KnownFailed, Unowned, Same
<1>7. Tracks(id[w], Known(id[w]), KnownFailed(id[w]))'
  BY <1>1, <1>4, <1>5 DEF Tracks
<1>8. \A i \in Inst : Unowned(i)' => Tracks(i, Known(i), KnownFailed(i))'
  <2> SUFFICES ASSUME NEW i \in Inst \ {id[w]}, Unowned(i)' PROVE Tracks(i, Known(i), KnownFailed(i))'
    BY <1>1, <1>7
  <2> QED BY <1>1, <1>6 DEF TracksInv, Tracks
<1> QED BY <1>3, <1>8 DEF TracksInv

(* The rest of the world: time passes, nodes come and go, agents act late. *)
LEMMA WorldTracks ==
  ASSUME TypeInv, OwnInv, TracksInv,
         \/ \E d \in Definition : CreateDefinition(d)
         \/ DeleteDefinition
         \/ \E n \in Node : NodeJoins(n) \/ NodeLeaves(n)
         \/ \E i \in Inst, c \in Call : LateAct(i, c)
         \/ TimePasses
         \/ UNCHANGED vars
  PROVE  TracksInv'
<1>0. RowTypes /\ WorkerTypes /\ ActionTypes
  BY TypeParts
<1>1. step' = step /\ id' = id /\ ok' = ok /\ bad' = bad
  BY DEF CreateDefinition, DeleteDefinition, NodeJoins, NodeLeaves, LateAct, TimePasses,
     vars, workVars, actionVars
<1> DEFINE Later(i, D, F) ==
             /\ applied'[i] \subseteq D \cup unanswered'[i]
             /\ unanswered'[i] \subseteq F
             /\ \A n \in Node : <<"deploy", n>> \in open'[i] => n \in unanswered'[i]
<1>2. ASSUME NEW i \in Inst, NEW D, NEW F, Tracks(i, D, F)
      PROVE  Later(i, D, F)
  <2>1. CASE applied' = applied /\ open' = open /\ unanswered' = unanswered
    BY <1>2, <2>1 DEF Tracks
  <2>2. ASSUME NEW n \in Node, NodeLeaves(n) PROVE Later(i, D, F)
    <3>1. /\ applied'[i] = applied[i] \ {n} /\ unanswered'[i] = unanswered[i] \ {n}
          /\ open'[i] = {c \in open[i] : c[2] # n}
      BY <2>2 DEF NodeLeaves
    <3> QED BY <1>2, <3>1 DEF Tracks
  <2>3. ASSUME NEW j \in Inst, NEW c \in Call, LateAct(j, c) PROVE Later(i, D, F)
    <3>1. /\ unanswered' = unanswered /\ open'[i] \subseteq open[i]
          /\ \/ applied'[i] \subseteq applied[i]
             \/ i = j /\ c[1] = "deploy" /\ applied'[i] = applied[i] \cup {c[2]}
      BY <1>0, <2>3 DEF LateAct, Act, RowTypes
    <3>2. c = <<c[1], c[2]>> /\ c[2] \in Node /\ c \in open[j]
      BY <2>3 DEF Call, LateAct
    <3>3. i = j /\ c[1] = "deploy" => c[2] \in unanswered[i]
      BY <1>2, <3>2 DEF Tracks
    <3> QED BY <1>2, <3>1, <3>3 DEF Tracks
  <2> QED BY <2>1, <2>2, <2>3 DEF CreateDefinition, DeleteDefinition, NodeJoins, TimePasses,
     vars, nodeVars, agentVars
<1>3. /\ \A i \in Inst : Known(i)' = Known(i) /\ KnownFailed(i)' = KnownFailed(i)
      /\ \A w \in Worker : copy'[w].deployed = copy[w].deployed /\ copy'[w].failed = copy[w].failed
  <2>1. CASE TimePasses
    <3>1. /\ \A i \in Inst : inst'[i] = Ripe(inst[i]) /\ inst[i] \in Row
          /\ \A w \in Worker : copy'[w] = Ripe(copy[w]) /\ copy[w] \in Row
      BY <1>0, <2>1 DEF TimePasses, RowTypes, WorkerTypes
    <3> QED BY <3>1, RipeParts DEF Known, KnownFailed
  <2>2. CASE inst' = inst /\ copy' = copy
    BY <2>2 DEF Known, KnownFailed
  <2> QED BY <2>1, <2>2 DEF CreateDefinition, DeleteDefinition, NodeJoins, NodeLeaves, LateAct,
     vars, rowVars, workVars
<1>4. \A w \in Worker : Reached(w)' = Reached(w) /\ Missed(w)' = Missed(w) /\ id[w] \in Inst
  BY <1>0, <1>1, <1>3 DEF Reached, Missed, ActionTypes
<1>5. \A i \in Inst : Unowned(i)' <=> Unowned(i)
  BY <1>1 DEF Unowned
<1>6. ASSUME NEW w \in Worker, step'[w] \in Working PROVE Tracks(id[w], Reached(w), Missed(w))'
  <2>1. Tracks(id[w], Reached(w), Missed(w)) /\ id[w] \in Inst
    BY <1>1, <1>4, <1>6 DEF TracksInv
  <2> QED BY <1>1, <1>2, <1>4, <2>1 DEF Tracks
<1>7. ASSUME NEW i \in Inst, Unowned(i)' PROVE Tracks(i, Known(i), KnownFailed(i))'
  <2>1. Tracks(i, Known(i), KnownFailed(i))
    BY <1>5, <1>7 DEF TracksInv
  <2> QED BY <1>2, <1>3, <2>1 DEF Tracks
<1> QED BY <1>6, <1>7 DEF TracksInv

LEMMA TracksStep ==
  ASSUME TypeInv, OwnInv, Alone, Steadfast, TracksInv, [Next]_vars
  PROVE  TracksInv'
<1>1. ASSUME NEW w \in Client, NEW i \in Inst,
             StartInstance(w, i) \/ ReadRunning(w, i, "advance") \/ ReadRunning(w, i, "cancel")
      PROVE  TracksInv'
  BY <1>1, NoRequests, StartTracks DEF Worker
<1>2. ASSUME NEW w \in Engine, EngineStep(w) PROVE TracksInv'
  <2>1. PICK i \in Inst : ListRunning(w) \/ EndPass(w) \/ Evaluate(w, i)
    BY <1>2, FsmAssumption DEF EngineStep
  <2> QED BY <2>1, LoopTracks
<1>3. ASSUME NEW w \in Worker, WorkerStep(w) PROVE TracksInv'
  <2>1. PICK i \in Inst : TRUE
    BY FsmAssumption
  <2> QED BY <1>3, <2>1, NoRequests, ActTracks, WriteTracks DEF WorkerStep
<1>4. /\ ~Restart
      /\ \A w \in Worker : ~Disconnect(w) /\ ~SelectFails(w) /\ ~WriteFails(w)
  BY DEF Restart, Disconnect, SelectFails, WriteFails, Steadfast
<1> QED BY <1>1, <1>2, <1>3, <1>4, WorldTracks DEF Next

(* Until the controller restarts, the context of an instance that nobody   *)
(* works on knows every node that runs what the instance deployed, be it   *)
(* as failed where the deploy was given up and took effect later: all but  *)
(* those are among the deployed nodes, which a rollback reaches.  With one *)
(* engine, no advance and cancel requests, no handler dropped and no       *)
(* failing write; the fleet may change and agents may act late.            *)
THEOREM ContextTracks ==
  ASSUME Alone, Steadfast
  PROVE  AlertSpec => []ContextTracksUntilRestart
<1> DEFINE Inv == restarts \in Nat /\ (restarts = 0 => TracksInv)
<1>1. AlertInit => Inv
  BY TracksInit DEF AlertInit
<1>2. TypeInv /\ OwnInv /\ Inv /\ [AlertNext]_allVars => Inv'
  <2> SUFFICES ASSUME TypeInv, OwnInv, Inv, [AlertNext]_allVars PROVE Inv'
    OBVIOUS
  <2>1. CASE RestartAll
    BY <2>1 DEF RestartAll
  <2>2. ASSUME [Next]_vars, restarts' = restarts PROVE Inv'
    BY <2>2, TracksStep
  <2>3. RestartAll \/ ([Next]_vars /\ restarts' = restarts)
    <3>1. CASE \E w \in Worker : ActAlert(w)
      BY <3>1 DEF ActAlert, Next, WorkerStep
    <3>2. CASE RestartAll \/ EngineOnly \/ DeliveryOnly \/ UNCHANGED allVars
      BY <3>2 DEF EngineOnly, DeliveryOnly, allVars, alertVars
    <3> QED BY <3>1, <3>2 DEF AlertNext
  <2> QED BY <2>1, <2>2, <2>3
<1>3. OwnInv /\ Inv => ContextTracksUntilRestart
  <2> SUFFICES ASSUME OwnInv, TracksInv, NEW i \in Inst, Settled(i)
               PROVE  /\ applied[i] \subseteq Known(i) \cup KnownFailed(i)
                      /\ applied[i] \ unanswered[i] \subseteq Known(i)
    BY DEF ContextTracksUntilRestart, ContextTracksDeployed, Known, KnownFailed
  <2>1. Unowned(i)
    BY DEF Settled, Unowned, Working
  <2> QED BY <2>1 DEF TracksInv, Tracks
<1> QED BY <1>1, <1>2, <1>3, AlertTypes, RowsAreOwned, PTL DEF AlertSpec
-----------------------------------------------------------------------------
(***************************************************************************)
(* Deliveries.  The two properties speak of what has been recorded; the    *)
(* invariant counts the attempts made, and says that the records name      *)
(* different ones of them, so that a task that tries again cannot record   *)
(* an attempt twice.                                                       *)
(***************************************************************************)
Recorded == storing \cup deliveries \cup unstored

Made(d) == IF task[d] \in {"none", "sending", "client_error"} THEN attempt[d] ELSE attempt[d] + 1

Sound(d) ==
  /\ attempt[d] <= MaxRetries /\ accepted[d] <= Made(d)
  /\ task[d] = "sleeping" => attempt[d] < MaxRetries
  /\ task[d] \in {"none", "client_error"} => attempt[d] = 0
  /\ alert[d] = NoAlert => task[d] = "none"
  /\ alert[d] # NoAlert =>
       /\ task[d] # "none" /\ alert[d].boot \in Nat /\ alert[d].boot <= restarts
       /\ task[d] = "lost" => alert[d].boot < restarts

(* Every attempt made since the last restart is recorded.                  *)
Complete(d) ==
  (alert[d] # NoAlert /\ alert[d].boot = restarts /\ task[d] # "client_error") =>
    \A k \in Nat : k < Made(d) => \E r \in Recorded : r.of = d /\ r.attempt = k

Truthful(r) ==
  /\ r.of \in Delivery /\ r.attempt \in Nat /\ r.attempt < Made(r.of)
  /\ r.success => /\ task[r.of] = "delivered" /\ r.attempt = attempt[r.of] /\ accepted[r.of] >= 1

DeliveryTypes ==
  /\ task \in [Delivery -> {"none", "sending", "sleeping"} \cup W!Ended]
  /\ attempt \in [Delivery -> Nat] /\ accepted \in [Delivery -> Nat]
  /\ DOMAIN alert = Delivery /\ restarts \in Nat

DeliveryInv ==
  /\ DeliveryTypes
  /\ \A d \in Delivery : Sound(d) /\ Complete(d)
  /\ \A r \in Recorded : Truthful(r)
  /\ \A r, s \in Recorded : r.of = s.of /\ r.attempt = s.attempt => r = s

LEMMA DeliveryInit == AlertInit => DeliveryInv
<1> SUFFICES ASSUME AlertInit PROVE DeliveryInv
  OBVIOUS
<1>1. DeliveryTypes /\ Recorded = {}
  BY DEF AlertInit, W!Init, DeliveryTypes, Recorded
<1>2. \A d \in Delivery : task[d] = "none" /\ attempt[d] = 0 /\ accepted[d] = 0 /\ alert[d] = NoAlert
  BY DEF AlertInit, W!Init
<1>3. \A d \in Delivery : Sound(d) /\ Complete(d)
  BY <1>2, AlertAssumption DEF Sound, Complete, Made
<1> QED BY <1>1, <1>3 DEF DeliveryInv

(* A step that concerns one delivery, of which it records nothing: the     *)
(* attempts made are as many as they were, or the delivery had no alert.   *)
LEMMA Unrecorded ==
  ASSUME DeliveryInv, DeliveryTypes', NEW d \in Delivery, Recorded' = Recorded, restarts' = restarts,
         \A e \in Delivery \ {d} : /\ task'[e] = task[e] /\ attempt'[e] = attempt[e]
                                   /\ accepted'[e] = accepted[e] /\ alert'[e] = alert[e],
         Sound(d)', Made(d)' = Made(d), task[d] # "delivered",
         (Made(d) = 0 /\ task[d] = "none") \/ (alert'[d] = alert[d] /\ task[d] # "client_error")
  PROVE  DeliveryInv'
<1>1. \A e \in Delivery \ {d} : Sound(e)' /\ Complete(e)' /\ Made(e)' = Made(e)
  BY DEF DeliveryInv, Sound, Complete, Made
<1>2. Complete(d)'
  BY DEF DeliveryInv, Complete
<1>3. \A r \in Recorded : Truthful(r)'
  BY <1>1 DEF DeliveryInv, Truthful
<1> QED BY <1>1, <1>2, <1>3 DEF DeliveryInv

(* An attempt of d ends and is recorded.                                   *)
LEMMA AttemptRecorded ==
  ASSUME DeliveryInv, NEW d \in Delivery, NEW success \in BOOLEAN, W!RecordDelivery(d, success),
         UNCHANGED <<attempt, alert, restarts>>,
         task[d] = "sending", task' = [task EXCEPT ![d] = task'[d]],
         accepted' = accepted \/ accepted' = [accepted EXCEPT ![d] = @ + 1],
         task'[d] = IF success THEN "delivered"
                    ELSE IF attempt[d] < MaxRetries THEN "sleeping" ELSE "exhausted",
         success => accepted'[d] = accepted[d] + 1
  PROVE  DeliveryInv'
<1>0. DeliveryTypes
  BY DEF DeliveryInv
<1>rec. PICK rec : rec = [of |-> d, attempt |-> attempt[d], success |-> success]
  OBVIOUS
<1>1. Recorded' = Recorded \cup {rec}
  BY <1>rec DEF W!RecordDelivery, Recorded
<1>2. rec.of = d /\ rec.attempt = attempt[d]
  BY <1>rec
<1>3. DeliveryTypes'
  BY <1>0 DEF DeliveryTypes, W!Ended
<1>4. \A e \in Delivery \ {d} : task'[e] = task[e] /\ accepted'[e] = accepted[e]
  BY <1>0 DEF DeliveryTypes
<1>5. attempt[d] \in Nat /\ accepted[d] \in Nat /\ accepted'[d] \in {accepted[d], accepted[d] + 1}
  BY <1>0 DEF DeliveryTypes
<1>6. Made(d) = attempt[d] /\ Made(d)' = attempt[d] + 1
  BY DEF Made
<1>7. \A e \in Delivery \ {d} : Sound(e)' /\ Complete(e)' /\ Made(e)' = Made(e)
  BY <1>1, <1>4 DEF DeliveryInv, Sound, Complete, Made
<1>8. Sound(d)'
  <2>1. Sound(d)
    BY DEF DeliveryInv
  <2> QED BY <1>5, <1>6, <2>1 DEF Sound
<1>9. Complete(d)'
  <2>1. Complete(d)
    BY DEF DeliveryInv
  <2>2. \A k \in Nat : k < attempt[d] + 1 => k < attempt[d] \/ k = attempt[d]
    BY <1>5
  <2> QED BY <1>1, <1>2, <1>5, <1>6, <2>1, <2>2 DEF Complete
<1>10. ASSUME NEW r \in Recorded PROVE Truthful(r)' /\ ~(r.of = d /\ r.attempt = attempt[d])
  <2>1. Truthful(r)
    BY DEF DeliveryInv
  <2> QED BY <1>4, <1>5, <1>6, <1>7, <2>1 DEF Truthful
<1>11. Truthful(rec)'
  <2>1. CASE success = TRUE
    <3>1. task'[d] = "delivered" /\ accepted'[d] >= 1 /\ attempt'[d] = attempt[d]
      BY <1>5, <2>1
    <3> QED BY <1>2, <1>5, <1>6, <3>1 DEF Truthful
  <2>2. CASE success = FALSE
    <3>1. rec.success = FALSE
      BY <1>rec, <2>2
    <3> QED BY <1>2, <1>5, <1>6, <3>1 DEF Truthful
  <2> QED BY <2>1, <2>2
<1>12. \A r, s \in Recorded' : r.of = s.of /\ r.attempt = s.attempt => r = s
  <2> SUFFICES ASSUME NEW r \in Recorded', NEW s \in Recorded', r.of = s.of, r.attempt = s.attempt
               PROVE  r = s
    OBVIOUS
  <2>1. CASE r \in Recorded /\ s \in Recorded
    BY <2>1 DEF DeliveryInv
  <2>2. CASE r = rec \/ s = rec
    BY <1>1, <1>2, <1>10, <2>2
  <2> QED BY <1>1, <2>1, <2>2
<1> QED BY <1>1, <1>3, <1>7, <1>8, <1>9, <1>10, <1>11, <1>12 DEF DeliveryInv

LEMMA TaskSteps ==
  ASSUME DeliveryInv, W!Next, UNCHANGED <<alert, restarts>>
  PROVE  DeliveryInv'
<1>0. DeliveryTypes
  BY DEF DeliveryInv
<1>1. ASSUME NEW d \in Delivery, W!Delivered(d) PROVE DeliveryInv'
  BY <1>0, <1>1, AttemptRecorded DEF W!Delivered, DeliveryTypes
<1>2. ASSUME NEW d \in Delivery, W!Refused(d) \/ W!Unanswered(d) PROVE DeliveryInv'
  BY <1>0, <1>2, AttemptRecorded DEF W!Refused, W!Unanswered, W!Failed, DeliveryTypes
<1>3. ASSUME NEW d \in Delivery, W!Retry(d) \/ W!ClientError(d) PROVE DeliveryInv'
  <2>1. /\ DeliveryTypes' /\ Recorded' = Recorded /\ accepted' = accepted
        /\ \A e \in Delivery \ {d} : task'[e] = task[e] /\ attempt'[e] = attempt[e]
    BY <1>0, <1>3 DEF W!Retry, W!ClientError, W!recordVars, W!Ended, DeliveryTypes, Recorded
  <2>2. /\ task[d] \in {"sending", "sleeping"} /\ attempt[d] \in Nat
        /\ \/ task[d] = "sleeping" /\ task'[d] = "sending" /\ attempt'[d] = attempt[d] + 1
           \/ task[d] = "sending" /\ task'[d] = "client_error" /\ attempt[d] = 0 /\ attempt'[d] = 0
    BY <1>0, <1>3 DEF W!Retry, W!ClientError, DeliveryTypes
  <2>3. Made(d)' = Made(d)
    BY <2>2 DEF Made
  <2>4. Sound(d)'
    <3>1. Sound(d)
      BY DEF DeliveryInv
    <3> QED BY <2>1, <2>2, <2>3, <3>1, AlertAssumption DEF Sound
  <2> QED BY <2>1, <2>2, <2>3, <2>4, Unrecorded
<1>4. ASSUME NEW r \in storing, W!StoreDelivery(r) PROVE DeliveryInv'
  <2>1. Recorded' = Recorded /\ UNCHANGED <<task, attempt, accepted>>
    BY <1>4 DEF W!StoreDelivery, Recorded
  <2> QED BY <2>1 DEF DeliveryInv, DeliveryTypes, Sound, Complete, Truthful, Made
<1> QED BY <1>1, <1>2, <1>3, <1>4 DEF W!Next, W!TaskStep

LEMMA SpawnStep ==
  ASSUME TypeInv, DeliveryInv, NEW w \in Worker, ActAlert(w)
  PROVE  DeliveryInv'
<1>0. DeliveryTypes /\ restarts' = restarts
  BY DEF DeliveryInv, ActAlert
<1> DEFINE a == [inst |-> id[w], entry |-> Len(copy[w].history), boot |-> restarts]
<1>1. PICK d \in Delivery : alert[d] = NoAlert /\ alert' = [alert EXCEPT ![d] = a] /\ W!Spawn(d)
  BY DEF ActAlert, ExecuteAlert
<1>2. a \in [inst: Inst, entry: Nat, boot: Nat]
  <2>1. copy[w] \in Instance /\ id[w] \in Inst
    BY ActionParts DEF ActAlert, Alerts, TypeInv, TypeOK
  <2>2. Len(copy[w].history) \in Nat
    BY <2>1, RowParts
  <2> QED BY <1>0, <2>1, <2>2 DEF DeliveryTypes
<1>3. a # NoAlert /\ a.boot = restarts
  BY <1>2, AlertAssumption
<1> HIDE DEF a
<1>4. /\ DeliveryTypes' /\ Recorded' = Recorded /\ accepted' = accepted
      /\ task'[d] = "sending" /\ attempt'[d] = 0 /\ alert'[d] = a
      /\ \A e \in Delivery \ {d} : task'[e] = task[e] /\ attempt'[e] = attempt[e] /\ alert'[e] = alert[e]
  BY <1>0, <1>1 DEF W!Spawn, W!recordVars, DeliveryTypes, Recorded
<1>5. Sound(d) /\ task[d] = "none" /\ attempt[d] = 0
  BY <1>1 DEF DeliveryInv, Sound
<1>6. Made(d) = 0 /\ Made(d)' = 0
  BY <1>4, <1>5 DEF Made
<1>7. Sound(d)'
  BY <1>0, <1>3, <1>4, <1>5, <1>6, AlertAssumption DEF Sound, DeliveryTypes
<1> QED BY <1>0, <1>4, <1>5, <1>6, <1>7, Unrecorded

LEMMA RestartStep ==
  ASSUME DeliveryInv, RestartAll
  PROVE  DeliveryInv'
<1>0. DeliveryTypes
  BY DEF DeliveryInv
<1>1. /\ Recorded' \subseteq Recorded /\ restarts' = restarts + 1 /\ restarts \in Nat
      /\ attempt' = attempt /\ accepted' = accepted /\ alert' = alert
      /\ \A d \in Delivery : task'[d] = IF task[d] \in {"sending", "sleeping"} THEN "lost" ELSE task[d]
  BY <1>0 DEF RestartAll, W!Lost, Recorded, DeliveryTypes
<1>2. DeliveryTypes'
  BY <1>0 DEF RestartAll, W!Lost, W!Ended, DeliveryTypes
<1>3. ASSUME NEW d \in Delivery PROVE Sound(d)' /\ Complete(d)' /\ Made(d) <= Made(d)'
  <2>1. Sound(d) /\ attempt[d] \in Nat /\ accepted[d] \in Nat
    BY <1>0 DEF DeliveryInv, DeliveryTypes
  <2>2. Made(d) <= Made(d)' /\ Made(d) \in Nat /\ Made(d)' \in Nat
    BY <1>1, <2>1 DEF Made
  <2>3. Sound(d)'
    BY <1>1, <2>1, <2>2 DEF Sound
  <2>4. Complete(d)'
    BY <1>1, <2>1 DEF Sound, Complete
  <2> QED BY <2>2, <2>3, <2>4
<1>4. ASSUME NEW r \in Recorded PROVE Truthful(r)'
  <2>1. Truthful(r)
    BY DEF DeliveryInv
  <2>2. Made(r.of) \in Nat /\ Made(r.of)' \in Nat /\ Made(r.of) <= Made(r.of)'
    BY <1>0, <1>2, <1>3, <2>1 DEF Truthful, Made, DeliveryTypes
  <2> QED BY <1>1, <2>1, <2>2 DEF Truthful
<1> QED BY <1>1, <1>2, <1>3, <1>4 DEF DeliveryInv

(* In every state of a delivery its attempts, the answers of the receiver  *)
(* and its records, stored, on their way or lost, agree: each record is of *)
(* another attempt, and each attempt since the last restart has one (the   *)
(* loop of deliver and the tasks it spawns for its records).               *)
THEOREM DeliveriesAreSound == AlertSpec => []DeliveryInv
<1>1. TypeInv /\ DeliveryInv /\ [AlertNext]_allVars => DeliveryInv'
  <2> SUFFICES ASSUME TypeInv, DeliveryInv, [AlertNext]_allVars PROVE DeliveryInv'
    OBVIOUS
  <2>1. CASE EngineOnly \/ UNCHANGED allVars
    <3>1. UNCHANGED <<task, attempt, accepted, storing, deliveries, unstored, alert, restarts>>
      BY <2>1 DEF EngineOnly, allVars, alertVars, webhookVars
    <3> QED BY <3>1 DEF DeliveryInv, DeliveryTypes, Sound, Complete, Truthful, Made, Recorded
  <2>2. CASE DeliveryOnly
    BY <2>2, TaskSteps DEF DeliveryOnly
  <2> QED BY <2>1, <2>2, SpawnStep, RestartStep DEF AlertNext
<1> QED BY <1>1, DeliveryInit, AlertTypes, PTL DEF AlertSpec

(* A success is recorded at most once, for the last attempt made, and the  *)
(* receiver did act on it, whatever timeouts, retries and restarts.        *)
THEOREM SuccessStaysLast == AlertSpec => []SuccessIsLast
<1>1. DeliveryInv => SuccessIsLast
  <2> SUFFICES ASSUME DeliveryInv, NEW d \in Delivery, NEW r \in Records(d), r.success
               PROVE  /\ task[d] = "delivered" /\ r.attempt = attempt[d]
                      /\ accepted[d] \in 1 .. attempt[d] + 1
    BY DEF SuccessIsLast
  <2>1. r \in Recorded /\ r.of = d
    BY DEF Records, Recorded
  <2>2. Truthful(r) /\ Sound(d) /\ attempt[d] \in Nat /\ accepted[d] \in Nat
    BY <2>1 DEF DeliveryInv, DeliveryTypes
  <2> QED BY <2>1, <2>2 DEF Truthful, Sound, Made
<1> QED BY <1>1, DeliveriesAreSound, PTL

(* Until the controller restarts every attempt that ended has exactly one  *)
(* record, stored, about to be, or lost as store_webhook_delivery failed,  *)
(* and there are at most MaxRetries + 1 of them.                           *)
THEOREM AttemptsStayAccounted == AlertSpec => []AttemptsAccounted
<1>1. DeliveryInv => AttemptsAccounted
  <2> SUFFICES ASSUME DeliveryInv, NEW d \in Delivery,
                      alert[d] # NoAlert, alert[d].boot = restarts, task[d] # "client_error"
               PROVE  LET made == IF task[d] = "sending" THEN attempt[d] ELSE attempt[d] + 1
                          records == Records(d) \cup {r \in unstored : r.of = d}
                      IN /\ {r.attempt : r \in records} = {k \in 0 .. attempt[d] : k < made}
                         /\ Cardinality(records) = made
                         /\ made <= MaxRetries + 1
    BY DEF AttemptsAccounted
  <2> DEFINE made == IF task[d] = "sending" THEN attempt[d] ELSE attempt[d] + 1
             R == Records(d) \cup {r \in unstored : r.of = d}
  <2>0. R = {r \in Recorded : r.of = d}
    BY DEF Records, Recorded
  <2>1. Sound(d) /\ Complete(d) /\ attempt[d] \in Nat
    BY DEF DeliveryInv, DeliveryTypes
  <2>2. Made(d) = made /\ made \in Nat /\ made <= attempt[d] + 1
    BY <2>1 DEF Sound, Made
  <2>3. made <= MaxRetries + 1
    BY <2>1, <2>2, AlertAssumption DEF Sound
  <2> HIDE DEF made, R
  <2>4. \A r \in R : r \in Recorded /\ r.attempt \in Nat /\ r.attempt < made
    BY <2>0, <2>2 DEF DeliveryInv, Truthful
  <2>5. \A k \in Nat : k < made => \E r \in R : r.attempt = k
    BY <2>0, <2>1, <2>2 DEF Complete
  <2>6. {r.attempt : r \in R} = {k \in 0 .. attempt[d] : k < made}
    BY <2>1, <2>2, <2>4, <2>5
  <2>7. Cardinality(R) = made
    <3> DEFINE S == 0 .. made - 1
               f == [k \in S |-> CHOOSE r \in R : r.attempt = k]
    <3>1. \A k \in S : f[k] \in R /\ f[k].attempt = k
      BY <2>2, <2>5
    <3>2. \A r \in R : r.attempt \in S
      BY <2>2, <2>4
    <3>3. \A r, s \in R : r.attempt = s.attempt => r = s
      BY <2>0, <2>4 DEF DeliveryInv
    <3>4. f \in [S -> R]
      BY <3>1
    <3> HIDE DEF f, S
    <3>5. f \in Bijection(S, R)
      BY <3>1, <3>2, <3>3, <3>4 DEF Bijection, Injection, Surjection, IsInjective
    <3>6. 0 \in Int /\ made - 1 \in Int
      BY <2>2
    <3>7. IsFiniteSet(0 .. made - 1)
          /\ Cardinality(0 .. made - 1) = IF 0 > made - 1 THEN 0 ELSE made - 1 - 0 + 1
      BY <3>6, FS_Interval, Zenon
    <3>8. IsFiniteSet(S) /\ Cardinality(S) = made
      BY <2>2, <3>7 DEF S
    <3>9. Cardinality(R) = Cardinality(S)
      BY <3>5, <3>8, FS_Bijection DEF ExistsBijection
    <3> QED BY <3>8, <3>9
  <2> QED BY <2>3, <2>6, <2>7 DEF made, R
<1> QED BY <1>1, DeliveriesAreSound, PTL
-----------------------------------------------------------------------------
(***************************************************************************)
(* Alerts.  Between two restarts an entry of a history is alerted once:    *)
(* the worker that has alerted an entry writes a history that has it, and  *)
(* whoever takes the instance over goes on from there.                     *)
(***************************************************************************)
(* A delivery about instance i that was started since the last restart.    *)
Current(d, i) == alert[d] # NoAlert /\ alert[d].inst = i /\ alert[d].boot = restarts

(* The alerts of instance i are about the first n entries.                 *)
Within(i, n) == \A d \in Delivery : Current(d, i) => alert[d].entry <= n

(* No two alerts are about the same entry and of the same boot.            *)
AlertsDiffer ==
  /\ restarts \in Nat /\ DOMAIN alert = Delivery
  /\ \A d \in Delivery : alert[d] # NoAlert =>
       alert[d] \in [inst: Inst, entry: Nat, boot: Nat] /\ alert[d].boot <= restarts
  /\ \A c, d \in Delivery : (alert[c] # NoAlert /\ alert[c] = alert[d]) => c = d

(* An instance that worker w works on, and one that nobody works on.       *)
WorkerOnce(w) ==
  /\ step[w] \in Working => Within(id[w], Len(copy[w].history))
  /\ step[w] = "act" => Within(id[w], Len(copy[w].history) - 1)

RowOnce(i) ==
  Unowned(i) => IF inst[i] = NoInst THEN \A d \in Delivery : ~Current(d, i)
                ELSE Within(i, Len(inst[i].history))

OnceInv ==
  /\ AlertsDiffer
  /\ \A w \in Worker : WorkerOnce(w)
  /\ \A i \in Inst : RowOnce(i)

LEMMA OnceInit == AlertInit => OnceInv
<1> SUFFICES ASSUME AlertInit PROVE OnceInv
  OBVIOUS
<1>1. restarts = 0 /\ DOMAIN alert = Delivery /\ \A d \in Delivery : alert[d] = NoAlert
  BY DEF AlertInit
<1>2. \A w \in Worker : step[w] = "idle"
  BY DEF AlertInit, Init
<1> QED BY <1>1, <1>2 DEF OnceInv, AlertsDiffer, WorkerOnce, RowOnce, Working, Within, Current

(* No alert is started, and one worker moves.                              *)
LEMMA OneMoves ==
  ASSUME TypeInv, OnceInv, UNCHANGED <<alert, restarts>>, inst' = inst, NEW w \in Worker,
         \A v \in Worker \ {w} : step'[v] = step[v] /\ id'[v] = id[v] /\ copy'[v] = copy[v],
         WorkerOnce(w)', step[w] \in Working => step'[w] \in Working /\ id'[w] = id[w]
  PROVE  OnceInv'
<1>1. AlertsDiffer' /\ \A v \in Worker \ {w} : WorkerOnce(v)'
  BY DEF OnceInv, AlertsDiffer, WorkerOnce, Within, Current
<1>2. \A i \in Inst : RowOnce(i)'
  <2>1. \A i \in Inst : Unowned(i)' => Unowned(i)
    BY DEF Unowned
  <2> QED BY <2>1 DEF OnceInv, RowOnce, Within, Current
<1> QED BY <1>1, <1>2 DEF OnceInv

LEMMA StartOnce ==
  ASSUME TypeInv, OnceInv, UNCHANGED <<alert, restarts>>, NEW w \in Client, NEW i \in Inst, StartInstance(w, i)
  PROVE  OnceInv'
<1>0. RowTypes /\ WorkerTypes /\ ActionTypes /\ w \in Worker
  BY TypeParts DEF Worker
<1>1. /\ step' = [step EXCEPT ![w] = "act"] /\ id' = [id EXCEPT ![w] = i] /\ step[w] = "idle"
      /\ inst' = inst
      /\ \E c : copy' = [copy EXCEPT ![w] = c]
  BY DEF StartInstance, Enter, Goto, rowVars
<1>2. inst[i] = NoInst /\ Unowned(i)
  BY DEF StartInstance, Unowned, Working
<1>3. id'[w] = i
  BY <1>0, <1>1 DEF ActionTypes
<1>4. \A v \in Worker \ {w} : step'[v] = step[v] /\ id'[v] = id[v] /\ copy'[v] = copy[v]
  BY <1>0, <1>1 DEF WorkerTypes, ActionTypes
<1>5. \A d \in Delivery : ~Current(d, i)
  BY <1>2 DEF OnceInv, RowOnce
<1>6. WorkerOnce(w)'
  BY <1>3, <1>5 DEF WorkerOnce, Within, Current
<1>7. step[w] \notin Working
  BY <1>1 DEF Working
<1> QED BY <1>0, <1>1, <1>4, <1>6, <1>7, OneMoves

LEMMA LoopOnce ==
  ASSUME TypeInv, OwnInv, Alone, OnceInv, UNCHANGED <<alert, restarts>>, NEW w \in Engine, NEW i \in Inst,
         ListRunning(w) \/ EndPass(w) \/ Evaluate(w, i)
  PROVE  OnceInv'
<1>0. RowTypes /\ WorkerTypes /\ ActionTypes /\ w \in Worker /\ w \notin Client
  BY TypeParts, FsmAssumption DEF Worker
<1>1. inst' = inst /\ step[w] \in {"idle", "pass"} /\ step[w] \notin Working
  BY DEF ListRunning, EndPass, Evaluate, rowVars, Working
<1>2. CASE ListRunning(w) \/ EndPass(w)
  <2>1. step'[w] \in {"idle", "pass"} /\ id' = id /\ copy' = copy /\ \A v \in Worker \ {w} : step'[v] = step[v]
    BY <1>0, <1>2 DEF ListRunning, EndPass, Goto, WorkerTypes
  <2>2. WorkerOnce(w)'
    BY <2>1 DEF WorkerOnce, Working
  <2> QED BY <1>0, <1>1, <2>1, <2>2, OneMoves
<1>3. CASE Evaluate(w, i)
  <2> DEFINE r == todo[w][i]
  <2>1. id'[w] = i /\ r \in Instance /\ Listed(w, i)
    BY <1>0, <1>3 DEF Evaluate, WorkerTypes, ActionTypes, Holding, OwnInv, Owns
  <2>2. \A v \in Worker \ {w} : step'[v] = step[v] /\ id'[v] = id[v] /\ copy'[v] = copy[v]
    BY <1>0, <1>3 DEF Evaluate, Ready, Enter, Goto, WorkerTypes, ActionTypes
  <2>3. Unowned(i)
    <3> SUFFICES ASSUME NEW v \in Worker, step[v] \in Working PROVE id[v] # i
      BY DEF Unowned
    <3>1. v \in Client
      BY <1>1, Sides DEF Alone
    <3> QED BY <2>1, <3>1 DEF OwnInv, Owns, Owned, Listed
  <2>4. Within(i, Len(r.history)) /\ Len(r.history) \in Nat
    <3>1. Within(i, Len(inst[i].history)) /\ r.history = inst[i].history
      BY <2>1, <2>3 DEF OnceInv, RowOnce, Listed
    <3> QED BY <2>1, <3>1, RowParts
  <2>5. \A s : /\ Len(Moved(r, s).history) = Len(r.history) + 1
               /\ [r EXCEPT !.status = s].history = r.history
    <3>1. r.history \in Seq(State \cup {"cancelled"})
      BY <2>1, RowParts
    <3>2. \A s : Moved(r, s).history = Append(r.history, s) /\ [r EXCEPT !.status = s].history = r.history
      BY <2>1 DEF Moved, Instance
    <3> QED BY <3>1, <3>2
  <2>6. \/ step'[w] = "pass"
        \/ step'[w] = "write" /\ copy'[w].history = r.history
        \/ step'[w] = "act" /\ Len(copy'[w].history) = Len(r.history) + 1
    <3>1. \/ step' = step
          \/ \E c : c.history = r.history /\ Ready(w, c)
          \/ \E c : Len(c.history) = Len(r.history) + 1 /\ Enter(w, c, defn)
      BY <1>3, <2>5 DEF Evaluate
    <3>2. step[w] = "pass"
      BY <1>3 DEF Evaluate
    <3> QED BY <1>0, <3>1, <3>2 DEF Ready, Enter, Goto, WorkerTypes
  <2>7. WorkerOnce(w)'
    <3>1. \A n \in Nat : n = Len(r.history) \/ n = Len(r.history) + 1 => Within(i, n)
      BY <2>4 DEF OnceInv, AlertsDiffer, Within, Current
    <3>2. \A n : Within(i, n)' <=> Within(i, n)
      BY DEF Within, Current
    <3>3. CASE step'[w] = "act" /\ Len(copy'[w].history) = Len(r.history) + 1
      <4>1. Len(copy'[w].history) - 1 = Len(r.history) /\ Len(copy'[w].history) \in Nat
        BY <2>4, <3>3
      <4> QED BY <2>1, <2>4, <3>1, <3>2, <3>3, <4>1 DEF WorkerOnce, Within, Current
    <3>4. CASE step'[w] = "write" /\ copy'[w].history = r.history
      BY <2>1, <2>4, <3>2, <3>4 DEF WorkerOnce, Within, Current
    <3>5. CASE step'[w] = "pass"
      BY <3>5 DEF WorkerOnce, Working
    <3> QED BY <2>6, <3>3, <3>4, <3>5
  <2> QED BY <1>0, <1>1, <2>1, <2>2, <2>7, OneMoves
<1> QED BY <1>2, <1>3

(* A worker goes on with its instance, without an alert.                   *)
LEMMA ActOnce ==
  ASSUME TypeInv, OwnInv, OnceInv, UNCHANGED <<alert, restarts>>, NEW w \in Worker,
         \/ ActNothing(w) \/ SelectNodes(w) \/ SelectFails(w) \/ SelectRollback(w)
         \/ \E n \in Node : DoNode(w, n)
         \/ EndAction(w)
  PROVE  OnceInv'
<1>1. /\ inst' = inst /\ id' = id /\ step[w] \in Working /\ step'[w] \in Working
      /\ copy'[w].history = copy[w].history
      /\ \A v \in Worker \ {w} : step'[v] = step[v] /\ copy'[v] = copy[v]
  BY ActOwns
<1>2. step'[w] # "act"
  <2>1. RowTypes /\ WorkerTypes
    BY TypeParts
  <2> QED BY <2>1 DEF ActNothing, SelectNodes, SelectFails, SelectRollback, DoNode, EndAction, Ready, Goto,
     WorkerTypes
<1>3. WorkerOnce(w)'
  BY <1>1, <1>2 DEF OnceInv, WorkerOnce, Within, Current
<1> QED BY <1>1, <1>3, OneMoves

(* The alert is about an entry that no alert since the restart is about.   *)
LEMMA AlertOnce ==
  ASSUME TypeInv, OwnInv, Alone, OnceInv, NEW w \in Worker, ActAlert(w)
  PROVE  OnceInv'
<1>0. WorkerTypes /\ ActionTypes /\ AlertsDiffer /\ step[w] = "act" /\ restarts' = restarts
  BY TypeParts DEF OnceInv, ActAlert, ActNothing
<1>1. /\ inst' = inst /\ id' = id /\ copy'[w].history = copy[w].history
      /\ \A v \in Worker \ {w} : step'[v] = step[v] /\ copy'[v] = copy[v]
  BY ActOwns DEF ActAlert
<1>2. step' = [step EXCEPT ![w] = "write"] /\ step'[w] = "write"
  BY <1>0 DEF ActAlert, ActNothing, Ready, Goto, WorkerTypes
<1>3. copy[w] \in Instance /\ id[w] \in Inst
  BY <1>0, ActionParts DEF ActionTypes
<1>4. PICK n \in Nat : n = Len(copy[w].history)
  BY <1>3, RowParts
<1>5. PICK a : a = [inst |-> id[w], entry |-> n, boot |-> restarts]
  OBVIOUS
<1>6. PICK d \in Delivery : alert[d] = NoAlert /\ alert' = [alert EXCEPT ![d] = a]
  BY <1>4, <1>5 DEF ActAlert, ExecuteAlert
<1>7. /\ a \in [inst: Inst, entry: Nat, boot: Nat] /\ a.inst = id[w] /\ a.entry = n /\ a.boot = restarts
      /\ a # NoAlert
  BY <1>0, <1>3, <1>5, AlertAssumption DEF AlertsDiffer
<1>8. alert'[d] = a /\ \A e \in Delivery \ {d} : alert'[e] = alert[e]
  BY <1>0, <1>6 DEF AlertsDiffer
<1>9. Within(id[w], n - 1) /\ Within(id[w], n)
  BY <1>0, <1>4 DEF OnceInv, WorkerOnce, Working
<1>10. \A e \in Delivery : alert[e] # a
  <2> SUFFICES ASSUME NEW e \in Delivery, alert[e] = a PROVE FALSE
    OBVIOUS
  <2>1. Current(e, id[w]) /\ alert[e].entry = n
    BY <1>7 DEF Current
  <2> QED BY <1>9, <2>1 DEF Within
<1>11. AlertsDiffer'
  BY <1>0, <1>6, <1>7, <1>8, <1>10 DEF AlertsDiffer
<1>12. \A e \in Delivery, i \in Inst : Current(e, i)' => Current(e, i) \/ (e = d /\ i = id[w])
  BY <1>0, <1>7, <1>8 DEF Current
<1>13. WorkerOnce(w)'
  <2>1. \A e \in Delivery : Current(e, id[w])' => alert'[e].entry <= n
    BY <1>1, <1>3, <1>7, <1>8, <1>9, <1>12 DEF Within
  <2> QED BY <1>1, <1>2, <1>4, <2>1 DEF WorkerOnce, Within
<1>14. ASSUME NEW v \in Worker \ {w} PROVE WorkerOnce(v)'
  <2>1. step[v] \in Working => id[v] # id[w] /\ id[v] \in Inst
    BY <1>0, NeverShared DEF ActionTypes, Working
  <2>2. step[v] \in Working => \A e \in Delivery : Current(e, id[v])' => Current(e, id[v]) /\ e # d
    BY <1>1, <1>6, <1>12, <2>1 DEF Current
  <2>3. WorkerOnce(v) /\ step'[v] = step[v] /\ copy'[v] = copy[v] /\ id' = id
    BY <1>1 DEF OnceInv
  <2>4. step'[v] \in Working => Within(id[v], Len(copy[v].history))'
    BY <1>8, <2>2, <2>3 DEF WorkerOnce, Within
  <2>5. step'[v] = "act" => Within(id[v], Len(copy[v].history) - 1)'
    BY <1>8, <2>2, <2>3 DEF WorkerOnce, Within, Working
  <2> QED BY <2>4, <2>5 DEF WorkerOnce
<1>15. ASSUME NEW i \in Inst, Unowned(i)'
       PROVE  IF inst'[i] = NoInst THEN \A e \in Delivery : ~Current(e, i)' ELSE Within(i, Len(inst[i].history))'
  <2>1. i # id[w] /\ Unowned(i)
    BY <1>0, <1>1, <1>2, <1>15 DEF Unowned, Working
  <2>2. \A e \in Delivery : Current(e, i)' => Current(e, i) /\ e # d
    BY <1>6, <1>12, <2>1 DEF Current
  <2>3. IF inst[i] = NoInst THEN \A e \in Delivery : ~Current(e, i) ELSE Within(i, Len(inst[i].history))
    BY <2>1 DEF OnceInv, RowOnce
  <2> QED BY <1>1, <1>8, <2>2, <2>3 DEF Within
<1>16. \A i \in Inst : RowOnce(i)'
  BY <1>15 DEF RowOnce
<1> QED BY <1>11, <1>13, <1>14, <1>16 DEF OnceInv

LEMMA WriteOnce ==
  ASSUME TypeInv, OwnInv, OnceInv, UNCHANGED <<alert, restarts>>, NEW w \in Worker, WriteInstance(w)
  PROVE  OnceInv'
<1>0. RowTypes /\ WorkerTypes /\ ActionTypes /\ Holding(w)
  BY TypeParts DEF WorkerTypes
<1>1. /\ step[w] = "write" /\ step'[w] = Rest(w) /\ id' = id
      /\ \A v \in Worker \ {w} : step'[v] = step[v] /\ copy'[v] = copy[v]
      /\ \A i \in Inst \ {id[w]} : inst'[i] = inst[i]
      /\ inst'[id[w]] = copy[w] /\ id[w] \in Inst
  BY <1>0 DEF WriteInstance, Forget, Goto, RowTypes, WorkerTypes, ActionTypes
<1>2. step'[w] \notin Working /\ step'[w] # "act"
  BY <1>1 DEF Rest, Working
<1>3. AlertsDiffer' /\ \A v \in Worker : WorkerOnce(v)'
  BY <1>1, <1>2 DEF OnceInv, AlertsDiffer, WorkerOnce, Within, Current
<1>4. RowOnce(id[w])'
  <2>1. copy[w] # NoInst
    BY <1>0, <1>1, NoInstAssumption DEF Holding, Busy
  <2>2. Within(id[w], Len(copy[w].history))
    BY <1>1 DEF OnceInv, WorkerOnce, Working
  <2> QED BY <1>1, <2>1, <2>2 DEF RowOnce, Within, Current
<1>5. \A i \in Inst \ {id[w]} : RowOnce(i)'
  <2>1. \A i \in Inst \ {id[w]} : Unowned(i)' => Unowned(i)
    BY <1>1 DEF Unowned
  <2> SUFFICES ASSUME NEW i \in Inst \ {id[w]}, Unowned(i)'
               PROVE  IF inst'[i] = NoInst THEN \A e \in Delivery : ~Current(e, i)'
                      ELSE Within(i, Len(inst[i].history))'
    BY DEF RowOnce
  <2>2. IF inst[i] = NoInst THEN \A e \in Delivery : ~Current(e, i) ELSE Within(i, Len(inst[i].history))
    BY <2>1 DEF OnceInv, RowOnce
  <2>3. inst'[i] = inst[i] /\ alert' = alert /\ \A e \in Delivery : Current(e, i)' <=> Current(e, i)
    BY <1>1 DEF Current
  <2> QED BY <2>2, <2>3 DEF Within
<1> QED BY <1>1, <1>3, <1>4, <1>5 DEF OnceInv

LEMMA WorldOnce ==
  ASSUME TypeInv, OnceInv, UNCHANGED <<alert, restarts>>,
         \/ \E d \in Definition : CreateDefinition(d)
         \/ DeleteDefinition
         \/ \E n \in Node : NodeJoins(n) \/ NodeLeaves(n)
         \/ \E i \in Inst, c \in Call : LateAct(i, c)
         \/ TimePasses
         \/ UNCHANGED vars
  PROVE  OnceInv'
<1>0. RowTypes /\ WorkerTypes
  BY TypeParts
<1>1. /\ step' = step /\ id' = id
      /\ \A i \in Inst : (inst'[i] = NoInst <=> inst[i] = NoInst) /\ inst'[i].history = inst[i].history
      /\ \A w \in Worker : copy'[w].history = copy[w].history
  <2>1. CASE TimePasses
    <3>1. /\ \A i \in Inst : inst'[i] = Ripe(inst[i]) /\ inst[i] \in Row
          /\ \A w \in Worker : copy'[w] = Ripe(copy[w]) /\ copy[w] \in Row
          /\ step' = step /\ id' = id
      BY <1>0, <2>1 DEF TimePasses, RowTypes, WorkerTypes
    <3> QED BY <3>1, RipeParts
  <2>2. CASE inst' = inst /\ copy' = copy /\ step' = step /\ id' = id
    BY <2>2
  <2> QED BY <2>1, <2>2 DEF CreateDefinition, DeleteDefinition, NodeJoins, NodeLeaves, LateAct,
     vars, rowVars, nodeVars, agentVars, workVars
<1>2. AlertsDiffer' /\ \A w \in Worker : WorkerOnce(w)'
  BY <1>1 DEF OnceInv, AlertsDiffer, WorkerOnce, Within, Current
<1>3. \A i \in Inst : RowOnce(i)'
  <2>1. \A i \in Inst : Unowned(i)' <=> Unowned(i)
    BY <1>1 DEF Unowned
  <2> QED BY <1>1, <2>1 DEF OnceInv, RowOnce, Within, Current
<1> QED BY <1>2, <1>3 DEF OnceInv

(* After a restart no alert is current.                                    *)
LEMMA RestartOnce ==
  ASSUME OnceInv, RestartAll
  PROVE  OnceInv'
<1>1. alert' = alert /\ restarts' = restarts + 1 /\ AlertsDiffer
  BY DEF RestartAll, OnceInv
<1>2. \A d \in Delivery : alert[d] # NoAlert => alert[d].boot \in Nat
  BY <1>1 DEF AlertsDiffer
<1>3. \A d \in Delivery : \A i : ~Current(d, i)'
  BY <1>1, <1>2 DEF AlertsDiffer, Current
<1>4. AlertsDiffer'
  BY <1>1, <1>2 DEF AlertsDiffer
<1>5. (\A w \in Worker : WorkerOnce(w)') /\ \A i \in Inst : RowOnce(i)'
  BY <1>3 DEF WorkerOnce, RowOnce, Within
<1> QED BY <1>4, <1>5 DEF OnceInv

LEMMA OnceStep ==
  ASSUME TypeInv, OwnInv, Alone, Steadfast, OnceInv, [AlertNext]_allVars
  PROVE  OnceInv'
<1>1. ASSUME [Next]_vars, UNCHANGED <<alert, restarts>> PROVE OnceInv'
  <2>1. ASSUME NEW w \in Client, NEW i \in Inst,
               StartInstance(w, i) \/ ReadRunning(w, i, "advance") \/ ReadRunning(w, i, "cancel")
        PROVE  OnceInv'
    BY <1>1, <2>1, NoRequests, StartOnce DEF Worker
  <2>2. ASSUME NEW w \in Engine, EngineStep(w) PROVE OnceInv'
    <3>1. PICK i \in Inst : ListRunning(w) \/ EndPass(w) \/ Evaluate(w, i)
      BY <2>2, FsmAssumption DEF EngineStep
    <3> QED BY <1>1, <3>1, LoopOnce
  <2>3. ASSUME NEW w \in Worker, WorkerStep(w) PROVE OnceInv'
    <3>1. PICK i \in Inst : TRUE
      BY FsmAssumption
    <3> QED BY <1>1, <2>3, <3>1, NoRequests, ActOnce, WriteOnce DEF WorkerStep
  <2>4. /\ ~Restart
        /\ \A w \in Worker : ~Disconnect(w) /\ ~SelectFails(w) /\ ~WriteFails(w)
    BY DEF Restart, Disconnect, SelectFails, WriteFails, Steadfast
  <2> QED BY <1>1, <2>1, <2>2, <2>3, <2>4, WorldOnce DEF Next
<1>2. CASE EngineOnly \/ DeliveryOnly \/ UNCHANGED allVars
  <2>1. [Next]_vars /\ UNCHANGED <<alert, restarts>>
    BY <1>2 DEF EngineOnly, DeliveryOnly, allVars, alertVars
  <2> QED BY <1>1, <2>1
<1> QED BY <1>2, AlertOnce, RestartOnce DEF AlertNext

(* The alerts sent about an instance since the last restart are each about *)
(* another entry, and none is about an entry later than what its worker,   *)
(* or its row if nobody works on it, has in the history (execute_alert).   *)
THEOREM AlertsAreOnce ==
  ASSUME Alone, Steadfast
  PROVE  AlertSpec => []OnceInv
<1>1. TypeInv /\ OwnInv /\ OnceInv /\ [AlertNext]_allVars => OnceInv'
  BY OnceStep
<1> QED BY <1>1, OnceInit, AlertTypes, RowsAreOwned, PTL DEF AlertSpec

(* Entering a state alerts once, and once more for every restart: with one *)
(* engine, no advance and cancel requests, no handler dropped and no       *)
(* failing write; definitions and the fleet may change.                    *)
THEOREM EntriesAlertOnce ==
  ASSUME Alone, Steadfast
  PROVE  AlertSpec => []AlertedOnce
<1>1. OnceInv => AlertedOnce
  <2> SUFFICES ASSUME OnceInv, NEW c \in Delivery, alert[c] # NoAlert
               PROVE  Cardinality({d \in Delivery : /\ alert[d] # NoAlert
                                                    /\ alert[d].inst = alert[c].inst
                                                    /\ alert[d].entry = alert[c].entry}) <= 1 + restarts
    BY DEF AlertedOnce, Entry
  <2> DEFINE D == {d \in Delivery : /\ alert[d] # NoAlert
                                    /\ alert[d].inst = alert[c].inst /\ alert[d].entry = alert[c].entry}
             f == [d \in D |-> alert[d].boot]
  <2>1. AlertsDiffer
    BY DEF OnceInv
  <2>2. \A d \in D : /\ alert[d] \in [inst: Inst, entry: Nat, boot: Nat] /\ alert[d].boot <= restarts
                     /\ alert[d].inst = alert[c].inst /\ alert[d].entry = alert[c].entry
    BY <2>1 DEF AlertsDiffer
  <2>3. \A d, e \in D : alert[d].boot = alert[e].boot => d = e
    <3>1. \A d, e \in D : alert[d].boot = alert[e].boot => alert[d] = alert[e]
      BY <2>2
    <3> QED BY <2>1, <3>1 DEF AlertsDiffer
  <2>4. f \in Injection(D, 0 .. restarts)
    <3>1. restarts \in Nat /\ \A d \in D : f[d] = alert[d].boot /\ f[d] \in 0 .. restarts
      BY <2>1, <2>2 DEF AlertsDiffer
    <3>2. f \in [D -> 0 .. restarts]
      BY <3>1
    <3>3. \A d, e \in D : f[d] = f[e] => d = e
      BY <2>3, <3>1
    <3> HIDE DEF f, D
    <3> QED BY <3>2, <3>3 DEF Injection, IsInjective
  <2>5. 0 \in Int /\ restarts \in Int /\ restarts \in Nat
    BY <2>1 DEF AlertsDiffer
  <2>6. /\ IsFiniteSet(0 .. restarts)
        /\ Cardinality(0 .. restarts) = IF 0 > restarts THEN 0 ELSE restarts - 0 + 1
    BY <2>5, FS_Interval, Zenon
  <2> HIDE DEF f, D
  <2>7. Cardinality(D) <= Cardinality(0 .. restarts)
    BY <2>4, <2>6, FS_Injection
  <2>8. Cardinality(D) <= 1 + restarts
    BY <2>5, <2>6, <2>7
  <2> QED BY <2>8 DEF D
<1> QED BY <1>1, AlertsAreOnce, PTL
=============================================================================
