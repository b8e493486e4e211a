----------------------------- MODULE FsmAlerts -----------------------------
(***************************************************************************)
(* The FSM engine together with the webhook deliveries its alert actions   *)
(* start.  The engine enters a state, executes its alert, and only then    *)
(* writes the instance: a restart in between finds the row as it was.      *)
(***************************************************************************)
EXTENDS FsmEngine

CONSTANTS
  Hooked,      \* states whose alert action has a webhook
  Delivery,    \* the deliveries, numbered as they are spawned
  MaxRetries,
  NoAlert,
  MaxRestarts  \* bound: restarts of the controller

ASSUME AlertAssumption ==
  /\ Hooked \subseteq State
  /\ Delivery = 1 .. Cardinality(Delivery)
  /\ MaxRetries \in Nat /\ MaxRestarts \in Nat
  /\ NoAlert \notin [inst: Inst, entry: Nat, boot: Nat]

VARIABLES
  task, attempt, accepted, storing, deliveries, unstored,  \* of Webhook
  alert,     \* per delivery, what it is about
  restarts   \* history: restarts so far

webhookVars == <<task, attempt, accepted, storing, deliveries, unstored>>
alertVars == <<webhookVars, alert, restarts>>
allVars == <<vars, alertVars>>

W == INSTANCE Webhook

AlertInit ==
  /\ Init /\ W!Init
  /\ alert = [d \in Delivery |-> NoAlert]
  /\ restarts = 0

(* The state the worker has entered alerts through a webhook.              *)
Alerts(w) == step[w] = "act" /\ ActionOf(w).do = "alert" /\ copy[w].state \in Hooked

(* Variant: an alert is spawned when the instance is written, too.         *)
ExecuteAlertTwice(w) ==
  \E d, e \in Delivery :
    /\ e = d + 1 /\ alert[d] = NoAlert /\ \A c \in 1 .. d - 1 : alert[c] # NoAlert
    /\ alert' = [alert EXCEPT ![d] = [inst |-> id[w], entry |-> Len(copy[w].history), boot |-> restarts],
                              ![e] = [inst |-> id[w], entry |-> Len(copy[w].history), boot |-> restarts]]
    /\ task' = [task EXCEPT ![d] = "sending", ![e] = "sending"]
    /\ UNCHANGED <<attempt, accepted, storing, deliveries, unstored>>

(* execute_alert with a webhook: a delivery about the latest entry of the  *)
(* history of the worker's copy.                                           *)
ExecuteAlert(w) ==
  \E d \in Delivery :
    /\ alert[d] = NoAlert /\ \A c \in 1 .. d - 1 : alert[c] # NoAlert
    /\ alert' = [alert EXCEPT ![d] = [inst |-> id[w], entry |-> Len(copy[w].history),
                                      boot |-> restarts]]
    /\ W!Spawn(d)

ActAlert(w) == Alerts(w) /\ ActNothing(w) /\ ExecuteAlert(w) /\ UNCHANGED restarts

(* The controller restarts, and with it every task.                        *)
RestartAll ==
  /\ restarts < MaxRestarts
  /\ Stopped(Worker) /\ W!Lost
  /\ restarts' = restarts + 1
  /\ UNCHANGED alert

(* Every other step of the engine, and every step of a delivery.           *)
EngineOnly ==
  /\ Next /\ ~Restart
  /\ \A w \in Worker : Alerts(w) => step'[w] # "write"
  /\ UNCHANGED alertVars
DeliveryOnly == W!Next /\ UNCHANGED <<vars, alert, restarts>>

AlertNext == (\E w \in Worker : ActAlert(w)) \/ RestartAll \/ EngineOnly \/ DeliveryOnly

AlertSpec == AlertInit /\ [][AlertNext]_allVars

(* Every attempt has a timeout, every pause ends.                          *)
AlertFairness == \A d \in Delivery : WF_allVars(W!TaskStep(d) /\ UNCHANGED <<vars, alert, restarts>>)

FairAlertSpec == AlertSpec /\ AlertFairness
-----------------------------------------------------------------------------
(***************************************************************************)
(* Properties.                                                             *)
(***************************************************************************)
Entry == {alert[d] : d \in {c \in Delivery : alert[c] # NoAlert}}
Records(d) == {r \in storing \cup deliveries : r.of = d}

(* Until the controller restarts, and loses what an action had done so     *)
(* far, the context of an instance that nobody is working on knows every   *)
(* node that runs what the instance deployed (execute_deploy,              *)
(* execute_rollback and the writes that follow): a rollback reaches all    *)
(* but those whose deploy was given up, which are among the failed nodes.  *)
ContextTracksUntilRestart == restarts = 0 => ContextTracksDeployed

(* Entering a state alerts once, and once more for every restart that came *)
(* between execute_alert and the write of the instance: the engine finds   *)
(* the row as it was and enters the state again.                           *)
AlertedOnce ==
  \A a \in Entry :
    Cardinality({d \in Delivery : /\ alert[d] # NoAlert
                                  /\ alert[d].inst = a.inst /\ alert[d].entry = a.entry})
      <= 1 + restarts

(* A success is recorded at most once, for the last attempt made, and the  *)
(* receiver did act on it: nothing is sent after a success                 *)
(* (deliver_webhook returns), though a timeout may have hidden others.     *)
SuccessIsLast ==
  \A d \in Delivery : \A r \in Records(d) : r.success =>
    /\ task[d] = "delivered" /\ r.attempt = attempt[d]
    /\ accepted[d] \in 1 .. attempt[d] + 1

(* Until the controller restarts every attempt that ended has exactly one  *)
(* record (deliver_webhook with record_delivery): it is stored, about to   *)
(* be, or lost because store_webhook_delivery failed, which nobody hears   *)
(* of.  There are at most MaxRetries + 1.                                  *)
AttemptsAccounted ==
  \A d \in Delivery :
    (alert[d] # NoAlert /\ alert[d].boot = restarts /\ task[d] # "client_error") =>
      LET made == IF task[d] = "sending" THEN attempt[d] ELSE attempt[d] + 1
          records == Records(d) \cup {r \in unstored : r.of = d}
      IN /\ {r.attempt : r \in records} = {k \in 0 .. attempt[d] : k < made}
         /\ Cardinality(records) = made
         /\ made <= MaxRetries + 1

(* Every delivery ends: delivered, given up, or lost by a restart.         *)
DeliveryEnds == \A d \in Delivery : task[d] = "sending" ~> task[d] \in W!Ended
=============================================================================
