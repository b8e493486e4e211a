------------------------------ MODULE Webhook ------------------------------
(***************************************************************************)
(* Webhook deliveries: the task that execute_alert spawns sends the alert, *)
(* again after a pause while it is not answered with success, and keeps a  *)
(* record of every attempt.  Nothing waits for the task, and it does not   *)
(* wait for its records to be stored.                                      *)
(***************************************************************************)
EXTENDS Naturals

CONSTANTS
  Delivery,    \* identifies a spawned task
  MaxRetries   \* max_retries of the WebhookConfig (2 unless it is given)

VARIABLES
  task,        \* "none", "sending", "sleeping", or how it ended
  attempt,     \* the attempt it is at, from 0
  accepted,    \* how often the receiver has acted on the alert
  storing,     \* records whose store_webhook_delivery is yet to run
  deliveries,  \* webhook_deliveries
  unstored     \* history: records whose store_webhook_delivery failed

recordVars == <<storing, deliveries, unstored>>
vars == <<task, attempt, accepted, recordVars>>

Record == [of: Delivery, attempt: 0 .. MaxRetries, success: BOOLEAN]
Ended == {"delivered", "exhausted", "client_error", "lost"}

Init ==
  /\ task = [d \in Delivery |-> "none"]
  /\ attempt = [d \in Delivery |-> 0]
  /\ accepted = [d \in Delivery |-> 0]
  /\ storing = {} /\ deliveries = {} /\ unstored = {}

(* The part of execute_alert that starts a delivery.                       *)
Spawn(d) ==
  /\ task' = [task EXCEPT ![d] = "sending"]
  /\ attempt' = [attempt EXCEPT ![d] = 0]
  /\ UNCHANGED <<accepted, recordVars>>

(* Variant: only a success is recorded.                                    *)
RecordSuccess(d, success) ==
  /\ storing' = storing \cup {r \in {[of |-> d, attempt |-> attempt[d], success |-> TRUE]} : success}
  /\ UNCHANGED <<deliveries, unstored>>

(* record_delivery leaves the record to a blocking task.                   *)
RecordDelivery(d, success) ==
  /\ storing' = storing \cup {[of |-> d, attempt |-> attempt[d], success |-> success]}
  /\ UNCHANGED <<deliveries, unstored>>

(* After a failed attempt: a pause, unless it was the last.                *)
Failed(d) ==
  /\ RecordDelivery(d, FALSE)
  /\ task' = [task EXCEPT ![d] = IF attempt[d] < MaxRetries THEN "sleeping" ELSE "exhausted"]
  /\ UNCHANGED attempt

(* The HTTP client cannot be built: no attempt is made.                    *)
ClientError(d) ==
  /\ task[d] = "sending" /\ attempt[d] = 0
  /\ task' = [task EXCEPT ![d] = "client_error"]
  /\ UNCHANGED <<attempt, accepted, recordVars>>

(* Variant: a delivered alert is sent again while attempts are left.       *)
DeliveredAgain(d) ==
  /\ task[d] = "sending"
  /\ accepted' = [accepted EXCEPT ![d] = @ + 1]
  /\ RecordDelivery(d, TRUE)
  /\ task' = [task EXCEPT ![d] = IF attempt[d] < MaxRetries THEN "sleeping" ELSE "delivered"]
  /\ UNCHANGED attempt

(* A status of success.                                                    *)
Delivered(d) ==
  /\ task[d] = "sending"
  /\ accepted' = [accepted EXCEPT ![d] = @ + 1]
  /\ RecordDelivery(d, TRUE)
  /\ task' = [task EXCEPT ![d] = "delivered"]
  /\ UNCHANGED attempt

(* Another status.                                                         *)
Refused(d) == task[d] = "sending" /\ Failed(d) /\ UNCHANGED accepted

(* No answer, or none within the timeout: the receiver may have acted.     *)
Unanswered(d) ==
  /\ task[d] = "sending" /\ Failed(d)
  /\ accepted' \in {accepted, [accepted EXCEPT ![d] = @ + 1]}

(* Variant: the attempts are counted from zero after each pause.           *)
RetryFromZero(d) ==
  /\ task[d] = "sleeping"
  /\ task' = [task EXCEPT ![d] = "sending"]
  /\ attempt' = [attempt EXCEPT ![d] = 0]
  /\ UNCHANGED <<accepted, recordVars>>

(* The pause is over.                                                      *)
Retry(d) ==
  /\ task[d] = "sleeping"
  /\ task' = [task EXCEPT ![d] = "sending"]
  /\ attempt' = [attempt EXCEPT ![d] = @ + 1]
  /\ UNCHANGED <<accepted, recordVars>>

(* store_webhook_delivery, of the records in any order.  Its result is not *)
(* looked at: a record that cannot be stored is lost.                      *)
StoreDelivery(r) ==
  /\ r \in storing
  /\ storing' = storing \ {r}
  /\ \/ deliveries' = deliveries \cup {r} /\ UNCHANGED unstored
     \/ unstored' = unstored \cup {r} /\ UNCHANGED deliveries
  /\ UNCHANGED <<task, attempt, accepted>>

(* The controller restarts: tasks and records not stored yet are gone.     *)
Lost ==
  /\ task' = [d \in Delivery |-> IF task[d] \in {"sending", "sleeping"} THEN "lost" ELSE task[d]]
  /\ storing' = {} /\ unstored' = {}
  /\ UNCHANGED <<attempt, accepted, deliveries>>

TaskStep(d) == Delivered(d) \/ Refused(d) \/ Unanswered(d) \/ Retry(d)

Next ==
  \/ \E d \in Delivery : TaskStep(d) \/ ClientError(d)
  \/ \E r \in storing : StoreDelivery(r)
=============================================================================
