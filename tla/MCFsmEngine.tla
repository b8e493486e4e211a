---------------------------- MODULE MCFsmEngine ----------------------------
EXTENDS FsmEngine, TLC

(* The definitions used: "canary" is examples/canary-rollout.yaml with     *)
(* batches of half the nodes; "batches" rolls out in batches of one label, *)
(* of which the second is cut short by the end of the list and the third   *)
(* finds nothing left; "regions" rolls out in batches of two labels, of    *)
(* which the second begins where the first has ended; "adaptive" waits for *)
(* a counter, deploys, and rolls back; "dangling" is refused by validate.  *)
CONSTANTS
  Used,
  Early,   \* the nodes registered at the start
  Marked   \* the nodes with a label of their own, like canary: "true"

Plain(do)   == [do |-> do, select |-> Node, limit |-> Cardinality(Node), percent |-> 0]
First(S, k) == [do |-> "deploy", select |-> S, limit |-> k, percent |-> 0]
Share(S, p) == [do |-> "batch", select |-> S, limit |-> Cardinality(Node), percent |-> p]
When(c, s) == [to |-> s, when |-> c]
Outcome(good, poor) == <<When("all_succeeded", good), When("any_failed", poor)>>

Canary ==
  [initial |-> "canary",
   terminal |-> {"rollback", "complete"},
   action |-> "canary" :> First(Marked, 1) @@ "validate" :> Plain("none") @@ "staged" :> Share(Node, 50)
              @@ "rollback" :> Plain("rollback") @@ "complete" :> Plain("none"),
   transitions |-> "canary" :> Outcome("validate", "rollback")
              @@ "validate" :> <<When("after", "staged"), When("manual", "rollback")>>
              @@ "staged" :> Outcome("complete", "rollback")
              @@ "rollback" :> << >> @@ "complete" :> << >>]

Batches ==
  [initial |-> "canary",
   terminal |-> {"complete"},
   action |-> "canary" :> Share(Marked, 40) @@ "staged" :> Share(Marked, 60) @@ "complete" :> Share(Marked, 100),
   transitions |-> "canary" :> <<When("all_succeeded", "staged"), When("manual", "staged")>>
              @@ "staged" :> <<When("after", "complete")>>
              @@ "complete" :> << >>]

Regions ==
  [initial |-> "canary",
   terminal |-> {"complete"},
   action |-> "canary" :> Share(Marked, 100) @@ "staged" :> Share(Node, 50) @@ "complete" :> Plain("none"),
   transitions |-> "canary" :> <<When("all_succeeded", "staged")>>
              @@ "staged" :> <<When("all_succeeded", "complete")>>
              @@ "complete" :> << >>]

Adaptive ==
  [initial |-> "canary",
   terminal |-> {"complete"},
   action |-> "canary" :> Plain("alert") @@ "validate" :> First(Marked, 1) @@ "staged" :> Share(Node, 50)
              @@ "rollback" :> Plain("rollback") @@ "complete" :> Plain("alert"),
   transitions |-> "canary" :> <<When("counter", "validate")>>
              @@ "validate" :> Outcome("staged", "complete")
              @@ "staged" :> Outcome("rollback", "complete")
              @@ "rollback" :> Outcome("complete", "complete")
              @@ "complete" :> << >>]

Dangling ==
  [initial |-> "canary",
   terminal |-> {"complete"},
   action |-> "canary" :> Plain("none") @@ "complete" :> Plain("none"),
   transitions |-> "canary" :> <<When("after", "staged")>> @@ "complete" :> << >>]

MCState == {"canary", "validate", "staged", "rollback", "complete"}
Known == [canary |-> Canary, batches |-> Batches, regions |-> Regions,
          adaptive |-> Adaptive, dangling |-> Dangling]
MCDefinition == {Known[u] : u \in Used}
MCFleet == CHOOSE s \in [1 .. Cardinality(Early) -> Early] :
             \A j, k \in DOMAIN s : s[j] = s[k] => j = k
=============================================================================
