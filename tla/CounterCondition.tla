-------------------------- MODULE CounterCondition --------------------------
(***************************************************************************)
(* Counter conditions: agents report rule counters, the controller keeps   *)
(* the last snapshots of each node in memory, and the FSM engine evaluates *)
(* a transition's condition against them.  A condition with for_duration   *)
(* must have been true for that long: when it first was is remembered in   *)
(* the instance under a key made of the state and the transition.          *)
(*                                                                         *)
(* One transition of one instance is modelled.  Its condition is a counter *)
(* condition, or several joined by and, or or not; it is chosen from a set *)
(* at the start and stays as it is.                                        *)
(***************************************************************************)
EXTENDS Naturals, Sequences, SequencesExt, FiniteSetsExt

CONSTANTS
  Node,
  Counter,    \* what a condition can read: a rule's matches, or its bytes
  Targets,    \* the instance's target_nodes, or its deployed nodes
  Forms,      \* the conditions a transition may have, see IsForm
  None,       \* a threshold or a timestamp that is not set, and the count of
              \* a rule that a report does not list
  MaxCount,   \* bound: largest counter value reported
  MaxTime,    \* bound: length of a behaviour
  Delay,      \* how late a report may arrive
  MaxPerNode, \* snapshots kept per node (120 in the code)
  Retention   \* how long snapshots are kept

Bound == Nat \cup {None}
Condition == [counter: Counter,
              total_above: Bound, rate_above: Bound, rate_below: Bound,
              aggregate: {"any", "all", "sum"}, for_duration: Nat]

(* A transition's condition: counter conditions in order, and what joins   *)
(* them.                                                                   *)
IsForm(f) ==
  /\ f.parts \in Seq(Condition) /\ f.parts # << >>
  /\ f.op \in {"and", "or", "not"}
  /\ f.op = "not" => Len(f.parts) = 1

ASSUME CounterAssumption ==
  /\ Targets \subseteq Node /\ IsFiniteSet(Node)
  /\ \A f \in Forms : IsForm(f)
  /\ None \notin Nat
  /\ {MaxCount, MaxTime, Delay} \subseteq Nat
  /\ {MaxPerNode, Retention} \subseteq Nat \ {0}

VARIABLES
  form,      \* the transition's condition
  now,
  cache,     \* CounterSnapshotCache: per node its snapshots, oldest first
  firstTrue, \* counter_condition_first_true at the transition's key
  outcome,   \* "fired" or "waits" after an evaluation, else "none"
  held       \* per condition, since when every evaluation found it true

vars == <<form, now, cache, firstTrue, outcome, held>>

Time == 0 .. MaxTime
Counts == [Counter -> 0 .. MaxCount \cup {None}]
Snapshot == [at: Time, counts: Counts]

TypeOK ==
  /\ form \in Forms
  /\ now \in Time
  /\ cache \in [Node -> Seq(Snapshot)]
  /\ \A n \in Node : Len(cache[n]) <= MaxPerNode
  /\ firstTrue \in Time \cup {None}
  /\ outcome \in {"none", "fired", "waits"}
  /\ held \in [DOMAIN form.parts -> Time \cup {None}]

Init ==
  /\ form \in Forms
  /\ now = 0
  /\ cache = [n \in Node |-> << >>]
  /\ firstTrue = None
  /\ outcome = "none"
  /\ held = [k \in DOMAIN form.parts |-> None]
-----------------------------------------------------------------------------
(* What was held before the next evaluation: nothing if the last one fired *)
(* the transition, for the state is then entered anew.                     *)
HeldBefore == IF outcome = "fired" THEN [k \in DOMAIN form.parts |-> None] ELSE held

(* Something other than an evaluation happens.                             *)
Elsewhere == outcome' = "none" /\ held' = HeldBefore

(* Variant: the ring buffer drops a snapshot only when it has one too many *)
(* before the new one is added.                                            *)
RecordLate(n, s) ==
  cache' = [cache EXCEPT ![n] = Append(IF Len(@) > MaxPerNode THEN Tail(@) ELSE @, s)]

(* CounterSnapshotCache::record *)
Record(n, s) ==
  LET grown == Append(cache[n], s)
  IN cache' = [cache EXCEPT ![n] = IF Len(grown) > MaxPerNode THEN Tail(grown) ELSE grown]

(* report_counters: a counter may have grown, started again from zero with *)
(* the agent, or be missing with its rule; the report carries the time at  *)
(* which it was collected.                                                 *)
ReportCounters(n, counts, at) ==
  /\ at <= now /\ now <= at + Delay
  /\ Record(n, [at |-> at, counts |-> counts])
  /\ Elsewhere
  /\ UNCHANGED <<form, now, firstTrue>>

Expired(s) == s.at + Retention < now

(* evict_expired: from the front of each buffer, up to the first snapshot  *)
(* that is recent enough.                                                  *)
EvictExpired ==
  LET old(n) == {k \in DOMAIN cache[n] : \A j \in 1 .. k : Expired(cache[n][j])}
  IN
  /\ \E n \in Node : old(n) # {}
  /\ cache' = [n \in Node |-> SubSeq(cache[n], Cardinality(old(n)) + 1, Len(cache[n]))]
  /\ Elsewhere
  /\ UNCHANGED <<form, now, firstTrue>>

Tick ==
  /\ now < MaxTime
  /\ now' = now + 1
  /\ Elsewhere
  /\ UNCHANGED <<form, cache, firstTrue>>
-----------------------------------------------------------------------------
(* An instance without nodes of its own is judged by every cached node.    *)
NodesToCheck == IF Targets = {} THEN {n \in Node : cache[n] # << >>} ELSE Targets

Newer(n) == cache[n][Len(cache[n])]
Older(n) == cache[n][Len(cache[n]) - 1]

(* get_counter_total of the latest snapshot: there is none when the node   *)
(* has no snapshot or the snapshot does not list the rule.                 *)
HasTotal(n, x) == cache[n] # << >> /\ Newer(n).counts[x] # None
Total(n, x)    == Newer(n).counts[x]

(* check_total_above: for "all" a node without a total is not above, for   *)
(* "sum" it counts nothing.                                                *)
TotalAbove(nodes, c) ==
  LET x == c.counter
      above(n) == HasTotal(n, x) /\ Total(n, x) > c.total_above
  IN CASE c.aggregate = "any" -> \E n \in nodes : above(n)
       [] c.aggregate = "all" -> \A n \in nodes : above(n)
       [] c.aggregate = "sum" ->
            MapThenSumSet(LAMBDA n : Total(n, x), {n \in nodes : HasTotal(n, x)})
              > c.total_above

(* Variant: a counter that went down is taken to have counted that much.   *)
RateWithoutReset(n, x) ==
  LET new == Newer(n).counts[x]
      old == Older(n).counts[x]
  IN <<IF new >= old THEN new - old ELSE old - new, Newer(n).at - Older(n).at>>

(* calculate_rate of latest_pair: there is one when the last two snapshots *)
(* both list the rule and the later one was collected later.               *)
HasRate(n, x) ==
  /\ Len(cache[n]) >= 2
  /\ Newer(n).counts[x] # None /\ Older(n).counts[x] # None
  /\ Newer(n).at > Older(n).at
(* The rate as a fraction; a counter that went down has not moved.         *)
Rate(n, x) ==
  LET new == Newer(n).counts[x]
      old == Older(n).counts[x]
  IN <<IF new >= old THEN new - old ELSE 0, Newer(n).at - Older(n).at>>
AddRates(a, b) == <<a[1] * b[2] + b[1] * a[2], a[2] * b[2]>>

RateMatches(r, above, below) ==
  /\ above # None => r[1] > above * r[2]
  /\ below # None => r[1] < below * r[2]

(* check_rate_threshold: nodes without a rate are left out, for "all" too. *)
RateMet(nodes, c) ==
  LET x == c.counter
      rated == {n \in nodes : HasRate(n, x)}
      ok(r) == RateMatches(r, c.rate_above, c.rate_below)
  IN /\ rated # {}
     /\ CASE c.aggregate = "any" -> \E n \in rated : ok(Rate(n, x))
          [] c.aggregate = "all" -> \A n \in rated : ok(Rate(n, x))
          [] c.aggregate = "sum" ->
               ok(FoldSet(LAMBDA n, sum : AddRates(Rate(n, x), sum), <<0, 1>>, rated))

(* The thresholds of a condition are met by the snapshots held now.        *)
Met(c) ==
  LET nodes == NodesToCheck
  IN /\ nodes # {}
     /\ c.total_above # None => TotalAbove(nodes, c)
     /\ {c.rate_above, c.rate_below} # {None} => RateMet(nodes, c)

(* Variant: a condition that is not met leaves the timestamp in place.     *)
EvaluateCounterKeeps(c, since) ==
  IF NodesToCheck = {} \/ ~Met(c) THEN [out |-> FALSE, since |-> since]
  ELSE IF c.for_duration = 0 THEN [out |-> TRUE, since |-> since]
  ELSE LET start == IF since = None THEN now ELSE since
       IN [out |-> now - start >= c.for_duration, since |-> start]

(* Variant: the duration must be exceeded.                                 *)
EvaluateCounterLate(c, since) ==
  IF NodesToCheck = {} THEN [out |-> FALSE, since |-> since]
  ELSE IF ~Met(c) THEN [out |-> FALSE, since |-> None]
  ELSE IF c.for_duration = 0 THEN [out |-> TRUE, since |-> since]
  ELSE LET start == IF since = None THEN now ELSE since
       IN [out |-> now - start > c.for_duration, since |-> start]

(* evaluate_counter_condition, given the timestamp stored at the key that  *)
(* all the conditions of the transition share.  Without nodes to check the *)
(* timestamp is left alone.                                                *)
EvaluateCounter(c, since) ==
  IF NodesToCheck = {} THEN [out |-> FALSE, since |-> since]
  ELSE IF ~Met(c) THEN [out |-> FALSE, since |-> None]
  ELSE IF c.for_duration = 0 THEN [out |-> TRUE, since |-> since]
  ELSE LET start == IF since = None THEN now ELSE since
       IN [out |-> now - start >= c.for_duration, since |-> start]

(* The conditions of the transition visited in order, from the timestamp   *)
(* stored: "or" stops at the first that is true, "and" at the first that   *)
(* is false.                                                               *)
Visited[k \in 0 .. Len(form.parts)] ==
  IF k = 0 THEN [out |-> form.op # "or", since |-> firstTrue]
  ELSE IF Visited[k - 1].out = (form.op = "or") THEN Visited[k - 1]
  ELSE EvaluateCounter(form.parts[k], Visited[k - 1].since)

(* evaluate_condition *)
EvaluateCondition ==
  LET end == Visited[Len(form.parts)]
  IN IF form.op = "not" THEN [end EXCEPT !.out = ~@] ELSE end

(* evaluate_instance for the transition.  When it fires, fire_transition   *)
(* drops the timestamps of the state left.                                 *)
Evaluate ==
  LET result == EvaluateCondition
  IN
  /\ outcome' = IF result.out THEN "fired" ELSE "waits"
  /\ firstTrue' = IF result.out THEN None ELSE result.since
  /\ held' = [k \in DOMAIN form.parts |->
                IF ~Met(form.parts[k]) THEN None
                ELSE IF HeldBefore[k] = None THEN now ELSE HeldBefore[k]]
  /\ UNCHANGED <<form, now, cache>>

Next ==
  \/ \E n \in Node, counts \in Counts, at \in Time : ReportCounters(n, counts, at)
  \/ EvictExpired
  \/ Tick
  \/ Evaluate

Spec == Init /\ [][Next]_vars
-----------------------------------------------------------------------------
(* Condition k has been true at every evaluation for its for_duration.     *)
Sustained(k) ==
  held[k] # None /\ now - held[k] >= form.parts[k].for_duration

(* What the condition as a whole comes to, each part on its own terms.     *)
Expected ==
  CASE form.op = "and" -> \A k \in DOMAIN form.parts : Sustained(k)
    [] form.op = "or"  -> \E k \in DOMAIN form.parts : Sustained(k)
    [] form.op = "not" -> ~Sustained(1)

(* A transition fires only when its condition has been true for as long as *)
(* for_duration says (evaluate_counter_condition): for one condition,      *)
(* negated or not, and for several of which at most one has a duration.    *)
(* Two that have one share the timestamp, and each counts the other's time *)
(* as its own.                                                             *)
FiresOnlyWhenSustained == outcome = "fired" => Expected

(* A condition that has been true for as long as for_duration says fires   *)
(* at the next evaluation: none is missed and none is started over.  For a *)
(* condition on its own; beside it, one that is not met clears the         *)
(* timestamp they share.                                                   *)
SustainedFires == outcome = "waits" /\ Len(form.parts) = 1 => ~Expected

(* The last two snapshots of node n were collected one after the other and *)
(* counter x grew from the first to the second.                            *)
Grew(n, x) ==
  LET len == Len(cache[n])
      count(k) == cache[n][k].counts[x]
  IN /\ len >= 2 /\ cache[n][len - 1].at < cache[n][len].at
     /\ None \notin {count(len - 1), count(len)}
     /\ count(len - 1) < count(len)

(* A transition that asks for a rate above something, with everything else *)
(* it asks for, fires only on a counter that grew: not on one that began   *)
(* again from zero with its agent, not on a report that came after a later *)
(* one, and not on a rule that one of the reports lacks (calculate_rate,   *)
(* check_rate_threshold).                                                  *)
RateNeedsGrowth ==
  outcome = "fired" /\ form.op = "and" =>
    \A k \in DOMAIN form.parts : form.parts[k].rate_above # None =>
      \E n \in NodesToCheck : Grew(n, form.parts[k].counter)
=============================================================================
