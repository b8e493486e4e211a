---------------------- MODULE CounterCondition_proofs -----------------------
(***************************************************************************)
(* Proofs about CounterCondition, for any nodes, counters, conditions,     *)
(* delays and sizes of the ring buffers: types, that a transition fires    *)
(* only when its condition was sustained, that a sustained condition       *)
(* fires, and that a rate is that of a counter that grew.                  *)
(***************************************************************************)
EXTENDS CounterCondition, Integers, FiniteSetTheorems, WellFoundedInduction, TLAPS
-----------------------------------------------------------------------------
(***************************************************************************)
(* Functions defined by recursion on the natural numbers.                  *)
(***************************************************************************)
(* A set that holds 0, and with every number the next one, holds them all: *)
(* a least number outside of it would have a predecessor outside.          *)
LEMMA NatSets ==
  ASSUME NEW S, 0 \in S, \A n \in Nat : n \in S => n + 1 \in S
  PROVE  Nat \subseteq S
<1> DEFINE T == Nat \ S
           R == OpToRel(<, Nat)
<1>1. SUFFICES ASSUME T # {} PROVE FALSE
  OBVIOUS
<1>2. \A x, y \in Nat : <<x, y>> \in R <=> x < y
  BY DEF OpToRel
<1>3. IsWellFoundedOn(R, Nat)
  BY NatLessThanWellFounded
<1> HIDE DEF R
<1>4. PICK x \in T : \A y \in T : ~(<<y, x>> \in R)
  <2>1. T \subseteq Nat
    OBVIOUS
  <2> HIDE DEF T
  <2> QED BY <1>1, <1>3, <2>1, WFMin, Zenon
<1>5. x \in Nat /\ x # 0 /\ x - 1 \in Nat
  BY <1>4
<1>6. x - 1 \in T
  BY <1>4, <1>5
<1>7. <<x - 1, x>> \in R
  BY <1>2, <1>5
<1> QED BY <1>4, <1>6, <1>7

(* A function on 0 .. n starts with a and goes on by the step G.           *)
HasRecursion(X, a, G, n) ==
  \E h \in [0 .. n -> X] : h[0] = a /\ \A k \in 1 .. n : h[k] = G[<<k, h[k - 1]>>]

(* Whatever the first value and the step, there is such a function.        *)
LEMMA RecursionExists ==
  ASSUME NEW X, NEW a \in X, NEW G \in [Nat \X X -> X], NEW n \in Nat
  PROVE  HasRecursion(X, a, G, n)
<1> DEFINE Runs(h, m) == h[0] = a /\ \A k \in 1 .. m : h[k] = G[<<k, h[k - 1]>>]
           S == {m \in Nat : \E h \in [0 .. m -> X] : Runs(h, m)}
<1>1. 0 \in S
  <2> DEFINE h == [k \in 0 .. 0 |-> a]
  <2>1. h \in [0 .. 0 -> X] /\ Runs(h, 0)
    OBVIOUS
  <2> QED BY <2>1
<1>2. \A m \in Nat : m \in S => m + 1 \in S
  <2> SUFFICES ASSUME NEW m \in Nat, NEW h \in [0 .. m -> X], Runs(h, m)
               PROVE  \E g \in [0 .. (m + 1) -> X] : Runs(g, m + 1)
    OBVIOUS
  <2> DEFINE g == [k \in 0 .. (m + 1) |-> IF k = m + 1 THEN G[<<m + 1, h[m]>>] ELSE h[k]]
  <2>1. h[m] \in X /\ G[<<m + 1, h[m]>>] \in X
    OBVIOUS
  <2>2. g \in [0 .. (m + 1) -> X]
    BY <2>1
  <2>3. g[0] = a
    OBVIOUS
  <2>4. ASSUME NEW k \in 1 .. (m + 1) PROVE g[k] = G[<<k, g[k - 1]>>]
    <3>1. CASE k = m + 1
      <4>1. k - 1 = m /\ m \in 0 .. (m + 1) /\ m # m + 1
        BY <3>1
      <4>2. g[m] = h[m]
        BY <4>1
      <4> QED BY <3>1, <4>1, <4>2
    <3>2. CASE k # m + 1
      <4>1. k \in 1 .. m /\ k - 1 \in 0 .. m /\ k - 1 # m + 1
        BY <3>2
      <4> QED BY <4>1
    <3> QED BY <3>1, <3>2
  <2>5. Runs(g, m + 1)
    BY <2>3, <2>4
  <2> HIDE DEF g, Runs
  <2> QED BY <2>2, <2>5
<1> HIDE DEF Runs
<1>3. Nat \subseteq S
  <2> HIDE DEF S
  <2> QED BY <1>1, <1>2, NatSets
<1>4. \E h \in [0 .. n -> X] : Runs(h, n)
  BY <1>3
<1> QED BY <1>4 DEF Runs, HasRecursion
-----------------------------------------------------------------------------
(***************************************************************************)
(* The visit of a transition's conditions.                                 *)
(***************************************************************************)
Since == Time \cup {None}
Result == [out: BOOLEAN, since: Since]

(* The parts of the transition's condition.                                *)
LEMMA FormFacts ==
  ASSUME form \in Forms
  PROVE  /\ Len(form.parts) \in Nat \ {0}
         /\ DOMAIN form.parts = 1 .. Len(form.parts)
         /\ \A k \in DOMAIN form.parts :
              form.parts[k] \in Condition /\ form.parts[k].for_duration \in Nat
         /\ form.op \in {"and", "or", "not"}
         /\ form.op = "not" => Len(form.parts) = 1
<1>1. IsForm(form)
  BY CounterAssumption
<1>2. form.parts \in Seq(Condition) /\ form.parts # << >>
  BY <1>1 DEF IsForm
<1>3. Len(form.parts) \in Nat \ {0} /\ DOMAIN form.parts = 1 .. Len(form.parts)
  BY <1>2
<1>4. \A k \in DOMAIN form.parts : form.parts[k] \in Condition
  BY <1>2
<1>5. \A c \in Condition : c.for_duration \in Nat
  BY DEF Condition
<1>6. form.op \in {"and", "or", "not"} /\ (form.op = "not" => Len(form.parts) = 1)
  BY <1>1 DEF IsForm
<1> QED BY <1>3, <1>4, <1>5, <1>6

(* The clock and the timestamp.                                            *)
LEMMA TimeFacts ==
  /\ MaxTime \in Nat /\ Time \subseteq Nat /\ None \notin Nat /\ None \notin Time
BY CounterAssumption DEF Time

(* evaluate_counter_condition answers yes or no and leaves a timestamp or  *)
(* none.                                                                   *)
LEMMA EvaluateCounterIsResult ==
  ASSUME now \in Time, NEW c, NEW since \in Since
  PROVE  EvaluateCounter(c, since) \in Result
<1> DEFINE start == IF since = None THEN now ELSE since
<1>1. start \in Since
  BY DEF Since
<1>2. (now - start >= c.for_duration) \in BOOLEAN
  OBVIOUS
<1>3. \A b \in BOOLEAN, s \in Since : [out |-> b, since |-> s] \in Result
  BY DEF Result
<1>4. None \in Since
  BY DEF Since
<1> HIDE DEF Result, Since
<1>5. EvaluateCounter(c, since) \in
        {[out |-> FALSE, since |-> since], [out |-> FALSE, since |-> None],
         [out |-> TRUE, since |-> since],
         [out |-> now - start >= c.for_duration, since |-> start]}
  BY DEF EvaluateCounter
<1> HIDE DEF start
<1> QED BY <1>1, <1>2, <1>3, <1>4, <1>5

(* Visiting one condition after the other.                                 *)
Visit(k, r) ==
  IF r.out = (form.op = "or") THEN r ELSE EvaluateCounter(form.parts[k], r.since)

(* The visit is what its recursion says: it begins with the timestamp      *)
(* stored and goes on part by part (evaluate_condition).                   *)
LEMMA VisitedUnfolds ==
  ASSUME form \in Forms, now \in Time, firstTrue \in Since
  PROVE  /\ Visited \in [0 .. Len(form.parts) -> Result]
         /\ Visited[0] = [out |-> form.op # "or", since |-> firstTrue]
         /\ \A k \in 1 .. Len(form.parts) : Visited[k] = Visit(k, Visited[k - 1])
<1> DEFINE n == Len(form.parts)
           a == [out |-> form.op # "or", since |-> firstTrue]
           G == [x \in Nat \X Result |-> IF x[1] \in 1 .. n THEN Visit(x[1], x[2]) ELSE x[2]]
<1>1. n \in Nat
  BY FormFacts
<1>2. a \in Result
  BY DEF Result
<1>3. ASSUME NEW k, NEW r \in Result PROVE Visit(k, r) \in Result
  <2>1. r.since \in Since
    BY DEF Result
  <2> QED BY <2>1, EvaluateCounterIsResult DEF Visit
<1>4. G \in [Nat \X Result -> Result]
  BY <1>3
<1>5. \A k \in 1 .. n, r \in Result : G[<<k, r>>] = Visit(k, r)
  BY <1>1
<1> HIDE DEF G, a
<1>6. PICK h \in [0 .. n -> Result] :
        h[0] = a /\ \A k \in 1 .. n : h[k] = G[<<k, h[k - 1]>>]
  <2>1. HasRecursion(Result, a, G, n)
    <3> HIDE DEF n, Result
    <3> QED BY <1>1, <1>2, <1>4, RecursionExists, Zenon
  <2> QED BY <2>1 DEF HasRecursion
<1>7. \A k \in 1 .. n : h[k - 1] \in Result
  BY <1>1
<1>8. \A k \in 1 .. n : h[k] = Visit(k, h[k - 1])
  BY <1>5, <1>6, <1>7
<1> DEFINE Body(f) == [k \in 0 .. n |-> IF k = 0 THEN a ELSE Visit(k, f[k - 1])]
<1>9. h = Body(h)
  <2>1. \A k \in 0 .. n : k # 0 => k \in 1 .. n
    BY <1>1
  <2> QED BY <2>1, <1>6, <1>8
<1>10. Visited = Body(Visited)
  <2>1. Visited = CHOOSE f : f = Body(f)
    BY Zenon DEF Visited, Visit, a
  <2> HIDE DEF Body
  <2> QED BY <2>1, <1>9, Zenon
<1>11. ASSUME NEW f, f = Body(f)
       PROVE  /\ f[0] = a
              /\ \A k \in 1 .. n : f[k] = Visit(k, f[k - 1])
  <2>1. 0 \in 0 .. n /\ \A k \in 1 .. n : k \in 0 .. n /\ k # 0
    BY <1>1
  <2>2. f[0] = a
    BY <2>1, <1>11
  <2>3. \A k \in 1 .. n : f[k] = Visit(k, f[k - 1])
    BY <2>1, <1>11
  <2> QED BY <2>2, <2>3
<1>12. Visited[0] = a /\ \A k \in 1 .. n : Visited[k] = Visit(k, Visited[k - 1])
  <2> HIDE DEF Body
  <2> QED BY <1>10, <1>11, Zenon
<1>13. \A k \in 0 .. n : Visited[k] \in Result
  <2> DEFINE S == {k \in Nat : k \in 0 .. n => Visited[k] \in Result}
  <2>1. 0 \in S
    BY <1>2, <1>12
  <2>2. ASSUME NEW k \in Nat, k \in S PROVE k + 1 \in S
    <3>1. CASE k + 1 \in 1 .. n
      <4>1. k \in 0 .. n /\ (k + 1) - 1 = k
        BY <3>1, <1>1
      <4>2. Visited[k] \in Result
        BY <2>2, <4>1
      <4>3. Visited[k + 1] = Visit(k + 1, Visited[k])
        BY <1>12, <3>1, <4>1
      <4> QED BY <1>3, <4>2, <4>3
    <3>2. CASE k + 1 \notin 1 .. n
      BY <3>2, <1>1
    <3> QED BY <3>1, <3>2
  <2>3. Nat \subseteq S
    <3> HIDE DEF S
    <3> QED BY <2>1, <2>2, NatSets
  <2> QED BY <2>3, <1>1
<1>14. Visited \in [0 .. n -> Result]
  <2>1. Visited = [k \in 0 .. n |-> IF k = 0 THEN a ELSE Visit(k, Visited[k - 1])]
    BY <1>10, Zenon
  <2>2. DOMAIN Visited = 0 .. n /\ Visited = [k \in 0 .. n |-> Visited[k]]
    BY <2>1
  <2> HIDE DEF Result
  <2> QED BY <2>2, <1>13
<1> QED BY <1>12, <1>14 DEF a
-----------------------------------------------------------------------------
(***************************************************************************)
(* What the timestamp says.                                                *)
(***************************************************************************)
(* Two conditions with a duration share the timestamp of their transition, *)
(* and each counts the other's time: what fires is then not what was       *)
(* sustained.                                                              *)
TimedOnce ==
  \A f \in Forms : \A j, k \in DOMAIN f.parts :
    f.parts[j].for_duration # 0 /\ f.parts[k].for_duration # 0 => j = k

Timed(k) == form.parts[k].for_duration # 0

(* Since when condition k is true, were it evaluated now.                  *)
HeldNow(k) ==
  IF ~Met(form.parts[k]) THEN None
  ELSE IF HeldBefore[k] = None THEN now ELSE HeldBefore[k]

SustainedNow(k) == HeldNow(k) # None /\ now - HeldNow(k) >= form.parts[k].for_duration

(* A timestamp s is not older than the condition it stands for is true: d  *)
(* was found true in this visit, or is still to come, after the first k.   *)
Earned(s, k) ==
  s # None =>
    \E d \in DOMAIN form.parts :
      /\ Timed(d) /\ s <= now
      /\ \/ Met(form.parts[d]) /\ HeldNow(d) <= s
         \/ d > k /\ HeldBefore[d] # None /\ HeldBefore[d] <= s

(* Between evaluations: what was held, was held by now, and a timestamp is *)
(* that of a condition true for longer.  A condition on its own has its    *)
(* time in the timestamp.                                                  *)
HeldInv == \A k \in DOMAIN form.parts : HeldBefore[k] # None => HeldBefore[k] <= now

SinceInv ==
  firstTrue # None =>
    \E d \in DOMAIN form.parts :
      /\ Timed(d) /\ HeldBefore[d] # None
      /\ HeldBefore[d] <= firstTrue /\ firstTrue <= now

SingleInv ==
  Len(form.parts) = 1 => firstTrue = IF Timed(1) THEN HeldBefore[1] ELSE None

(* What was held before the next evaluation are times.                     *)
LEMMA HeldBeforeTypes ==
  ASSUME TypeOK
  PROVE  HeldBefore \in [DOMAIN form.parts -> Since]
BY DEF TypeOK, HeldBefore, Since

(* What is held after it are times not after now.                          *)
LEMMA HeldNowTypes ==
  ASSUME TypeOK, HeldInv, NEW k \in DOMAIN form.parts
  PROVE  /\ HeldNow(k) \in Since
         /\ HeldNow(k) # None <=> Met(form.parts[k])
         /\ HeldNow(k) # None => HeldNow(k) <= now
<1>1. HeldBefore[k] \in Since /\ now \in Time
  BY HeldBeforeTypes DEF TypeOK
<1>2. HeldBefore[k] # None => HeldBefore[k] <= now
  BY DEF HeldInv
<1>3. now \in Nat /\ now # None /\ None \in Since /\ now \in Since
  BY <1>1, TimeFacts DEF Since
<1> QED BY <1>1, <1>2, <1>3 DEF HeldNow

(* One condition evaluated with an earned timestamp: true only if it was   *)
(* sustained; the timestamp left is earned, and by a condition found true  *)
(* if the answer is no (evaluate_counter_condition).                       *)
LEMMA EvaluateCounterEarns ==
  ASSUME TypeOK, HeldInv, SinceInv, TimedOnce, Targets # {},
         NEW k \in 1 .. Len(form.parts), NEW s \in Since, Earned(s, k - 1)
  PROVE  LET r == EvaluateCounter(form.parts[k], s) IN
         /\ r.out = TRUE => SustainedNow(k)
         /\ r.out = TRUE => Earned(r.since, k)
         /\ r.out = FALSE => Earned(r.since, Len(form.parts))
         /\ r.out \in BOOLEAN
<1> DEFINE c == form.parts[k]
           n == Len(form.parts)
           r == EvaluateCounter(c, s)
<1>1. /\ k \in DOMAIN form.parts /\ n \in Nat /\ k \in Nat
      /\ form \in Forms /\ c.for_duration \in Nat
  BY FormFacts DEF TypeOK
<1>2. /\ HeldNow(k) \in Since
      /\ HeldNow(k) # None <=> Met(c)
      /\ HeldNow(k) # None => HeldNow(k) <= now
  BY <1>1, HeldNowTypes
<1>3. now \in Nat /\ None \notin Nat /\ Since \subseteq Nat \cup {None} /\ now \in Since
  BY TimeFacts DEF TypeOK, Since
<1>4. NodesToCheck # {}
  BY DEF NodesToCheck
<1> HIDE DEF c, n
<1>5. CASE ~Met(c)
  <2>1. r = [out |-> FALSE, since |-> None]
    BY <1>4, <1>5 DEF EvaluateCounter
  <2> QED BY <2>1 DEF Earned, c
<1>6. CASE Met(c) /\ c.for_duration = 0
  <2>1. r = [out |-> TRUE, since |-> s]
    BY <1>4, <1>6 DEF EvaluateCounter
  <2>2. SustainedNow(k)
    <3>1. HeldNow(k) \in Nat /\ HeldNow(k) # None /\ HeldNow(k) <= now
      BY <1>2, <1>3, <1>6
    <3>2. now - HeldNow(k) >= c.for_duration
      BY <1>3, <1>6, <3>1
    <3> QED BY <3>1, <3>2 DEF SustainedNow, c
  <2>3. Earned(s, k)
    <3>1. \A d \in DOMAIN form.parts : Timed(d) /\ d > k - 1 => d > k
      <4>1. \A d \in DOMAIN form.parts : d \in Nat
        BY <1>1, FormFacts
      <4>2. ~Timed(k)
        BY <1>6 DEF Timed, c
      <4> QED BY <1>1, <4>1, <4>2
    <3> QED BY <3>1 DEF Earned
  <2> QED BY <2>1, <2>2, <2>3 DEF c
<1>7. CASE Met(c) /\ c.for_duration # 0
  <2> DEFINE start == IF s = None THEN now ELSE s
  <2>1. r = [out |-> now - start >= c.for_duration, since |-> start]
    BY <1>4, <1>7 DEF EvaluateCounter
  <2>2. start \in Nat /\ HeldNow(k) \in Nat /\ HeldNow(k) <= start /\ start <= now
    <3>1. HeldNow(k) \in Nat /\ HeldNow(k) <= now
      BY <1>2, <1>3, <1>7
    <3>2. CASE s = None
      BY <1>3, <3>1, <3>2
    <3>3. CASE s # None
      <4>1. PICK d \in DOMAIN form.parts :
              /\ Timed(d) /\ s <= now
              /\ \/ Met(form.parts[d]) /\ HeldNow(d) <= s
                 \/ d > k - 1 /\ HeldBefore[d] # None /\ HeldBefore[d] <= s
        BY <3>3 DEF Earned
      <4>2. d = k
        BY <1>1, <1>7, <4>1 DEF TimedOnce, Timed, c
      <4>3. HeldBefore[k] # None => HeldNow(k) = HeldBefore[k]
        BY <1>7 DEF HeldNow, c
      <4> QED BY <1>3, <3>1, <3>3, <4>1, <4>2, <4>3
    <3> QED BY <3>2, <3>3
  <2>3. Earned(start, n)
    BY <1>1, <1>7, <2>2 DEF Earned, Timed, c
  <2>4. Earned(start, k)
    BY <1>1, <1>7, <2>2 DEF Earned, Timed, c
  <2>5. now - start >= c.for_duration => SustainedNow(k)
    <3>1. HeldNow(k) # None
      BY <1>3, <2>2
    <3>2. now - start >= c.for_duration => now - HeldNow(k) >= c.for_duration
      BY <1>1, <1>3, <2>2
    <3> QED BY <3>1, <3>2 DEF SustainedNow, c
  <2> HIDE DEF start
  <2>6. r.out = (now - start >= c.for_duration) /\ r.since = start
    BY <2>1
  <2> HIDE DEF r
  <2>7. /\ r.out = TRUE => SustainedNow(k)
        /\ r.out \in BOOLEAN
    <3>1. (now - start >= c.for_duration) \in BOOLEAN
      OBVIOUS
    <3> DEFINE late == now - start >= c.for_duration
    <3>2. r.out = late /\ late \in BOOLEAN /\ (late => SustainedNow(k))
      BY <2>5, <2>6, <3>1
    <3> HIDE DEF late
    <3> QED BY <3>2, Zenon
  <2> QED BY <2>3, <2>4, <2>6, <2>7 DEF r, c, n
<1> QED BY <1>5, <1>6, <1>7

(* A timestamp earned by a condition found true is earned whichever part   *)
(* comes next.                                                             *)
LEMMA EarnedEarlier ==
  ASSUME TypeOK, NEW s, NEW k \in 0 .. Len(form.parts), Earned(s, Len(form.parts))
  PROVE  Earned(s, k)
<1>1. form \in Forms
  BY DEF TypeOK
<1>2. Len(form.parts) \in Nat /\ \A d \in DOMAIN form.parts : d \in 1 .. Len(form.parts)
  BY <1>1, FormFacts
<1>3. \A d \in DOMAIN form.parts : ~(d > Len(form.parts))
  BY <1>2
<1> QED BY <1>3 DEF Earned

(* What the visit has come to after k parts.                               *)
Visits(k) ==
  /\ form.op = "or" =>
       /\ Visited[k].out = TRUE => \E j \in DOMAIN form.parts : SustainedNow(j)
       /\ Visited[k].out = FALSE => Earned(Visited[k].since, k)
  /\ form.op # "or" =>
       /\ Visited[k].out = TRUE =>
            (\A j \in 1 .. k : SustainedNow(j)) /\ Earned(Visited[k].since, k)
       /\ Visited[k].out = FALSE => Earned(Visited[k].since, Len(form.parts))

(* "or" comes to true only if a part was sustained, "and" only if all were,*)
(* and the timestamp they leave is that of a part found true unless "or"   *)
(* came to true (evaluate_condition).                                      *)
LEMMA VisitEarns ==
  ASSUME TypeOK, HeldInv, SinceInv, TimedOnce, Targets # {}
  PROVE  Visits(Len(form.parts))
<1> DEFINE n == Len(form.parts)
           S == {k \in Nat : k \in 0 .. n => Visits(k)}
<1>1. /\ form \in Forms /\ now \in Time /\ firstTrue \in Since
      /\ n \in Nat \ {0} /\ DOMAIN form.parts = 1 .. n
  BY FormFacts DEF TypeOK, Since
<1>2. /\ Visited \in [0 .. n -> Result]
      /\ Visited[0] = [out |-> form.op # "or", since |-> firstTrue]
      /\ \A k \in 1 .. n : Visited[k] = Visit(k, Visited[k - 1])
  BY <1>1, VisitedUnfolds, Zenon
<1>3. Visits(0)
  <2>1. Earned(firstTrue, 0)
    <3>1. \A d \in DOMAIN form.parts : d > 0
      BY <1>1
    <3> QED BY <3>1 DEF SinceInv, Earned
  <2>2. Visited[0].since = firstTrue /\ Visited[0].out = (form.op # "or")
    BY <1>2
  <2>3. CASE form.op = "or"
    <3>1. Visited[0].out = FALSE
      BY <2>2, <2>3
    <3> QED BY <2>1, <2>2, <2>3, <3>1 DEF Visits
  <2>4. CASE form.op # "or"
    <3>1. Visited[0].out = TRUE
      <4>1. (form.op # "or") = TRUE
        BY <2>4, Zenon
      <4> QED BY <2>2, <4>1
    <3>2. 1 .. 0 = {}
      OBVIOUS
    <3> QED BY <2>1, <2>2, <2>4, <3>1, <3>2 DEF Visits
  <2> QED BY <2>3, <2>4
<1>4. ASSUME NEW k \in 1 .. n, Visits(k - 1)
      PROVE  Visits(k)
  <2> DEFINE p == Visited[k - 1]
             r == EvaluateCounter(form.parts[k], p.since)
  <2>1. k - 1 \in 0 .. n /\ k \in 0 .. n
    BY <1>1
  <2>2. p \in Result /\ p.out \in BOOLEAN /\ p.since \in Since
    BY <1>2, <2>1 DEF Result
  <2>3. Visited[k] = Visit(k, p)
    BY <1>2
  <2>4. ASSUME Earned(p.since, k - 1)
        PROVE  /\ r.out = TRUE => SustainedNow(k)
               /\ r.out = TRUE => Earned(r.since, k)
               /\ r.out = FALSE => Earned(r.since, n)
               /\ r.out \in BOOLEAN
    BY <2>2, <2>4, EvaluateCounterEarns
  <2>5. \A s : Earned(s, n) => Earned(s, k)
    BY <2>1, EarnedEarlier
  <2> HIDE DEF p, r, n
  <2>6. CASE form.op = "or"
    <3>1. CASE p.out = TRUE
      <4>1. Visited[k] = p
        BY <2>3, <2>6, <3>1 DEF Visit
      <4> QED BY <1>4, <2>6, <3>1, <4>1 DEF Visits, p
    <3>2. CASE p.out = FALSE
      <4>1. Visited[k] = r
        BY <2>3, <2>6, <3>2 DEF Visit, r
      <4>2. Earned(p.since, k - 1)
        BY <1>4, <2>6, <3>2 DEF Visits, p
      <4> QED BY <1>1, <2>4, <2>5, <2>6, <4>1, <4>2 DEF Visits
    <3> QED BY <2>2, <3>1, <3>2
  <2>7. CASE form.op # "or"
    <3>1. CASE p.out = FALSE
      <4>1. Visited[k] = p
        BY <2>3, <2>7, <3>1 DEF Visit
      <4> QED BY <1>4, <2>7, <3>1, <4>1 DEF Visits, p
    <3>2. CASE p.out = TRUE
      <4>1. Visited[k] = r
        BY <2>3, <2>7, <3>2 DEF Visit, r
      <4>2. Earned(p.since, k - 1) /\ \A j \in 1 .. (k - 1) : SustainedNow(j)
        BY <1>4, <2>7, <3>2 DEF Visits, p
      <4>3. \A j \in 1 .. k : j = k \/ j \in 1 .. (k - 1)
        BY <1>1
      <4> QED BY <2>4, <2>7, <4>1, <4>2, <4>3 DEF Visits, n
    <3> QED BY <2>2, <3>1, <3>2
  <2> QED BY <2>6, <2>7
<1>5. 0 \in S /\ \A k \in Nat : k \in S => k + 1 \in S
  <2>1. 0 \in S
    BY <1>3
  <2>2. ASSUME NEW k \in Nat, k \in S, k + 1 \in 0 .. n PROVE Visits(k + 1)
    <3>1. k \in 0 .. n /\ k + 1 \in 1 .. n /\ (k + 1) - 1 = k
      BY <1>1, <2>2
    <3>2. Visits((k + 1) - 1)
      BY <2>2, <3>1
    <3> QED BY <1>4, <3>1, <3>2
  <2> QED BY <2>1, <2>2
<1>6. Nat \subseteq S
  <2> HIDE DEF S
  <2> QED BY <1>5, NatSets
<1> QED BY <1>1, <1>6

(* The instance after an evaluation.                                       *)
LEMMA EvaluateSteps ==
  ASSUME TypeOK, Evaluate
  PROVE  /\ EvaluateCondition.out \in BOOLEAN
         /\ outcome' = IF EvaluateCondition.out = TRUE THEN "fired" ELSE "waits"
         /\ firstTrue' = IF EvaluateCondition.out = TRUE THEN None ELSE Visited[Len(form.parts)].since
         /\ firstTrue' \in Since
         /\ held' = [k \in DOMAIN form.parts |-> HeldNow(k)]
         /\ HeldBefore' = IF EvaluateCondition.out = TRUE
                            THEN [k \in DOMAIN form.parts |-> None] ELSE held'
         /\ UNCHANGED <<form, now, cache>>
<1> DEFINE n == Len(form.parts)
           end == Visited[n]
<1>1. form \in Forms /\ now \in Time /\ firstTrue \in Since /\ n \in Nat /\ n \in 0 .. n
  BY FormFacts DEF TypeOK, Since
<1>2. end \in Result
  BY <1>1, VisitedUnfolds
<1>3. end.out \in BOOLEAN /\ end.since \in Since /\ None \in Since
  BY <1>2 DEF Result, Since
<1>4. EvaluateCondition.since = end.since /\ EvaluateCondition.out \in BOOLEAN
  <2> HIDE DEF end
  <2>1. CASE form.op = "not"
    <3>1. EvaluateCondition = [end EXCEPT !.out = ~@]
      BY <2>1 DEF EvaluateCondition, end
    <3>2. [end EXCEPT !.out = ~@] = [out |-> ~end.out, since |-> end.since]
      BY <1>2 DEF Result
    <3> QED BY <1>3, <3>1, <3>2
  <2>2. CASE form.op # "not"
    <3>1. EvaluateCondition = end
      BY <2>2 DEF EvaluateCondition, end
    <3> QED BY <1>3, <3>1
  <2> QED BY <2>1, <2>2
<1> HIDE DEF end
<1>5. /\ outcome' = IF EvaluateCondition.out THEN "fired" ELSE "waits"
      /\ firstTrue' = IF EvaluateCondition.out THEN None ELSE EvaluateCondition.since
      /\ held' = [k \in DOMAIN form.parts |-> HeldNow(k)]
      /\ UNCHANGED <<form, now, cache>>
  BY Zenon DEF Evaluate, HeldNow
<1>6. HeldBefore' = IF outcome' = "fired" THEN [k \in DOMAIN form.parts |-> None] ELSE held'
  BY <1>5 DEF HeldBefore
<1>7. CASE EvaluateCondition.out = TRUE
  <2> QED BY <1>3, <1>5, <1>6, <1>7, Zenon
<1>8. CASE EvaluateCondition.out = FALSE
  <2> QED BY <1>3, <1>4, <1>5, <1>6, <1>8, Zenon DEF end
<1> QED BY <1>4, <1>7, <1>8
-----------------------------------------------------------------------------
(***************************************************************************)
(* Types.                                                                  *)
(***************************************************************************)
(* A report leaves in the ring buffer of its node what was there and the   *)
(* new snapshot, but for the oldest when there are too many                *)
(* (CounterSnapshotCache::record).                                         *)
LEMMA RecordTypes ==
  ASSUME TypeOK, NEW n \in Node, NEW s \in Snapshot, Record(n, s)
  PROVE  /\ cache' \in [Node -> Seq(Snapshot)]
         /\ \A m \in Node : Len(cache'[m]) <= MaxPerNode
<1> DEFINE grown == Append(cache[n], s)
           kept == IF Len(grown) > MaxPerNode THEN Tail(grown) ELSE grown
<1>1. cache[n] \in Seq(Snapshot) /\ Len(cache[n]) \in Nat /\ Len(cache[n]) <= MaxPerNode
  BY DEF TypeOK
<1>2. grown \in Seq(Snapshot) /\ Len(grown) = Len(cache[n]) + 1 /\ grown # << >>
  BY <1>1
<1>3. MaxPerNode \in Nat \ {0}
  BY CounterAssumption
<1>4. cache' = [cache EXCEPT ![n] = kept]
  BY DEF Record
<1> HIDE DEF grown
<1>5. Tail(grown) \in Seq(Snapshot) /\ Len(Tail(grown)) = Len(grown) - 1
  BY <1>2
<1>6. kept \in Seq(Snapshot) /\ Len(kept) <= MaxPerNode
  BY <1>1, <1>2, <1>3, <1>5
<1> HIDE DEF kept
<1> QED BY <1>4, <1>6 DEF TypeOK

(* evict_expired drops snapshots from the front.                           *)
LEMMA EvictTypes ==
  ASSUME TypeOK, EvictExpired
  PROVE  /\ cache' \in [Node -> Seq(Snapshot)]
         /\ \A m \in Node : Len(cache'[m]) <= MaxPerNode
<1> DEFINE old(n) == {k \in DOMAIN cache[n] : \A j \in 1 .. k : Expired(cache[n][j])}
           rest(n) == SubSeq(cache[n], Cardinality(old(n)) + 1, Len(cache[n]))
<1>1. cache' = [n \in Node |-> rest(n)]
  BY DEF EvictExpired
<1>2. ASSUME NEW n \in Node
      PROVE  rest(n) \in Seq(Snapshot) /\ Len(rest(n)) <= MaxPerNode
  <2>1. cache[n] \in Seq(Snapshot) /\ Len(cache[n]) \in Nat /\ Len(cache[n]) <= MaxPerNode
    BY DEF TypeOK
  <2>2. DOMAIN cache[n] = 1 .. Len(cache[n])
    BY <2>1
  <2>3. IsFiniteSet(DOMAIN cache[n])
    BY <2>1, <2>2, FS_Interval
  <2>4. IsFiniteSet(old(n))
    BY <2>3, FS_Subset
  <2> HIDE DEF old
  <2>5. Cardinality(old(n)) \in Nat
    BY <2>4, FS_CardinalityType
  <2> DEFINE m == Cardinality(old(n)) + 1
  <2>6. m \in Nat /\ m >= 1
    BY <2>5
  <2> HIDE DEF m
  <2>7. SubSeq(cache[n], m, Len(cache[n])) \in Seq(Snapshot)
    BY <2>1, <2>6
  <2>8. Len(SubSeq(cache[n], m, Len(cache[n]))) <= Len(cache[n])
    BY <2>1, <2>6
  <2>9. MaxPerNode \in Nat
    BY CounterAssumption
  <2>10. Len(SubSeq(cache[n], m, Len(cache[n]))) <= MaxPerNode
    BY <2>1, <2>7, <2>8, <2>9
  <2> QED BY <2>7, <2>10 DEF m
<1> HIDE DEF rest
<1> QED BY <1>1, <1>2

(* Something other than an evaluation keeps the types of what it writes.   *)
LEMMA ElsewhereTypes ==
  ASSUME TypeOK, Elsewhere
  PROVE  outcome' = "none" /\ held' \in [DOMAIN form.parts -> Since]
BY HeldBeforeTypes DEF Elsewhere

(* Every step keeps the types.                                             *)
LEMMA NextTypes ==
  ASSUME TypeOK, [Next]_vars
  PROVE  TypeOK'
<1>1. CASE \E n \in Node, counts \in Counts, at \in Time : ReportCounters(n, counts, at)
  <2> PICK n \in Node, counts \in Counts, at \in Time : ReportCounters(n, counts, at)
    BY <1>1
  <2>1. [at |-> at, counts |-> counts] \in Snapshot
    BY DEF Snapshot
  <2>2. Record(n, [at |-> at, counts |-> counts]) /\ Elsewhere /\ UNCHANGED <<form, now, firstTrue>>
    BY DEF ReportCounters
  <2> QED BY <2>1, <2>2, RecordTypes, ElsewhereTypes DEF TypeOK, Since
<1>2. CASE EvictExpired
  BY <1>2, EvictTypes, ElsewhereTypes DEF EvictExpired, TypeOK, Since
<1>3. CASE Tick
  <2>1. now' \in Time
    BY <1>3, TimeFacts DEF Tick, TypeOK, Time
  <2> QED BY <1>3, <2>1, ElsewhereTypes DEF Tick, TypeOK, Since
<1>4. CASE Evaluate
  <2>1. \A k \in DOMAIN form.parts : HeldNow(k) \in Since
    BY HeldBeforeTypes DEF HeldNow, Since, TypeOK
  <2> QED BY <1>4, <2>1, EvaluateSteps DEF TypeOK, Since
<1>5. CASE UNCHANGED vars
  BY <1>5 DEF vars, TypeOK
<1> QED BY <1>1, <1>2, <1>3, <1>4, <1>5 DEF Next

(* At the start nothing was reported.                                      *)
LEMMA InitTypes == Init => TypeOK
<1>1. << >> \in Seq(Snapshot) /\ Len(<< >>) = 0 /\ MaxPerNode \in Nat /\ 0 \in Time
  BY CounterAssumption DEF Time
<1> QED BY <1>1 DEF Init, TypeOK

(* Snapshots, timestamps and outcomes are what the code's types say, and   *)
(* no ring buffer holds more than its maximum (CounterSnapshotCache),      *)
(* whatever the reports and however late they are.                         *)
THEOREM CounterTypes == Spec => []TypeOK
BY InitTypes, NextTypes, PTL DEF Spec
-----------------------------------------------------------------------------
(***************************************************************************)
(* A transition fires only when its condition was sustained.               *)
(***************************************************************************)
(* The property after an evaluation, in terms of the state before it.      *)
ExpectedNow ==
  CASE form.op = "and" -> \A k \in DOMAIN form.parts : SustainedNow(k)
    [] form.op = "or"  -> \E k \in DOMAIN form.parts : SustainedNow(k)
    [] form.op = "not" -> ~SustainedNow(1)

LEMMA ExpectedAfter ==
  ASSUME TypeOK, Evaluate
  PROVE  Expected' <=> ExpectedNow
<1>1. /\ held' = [k \in DOMAIN form.parts |-> HeldNow(k)]
      /\ form' = form /\ now' = now
  BY EvaluateSteps
<1>2. ASSUME NEW k \in DOMAIN form.parts PROVE Sustained(k)' <=> SustainedNow(k)
  BY <1>1 DEF Sustained, SustainedNow
<1>3. /\ form.op \in {"and", "or", "not"}
      /\ form.op = "not" => 1 \in DOMAIN form.parts
  BY FormFacts DEF TypeOK
<1>4. CASE form.op = "and"
  BY <1>1, <1>2, <1>4 DEF Expected, ExpectedNow
<1>5. CASE form.op = "or"
  BY <1>1, <1>2, <1>5 DEF Expected, ExpectedNow
<1>6. CASE form.op = "not"
  BY <1>1, <1>2, <1>3, <1>6 DEF Expected, ExpectedNow
<1> QED BY <1>3, <1>4, <1>5, <1>6

(* What happens elsewhere leaves what was held, and time only goes on.     *)
LEMMA ElsewhereKeeps ==
  ASSUME TypeOK, HeldInv, Elsewhere, UNCHANGED <<form, firstTrue>>, TypeOK', now <= now'
  PROVE  HeldInv' /\ (SinceInv => SinceInv') /\ HeldBefore' = HeldBefore
<1>1. HeldBefore' = HeldBefore
  BY DEF Elsewhere, HeldBefore
<1>2. /\ now \in Nat /\ now' \in Nat /\ firstTrue \in Since
      /\ Since \subseteq Nat \cup {None} /\ None \notin Nat
      /\ HeldBefore \in [DOMAIN form.parts -> Since]
  BY HeldBeforeTypes, TimeFacts DEF TypeOK, Since
<1> HIDE DEF HeldBefore
<1>3. ASSUME NEW k \in DOMAIN form.parts, HeldBefore[k] # None
      PROVE  HeldBefore[k] <= now'
  <2>1. HeldBefore[k] \in Nat
    BY <1>2, <1>3
  <2>2. HeldBefore[k] <= now
    BY <1>3 DEF HeldInv
  <2> QED BY <1>2, <2>1, <2>2
<1>4. ASSUME firstTrue # None, SinceInv
      PROVE  \E d \in DOMAIN form.parts :
               /\ Timed(d) /\ HeldBefore[d] # None
               /\ HeldBefore[d] <= firstTrue /\ firstTrue <= now'
  <2>1. firstTrue \in Nat
    BY <1>2, <1>4
  <2>2. PICK d \in DOMAIN form.parts :
          /\ Timed(d) /\ HeldBefore[d] # None
          /\ HeldBefore[d] <= firstTrue /\ firstTrue <= now
    BY <1>4 DEF SinceInv
  <2>3. firstTrue <= now'
    BY <1>2, <2>1, <2>2
  <2> QED BY <2>2, <2>3
<1>5. \A d : Timed(d)' <=> Timed(d)
  BY DEF Timed
<1> QED BY <1>1, <1>3, <1>4, <1>5 DEF HeldInv, SinceInv

(* What an evaluation finds held, it finds held by now.                    *)
LEMMA EvaluateHolds ==
  ASSUME TypeOK, HeldInv, Evaluate
  PROVE  HeldInv'
<1>1. /\ held' = [k \in DOMAIN form.parts |-> HeldNow(k)]
      /\ HeldBefore' = IF EvaluateCondition.out = TRUE
                         THEN [k \in DOMAIN form.parts |-> None] ELSE held'
      /\ form' = form /\ now' = now
  BY EvaluateSteps
<1>2. \A k \in DOMAIN form.parts : HeldNow(k) # None => HeldNow(k) <= now
  BY HeldNowTypes
<1> QED BY <1>1, <1>2 DEF HeldInv

(* An evaluation leaves a timestamp only for a part that was found true    *)
(* for longer.                                                             *)
LEMMA EvaluateKeeps ==
  ASSUME TypeOK, HeldInv, SinceInv, TimedOnce, Targets # {}, Evaluate
  PROVE  SinceInv'
<1> DEFINE n == Len(form.parts)
           end == Visited[n]
           out == EvaluateCondition.out
<1>1. /\ form \in Forms /\ n \in Nat \ {0} /\ DOMAIN form.parts = 1 .. n
      /\ form.op \in {"and", "or", "not"} /\ now \in Nat /\ None \notin Nat
  BY FormFacts, TimeFacts DEF TypeOK
<1>2. /\ out \in BOOLEAN
      /\ firstTrue' = IF out = TRUE THEN None ELSE end.since
      /\ held' = [k \in DOMAIN form.parts |-> HeldNow(k)]
      /\ HeldBefore' = IF out = TRUE THEN [k \in DOMAIN form.parts |-> None] ELSE held'
      /\ form' = form /\ now' = now
  BY EvaluateSteps
<1>3. ASSUME out = FALSE PROVE Earned(end.since, n)
  <2>1. Visits(n)
    BY VisitEarns
  <2>2. end.out \in BOOLEAN
    <3>1. firstTrue \in Since /\ now \in Time /\ n \in 0 .. n
      BY <1>1 DEF TypeOK, Since
    <3> QED BY <1>1, <3>1, VisitedUnfolds DEF Result
  <2>3. form.op = "or" => end.out = FALSE
    <3> HIDE DEF end
    <3> QED BY <1>3, <2>2, Zenon DEF EvaluateCondition, end
  <2> QED BY <1>1, <2>1, <2>2, <2>3 DEF Visits
<1> HIDE DEF out, end
<1>4. CASE out = TRUE
  <2>1. firstTrue' = None
    BY <1>2, <1>4
  <2> QED BY <2>1 DEF SinceInv
<1>5. CASE out = FALSE
  <2>1. firstTrue' = end.since /\ HeldBefore' = [k \in DOMAIN form.parts |-> HeldNow(k)]
    BY <1>2, <1>5
  <2>2. ASSUME firstTrue' # None
        PROVE  \E d \in DOMAIN form.parts :
                 /\ Timed(d) /\ HeldBefore'[d] # None
                 /\ HeldBefore'[d] <= firstTrue' /\ firstTrue' <= now
    <3>1. Earned(end.since, n)
      BY <1>3, <1>5 DEF out, end
    <3>2. PICK d \in DOMAIN form.parts :
            /\ Timed(d) /\ end.since <= now
            /\ \/ Met(form.parts[d]) /\ HeldNow(d) <= end.since
               \/ d > n /\ HeldBefore[d] # None /\ HeldBefore[d] <= end.since
      BY <2>1, <2>2, <3>1 DEF Earned
    <3>3. ~(d > n)
      BY <1>1
    <3>4. HeldNow(d) # None
      BY <3>2, <3>3, HeldNowTypes
    <3> QED BY <2>1, <3>2, <3>3, <3>4
  <2>3. \A d : Timed(d)' <=> Timed(d)
    BY <1>2 DEF Timed
  <2> QED BY <1>2, <2>2, <2>3 DEF SinceInv
<1> QED BY <1>2, <1>4, <1>5

(* A condition on its own is true exactly if it was sustained, and its     *)
(* timestamp stays since when it holds (evaluate_counter_condition).       *)
LEMMA SingleVisit ==
  ASSUME TypeOK, HeldInv, SingleInv, Targets # {}, Len(form.parts) = 1
  PROVE  /\ Visited[1].out = TRUE <=> SustainedNow(1)
         /\ Visited[1].out = FALSE <=> ~SustainedNow(1)
         /\ Visited[1].since = IF Timed(1) THEN HeldNow(1) ELSE None
<1> DEFINE c == form.parts[1]
           r == EvaluateCounter(c, firstTrue)
<1>1. /\ form \in Forms /\ now \in Time /\ firstTrue \in Since
      /\ 1 \in DOMAIN form.parts /\ c.for_duration \in Nat
  BY FormFacts DEF TypeOK, Since
<1>2. /\ HeldNow(1) \in Since
      /\ HeldNow(1) # None <=> Met(c)
      /\ HeldNow(1) # None => HeldNow(1) <= now
  BY <1>1, HeldNowTypes
<1>3. now \in Nat /\ None \notin Nat /\ Since \subseteq Nat \cup {None}
  BY TimeFacts DEF TypeOK, Since
<1>4. Visited[1] = r
  <2>1. /\ Visited[0] = [out |-> form.op # "or", since |-> firstTrue]
        /\ 1 - 1 = 0 /\ 1 \in 1 .. Len(form.parts)
    BY <1>1, VisitedUnfolds
  <2>2. Visited[1] = Visit(1, Visited[0])
    BY <1>1, <2>1, VisitedUnfolds
  <2>3. Visited[0].out # (form.op = "or") /\ Visited[0].since = firstTrue
    BY <2>1
  <2> QED BY <2>2, <2>3 DEF Visit
<1>5. NodesToCheck # {}
  BY DEF NodesToCheck
<1>6. firstTrue = IF c.for_duration # 0 THEN HeldBefore[1] ELSE None
  BY DEF SingleInv, Timed
<1> HIDE DEF c
<1>7. CASE ~Met(c)
  <2>1. r = [out |-> FALSE, since |-> None]
    BY <1>5, <1>7 DEF EvaluateCounter
  <2>2. HeldNow(1) = None /\ ~SustainedNow(1)
    BY <1>2, <1>7 DEF SustainedNow
  <2> QED BY <1>4, <2>1, <2>2
<1>8. CASE Met(c) /\ c.for_duration = 0
  <2>1. r = [out |-> TRUE, since |-> None]
    BY <1>5, <1>6, <1>8 DEF EvaluateCounter
  <2>2. SustainedNow(1)
    <3>1. HeldNow(1) \in Nat /\ HeldNow(1) # None /\ HeldNow(1) <= now
      BY <1>2, <1>3, <1>8
    <3>2. now - HeldNow(1) >= c.for_duration
      BY <1>3, <1>8, <3>1
    <3> QED BY <3>1, <3>2 DEF SustainedNow, c
  <2>3. ~Timed(1)
    BY <1>8 DEF Timed, c
  <2> QED BY <1>4, <2>1, <2>2, <2>3
<1>9. CASE Met(c) /\ c.for_duration # 0
  <2> DEFINE late == now - HeldNow(1) >= c.for_duration
  <2>1. HeldNow(1) = IF firstTrue = None THEN now ELSE firstTrue
    BY <1>6, <1>9 DEF HeldNow, c
  <2>2. r = [out |-> late, since |-> HeldNow(1)]
    BY <1>5, <1>9, <2>1 DEF EvaluateCounter
  <2>3. late \in BOOLEAN /\ (late <=> SustainedNow(1))
    BY <1>2, <1>9 DEF SustainedNow, c
  <2>4. Timed(1)
    BY <1>9 DEF Timed, c
  <2> HIDE DEF late, r
  <2>5. r.out = late /\ r.since = HeldNow(1)
    BY <2>2
  <2> QED BY <1>4, <2>3, <2>4, <2>5, Zenon
<1> QED BY <1>7, <1>8, <1>9

(* What an evaluation answers, from what its visit came to.                *)
LEMMA Answers ==
  ASSUME TypeOK
  PROVE  /\ Visited[Len(form.parts)].out \in BOOLEAN
         /\ form.op = "not" =>
              (EvaluateCondition.out = TRUE <=> Visited[Len(form.parts)].out = FALSE)
         /\ form.op # "not" =>
              (EvaluateCondition.out = TRUE <=> Visited[Len(form.parts)].out = TRUE)
<1> DEFINE end == Visited[Len(form.parts)]
<1>1. end \in Result
  <2>1. form \in Forms /\ now \in Time /\ firstTrue \in Since
    BY DEF TypeOK, Since
  <2>2. Len(form.parts) \in 0 .. Len(form.parts)
    BY <2>1, FormFacts
  <2> QED BY <2>1, <2>2, VisitedUnfolds
<1>2. end.out \in BOOLEAN
  BY <1>1 DEF Result
<1>3. ASSUME form.op = "not"
      PROVE  EvaluateCondition.out = ~end.out
  <2>1. EvaluateCondition = [end EXCEPT !.out = ~@]
    BY <1>3 DEF EvaluateCondition
  <2> HIDE DEF end
  <2>2. [end EXCEPT !.out = ~@] = [out |-> ~end.out, since |-> end.since]
    BY <1>1 DEF Result
  <2> QED BY <2>1, <2>2
<1>4. form.op # "not" => EvaluateCondition = end
  BY DEF EvaluateCondition
<1> HIDE DEF end
<1>5. ASSUME form.op = "not"
      PROVE  EvaluateCondition.out = TRUE <=> end.out = FALSE
  BY <1>2, <1>3, <1>5, Zenon
<1> QED BY <1>2, <1>4, <1>5 DEF end

(* The timestamp of a condition on its own stays since when it holds.      *)
LEMMA EvaluateKeepsSingle ==
  ASSUME TypeOK, HeldInv, SingleInv, Targets # {}, Evaluate
  PROVE  SingleInv'
<1> DEFINE out == EvaluateCondition.out
<1>1. /\ out \in BOOLEAN
      /\ firstTrue' = IF out = TRUE THEN None ELSE Visited[Len(form.parts)].since
      /\ held' = [k \in DOMAIN form.parts |-> HeldNow(k)]
      /\ HeldBefore' = IF out = TRUE THEN [k \in DOMAIN form.parts |-> None] ELSE held'
      /\ form' = form
  BY EvaluateSteps
<1>2. Timed(1)' <=> Timed(1)
  BY <1>1 DEF Timed
<1>3. Len(form.parts) = 1 => 1 \in DOMAIN form.parts
  BY FormFacts DEF TypeOK
<1> SUFFICES ASSUME Len(form.parts) = 1
             PROVE  firstTrue' = IF Timed(1) THEN HeldBefore'[1] ELSE None
  BY <1>1, <1>2 DEF SingleInv
<1> HIDE DEF out
<1>4. CASE out = TRUE
  BY <1>1, <1>3, <1>4
<1>5. CASE out = FALSE
  <2>1. Visited[1].since = IF Timed(1) THEN HeldNow(1) ELSE None
    BY SingleVisit
  <2> QED BY <1>1, <1>3, <1>5, <2>1
<1> QED BY <1>1, <1>4, <1>5

(* A condition on its own fires if and only if it was sustained.           *)
LEMMA SingleAnswers ==
  ASSUME TypeOK, HeldInv, SingleInv, Targets # {}, Len(form.parts) = 1
  PROVE  EvaluateCondition.out = TRUE <=> ExpectedNow
<1>1. form.op \in {"and", "or", "not"} /\ DOMAIN form.parts = {1}
  <2>1. 1 .. 1 = {1}
    OBVIOUS
  <2> QED BY <2>1, FormFacts DEF TypeOK
<1>2. CASE form.op = "not"
  BY <1>2, Answers, SingleVisit DEF ExpectedNow
<1>3. CASE form.op \in {"and", "or"}
  BY <1>1, <1>3, Answers, SingleVisit DEF ExpectedNow
<1> QED BY <1>1, <1>2, <1>3

(* Whatever fires was sustained.                                           *)
LEMMA FiredIsSustained ==
  ASSUME TypeOK, HeldInv, SinceInv, SingleInv, TimedOnce, Targets # {}, Evaluate
  PROVE  FiresOnlyWhenSustained'
<1> SUFFICES ASSUME EvaluateCondition.out = TRUE PROVE ExpectedNow
  BY EvaluateSteps, ExpectedAfter DEF FiresOnlyWhenSustained
<1>1. /\ form.op \in {"and", "or", "not"}
      /\ form.op = "not" => Len(form.parts) = 1
      /\ DOMAIN form.parts = 1 .. Len(form.parts)
  BY FormFacts DEF TypeOK
<1>2. CASE form.op = "not"
  BY <1>1, <1>2, SingleAnswers
<1>3. Visits(Len(form.parts))
  BY VisitEarns
<1>4. CASE form.op = "and"
  <2>1. Visited[Len(form.parts)].out = TRUE
    BY <1>4, Answers
  <2>2. \A k \in DOMAIN form.parts : SustainedNow(k)
    BY <1>1, <1>3, <1>4, <2>1 DEF Visits
  <2> QED BY <1>4, <2>2 DEF ExpectedNow
<1>5. CASE form.op = "or"
  <2>1. Visited[Len(form.parts)].out = TRUE
    BY <1>5, Answers
  <2>2. \E k \in DOMAIN form.parts : SustainedNow(k)
    BY <1>3, <1>5, <2>1 DEF Visits
  <2> QED BY <1>5, <2>2 DEF ExpectedNow
<1> QED BY <1>1, <1>2, <1>4, <1>5

(* What is on its own and waits was not sustained.                         *)
LEMMA WaitingIsNotSustained ==
  ASSUME TypeOK, HeldInv, SingleInv, Targets # {}, Evaluate
  PROVE  SustainedFires'
<1>1. /\ EvaluateCondition.out \in BOOLEAN /\ form' = form
      /\ outcome' = IF EvaluateCondition.out = TRUE THEN "fired" ELSE "waits"
  BY EvaluateSteps
<1> SUFFICES ASSUME Len(form.parts) = 1, EvaluateCondition.out = FALSE PROVE ~ExpectedNow
  BY <1>1, ExpectedAfter DEF SustainedFires
<1> QED BY SingleAnswers

(* Steps other than an evaluation leave nothing to judge.                  *)
LEMMA OtherSteps ==
  ASSUME TypeOK, HeldInv, [Next]_vars, ~Evaluate
  PROVE  /\ HeldInv' /\ (SinceInv => SinceInv') /\ (SingleInv => SingleInv')
         /\ SustainedFires => SustainedFires'
         /\ FiresOnlyWhenSustained => FiresOnlyWhenSustained'
<1>1. TypeOK'
  BY NextTypes
<1>2. CASE UNCHANGED vars
  <2>1. /\ form' = form /\ now' = now /\ cache' = cache /\ firstTrue' = firstTrue
        /\ outcome' = outcome /\ held' = held
    BY <1>2 DEF vars
  <2> QED BY <2>1 DEF HeldInv, SinceInv, SingleInv, Timed, HeldBefore, SustainedFires,
                FiresOnlyWhenSustained, Expected, Sustained
<1>3. CASE Next
  <2>1. Elsewhere /\ UNCHANGED <<form, firstTrue>> /\ now <= now'
    <3>1. now \in Nat
      BY TimeFacts DEF TypeOK
    <3>2. CASE \E n \in Node, counts \in Counts, at \in Time : ReportCounters(n, counts, at)
      BY <3>1, <3>2 DEF ReportCounters
    <3>3. CASE EvictExpired
      BY <3>1, <3>3 DEF EvictExpired
    <3>4. CASE Tick
      BY <3>1, <3>4 DEF Tick
    <3> QED BY <1>3, <3>2, <3>3, <3>4 DEF Next
  <2>2. HeldInv' /\ (SinceInv => SinceInv') /\ HeldBefore' = HeldBefore
    BY <1>1, <2>1, ElsewhereKeeps
  <2>3. SingleInv => SingleInv'
    BY <2>1, <2>2 DEF SingleInv, Timed
  <2>4. outcome' = "none"
    BY <2>1 DEF Elsewhere
  <2> QED BY <2>2, <2>3, <2>4 DEF SustainedFires, FiresOnlyWhenSustained
<1> QED BY <1>2, <1>3

(* At the start nothing is held.                                           *)
LEMMA InitSince ==
  Init => HeldInv /\ SinceInv /\ SingleInv /\ SustainedFires /\ FiresOnlyWhenSustained
<1> SUFFICES ASSUME Init
             PROVE  HeldInv /\ SinceInv /\ SingleInv /\ SustainedFires /\ FiresOnlyWhenSustained
  OBVIOUS
<1>1. HeldBefore = [k \in DOMAIN form.parts |-> None]
  BY DEF Init, HeldBefore
<1>2. Len(form.parts) = 1 => 1 \in DOMAIN form.parts
  BY FormFacts DEF Init
<1> QED BY <1>1, <1>2 DEF Init, HeldInv, SinceInv, SingleInv, SustainedFires,
             FiresOnlyWhenSustained

(* A condition on its own that was true for as long as its for_duration    *)
(* says at every evaluation fires at the next one, however reports come,   *)
(* are late or are evicted, and "not" of it waits                          *)
(* (evaluate_counter_condition).  The instance has nodes: one without is   *)
(* judged by the nodes that have snapshots, and while none has, what was   *)
(* held is forgotten but not the timestamp.                                *)
THEOREM SustainedConditionFires ==
  ASSUME Targets # {}
  PROVE  Spec => []SustainedFires
<1> DEFINE I == TypeOK /\ HeldInv /\ SingleInv /\ SustainedFires
<1>1. Init => I
  BY InitTypes, InitSince
<1>2. I /\ [Next]_vars => I'
  <2> SUFFICES ASSUME I, [Next]_vars PROVE I'
    OBVIOUS
  <2>1. TypeOK'
    BY NextTypes
  <2>2. CASE Evaluate
    BY <2>1, <2>2, EvaluateHolds, EvaluateKeepsSingle, WaitingIsNotSustained
  <2>3. CASE ~Evaluate
    BY <2>1, <2>3, OtherSteps
  <2> QED BY <2>2, <2>3
<1>3. I => SustainedFires
  OBVIOUS
<1> HIDE DEF I
<1> QED BY <1>1, <1>2, <1>3, PTL DEF Spec

(* A transition fires only when its condition, with and, or and not, was   *)
(* true at every evaluation for as long as for_duration says               *)
(* (evaluate_condition, fire_transition), for any number of conditions of  *)
(* which at most one has a duration, and an instance that has nodes.       *)
THEOREM FiredWasSustained ==
  ASSUME Targets # {}, TimedOnce
  PROVE  Spec => []FiresOnlyWhenSustained
<1> DEFINE I == TypeOK /\ HeldInv /\ SinceInv /\ SingleInv /\ FiresOnlyWhenSustained
<1>1. Init => I
  BY InitTypes, InitSince
<1>2. I /\ [Next]_vars => I'
  <2> SUFFICES ASSUME I, [Next]_vars PROVE I'
    OBVIOUS
  <2>1. TypeOK'
    BY NextTypes
  <2>2. CASE Evaluate
    BY <2>1, <2>2, EvaluateHolds, EvaluateKeeps, EvaluateKeepsSingle, FiredIsSustained
  <2>3. CASE ~Evaluate
    BY <2>1, <2>3, OtherSteps
  <2> QED BY <2>2, <2>3
<1>3. I => FiresOnlyWhenSustained
  OBVIOUS
<1> HIDE DEF I
<1> QED BY <1>1, <1>2, <1>3, PTL DEF Spec
-----------------------------------------------------------------------------
(***************************************************************************)
(* Rates.                                                                  *)
(***************************************************************************)
(* No condition of a transition sums rates against a lower bound.          *)
NoSummedRates ==
  \A f \in Forms : \A k \in DOMAIN f.parts :
    f.parts[k].rate_above # None => f.parts[k].aggregate # "sum"

(* Conditions joined by and are all met when the visit comes to true.      *)
LEMMA AndMeetsAll ==
  ASSUME TypeOK, form.op = "and"
  PROVE  \A k \in 0 .. Len(form.parts) :
           Visited[k].out = TRUE => \A j \in 1 .. k : Met(form.parts[j])
<1> DEFINE n == Len(form.parts)
           Meets(k) == Visited[k].out = TRUE => \A j \in 1 .. k : Met(form.parts[j])
           S == {k \in Nat : k \in 0 .. n => Meets(k)}
<1>1. n \in Nat /\ form \in Forms /\ now \in Time /\ firstTrue \in Since
  BY FormFacts DEF TypeOK, Since
<1>2. /\ Visited \in [0 .. n -> Result]
      /\ \A k \in 1 .. n : Visited[k] = Visit(k, Visited[k - 1])
  BY <1>1, VisitedUnfolds
<1>3. 0 \in S
  OBVIOUS
<1>4. ASSUME NEW k \in Nat, k \in S, k + 1 \in 0 .. n, Visited[k + 1].out = TRUE
      PROVE  \A j \in 1 .. (k + 1) : Met(form.parts[j])
  <2>1. k \in 0 .. n /\ k + 1 \in 1 .. n /\ (k + 1) - 1 = k
    BY <1>1, <1>4
  <2>2. Visited[k + 1] = Visit(k + 1, Visited[k]) /\ Visited[k] \in Result
    BY <1>2, <2>1
  <2>3. Visited[k].out \in BOOLEAN
    BY <2>2 DEF Result
  <2>4. CASE Visited[k].out = FALSE
    <3>1. Visited[k + 1] = Visited[k]
      BY <2>2, <2>4 DEF Visit
    <3> QED BY <1>4, <2>4, <3>1
  <2>5. CASE Visited[k].out = TRUE
    <3>1. Visited[k + 1] = EvaluateCounter(form.parts[k + 1], Visited[k].since)
      BY <2>2, <2>5 DEF Visit
    <3>2. Met(form.parts[k + 1])
      BY <1>4, <3>1 DEF EvaluateCounter
    <3>3. \A j \in 1 .. k : Met(form.parts[j])
      BY <1>4, <2>1, <2>5
    <3>4. \A j \in 1 .. (k + 1) : j = k + 1 \/ j \in 1 .. k
      OBVIOUS
    <3> QED BY <3>2, <3>3, <3>4
  <2> QED BY <2>3, <2>4, <2>5
<1>5. Nat \subseteq S
  <2>1. \A k \in Nat : k \in S => k + 1 \in S
    <3> SUFFICES ASSUME NEW k \in Nat, k \in S PROVE k + 1 \in S
      OBVIOUS
    <3>1. k + 1 \in 0 .. n => Meets(k + 1)
      BY <1>4
    <3> HIDE DEF Meets
    <3> QED BY <3>1
  <2> HIDE DEF S
  <2> QED BY <1>3, <2>1, NatSets
<1> QED BY <1>1, <1>5

(* A rate above a bound is that of a counter that grew (calculate_rate).   *)
LEMMA RateIsGrowth ==
  ASSUME TypeOK, NEW n \in Node, NEW x \in Counter, HasRate(n, x),
         NEW above \in Nat, NEW below, RateMatches(Rate(n, x), above, below)
  PROVE  Grew(n, x)
<1> DEFINE len == Len(cache[n])
           old == Older(n)
           new == Newer(n)
<1>1. cache[n] \in Seq(Snapshot) /\ len \in Nat /\ len >= 2
  BY DEF TypeOK, HasRate
<1>2. old \in Snapshot /\ new \in Snapshot
  BY <1>1 DEF Older, Newer
<1>3. old = cache[n][len - 1] /\ new = cache[n][len]
  BY DEF Older, Newer
<1>4. /\ old.at \in Nat /\ new.at \in Nat /\ old.at < new.at
      /\ old.counts[x] \in Nat /\ new.counts[x] \in Nat
  <2>1. \A s \in Snapshot : s.at \in Nat /\ s.counts \in Counts
    BY TimeFacts DEF Snapshot
  <2>2. \A f \in Counts : f[x] # None => f[x] \in Nat
    BY CounterAssumption DEF Counts
  <2>3. old.at < new.at /\ old.counts[x] # None /\ new.counts[x] # None
    BY DEF HasRate
  <2> HIDE DEF old, new
  <2> QED BY <1>2, <2>1, <2>2, <2>3
<1> DEFINE moved == IF new.counts[x] >= old.counts[x]
                      THEN new.counts[x] - old.counts[x] ELSE 0
           elapsed == new.at - old.at
<1>5. Rate(n, x) = <<moved, elapsed>>
  BY DEF Rate
<1>6. moved > above * elapsed
  <2>1. above # None
    BY TimeFacts
  <2> HIDE DEF moved, elapsed
  <2> QED BY <1>5, <2>1 DEF RateMatches
<1> HIDE DEF old, new
<1>7. elapsed \in Nat /\ moved \in Nat
  BY <1>4
<1>8. moved > 0
  <2> HIDE DEF moved, elapsed
  <2>1. above * elapsed \in Nat
    BY <1>7
  <2> QED BY <1>6, <1>7, <2>1
<1>9. old.counts[x] < new.counts[x]
  BY <1>4, <1>8
<1> QED BY <1>1, <1>3, <1>4, <1>9, TimeFacts DEF Grew

(* A part with a lower bound for its rate is met by a counter that grew    *)
(* (check_rate_threshold, for "any" and "all").                            *)
LEMMA MetRateGrew ==
  ASSUME TypeOK, NEW c \in Condition, Met(c),
         c.rate_above # None, c.aggregate # "sum"
  PROVE  \E n \in NodesToCheck : Grew(n, c.counter)
<1> DEFINE rated == {n \in NodesToCheck : HasRate(n, c.counter)}
<1>1. RateMet(NodesToCheck, c)
  BY DEF Met
<1>2. c.counter \in Counter /\ c.rate_above \in Nat /\ c.aggregate \in {"any", "all"}
  BY DEF Condition, Bound
<1>3. PICK n \in rated : RateMatches(Rate(n, c.counter), c.rate_above, c.rate_below)
  <2>1. rated # {}
    BY <1>1, Zenon DEF RateMet
  <2>2. CASE c.aggregate = "any"
    BY <1>1, <2>2 DEF RateMet
  <2>3. CASE c.aggregate = "all"
    BY <1>1, <2>1, <2>3 DEF RateMet
  <2> QED BY <1>2, <2>2, <2>3
<1>4. n \in Node
  BY CounterAssumption DEF NodesToCheck
<1> QED BY <1>2, <1>3, <1>4, RateIsGrowth

(* A transition that asks for a rate above something fires only on a       *)
(* counter that grew between two snapshots collected one after the other:  *)
(* an agent's restart, a late report and a rule that a report lacks never  *)
(* look like a surge (calculate_rate, check_rate_threshold).  For any      *)
(* number of conditions joined by and, with or without target nodes, whose *)
(* rates are judged node by node.                                          *)
THEOREM RatesNeedGrowth ==
  ASSUME NoSummedRates
  PROVE  Spec => []RateNeedsGrowth
<1> DEFINE I == TypeOK /\ RateNeedsGrowth
<1>1. Init => I
  BY InitTypes DEF Init, RateNeedsGrowth
<1>2. I /\ [Next]_vars => I'
  <2> SUFFICES ASSUME I, [Next]_vars PROVE I'
    OBVIOUS
  <2>1. TypeOK'
    BY NextTypes
  <2>2. CASE Evaluate
    <3>1. /\ EvaluateCondition.out \in BOOLEAN
          /\ outcome' = IF EvaluateCondition.out = TRUE THEN "fired" ELSE "waits"
          /\ UNCHANGED <<form, cache>>
      BY <2>2, EvaluateSteps
    <3>2. SUFFICES ASSUME outcome' = "fired", form.op = "and",
                          NEW k \in DOMAIN form.parts, form.parts[k].rate_above # None
                   PROVE  \E n \in NodesToCheck : Grew(n, form.parts[k].counter)
      BY <2>1, <3>1 DEF RateNeedsGrowth, NodesToCheck, Grew
    <3>3. form \in Forms /\ k \in 1 .. Len(form.parts) /\ form.parts[k] \in Condition
          /\ Len(form.parts) \in 0 .. Len(form.parts)
      BY FormFacts DEF TypeOK
    <3>4. Visited[Len(form.parts)].out = TRUE
      BY <3>1, <3>2, Answers
    <3>5. Met(form.parts[k])
      BY <3>2, <3>3, <3>4, AndMeetsAll
    <3> QED BY <3>2, <3>3, <3>5, MetRateGrew DEF NoSummedRates
  <2>3. CASE UNCHANGED vars
    <3>1. UNCHANGED <<form, cache, outcome>>
      BY <2>3 DEF vars
    <3> QED BY <2>1, <3>1 DEF RateNeedsGrowth, NodesToCheck, Grew
  <2>4. CASE Next /\ ~Evaluate
    <3>1. Elsewhere
      BY <2>4 DEF Next, ReportCounters, EvictExpired, Tick
    <3> QED BY <2>1, <3>1 DEF Elsewhere, RateNeedsGrowth
  <2> QED BY <2>2, <2>3, <2>4
<1>3. I => RateNeedsGrowth
  OBVIOUS
<1> HIDE DEF I
<1> QED BY <1>1, <1>2, <1>3, PTL DEF Spec
=============================================================================
