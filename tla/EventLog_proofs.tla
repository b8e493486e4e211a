--------------------------- MODULE EventLog_proofs ---------------------------
(***************************************************************************)
(* Proofs about EventLog, for channels of any capacity, any cap of the     *)
(* memory backend, any number of streams, and every order of events, lags, *)
(* failing stores, pruning and restarts.                                   *)
(***************************************************************************)
EXTENDS EventLog, FiniteSetTheorems, TLAPS

(* What the constants are.                                                 *)
LEMMA Constants ==
  /\ Buffer \in Nat /\ Buffer >= 1 /\ Cap \in Nat /\ Cap >= 1
  /\ Stream \cap Channel = {}
  /\ \A c \in Setups : Setup(c)
BY EventAssumption

(* What a channel retains lies within what was sent on it, and a receiver  *)
(* is told that it lags only if it is more than Buffer events behind.      *)
LEMMA OldestBounds ==
  ASSUME TypeOK, NEW ch \in Channel
  PROVE  /\ Len(sent[ch]) \in Nat
         /\ Oldest(ch) \in 1 .. Len(sent[ch]) + 1
         /\ \A p \in Nat \ {0} : p < Oldest(ch) => p + Buffer < Len(sent[ch]) + 1
<1>1. Len(sent[ch]) \in Nat
  BY DEF TypeOK
<1> QED BY <1>1, Constants DEF Oldest
-----------------------------------------------------------------------------
(***************************************************************************)
(* The j-th of a finite set of numbers.                                    *)
(***************************************************************************)
Below(P, p) == {q \in P : q < p}

(* How many numbers lie below is a rank: smaller than the size of the set, *)
(* and growing with the number.                                            *)
LEMMA RankGrows ==
  ASSUME NEW P \in SUBSET Nat, IsFiniteSet(P), NEW p \in P
  PROVE  /\ Cardinality(P) \in Nat
         /\ Cardinality(Below(P, p)) \in 0 .. Cardinality(P) - 1
         /\ \A q \in P : p < q => Cardinality(Below(P, p)) < Cardinality(Below(P, q))
<1>n. \A q \in P : q \in Nat
  OBVIOUS
<1>1. ASSUME NEW q \in P PROVE IsFiniteSet(Below(P, q)) /\ Cardinality(Below(P, q)) \in Nat
  <2>0. Below(P, q) \in SUBSET P
    BY DEF Below
  <2>1. IsFiniteSet(Below(P, q))
    BY <2>0, FS_Subset
  <2> QED BY <2>1, FS_CardinalityType
<1>2. Cardinality(P) \in Nat
  BY FS_CardinalityType
<1>3. Cardinality(Below(P, p)) < Cardinality(P)
  <2>1. Below(P, p) \in SUBSET P /\ Below(P, p) # P
    BY DEF Below
  <2>2. Cardinality(Below(P, p)) <= Cardinality(P) /\ Cardinality(Below(P, p)) # Cardinality(P)
    BY <2>1, FS_Subset
  <2> QED BY <1>1, <1>2, <2>2
<1>4. ASSUME NEW q \in P, p < q PROVE Cardinality(Below(P, p)) < Cardinality(Below(P, q))
  <2>1. Below(P, p) \in SUBSET Below(P, q) /\ Below(P, p) # Below(P, q)
    <3>1. p \in Below(P, q) /\ p \notin Below(P, p)
      BY <1>4, <1>n DEF Below
    <3>2. \A r \in Below(P, p) : r \in Below(P, q)
      BY <1>4, <1>n DEF Below
    <3> QED BY <3>1, <3>2
  <2>2. /\ Cardinality(Below(P, p)) <= Cardinality(Below(P, q))
        /\ Cardinality(Below(P, p)) # Cardinality(Below(P, q))
    BY <1>1, <2>1, FS_Subset
  <2> QED BY <1>1, <2>2
<1> QED BY <1>1, <1>2, <1>3, <1>4

(* Every rank is taken by one number, so Nth finds it.                     *)
LEMMA NthHasRank ==
  ASSUME NEW P \in SUBSET Nat, IsFiniteSet(P), NEW j \in 1 .. Cardinality(P)
  PROVE  Nth(P, j) \in P /\ Cardinality(Below(P, Nth(P, j))) = j - 1
<1> DEFINE n == Cardinality(P)
           rank == [p \in P |-> Cardinality(Below(P, p)) + 1]
<1>1. n \in Nat
  BY FS_CardinalityType
<1>2. rank \in [P -> 1 .. n]
  BY <1>1, RankGrows
<1>3. \A p, q \in P : rank[p] = rank[q] => p = q
  <2> SUFFICES ASSUME NEW p \in P, NEW q \in P, p < q PROVE rank[p] # rank[q]
    OBVIOUS
  <2>1. /\ Cardinality(Below(P, p)) \in Nat /\ Cardinality(Below(P, q)) \in Nat
        /\ Cardinality(Below(P, p)) < Cardinality(Below(P, q))
    BY <1>1, RankGrows
  <2> QED BY <2>1
<1>4. rank \in Injection(P, 1 .. n)
  BY <1>2, <1>3 DEF Injection, IsInjective
<1>5. IsFiniteSet(1 .. n) /\ Cardinality(1 .. n) = n
  BY <1>1, FS_Interval
<1>6. rank \in Surjection(P, 1 .. n)
  BY <1>4, <1>5, FS_Injection
<1>7. PICK p \in P : rank[p] = j
  BY <1>6 DEF Surjection
<1>8. Cardinality({q \in P : q < p}) = j - 1
  BY <1>1, <1>7, RankGrows DEF Below
<1> QED BY <1>8 DEF Nth, Below

(* Nth goes through all of the set, from the smallest up.                  *)
LEMMA NthOrder ==
  ASSUME NEW P \in SUBSET Nat, IsFiniteSet(P)
  PROVE  /\ \A j, k \in 1 .. Cardinality(P) : j < k => Nth(P, j) < Nth(P, k)
         /\ \A p \in P : \E j \in 1 .. Cardinality(P) : Nth(P, j) = p
<1>0. Cardinality(P) \in Nat
  BY FS_CardinalityType
<1>1. ASSUME NEW p \in P, NEW q \in P, ~(p < q) PROVE
        p = q \/ Cardinality(Below(P, q)) < Cardinality(Below(P, p))
  <2>1. p = q \/ q < p
    BY <1>1
  <2> QED BY <1>0, <2>1, RankGrows
<1>2. ASSUME NEW j \in 1 .. Cardinality(P), NEW k \in 1 .. Cardinality(P), j < k
      PROVE  Nth(P, j) < Nth(P, k)
  <2> DEFINE p == Nth(P, j)
             q == Nth(P, k)
  <2>1. /\ p \in P /\ Cardinality(Below(P, p)) = j - 1
        /\ q \in P /\ Cardinality(Below(P, q)) = k - 1
    BY NthHasRank
  <2> HIDE DEF p, q
  <2>2. p # q /\ ~(Cardinality(Below(P, q)) < Cardinality(Below(P, p)))
    BY <1>0, <1>2, <2>1
  <2>3. p < q
    BY <1>1, <2>1, <2>2
  <2> QED BY <2>3 DEF p, q
<1>3. ASSUME NEW p \in P PROVE \E j \in 1 .. Cardinality(P) : Nth(P, j) = p
  <2> DEFINE n == Cardinality(Below(P, p))
             j == n + 1
             q == Nth(P, j)
  <2>1. n \in 0 .. Cardinality(P) - 1
    BY RankGrows
  <2>2. j \in 1 .. Cardinality(P) /\ n \in Nat /\ j - 1 = n
    BY <1>0, <2>1
  <2>3. q \in P /\ Cardinality(Below(P, q)) = n
    BY <2>2, NthHasRank
  <2>4. n \in Nat /\ ~(n < n)
    BY <2>2
  <2> HIDE DEF q
  <2>5. ~(p < q) /\ p = q
    <3>1. ~(p < q)
      BY <2>3, <2>4, RankGrows
    <3> QED BY <1>1, <2>3, <2>4, <3>1
  <2> QED BY <2>2, <2>5 DEF q
<1> QED BY <1>2, <1>3
-----------------------------------------------------------------------------
(***************************************************************************)
(* Type correctness.                                                       *)
(***************************************************************************)
BusTypeOK ==
  /\ DOMAIN sent = Channel /\ \A ch \in Channel : sent[ch] \in Seq(setup.origin[ch])
  /\ aged \subseteq Ref /\ setup \in Setups
  /\ behind \subseteq Receiver /\ failed \subseteq Channel /\ faults \in Nat
TaskTypeOK ==
  /\ alive \in BOOLEAN /\ off \subseteq Channel /\ storing \subseteq Ref
  /\ next \in [Channel -> Nat \ {0}] /\ began \in [Channel -> Nat \ {0}]
LogTypeOK == rows \subseteq Ref /\ events \in Seq(Ref) /\ Len(events) <= Cap
StreamTypeOK ==
  /\ DOMAIN stream = Stream /\ \A s \in Stream : stream[s] = Closed \/ IsOpen(stream[s])
  /\ got \in [Stream -> Seq(Nat \ {0})]

LEMMA TypeParts ==
  /\ TypeOK <=> BusTypeOK /\ TaskTypeOK /\ LogTypeOK /\ StreamTypeOK
  /\ TypeOK' <=> BusTypeOK' /\ TaskTypeOK' /\ LogTypeOK' /\ StreamTypeOK'
BY DEF TypeOK, BusTypeOK, TaskTypeOK, LogTypeOK, StreamTypeOK

(* An open stream is not a closed one.                                     *)
LEMMA OpenStream ==
  ASSUME StreamTypeOK, NEW s \in Stream, stream[s].open
  PROVE  IsOpen(stream[s])
BY DEF StreamTypeOK, Closed

(* Moving an open stream on leaves it open.                                *)
LEMMA StreamMoves ==
  ASSUME StreamTypeOK, NEW s \in Stream, stream[s].open, NEW p \in Nat \ {0},
         stream' = [stream EXCEPT ![s].next = p], UNCHANGED setup,
         got' \in [Stream -> Seq(Nat \ {0})]
  PROVE  StreamTypeOK'
<1>1. IsOpen([stream[s] EXCEPT !.next = p])
  BY OpenStream DEF IsOpen
<1>2. stream' = [stream EXCEPT ![s] = [stream[s] EXCEPT !.next = p]]
  OBVIOUS
<1>3. ASSUME NEW r \in Stream PROVE stream'[r] = Closed \/ IsOpen(stream[r])'
  BY <1>1, <1>2 DEF StreamTypeOK, IsOpen
<1> QED BY <1>2, <1>3 DEF StreamTypeOK, Closed

(* The steps: the six ways to subscribe are one.                           *)
LEMMA NextSplit ==
  [Next]_vars =>
    \/ \E ch \in Channel : \E about \in setup.origin[ch] : Emit(ch, about)
    \/ DaysPass
    \/ \E ch \in Channel : Receive(ch) \/ Lag(ch)
    \/ StoreEvent \/ StoreFails \/ PruneEvents \/ Restart
    \/ \E s \in Stream : \E ch \in Channel : Subscribe(s, ch)
    \/ \E s \in Stream : Yield(s) \/ SkipLagged(s)
    \/ \E s \in Stream : Unsubscribe(s)
    \/ UNCHANGED vars
<1>1. ASSUME NEW s \in Stream,
             \/ WatchFsmEvents(s) \/ WatchCounters(s) \/ WatchNodeEvents(s)
             \/ SseFsmEvents(s) \/ SseCounterEvents(s) \/ SseNodeEvents(s)
      PROVE  \E ch \in Channel : Subscribe(s, ch)
  BY <1>1 DEF WatchFsmEvents, WatchCounters, WatchNodeEvents, SseFsmEvents, SseCounterEvents,
     SseNodeEvents, Channel
<1> QED BY <1>1 DEF Next, PersistStep

LEMMA InitType == Init => TypeOK
<1> SUFFICES ASSUME Init PROVE TypeOK
  OBVIOUS
<1>1. BusTypeOK /\ TaskTypeOK
  BY DEF Init, BusTypeOK, TaskTypeOK, Channel
<1>2. LogTypeOK
  BY Constants DEF Init, LogTypeOK
<1>3. StreamTypeOK
  BY DEF Init, StreamTypeOK
<1> QED BY <1>1, <1>2, <1>3, TypeParts

(* What the drain leaves fits the cap, and what it keeps are events.       *)
LEMMA PushTyped ==
  ASSUME TypeOK, NEW e \in Ref, PushEvent(e)
  PROVE  events' \in Seq(Ref) /\ Len(events') <= Cap
<1> DEFINE grown == Append(events, e)
           drain == IF Len(grown) > Cap THEN Len(grown) - Cap ELSE 0
<1>1. grown \in Seq(Ref) /\ Len(grown) = Len(events) + 1 /\ Len(events) \in Nat /\ Len(events) <= Cap
  BY DEF TypeOK
<1>2. drain \in Nat /\ Len(grown) - drain \in 0 .. Cap /\ drain <= Len(grown)
  BY <1>1, Constants
<1>3. events' = SubSeq(grown, drain + 1, Len(grown))
  BY DEF PushEvent
<1> HIDE DEF grown, drain
<1>4. events' \in Seq(Ref) /\ Len(events') = Len(grown) - drain
  BY <1>1, <1>2, <1>3
<1> QED BY <1>2, <1>4

(* The positions that are kept when the Vec is pruned.                     *)
LEMMA KeptPositions ==
  ASSUME TypeOK, NEW Q \in SUBSET DOMAIN events
  PROVE  /\ Q \in SUBSET Nat /\ IsFiniteSet(Q) /\ Cardinality(Q) \in 0 .. Len(events)
         /\ \A j \in 1 .. Cardinality(Q) : Nth(Q, j) \in Q
<1>1. DOMAIN events = 1 .. Len(events) /\ Len(events) \in Nat
  BY DEF TypeOK
<1>2. IsFiniteSet(1 .. Len(events)) /\ Cardinality(1 .. Len(events)) = Len(events)
  <2>1. 1 \in Int /\ Len(events) \in Int
    BY <1>1
  <2>2. /\ IsFiniteSet(1 .. Len(events))
        /\ Cardinality(1 .. Len(events)) = IF 1 > Len(events) THEN 0 ELSE Len(events) - 1 + 1
    BY <2>1, FS_Interval, Zenon
  <2> QED BY <1>1, <2>2
<1>3. IsFiniteSet(Q) /\ Cardinality(Q) <= Len(events)
  BY <1>1, <1>2, FS_Subset
<1>4. Cardinality(Q) \in Nat
  BY <1>3, FS_CardinalityType
<1>5. Q \in SUBSET Nat
  BY <1>1
<1>6. ASSUME NEW j \in 1 .. Cardinality(Q) PROVE Nth(Q, j) \in Q
  BY <1>3, <1>5, NthHasRank
<1> QED BY <1>1, <1>3, <1>4, <1>5, <1>6

LEMMA RetainTyped ==
  ASSUME TypeOK, RetainNew
  PROVE  events' \in Seq(Ref) /\ Len(events') <= Len(events)
<1> DEFINE kept == {k \in DOMAIN events : ~Old(events[k])}
<1>1. events' = [j \in 1 .. Cardinality(kept) |-> events[Nth(kept, j)]]
  BY DEF RetainNew
<1>2. kept \in SUBSET DOMAIN events
  OBVIOUS
<1> HIDE DEF kept
<1>3. /\ Cardinality(kept) \in 0 .. Len(events)
      /\ \A j \in 1 .. Cardinality(kept) : Nth(kept, j) \in DOMAIN events
  BY <1>2, KeptPositions
<1>4. events \in Seq(Ref) /\ Len(events) \in Nat /\ \A k \in DOMAIN events : events[k] \in Ref
  BY DEF TypeOK
<1>5. Cardinality(kept) \in Nat /\ \A j \in 1 .. Cardinality(kept) : events[Nth(kept, j)] \in Ref
  BY <1>3, <1>4
<1>6. events' \in Seq(Ref) /\ Len(events') = Cardinality(kept)
  BY <1>1, <1>5
<1> QED BY <1>3, <1>4, <1>6

LEMMA TypeStep == TypeOK /\ [Next]_vars => TypeOK'
<1> SUFFICES ASSUME TypeOK, [Next]_vars PROVE TypeOK'
  OBVIOUS
<1>t. BusTypeOK /\ TaskTypeOK /\ LogTypeOK /\ StreamTypeOK
  BY TypeParts
<1> USE DEF busVars, logVars, taskVars, streamVars
<1>1. CASE \E ch \in Channel : \E about \in setup.origin[ch] : Emit(ch, about)
  <2>1. PICK ch \in Channel : \E about \in setup.origin[ch] : Emit(ch, about)
    BY <1>1
  <2>2. PICK about \in setup.origin[ch] : Emit(ch, about)
    BY <2>1
  <2>3. behind' \subseteq Receiver
    BY <1>t, <2>2 DEF Emit, BusTypeOK, Receiver
  <2>s. /\ sent' = [sent EXCEPT ![ch] = Append(sent[ch], about)]
        /\ setup' = setup /\ failed' = failed
    BY <2>2 DEF Emit
  <2>f. aged' \subseteq Ref /\ faults' \in Nat
    <3>1. ch \in Channel /\ Len(sent[ch]) + 1 \in Nat \ {0}
      BY OldestBounds
    <3>2. [ch |-> ch, pos |-> Len(sent[ch]) + 1] \in Ref
      BY <3>1 DEF Ref
    <3> QED BY <1>t, <2>2, <3>2 DEF Emit, Fails, BusTypeOK
  <2>a. \A c \in Channel : sent'[c] \in Seq(setup'.origin[c])
    <3>1. Append(sent[ch], about) \in Seq(setup.origin[ch])
      BY <1>t DEF BusTypeOK
    <3>2. TAKE c \in Channel
    <3>3. CASE c = ch
      BY <1>t, <2>s, <3>1, <3>3 DEF BusTypeOK
    <3>4. CASE c # ch
      BY <1>t, <2>s, <3>4 DEF BusTypeOK
    <3> QED BY <3>3, <3>4
  <2>b. DOMAIN sent' = Channel
    BY <1>t, <2>s DEF BusTypeOK
  <2>4. BusTypeOK'
    BY <1>t, <2>s, <2>f, <2>a, <2>b, <2>3 DEF BusTypeOK, Receiver
  <2>5. TaskTypeOK' /\ LogTypeOK' /\ StreamTypeOK'
    BY <1>t, <2>2 DEF Emit, TaskTypeOK, LogTypeOK, StreamTypeOK, IsOpen, Ref
  <2> QED BY <2>4, <2>5, TypeParts
<1>2. CASE DaysPass
  <2>0. Sent \subseteq Ref
    BY DEF Sent, Ref
  <2>1. BusTypeOK'
    BY <1>t, <1>2, <2>0 DEF DaysPass, Fails, BusTypeOK, Receiver
  <2>2. TaskTypeOK' /\ LogTypeOK' /\ StreamTypeOK'
    BY <1>t, <1>2 DEF DaysPass, TaskTypeOK, LogTypeOK, StreamTypeOK, IsOpen
  <2> QED BY <2>1, <2>2, TypeParts
<1>3. CASE \E ch \in Channel : Receive(ch) \/ Lag(ch)
  <2>1. PICK ch \in Channel : Receive(ch) \/ Lag(ch)
    BY <1>3
  <2>2. Oldest(ch) \in Nat \ {0} /\ next[ch] \in Nat \ {0}
    BY <1>t, OldestBounds DEF TaskTypeOK
  <2>3. BusTypeOK' /\ LogTypeOK' /\ StreamTypeOK'
    BY <1>t, <2>1 DEF Receive, Lag, BusTypeOK, LogTypeOK, StreamTypeOK, IsOpen, Receiver
  <2>4. CASE Receive(ch)
    <3>1. storing' \subseteq Ref
      BY <2>2, <2>4 DEF Receive, Ref
    <3> QED BY <1>t, <2>2, <2>3, <2>4, <3>1, TypeParts DEF Receive, TaskTypeOK
  <2>5. CASE Lag(ch)
    BY <1>t, <2>2, <2>3, <2>5, TypeParts DEF Lag, TaskTypeOK
  <2> QED BY <2>1, <2>4, <2>5
<1>4. CASE StoreEvent
  <2>1. PICK e \in storing : Store(e) /\ storing' = storing \ {e}
    BY <1>4 DEF StoreEvent
  <2>2. e \in Ref
    BY <1>t, <2>1 DEF TaskTypeOK
  <2>3. LogTypeOK'
    BY <1>t, <2>1, <2>2, PushTyped DEF Store, InsertEvent, LogTypeOK
  <2>4. BusTypeOK' /\ TaskTypeOK' /\ StreamTypeOK'
    BY <1>t, <1>4, <2>1 DEF StoreEvent, BusTypeOK, TaskTypeOK, StreamTypeOK, IsOpen, Receiver
  <2> QED BY <2>3, <2>4, TypeParts
<1>5. CASE StoreFails
  <2>1. PICK e \in storing : failed' = failed \cup {e.ch} /\ storing' = storing \ {e}
    BY <1>5 DEF StoreFails
  <2>2. e.ch \in Channel
    BY <1>t, <2>1 DEF TaskTypeOK, Ref
  <2>3. BusTypeOK'
    BY <1>t, <1>5, <2>1, <2>2 DEF StoreFails, Fails, BusTypeOK, Receiver
  <2>4. TaskTypeOK' /\ LogTypeOK' /\ StreamTypeOK'
    BY <1>t, <1>5, <2>1 DEF StoreFails, TaskTypeOK, LogTypeOK, StreamTypeOK, IsOpen
  <2> QED BY <2>3, <2>4, TypeParts
<1>6. CASE PruneEvents
  <2>1. rows' \subseteq Ref
    BY <1>t, <1>6 DEF PruneEvents, DeleteOld, LogTypeOK
  <2>2. events' \in Seq(Ref) /\ Len(events') <= Len(events)
    BY <1>6, RetainTyped DEF PruneEvents
  <2>3. Len(events) \in Nat /\ Len(events') \in Nat
    BY <1>t, <2>2 DEF LogTypeOK
  <2>4. LogTypeOK'
    BY <1>t, <2>1, <2>2, <2>3, Constants DEF LogTypeOK
  <2>5. BusTypeOK' /\ TaskTypeOK' /\ StreamTypeOK'
    BY <1>t, <1>6 DEF PruneEvents, BusTypeOK, TaskTypeOK, StreamTypeOK, IsOpen, Receiver
  <2> QED BY <2>4, <2>5, TypeParts
<1>7. CASE Restart
  <2>1. \A ch \in Channel : Len(sent[ch]) + 1 \in Nat \ {0}
    BY <1>t DEF BusTypeOK
  <2>2. TaskTypeOK'
    BY <1>t, <1>7, <2>1 DEF Restart, TaskTypeOK
  <2>3. BusTypeOK' /\ LogTypeOK' /\ StreamTypeOK'
    BY <1>t, <1>7, Constants DEF Restart, Fails, BusTypeOK, LogTypeOK, StreamTypeOK, Receiver
  <2> QED BY <2>2, <2>3, TypeParts
<1>8. ASSUME NEW s \in Stream, NEW ch \in Channel, Subscribe(s, ch) PROVE TypeOK'
  <2>1. PICK filter \in setup.origin[ch] \cup {All} :
          stream' = [stream EXCEPT ![s] = [open |-> TRUE, ch |-> ch, filter |-> filter,
                       from |-> Len(sent[ch]) + 1, next |-> Len(sent[ch]) + 1]]
    BY <1>8 DEF Subscribe
  <2>2. Len(sent[ch]) + 1 \in Nat \ {0}
    BY <1>t DEF BusTypeOK
  <2>3. StreamTypeOK'
    BY <1>t, <1>8, <2>1, <2>2 DEF Subscribe, StreamTypeOK, IsOpen
  <2>4. BusTypeOK' /\ TaskTypeOK' /\ LogTypeOK'
    BY <1>t, <1>8 DEF Subscribe, BusTypeOK, TaskTypeOK, LogTypeOK, Receiver
  <2> QED BY <2>3, <2>4, TypeParts
<1>9. ASSUME NEW s \in Stream, Yield(s) \/ SkipLagged(s) PROVE TypeOK'
  <2>1. stream[s].open /\ IsOpen(stream[s])
    BY <1>t, <1>9, OpenStream DEF Yield, SkipLagged
  <2>2. stream[s].ch \in Channel /\ stream[s].next \in Nat \ {0}
    BY <2>1 DEF IsOpen
  <2>3. Oldest(stream[s].ch) \in Nat \ {0}
    BY <2>2, OldestBounds
  <2>4. UNCHANGED setup /\ got' \in [Stream -> Seq(Nat \ {0})]
    <3>1. Append(got[s], stream[s].next) \in Seq(Nat \ {0}) /\ got[s] \in Seq(Nat \ {0})
      BY <1>t, <2>2 DEF StreamTypeOK
    <3>2. \/ got' = got
          \/ got' = [got EXCEPT ![s] = Append(got[s], stream[s].next)]
          \/ got' = [got EXCEPT ![s] = got[s]]
      BY <1>9 DEF Yield, SkipLagged
    <3> QED BY <1>t, <1>9, <3>1, <3>2 DEF Yield, SkipLagged, StreamTypeOK
  <2>5. PICK p \in Nat \ {0} : stream' = [stream EXCEPT ![s].next = p]
    <3>1. stream[s].next + 1 \in Nat \ {0}
      BY <2>2
    <3>2. \/ stream' = [stream EXCEPT ![s].next = stream[s].next + 1]
          \/ stream' = [stream EXCEPT ![s].next = Oldest(stream[s].ch)]
      BY <1>9, <2>1 DEF Yield, SkipLagged
    <3> QED BY <2>3, <3>1, <3>2
  <2>6. StreamTypeOK'
    BY <1>t, <2>1, <2>4, <2>5, StreamMoves
  <2>7. BusTypeOK' /\ TaskTypeOK' /\ LogTypeOK'
    BY <1>t, <1>9 DEF Yield, SkipLagged, BusTypeOK, TaskTypeOK, LogTypeOK, Receiver
  <2> QED BY <2>6, <2>7, TypeParts
<1>10. ASSUME NEW s \in Stream, Unsubscribe(s) PROVE TypeOK'
  <2>1. StreamTypeOK'
    BY <1>t, <1>10 DEF Unsubscribe, StreamTypeOK, IsOpen
  <2>2. BusTypeOK' /\ TaskTypeOK' /\ LogTypeOK'
    BY <1>t, <1>10 DEF Unsubscribe, BusTypeOK, TaskTypeOK, LogTypeOK, Receiver
  <2> QED BY <2>1, <2>2, TypeParts
<1>11. CASE UNCHANGED vars
  BY <1>t, <1>11, TypeParts
    DEF vars, BusTypeOK, TaskTypeOK, LogTypeOK, StreamTypeOK, IsOpen, Receiver
<1>12. ASSUME NEW s \in Stream, \E ch \in Channel : Subscribe(s, ch) PROVE TypeOK'
  BY <1>8, <1>12
<1> QED BY <1>1, <1>2, <1>3, <1>4, <1>5, <1>6, <1>7, <1>9, <1>10, <1>11, <1>12, NextSplit

(* Every state of the event path is well typed; the Vec of the memory      *)
(* backend never exceeds its cap, whatever is pushed and pruned.           *)
THEOREM EventTypes == Spec => []TypeOK
<1> QED BY InitType, TypeStep, PTL DEF Spec
-----------------------------------------------------------------------------
(***************************************************************************)
(* Receivers: the persistence task's and the streams'.                     *)
(***************************************************************************)
(* A receiver is at most one past the newest event, a stream not before    *)
(* the place where it was opened, and who is more than Buffer behind is    *)
(* known to be.                                                            *)
TaskPosition ==
  \A ch \in Channel :
    /\ began[ch] <= next[ch] /\ next[ch] <= Len(sent[ch]) + 1
    /\ next[ch] + Buffer < Len(sent[ch]) + 1 => ch \in behind
StreamPosition ==
  \A s \in Stream : stream[s].open =>
    /\ stream[s].from <= stream[s].next /\ stream[s].next <= Len(sent[stream[s].ch]) + 1
    /\ stream[s].next + Buffer < Len(sent[stream[s].ch]) + 1 => s \in behind
(* A branch is disabled by a lag only, and the task ends by three.         *)
OffIsBehind == off \subseteq behind
PositionInv == TaskPosition /\ StreamPosition /\ OffIsBehind /\ TaskSurvives

(* A channel only ever grows.                                              *)
LEMMA SentGrows ==
  ASSUME TypeOK, NEW ch \in Channel, NEW about \in setup.origin[ch], Emit(ch, about)
  PROVE  /\ sent'[ch] = Append(sent[ch], about)
         /\ Len(sent[ch]) \in Nat /\ Len(sent'[ch]) = Len(sent[ch]) + 1
         /\ \A p \in 1 .. Len(sent[ch]) : sent'[ch][p] = sent[ch][p]
         /\ \A c \in Channel : c # ch => sent'[c] = sent[c]
<1>1. sent' = [sent EXCEPT ![ch] = Append(sent[ch], about)]
  BY DEF Emit
<1>2. DOMAIN sent = Channel /\ sent[ch] \in Seq(setup.origin[ch])
  BY DEF TypeOK
<1> QED BY <1>1, <1>2

LEMMA PositionInit == Init => PositionInv
BY Constants DEF Init, PositionInv, TaskPosition, StreamPosition, OffIsBehind, TaskSurvives, Closed

LEMMA PositionStep == TypeOK /\ PositionInv /\ [Next]_vars => PositionInv'
<1> SUFFICES ASSUME TypeOK, PositionInv, [Next]_vars PROVE PositionInv'
  OBVIOUS
<1> USE DEF busVars, logVars, taskVars, streamVars
<1>p. TaskPosition /\ StreamPosition /\ OffIsBehind /\ TaskSurvives
  BY DEF PositionInv
<1>t. /\ \A ch \in Channel : /\ next[ch] \in Nat \ {0} /\ began[ch] \in Nat \ {0}
                             /\ Len(sent[ch]) \in Nat
      /\ DOMAIN next = Channel /\ off \subseteq Channel /\ behind \subseteq Receiver
      /\ Buffer \in Nat /\ Buffer >= 1 /\ Stream \cap Channel = {}
  BY Constants DEF TypeOK
<1>s. \A s \in Stream : stream[s].open =>
        /\ stream[s].ch \in Channel
        /\ stream[s].from \in Nat \ {0} /\ stream[s].next \in Nat \ {0}
  BY TypeParts, OpenStream DEF IsOpen
<1>1. CASE \E ch \in Channel : \E about \in setup.origin[ch] : Emit(ch, about)
  <2>1. PICK ch \in Channel : \E about \in setup.origin[ch] : Emit(ch, about)
    BY <1>1
  <2>2. PICK about \in setup.origin[ch] : Emit(ch, about)
    BY <2>1
  <2>3. /\ Len(sent'[ch]) = Len(sent[ch]) + 1 /\ Len(sent[ch]) \in Nat
        /\ \A c \in Channel : c # ch => sent'[c] = sent[c]
    BY <2>2, SentGrows
  <2>4. /\ UNCHANGED <<alive, next, off, began, stream>>
        /\ behind \subseteq behind'
        /\ Len(sent[ch]) + 2 > next[ch] + Buffer => ch \in behind'
        /\ \A s \in Stream : /\ stream[s].open /\ stream[s].ch = ch
                             /\ Len(sent[ch]) + 2 > stream[s].next + Buffer
                             => s \in behind'
    BY <1>t, <2>2, <2>3 DEF Emit
  <2>5. TaskPosition'
    BY <1>p, <1>t, <2>3, <2>4, SMTT(30) DEF TaskPosition
  <2>6. StreamPosition'
    <3> SUFFICES ASSUME NEW s \in Stream, stream[s].open
                 PROVE  /\ stream[s].from <= stream[s].next
                        /\ stream[s].next <= Len(sent'[stream[s].ch]) + 1
                        /\ stream[s].next + Buffer < Len(sent'[stream[s].ch]) + 1
                             => s \in behind'
      BY <2>4 DEF StreamPosition
    <3>1. /\ stream[s].ch \in Channel /\ stream[s].next \in Nat
          /\ stream[s].from <= stream[s].next
          /\ stream[s].next <= Len(sent[stream[s].ch]) + 1
          /\ stream[s].next + Buffer < Len(sent[stream[s].ch]) + 1 => s \in behind
      BY <1>p, <1>s DEF StreamPosition
    <3>2. CASE stream[s].ch = ch
      <4> DEFINE n == stream[s].next
      <4>1. /\ n <= Len(sent[ch]) + 1 /\ n \in Nat /\ Len(sent'[ch]) = Len(sent[ch]) + 1
            /\ Len(sent[ch]) + 2 > n + Buffer => s \in behind'
        BY <2>3, <2>4, <3>1, <3>2
      <4>2. n <= Len(sent'[ch]) + 1 /\ (n + Buffer < Len(sent'[ch]) + 1 => s \in behind')
        BY <1>t, <2>3, <4>1
      <4> QED BY <3>1, <3>2, <4>2
    <3>3. CASE stream[s].ch # ch
      BY <2>3, <2>4, <3>1, <3>3
    <3> QED BY <3>2, <3>3
  <2>7. OffIsBehind' /\ TaskSurvives'
    BY <1>p, <2>4 DEF OffIsBehind, TaskSurvives
  <2> QED BY <2>5, <2>6, <2>7 DEF PositionInv
<1>2. CASE DaysPass \/ StoreEvent \/ StoreFails \/ PruneEvents \/ UNCHANGED vars
  <2>1. UNCHANGED <<sent, alive, next, off, began, stream, behind>>
    BY <1>2 DEF DaysPass, StoreEvent, StoreFails, PruneEvents, vars
  <2> QED BY <1>p, <2>1
        DEF PositionInv, TaskPosition, StreamPosition, OffIsBehind, TaskSurvives
<1>3. ASSUME NEW ch \in Channel, Receive(ch) PROVE PositionInv'
  <2>1. /\ UNCHANGED <<sent, alive, began, stream, behind>> /\ off' = {}
        /\ next' = [next EXCEPT ![ch] = next[ch] + 1] /\ next[ch] <= Len(sent[ch])
    BY <1>3, <1>t, OldestBounds DEF Receive
  <2>2. TaskPosition'
    BY <1>p, <1>t, <2>1 DEF TaskPosition
  <2>3. StreamPosition' /\ OffIsBehind' /\ TaskSurvives'
    BY <1>p, <2>1 DEF StreamPosition, OffIsBehind, TaskSurvives
  <2> QED BY <2>2, <2>3 DEF PositionInv
<1>4. ASSUME NEW ch \in Channel, Lag(ch) PROVE PositionInv'
  <2>1. /\ UNCHANGED <<sent, began, stream, behind>> /\ off' = off \cup {ch}
        /\ next' = [next EXCEPT ![ch] = Oldest(ch)] /\ next[ch] < Oldest(ch)
        /\ alive' = (off \cup {ch} # Channel)
    BY <1>4 DEF Lag
  <2>2. Oldest(ch) \in 1 .. Len(sent[ch]) + 1 /\ ch \in behind
    BY <1>p, <1>t, <2>1, OldestBounds DEF TaskPosition
  <2>3. TaskPosition'
    BY <1>p, <1>t, <2>1, <2>2 DEF TaskPosition
  <2>4. OffIsBehind' /\ TaskSurvives'
    BY <1>p, <2>1, <2>2 DEF OffIsBehind, TaskSurvives
  <2>5. StreamPosition'
    BY <1>p, <2>1 DEF StreamPosition
  <2> QED BY <2>3, <2>4, <2>5 DEF PositionInv
<1>5. CASE Restart
  <2>1. /\ sent' = sent /\ alive' = TRUE /\ off' = {} /\ stream' = [s \in Stream |-> Closed]
        /\ next' = [c \in Channel |-> Len(sent[c]) + 1] /\ began' = next'
    BY <1>5 DEF Restart
  <2>2. TaskPosition'
    BY <1>t, <2>1 DEF TaskPosition
  <2>3. StreamPosition' /\ OffIsBehind' /\ TaskSurvives'
    BY <2>1 DEF StreamPosition, Closed, OffIsBehind, TaskSurvives
  <2> QED BY <2>2, <2>3 DEF PositionInv
<1>6. ASSUME NEW s \in Stream, NEW ch \in Channel, Subscribe(s, ch) PROVE PositionInv'
  <2>1. /\ UNCHANGED <<sent, alive, next, off, began, behind>>
        /\ \E filter \in setup.origin[ch] \cup {All} :
             stream' = [stream EXCEPT ![s] = [open |-> TRUE, ch |-> ch, filter |-> filter,
                          from |-> Len(sent[ch]) + 1, next |-> Len(sent[ch]) + 1]]
    BY <1>6 DEF Subscribe
  <2>2. StreamPosition'
    <3>1. ASSUME NEW r \in Stream, r # s PROVE stream'[r] = stream[r]
      BY <2>1, <3>1 DEF TypeOK
    <3>2. stream'[s].ch = ch /\ stream'[s].from = Len(sent[ch]) + 1 /\ stream'[s].next = Len(sent[ch]) + 1
      BY <2>1 DEF TypeOK
    <3>3. Len(sent[ch]) \in Nat
      BY <1>t
    <3> QED BY <1>p, <1>t, <2>1, <3>1, <3>2, <3>3, SMTT(30) DEF StreamPosition
  <2>3. TaskPosition' /\ OffIsBehind' /\ TaskSurvives'
    BY <1>p, <2>1 DEF TaskPosition, OffIsBehind, TaskSurvives
  <2> QED BY <2>2, <2>3 DEF PositionInv
<1>7. ASSUME NEW s \in Stream, Yield(s) \/ SkipLagged(s) PROVE PositionInv'
  <2>1. /\ UNCHANGED <<sent, alive, next, off, began, behind>> /\ stream[s].open
        /\ stream[s].ch \in Channel
    BY <1>7, <1>s DEF Yield, SkipLagged
  <2>2. PICK p \in Nat \ {0} : /\ stream' = [stream EXCEPT ![s].next = p]
                               /\ stream[s].next <= p /\ p <= Len(sent[stream[s].ch]) + 1
    <3>1. CASE Yield(s)
      <4>1. /\ stream' = [stream EXCEPT ![s].next = stream[s].next + 1]
            /\ stream[s].next \in Oldest(stream[s].ch) .. Len(sent[stream[s].ch])
            /\ stream[s].next \in Nat \ {0}
        BY <1>s, <2>1, <3>1 DEF Yield
      <4>2. stream[s].next + 1 \in Nat \ {0} /\ Len(sent[stream[s].ch]) \in Nat
        BY <1>t, <2>1, <4>1
      <4>3. stream[s].next <= stream[s].next + 1
            /\ stream[s].next + 1 <= Len(sent[stream[s].ch]) + 1
        <5>1. Oldest(stream[s].ch) \in Nat
          BY <2>1, <4>2, OldestBounds
        <5> QED BY <4>1, <4>2, <5>1
      <4> QED BY <4>1, <4>2, <4>3
    <3>2. CASE SkipLagged(s)
      <4>1. /\ stream' = [stream EXCEPT ![s].next = Oldest(stream[s].ch)]
            /\ stream[s].next < Oldest(stream[s].ch) /\ stream[s].next \in Nat \ {0}
        BY <1>s, <2>1, <3>2 DEF SkipLagged
      <4>2. /\ Oldest(stream[s].ch) \in 1 .. Len(sent[stream[s].ch]) + 1
            /\ Len(sent[stream[s].ch]) \in Nat
        BY <2>1, OldestBounds
      <4>3. Oldest(stream[s].ch) \in Nat \ {0}
        BY <4>2
      <4>4. /\ stream[s].next <= Oldest(stream[s].ch)
            /\ Oldest(stream[s].ch) <= Len(sent[stream[s].ch]) + 1
        BY <4>1, <4>2
      <4> QED BY <4>1, <4>3, <4>4
    <3> QED BY <1>7, <3>1, <3>2
  <2>3. StreamPosition'
    <3> SUFFICES ASSUME NEW r \in Stream, stream'[r].open
                 PROVE  /\ stream'[r].from <= stream'[r].next
                        /\ stream'[r].next <= Len(sent'[stream'[r].ch]) + 1
                        /\ stream'[r].next + Buffer < Len(sent'[stream'[r].ch]) + 1
                             => r \in behind'
      BY DEF StreamPosition
    <3>1. CASE r = s
      <4>1. /\ stream'[r].next = p /\ stream'[r].from = stream[r].from
            /\ stream'[r].ch = stream[r].ch
        BY <2>1, <2>2, <3>1, TypeParts, OpenStream DEF IsOpen, StreamTypeOK
      <4> QED BY <1>p, <1>s, <1>t, <2>1, <2>2, <3>1, <4>1 DEF StreamPosition
    <3>2. CASE r # s
      BY <1>p, <2>1, <2>2, <3>2 DEF StreamPosition, TypeOK
    <3> QED BY <3>1, <3>2
  <2>4. TaskPosition' /\ OffIsBehind' /\ TaskSurvives'
    BY <1>p, <2>1 DEF TaskPosition, OffIsBehind, TaskSurvives
  <2> QED BY <2>3, <2>4 DEF PositionInv
<1>8. ASSUME NEW s \in Stream, Unsubscribe(s) PROVE PositionInv'
  <2>1. /\ UNCHANGED <<sent, alive, next, off, began>> /\ behind' = behind \ {s}
        /\ stream' = [stream EXCEPT ![s] = Closed]
    BY <1>8 DEF Unsubscribe
  <2>2. StreamPosition'
    BY <1>p, <2>1 DEF StreamPosition, Closed, TypeOK
  <2>3. \A ch \in Channel : ch \in behind => ch \in behind'
    BY <1>t, <2>1
  <2>4. TaskPosition' /\ OffIsBehind' /\ TaskSurvives'
    BY <1>p, <1>t, <2>1, <2>3 DEF TaskPosition, OffIsBehind, TaskSurvives
  <2> QED BY <2>2, <2>4 DEF PositionInv
<1> QED BY <1>1, <1>2, <1>3, <1>4, <1>5, <1>6, <1>7, <1>8, NextSplit

(* The persistence task reaches else => break only after each of its three *)
(* receivers has been more than a buffer behind.                           *)
THEOREM TaskStaysAlive == Spec => []TaskSurvives
<1>1. PositionInv => TaskSurvives
  BY DEF PositionInv
<1> QED BY <1>1, EventTypes, PositionInit, PositionStep, PTL DEF Spec
-----------------------------------------------------------------------------
(***************************************************************************)
(* Streams.                                                                *)
(***************************************************************************)
(* What a stream that was never too far behind has yielded; that it has    *)
(* not yielded what it has not come to; and nothing before it is opened.   *)
Admitted(s) == {pos \in stream[s].from .. stream[s].next - 1 : Matches(stream[s], pos)}
Yielded(s) == {got[s][k] : k \in DOMAIN got[s]}
InOrder(s) == \A j, k \in DOMAIN got[s] : j < k => got[s][j] < got[s][k]
StreamOK(s) ==
  /\ ~stream[s].open => got[s] = << >>
  /\ stream[s].open => \A k \in DOMAIN got[s] : got[s][k] < stream[s].next
  /\ stream[s].open /\ s \notin behind => Yielded(s) = Admitted(s) /\ InOrder(s)
StreamInv == \A s \in Stream : StreamOK(s)

LEMMA StreamInit == Init => StreamInv
BY DEF Init, StreamInv, StreamOK, Closed

(* A step that concerns another stream, or none, leaves it as it is.       *)
LEMMA StreamFrame ==
  ASSUME NEW s \in Stream, StreamOK(s), stream'[s] = stream[s], got'[s] = got[s],
         s \in behind => s \in behind',
         stream[s].open => \A pos \in stream[s].from .. stream[s].next - 1 :
                             sent'[stream[s].ch][pos] = sent[stream[s].ch][pos]
  PROVE  StreamOK(s)'
<1>1. stream[s].open => Admitted(s)' = Admitted(s)
  BY DEF Admitted, Matches
<1>2. Yielded(s)' = Yielded(s) /\ InOrder(s)' = InOrder(s)
  BY DEF Yielded, InOrder
<1> QED BY <1>1, <1>2 DEF StreamOK

(* Yielding adds the event it comes to when the filter admits it.          *)
LEMMA StreamYields ==
  ASSUME TypeOK, PositionInv, NEW s \in Stream, StreamOK(s), Yield(s)
  PROVE  StreamOK(s)'
<1> DEFINE n == stream[s].next
           ch == stream[s].ch
<1>1. stream[s].open /\ stream[s].from \in Nat /\ n \in Nat /\ ch \in Channel
  BY TypeParts, OpenStream DEF Yield, IsOpen
<1>2. stream[s].from <= n
  BY <1>1 DEF PositionInv, StreamPosition
<1>3. /\ sent' = sent /\ behind' = behind
      /\ stream' = [stream EXCEPT ![s].next = n + 1]
      /\ got' = [got EXCEPT ![s] = IF Matches(stream[s], n) THEN Append(got[s], n) ELSE got[s]]
  BY DEF Yield, busVars
<1>4. /\ stream'[s].open /\ stream'[s].from = stream[s].from /\ stream'[s].next = n + 1
      /\ stream'[s].ch = ch /\ stream'[s].filter = stream[s].filter
  BY <1>1, <1>3, TypeParts, OpenStream DEF StreamTypeOK, IsOpen
<1>5. got[s] \in Seq(Nat \ {0}) /\ Len(got[s]) \in Nat /\ DOMAIN got[s] = 1 .. Len(got[s])
  BY DEF TypeOK
<1>6. \A k \in DOMAIN got[s] : got[s][k] < n /\ got[s][k] \in Nat
  BY <1>1, <1>5 DEF StreamOK
<1>7. \A pos : Matches(stream[s], pos)' = Matches(stream[s], pos)
  BY <1>3, <1>4 DEF Matches
<1>8. Admitted(s)' = IF Matches(stream[s], n) THEN Admitted(s) \cup {n} ELSE Admitted(s)
  <2>1. stream'[s].from .. stream'[s].next - 1 = (stream[s].from .. n - 1) \cup {n}
    BY <1>1, <1>2, <1>4
  <2> QED BY <1>7, <2>1 DEF Admitted
<1>9. CASE Matches(stream[s], n)
  <2>1. got'[s] = Append(got[s], n)
    BY <1>3, <1>9 DEF TypeOK
  <2>2. /\ Len(got'[s]) = Len(got[s]) + 1 /\ DOMAIN got'[s] = 1 .. Len(got[s]) + 1
        /\ got'[s][Len(got[s]) + 1] = n
        /\ \A k \in 1 .. Len(got[s]) : got'[s][k] = got[s][k]
    BY <1>5, <2>1
  <2>3. Yielded(s)' = Yielded(s) \cup {n}
    <3>1. ASSUME NEW k \in DOMAIN got'[s] PROVE got'[s][k] \in Yielded(s) \cup {n}
      BY <1>5, <2>2 DEF Yielded
    <3>2. ASSUME NEW k \in DOMAIN got[s] PROVE got[s][k] \in Yielded(s)'
      BY <1>5, <2>2 DEF Yielded
    <3>3. n \in Yielded(s)'
      BY <1>5, <2>2 DEF Yielded
    <3> QED BY <3>1, <3>2, <3>3 DEF Yielded
  <2>4. \A k \in DOMAIN got'[s] : got'[s][k] < n + 1
    <3> SUFFICES ASSUME NEW k \in 1 .. Len(got[s]) + 1 PROVE got'[s][k] < n + 1
      BY <2>2
    <3>1. CASE k \in 1 .. Len(got[s])
      <4>1. got[s][k] < n /\ got[s][k] \in Nat /\ got'[s][k] = got[s][k]
        BY <1>5, <1>6, <2>2, <3>1
      <4> QED BY <1>1, <4>1
    <3>2. CASE k = Len(got[s]) + 1
      BY <1>1, <2>2, <3>2
    <3> QED BY <1>5, <3>1, <3>2
  <2>5. InOrder(s) => InOrder(s)'
    <3> SUFFICES ASSUME InOrder(s), NEW j \in 1 .. Len(got[s]) + 1,
                        NEW k \in 1 .. Len(got[s]) + 1, j < k
                 PROVE  got'[s][j] < got'[s][k]
      BY <2>2 DEF InOrder
    <3>1. j \in 1 .. Len(got[s]) /\ got'[s][j] = got[s][j] /\ got[s][j] < n
      BY <1>5, <1>6, <2>2
    <3>2. CASE k \in 1 .. Len(got[s])
      BY <1>5, <2>2, <3>1, <3>2 DEF InOrder
    <3>3. CASE k = Len(got[s]) + 1
      BY <2>2, <3>1, <3>3
    <3> QED BY <1>5, <3>2, <3>3
  <2> QED BY <1>1, <1>3, <1>4, <1>8, <1>9, <2>3, <2>4, <2>5 DEF StreamOK
<1>10. CASE ~Matches(stream[s], n)
  <2>1. got'[s] = got[s]
    BY <1>3, <1>10 DEF TypeOK
  <2>2. Yielded(s)' = Yielded(s) /\ InOrder(s)' = InOrder(s)
    BY <2>1 DEF Yielded, InOrder
  <2>3. \A k \in DOMAIN got[s] : got[s][k] < n + 1
    BY <1>1, <1>6
  <2> QED BY <1>1, <1>3, <1>4, <1>8, <1>10, <2>1, <2>2, <2>3 DEF StreamOK
<1> QED BY <1>9, <1>10

LEMMA StreamStep == TypeOK /\ PositionInv /\ StreamInv /\ [Next]_vars => StreamInv'
<1> SUFFICES ASSUME TypeOK, PositionInv, StreamInv, [Next]_vars PROVE StreamInv'
  OBVIOUS
<1> USE DEF busVars, logVars, taskVars, streamVars
<1>p. \A s \in Stream : StreamOK(s)
  BY DEF StreamInv
<1>t. DOMAIN stream = Stream /\ DOMAIN got = Stream
  BY DEF TypeOK
<1>1. CASE \E ch \in Channel : \E about \in setup.origin[ch] : Emit(ch, about)
  <2>1. PICK ch \in Channel : \E about \in setup.origin[ch] : Emit(ch, about)
    BY <1>1
  <2>2. PICK about \in setup.origin[ch] : Emit(ch, about)
    BY <2>1
  <2>3. UNCHANGED <<stream, got>> /\ behind \subseteq behind'
    BY <2>2 DEF Emit
  <2>4. ASSUME NEW s \in Stream PROVE StreamOK(s)'
    <3>1. ASSUME stream[s].open, NEW pos \in stream[s].from .. stream[s].next - 1
          PROVE  sent'[stream[s].ch][pos] = sent[stream[s].ch][pos]
      <4>1. /\ stream[s].ch \in Channel /\ stream[s].from \in Nat \ {0} /\ stream[s].next \in Nat
            /\ stream[s].next <= Len(sent[stream[s].ch]) + 1
        BY <3>1, TypeParts, OpenStream DEF IsOpen, PositionInv, StreamPosition
      <4>2. Len(sent[stream[s].ch]) \in Nat
        BY <4>1, OldestBounds
      <4>3. pos \in 1 .. Len(sent[stream[s].ch])
        BY <4>1, <4>2
      <4> QED BY <2>2, <4>1, <4>3, SentGrows
    <3> QED BY <1>p, <2>3, <3>1, StreamFrame
  <2> QED BY <2>4 DEF StreamInv
<1>2. CASE \/ DaysPass \/ StoreEvent \/ StoreFails \/ PruneEvents \/ UNCHANGED vars
           \/ \E ch \in Channel : Receive(ch) \/ Lag(ch)
  <2>1. UNCHANGED <<sent, stream, got, behind>>
    BY <1>2 DEF DaysPass, StoreEvent, StoreFails, PruneEvents, Receive, Lag, vars
  <2> QED BY <1>p, <2>1, StreamFrame DEF StreamInv
<1>3. CASE Restart
  <2>1. stream' = [s \in Stream |-> Closed] /\ got' = [s \in Stream |-> << >>]
    BY <1>3 DEF Restart
  <2> QED BY <2>1 DEF StreamInv, StreamOK, Closed
<1>4. ASSUME NEW s \in Stream, NEW ch \in Channel, Subscribe(s, ch) PROVE StreamInv'
  <2>1. UNCHANGED <<sent, got, behind>> /\ ~stream[s].open
    BY <1>4 DEF Subscribe
  <2>2. PICK st : /\ stream' = [stream EXCEPT ![s] = st] /\ st.open
                  /\ st.from = Len(sent[ch]) + 1 /\ st.next = Len(sent[ch]) + 1
    <3>1. PICK filter \in setup.origin[ch] \cup {All} :
            stream' = [stream EXCEPT ![s] = [open |-> TRUE, ch |-> ch, filter |-> filter,
                         from |-> Len(sent[ch]) + 1, next |-> Len(sent[ch]) + 1]]
      BY <1>4 DEF Subscribe
    <3> DEFINE st == [open |-> TRUE, ch |-> ch, filter |-> filter,
                      from |-> Len(sent[ch]) + 1, next |-> Len(sent[ch]) + 1]
    <3>2. /\ stream' = [stream EXCEPT ![s] = st] /\ st.open
          /\ st.from = Len(sent[ch]) + 1 /\ st.next = Len(sent[ch]) + 1
      BY <3>1
    <3> HIDE DEF st
    <3> QED BY <3>2
  <2>3. got'[s] = << >> /\ stream'[s] = st
    BY <1>p, <1>t, <2>1, <2>2 DEF StreamOK
  <2>4. StreamOK(s)'
    <3>1. st.from .. st.next - 1 = {}
      BY <2>2, OldestBounds
    <3>2. Admitted(s)' = {} /\ Yielded(s)' = {} /\ InOrder(s)'
      BY <2>3, <3>1 DEF Admitted, Yielded, InOrder
    <3> QED BY <2>2, <2>3, <3>2 DEF StreamOK
  <2>5. ASSUME NEW r \in Stream, r # s PROVE StreamOK(r)'
    BY <1>p, <1>t, <2>1, <2>2, <2>5, StreamFrame
  <2> QED BY <2>4, <2>5 DEF StreamInv
<1>5. ASSUME NEW s \in Stream, Yield(s) \/ SkipLagged(s) PROVE StreamInv'
  <2>1. ASSUME NEW r \in Stream, r # s PROVE StreamOK(r)'
    <3>1. /\ UNCHANGED <<sent, behind>> /\ stream'[r] = stream[r] /\ got'[r] = got[r]
      BY <1>t, <1>5, <2>1 DEF Yield, SkipLagged
    <3> QED BY <1>p, <3>1, StreamFrame
  <2>2. ASSUME Yield(s) PROVE StreamOK(s)'
    <3>1. StreamOK(s)
      BY <1>p
    <3> QED BY <2>2, <3>1, StreamYields
  <2>3. ASSUME SkipLagged(s) PROVE StreamOK(s)'
    <3>1. /\ stream[s].open /\ stream[s].ch \in Channel /\ stream[s].next \in Nat \ {0}
          /\ got' = got /\ behind' = behind /\ stream[s].next < Oldest(stream[s].ch)
          /\ stream' = [stream EXCEPT ![s].next = Oldest(stream[s].ch)]
      BY <2>3, TypeParts, OpenStream DEF SkipLagged, IsOpen
    <3>2. stream'[s].open /\ stream'[s].next = Oldest(stream[s].ch)
      BY <3>1, TypeParts, OpenStream DEF StreamTypeOK, IsOpen
    <3>3. /\ Oldest(stream[s].ch) \in Nat
          /\ stream[s].next + Buffer < Len(sent[stream[s].ch]) + 1
      BY <3>1, OldestBounds
    <3>4. s \in behind
      BY <3>1, <3>3 DEF PositionInv, StreamPosition
    <3>5. \A k \in DOMAIN got[s] : got[s][k] < Oldest(stream[s].ch)
      BY <1>p, <3>1, <3>3 DEF StreamOK, TypeOK
    <3>6. s \in behind' /\ got'[s] = got[s]
      BY <3>1, <3>4
    <3> QED BY <3>2, <3>5, <3>6 DEF StreamOK
  <2> QED BY <1>5, <2>1, <2>2, <2>3 DEF StreamInv
<1>6. ASSUME NEW s \in Stream, Unsubscribe(s) PROVE StreamInv'
  <2>1. /\ sent' = sent /\ behind' = behind \ {s} /\ stream' = [stream EXCEPT ![s] = Closed]
        /\ got' = [got EXCEPT ![s] = << >>]
    BY <1>6 DEF Unsubscribe
  <2>2. StreamOK(s)'
    BY <1>t, <2>1 DEF StreamOK, Closed
  <2>3. ASSUME NEW r \in Stream, r # s PROVE StreamOK(r)'
    BY <1>p, <1>t, <2>1, <2>3, StreamFrame
  <2> QED BY <2>2, <2>3 DEF StreamInv
<1> QED BY <1>1, <1>2, <1>3, <1>4, <1>5, <1>6, NextSplit

(* A stream that was never more than a buffer behind has yielded exactly   *)
(* the events its filter admits since it was opened, in their order.       *)
THEOREM StreamsAreFaithful == Spec => []StreamIsFaithful
<1>1. StreamInv => StreamIsFaithful
  BY DEF StreamInv, StreamOK, Admitted, Yielded, InOrder, StreamIsFaithful
<1> QED BY <1>1, EventTypes, PositionInit, PositionStep, StreamInit, StreamStep, PTL DEF Spec
-----------------------------------------------------------------------------
(***************************************************************************)
(* The log.                                                                *)
(***************************************************************************)
(* Each backend keeps its own log.  One event at most is being stored, and *)
(* it is newer than what its channel has in the log: the Vec is in order.  *)
LogInv ==
  /\ IF setup.backend = "sqlite" THEN events = << >> ELSE rows = {}
  /\ IsFiniteSet(rows)
  /\ \A e, f \in storing : e = f
  /\ \A k \in DOMAIN events : \A e \in storing : e.ch = events[k].ch => events[k].pos < e.pos
  /\ \A k \in DOMAIN events : events[k].pos < next[events[k].ch]
  /\ \A e \in storing : e.pos < next[e.ch]
  /\ \A j, k \in DOMAIN events : j < k /\ events[j].ch = events[k].ch => events[j].pos < events[k].pos

(* The Vec holds no more than was taken: it is not drained before the task *)
(* has taken more than the cap.                                            *)
RoomInv == Len(events) <= Taken /\ (storing = {} \/ Len(events) + 1 <= Taken)

(* store_event of the memory backend drops at most the oldest event, and   *)
(* that only when the Vec is full.                                         *)
LEMMA PushShape ==
  ASSUME TypeOK, NEW e \in Ref, PushEvent(e)
  PROVE  \E d \in {0, 1} :
           /\ Len(events) < Cap => d = 0
           /\ Len(events') = Len(events) + 1 - d
           /\ DOMAIN events' = 1 .. Len(events) + 1 - d
           /\ \A k \in 1 .. Len(events) + 1 - d :
                events'[k] = IF k + d = Len(events) + 1 THEN e ELSE events[k + d]
<1> DEFINE grown == Append(events, e)
           drop == IF Len(grown) > Cap THEN Len(grown) - Cap ELSE 0
<1>1. events \in Seq(Ref) /\ Len(events) \in Nat /\ Len(events) <= Cap /\ Cap \in Nat
  BY Constants DEF TypeOK
<1>2. /\ grown \in Seq(Ref) /\ Len(grown) = Len(events) + 1
      /\ \A k \in 1 .. Len(events) + 1 :
           grown[k] = IF k = Len(events) + 1 THEN e ELSE events[k]
  BY <1>1
<1>3. drop \in {0, 1} /\ (Len(events) < Cap => drop = 0)
  BY <1>1, <1>2
<1>4. events' = SubSeq(grown, drop + 1, Len(grown))
  BY DEF PushEvent
<1> HIDE DEF grown, drop
<1>5. /\ Len(events') = Len(events) + 1 - drop /\ DOMAIN events' = 1 .. Len(events) + 1 - drop
      /\ \A k \in 1 .. Len(events) + 1 - drop : events'[k] = grown[k + drop]
  BY <1>1, <1>2, <1>3, <1>4
<1>6. ASSUME NEW k \in 1 .. Len(events) + 1 - drop
      PROVE  events'[k] = IF k + drop = Len(events) + 1 THEN e ELSE events[k + drop]
  BY <1>1, <1>2, <1>3, <1>5
<1> SUFFICES /\ Len(events) < Cap => drop = 0
             /\ Len(events') = Len(events) + 1 - drop
             /\ DOMAIN events' = 1 .. Len(events) + 1 - drop
             /\ \A k \in 1 .. Len(events) + 1 - drop :
                  events'[k] = IF k + drop = Len(events) + 1 THEN e ELSE events[k + drop]
  BY <1>3, Zenon
<1> QED BY <1>3, <1>5, <1>6

(* prune_events of the memory backend leaves a subsequence: all that is    *)
(* not old, in the order it was in.                                        *)
LEMMA RetainShape ==
  ASSUME TypeOK, RetainNew
  PROVE  \E at \in [DOMAIN events' -> DOMAIN events] :
           /\ Len(events') <= Len(events)
           /\ \A j \in DOMAIN events' : events'[j] = events[at[j]]
           /\ \A j, k \in DOMAIN events' : j < k => at[j] < at[k]
           /\ \A k \in DOMAIN events : ~Old(events[k]) => \E j \in DOMAIN events' : at[j] = k
<1> DEFINE kept == {k \in DOMAIN events : ~Old(events[k])}
           at == [j \in 1 .. Cardinality(kept) |-> Nth(kept, j)]
<1>1. events' = [j \in 1 .. Cardinality(kept) |-> events[Nth(kept, j)]]
  BY DEF RetainNew
<1>2. kept \in SUBSET DOMAIN events /\ (\A k \in DOMAIN events : ~Old(events[k]) => k \in kept)
  OBVIOUS
<1>3. Len(events') <= Len(events)
  BY RetainTyped
<1> HIDE DEF kept
<1>4. /\ kept \in SUBSET Nat /\ IsFiniteSet(kept)
      /\ \A j \in 1 .. Cardinality(kept) : Nth(kept, j) \in kept
  BY <1>2, KeptPositions
<1>5. /\ \A j, k \in 1 .. Cardinality(kept) : j < k => Nth(kept, j) < Nth(kept, k)
      /\ \A p \in kept : \E j \in 1 .. Cardinality(kept) : Nth(kept, j) = p
  BY <1>4, NthOrder
<1>6. DOMAIN events' = 1 .. Cardinality(kept)
  BY <1>1
<1>7. at \in [DOMAIN events' -> DOMAIN events]
  BY <1>2, <1>4, <1>6
<1>8. \A j \in DOMAIN events' : events'[j] = events[at[j]]
  BY <1>1, <1>6
<1>9. \A j, k \in DOMAIN events' : j < k => at[j] < at[k]
  BY <1>5, <1>6
<1>10. \A k \in DOMAIN events : ~Old(events[k]) => \E j \in DOMAIN events' : at[j] = k
  BY <1>2, <1>5, <1>6
<1> HIDE DEF at
<1> QED BY <1>3, <1>7, <1>8, <1>9, <1>10

(* How much the task has taken.                                            *)
LEMMA TakenMoves ==
  ASSUME TypeOK, PositionInv
  PROVE  /\ Taken \in Nat
         /\ UNCHANGED <<next, began, setup>> => Taken' = Taken
         /\ \A ch \in Channel :
              /\ Receive(ch) => Taken' = IF Kept(ch) THEN Taken + 1 ELSE Taken
              /\ Lag(ch) => Taken' \in Nat /\ Taken <= Taken'
<1> DEFINE F == "fsm"
           C == "counter"
           N == "node"
<1>t. \A ch \in Channel : next[ch] \in Nat /\ began[ch] \in Nat /\ began[ch] <= next[ch]
  BY DEF TypeOK, PositionInv, TaskPosition
<1>d. DOMAIN next = Channel
  BY DEF TypeOK
<1>1. \A ch \in Channel : TakenFrom(ch) \in Nat
  BY <1>t DEF TakenFrom
<1>2. F \in Channel /\ C \in Channel /\ N \in Channel /\ \A ch \in Channel : ch \in {F, C, N}
  BY DEF Channel
<1>3. Taken \in Nat
  BY <1>1, <1>2 DEF Taken
<1>4. UNCHANGED <<next, began, setup>> => Taken' = Taken
  BY DEF Taken, TakenFrom, Kept
<1>5. ASSUME NEW ch \in Channel, Receive(ch)
      PROVE  Taken' = IF Kept(ch) THEN Taken + 1 ELSE Taken
  <2>1. /\ next' = [next EXCEPT ![ch] = next[ch] + 1] /\ began' = began /\ setup' = setup
    BY <1>5 DEF Receive
  <2>2. \A c \in Channel : TakenFrom(c)' = IF c = ch /\ Kept(ch) THEN TakenFrom(c) + 1
                                           ELSE TakenFrom(c)
    BY <1>t, <1>d, <2>1 DEF TakenFrom, Kept
  <2> QED BY <1>1, <1>2, <2>2 DEF Taken
<1>6. ASSUME NEW ch \in Channel, Lag(ch) PROVE Taken' \in Nat /\ Taken <= Taken'
  <2>1. /\ next' = [next EXCEPT ![ch] = Oldest(ch)] /\ began' = began /\ setup' = setup
        /\ next[ch] < Oldest(ch)
    BY <1>6 DEF Lag
  <2>2. Oldest(ch) \in Nat
    BY OldestBounds
  <2>3. \A c \in Channel : TakenFrom(c)' \in Nat /\ TakenFrom(c) <= TakenFrom(c)'
    BY <1>t, <1>d, <2>1, <2>2 DEF TakenFrom, Kept
  <2> QED BY <1>1, <1>2, <2>3 DEF Taken
<1> QED BY <1>3, <1>4, <1>5, <1>6

LEMMA LogInit == Init => LogInv /\ RoomInv
<1> SUFFICES ASSUME Init PROVE LogInv /\ RoomInv
  OBVIOUS
<1>1. LogInv
  BY FS_EmptySet DEF Init, LogInv
<1>2. RoomInv
  BY DEF Init, RoomInv, Taken, TakenFrom, Channel
<1> QED BY <1>1, <1>2

LEMMA LogStep == TypeOK /\ LogInv /\ [Next]_vars => LogInv'
<1> SUFFICES ASSUME TypeOK, LogInv, [Next]_vars PROVE LogInv'
  OBVIOUS
<1> USE DEF busVars, logVars, taskVars, streamVars
<1>t. /\ rows \subseteq Ref /\ events \in Seq(Ref) /\ Len(events) \in Nat
      /\ DOMAIN events = 1 .. Len(events) /\ (\A k \in DOMAIN events : events[k] \in Ref)
      /\ storing \subseteq Ref /\ DOMAIN next = Channel
      /\ \A ch \in Channel : next[ch] \in Nat \ {0}
  BY DEF TypeOK
<1>r. \A e \in Ref : e.ch \in Channel /\ e.pos \in Nat
  BY DEF Ref
<1>1. CASE \/ \E ch \in Channel : \E about \in setup.origin[ch] : Emit(ch, about)
           \/ DaysPass \/ UNCHANGED vars
           \/ \E s \in Stream : \E ch \in Channel : Subscribe(s, ch)
           \/ \E s \in Stream : Yield(s) \/ SkipLagged(s)
           \/ \E s \in Stream : Unsubscribe(s)
  <2>1. UNCHANGED <<setup, rows, events, storing, next>>
    BY <1>1 DEF Emit, DaysPass, Subscribe, Yield, SkipLagged, Unsubscribe, vars
  <2> QED BY <2>1 DEF LogInv
<1>2. ASSUME NEW ch \in Channel, Receive(ch) PROVE LogInv'
  <2>1. /\ UNCHANGED <<setup, rows, events>> /\ next' = [next EXCEPT ![ch] = next[ch] + 1]
        /\ storing' = IF Kept(ch) THEN {[ch |-> ch, pos |-> next[ch]]} ELSE {}
    BY <1>2 DEF Receive
  <2>2. \A k \in DOMAIN events : events[k].pos < next'[events[k].ch]
    BY <1>t, <1>r, <2>1 DEF LogInv
  <2>3. \A e \in storing' : e.ch = ch /\ e.pos = next[ch] /\ \A f \in storing' : e = f
    BY <2>1
  <2>4. \A k \in DOMAIN events : \A e \in storing' : e.ch = events[k].ch => events[k].pos < e.pos
    BY <2>3 DEF LogInv
  <2>5. \A e \in storing' : e.pos < next'[e.ch]
    BY <1>t, <2>1, <2>3
  <2> QED BY <2>1, <2>2, <2>3, <2>4, <2>5 DEF LogInv
<1>3. ASSUME NEW ch \in Channel, Lag(ch) PROVE LogInv'
  <2>1. /\ UNCHANGED <<setup, rows, events, storing>> /\ storing = {}
        /\ next' = [next EXCEPT ![ch] = Oldest(ch)] /\ next[ch] < Oldest(ch)
    BY <1>3 DEF Lag
  <2>2. Oldest(ch) \in Nat
    BY OldestBounds
  <2>3. \A k \in DOMAIN events : events[k].pos < next'[events[k].ch]
    <3> SUFFICES ASSUME NEW k \in DOMAIN events PROVE events[k].pos < next'[events[k].ch]
      OBVIOUS
    <3>1. events[k].ch \in Channel /\ events[k].pos \in Nat /\ events[k].pos < next[events[k].ch]
      BY <1>t, <1>r DEF LogInv
    <3> QED BY <1>t, <2>1, <2>2, <3>1
  <2> QED BY <2>1, <2>3 DEF LogInv
<1>4. CASE StoreEvent
  <2>1. PICK e \in storing : Store(e) /\ storing' = storing \ {e}
    BY <1>4 DEF StoreEvent
  <2>2. /\ UNCHANGED <<setup, next>> /\ e \in Ref /\ storing' = {} /\ e.pos < next[e.ch]
    BY <1>4, <1>t, <2>1 DEF StoreEvent, LogInv
  <2>3. CASE setup.backend = "sqlite"
    <3>1. events' = events /\ rows' = rows \cup {e} /\ events = << >>
      BY <2>1, <2>3 DEF Store, InsertEvent, LogInv
    <3>2. IsFiniteSet(rows')
      BY <3>1, FS_AddElement DEF LogInv
    <3> QED BY <1>t, <2>2, <2>3, <3>1, <3>2 DEF LogInv
  <2>4. CASE setup.backend # "sqlite"
    <3>1. rows' = rows /\ PushEvent(e) /\ rows = {}
      BY <2>1, <2>4 DEF Store, LogInv
    <3>2. PICK d \in {0, 1} :
            /\ DOMAIN events' = 1 .. Len(events) + 1 - d
            /\ \A k \in 1 .. Len(events) + 1 - d :
                 events'[k] = IF k + d = Len(events) + 1 THEN e ELSE events[k + d]
      BY <2>2, <3>1, PushShape
    <3>3. \A k \in DOMAIN events' : events'[k].pos < next'[events'[k].ch]
      <4> SUFFICES ASSUME NEW k \in DOMAIN events' PROVE events'[k].pos < next[events'[k].ch]
        BY <2>2
      <4>1. CASE k + d = Len(events) + 1
        BY <2>2, <3>2, <4>1
      <4>2. CASE k + d # Len(events) + 1
        <5>1. k + d \in DOMAIN events /\ events'[k] = events[k + d]
          BY <1>t, <3>2, <4>2
        <5> QED BY <5>1 DEF LogInv
      <4> QED BY <4>1, <4>2
    <3>4. ASSUME NEW j \in DOMAIN events', NEW k \in DOMAIN events',
                 j < k, events'[j].ch = events'[k].ch
          PROVE  events'[j].pos < events'[k].pos
      <4>1. j + d \in DOMAIN events /\ events'[j] = events[j + d]
        BY <1>t, <3>2, <3>4
      <4>2. CASE k + d = Len(events) + 1
        <5>1. events'[k] = e
          BY <3>2, <4>2
        <5> QED BY <2>1, <3>4, <4>1, <5>1 DEF LogInv
      <4>3. CASE k + d # Len(events) + 1
        <5>1. k + d \in DOMAIN events /\ events'[k] = events[k + d] /\ j + d < k + d
          BY <1>t, <3>2, <3>4, <4>3
        <5> QED BY <3>4, <4>1, <5>1 DEF LogInv
      <4> QED BY <4>2, <4>3
    <3> QED BY <2>2, <2>4, <3>1, <3>3, <3>4 DEF LogInv
  <2> QED BY <2>3, <2>4
<1>5. CASE StoreFails
  <2>1. UNCHANGED <<setup, rows, events, next>> /\ storing' \subseteq storing
    BY <1>5 DEF StoreFails
  <2> QED BY <2>1 DEF LogInv
<1>6. CASE PruneEvents
  <2>1. /\ UNCHANGED <<setup, storing, next>> /\ RetainNew
        /\ rows' \subseteq rows
    BY <1>6 DEF PruneEvents, DeleteOld
  <2>2. PICK at \in [DOMAIN events' -> DOMAIN events] :
           /\ Len(events') <= Len(events)
           /\ \A j \in DOMAIN events' : events'[j] = events[at[j]]
           /\ \A j, k \in DOMAIN events' : j < k => at[j] < at[k]
    BY <2>1, RetainShape
  <2>3. IsFiniteSet(rows')
    BY <2>1, FS_Subset DEF LogInv
  <2>4. events = << >> => events' = << >>
    <3> SUFFICES ASSUME events = << >> PROVE events' = << >>
      OBVIOUS
    <3>1. events' \in Seq(Ref) /\ Len(events') \in Nat
      BY <2>1, RetainTyped
    <3> QED BY <2>2, <3>1
  <2>5. \A j \in DOMAIN events' : at[j] \in DOMAIN events /\ events'[j] = events[at[j]]
    BY <2>2
  <2>6. /\ \A k \in DOMAIN events' : \A e \in storing' :
             e.ch = events'[k].ch => events'[k].pos < e.pos
        /\ \A k \in DOMAIN events' : events'[k].pos < next'[events'[k].ch]
    BY <2>1, <2>5 DEF LogInv
  <2>7. \A j, k \in DOMAIN events' :
          j < k /\ events'[j].ch = events'[k].ch => events'[j].pos < events'[k].pos
    BY <2>2, <2>5 DEF LogInv
  <2> QED BY <2>1, <2>3, <2>4, <2>6, <2>7 DEF LogInv
<1>7. CASE Restart
  <2>1. /\ UNCHANGED <<setup, rows>> /\ events' = << >> /\ storing' = {}
    BY <1>7 DEF Restart
  <2> QED BY <2>1 DEF LogInv
<1> QED BY <1>1, <1>2, <1>3, <1>4, <1>5, <1>6, <1>7, NextSplit

LEMMA RoomStep == TypeOK /\ PositionInv /\ LogInv /\ RoomInv /\ [Next]_vars => RoomInv'
<1> SUFFICES ASSUME TypeOK, PositionInv, LogInv, RoomInv, [Next]_vars PROVE RoomInv'
  OBVIOUS
<1> USE DEF busVars, logVars, taskVars, streamVars
<1>t. Len(events) \in Nat /\ Taken \in Nat /\ storing \subseteq Ref
  BY TakenMoves DEF TypeOK
<1>1. CASE \/ \E ch \in Channel : \E about \in setup.origin[ch] : Emit(ch, about)
           \/ DaysPass \/ StoreFails \/ UNCHANGED vars
           \/ \E s \in Stream : \E ch \in Channel : Subscribe(s, ch)
           \/ \E s \in Stream : Yield(s) \/ SkipLagged(s)
           \/ \E s \in Stream : Unsubscribe(s)
  <2>1. UNCHANGED <<setup, events, next, began>> /\ storing' \subseteq storing
    BY <1>1 DEF Emit, DaysPass, StoreFails, Subscribe, Yield, SkipLagged, Unsubscribe, vars
  <2>2. Taken' = Taken
    BY <2>1, TakenMoves
  <2> QED BY <2>1, <2>2 DEF RoomInv
<1>2. ASSUME NEW ch \in Channel, Receive(ch) PROVE RoomInv'
  <2>1. /\ storing = {} /\ events' = events
        /\ storing' = IF Kept(ch) THEN {[ch |-> ch, pos |-> next[ch]]} ELSE {}
    BY <1>2 DEF Receive
  <2>2. Taken' = IF Kept(ch) THEN Taken + 1 ELSE Taken
    BY <1>2, TakenMoves
  <2>3. CASE Kept(ch)
    BY <1>t, <2>1, <2>2, <2>3 DEF RoomInv
  <2>4. CASE ~Kept(ch)
    BY <1>t, <2>1, <2>2, <2>4 DEF RoomInv
  <2> QED BY <2>3, <2>4
<1>3. ASSUME NEW ch \in Channel, Lag(ch) PROVE RoomInv'
  <2>1. UNCHANGED <<storing, events>> /\ storing = {}
    BY <1>3 DEF Lag
  <2>2. Taken' \in Nat /\ Taken <= Taken'
    BY <1>3, TakenMoves
  <2> QED BY <1>t, <2>1, <2>2 DEF RoomInv
<1>4. CASE StoreEvent
  <2>1. PICK e \in storing : Store(e) /\ storing' = storing \ {e}
    BY <1>4 DEF StoreEvent
  <2>2. UNCHANGED <<setup, next, began>> /\ storing' = {} /\ e \in Ref
    BY <1>t, <1>4, <2>1 DEF StoreEvent, LogInv
  <2>3. Taken' = Taken
    BY <2>2, TakenMoves
  <2>4. Len(events) + 1 <= Taken
    BY <2>1 DEF RoomInv
  <2>5. Len(events') \in Nat /\ Len(events') <= Len(events) + 1
    <3>1. CASE events' = events
      BY <1>t, <3>1
    <3>2. CASE PushEvent(e)
      <4>1. PICK d \in {0, 1} : Len(events') = Len(events) + 1 - d
        BY <2>2, <3>2, PushShape
      <4> QED BY <1>t, <4>1
    <3> QED BY <2>1, <3>1, <3>2 DEF Store
  <2> QED BY <1>t, <2>2, <2>3, <2>4, <2>5 DEF RoomInv
<1>5. CASE PruneEvents
  <2>1. UNCHANGED <<setup, storing, next, began>> /\ RetainNew
    BY <1>5 DEF PruneEvents
  <2>2. Taken' = Taken /\ Len(events') \in Nat /\ Len(events') <= Len(events)
    BY <2>1, TakenMoves, RetainTyped
  <2> QED BY <1>t, <2>1, <2>2 DEF RoomInv
<1>6. CASE Restart
  <2>1. /\ events' = << >> /\ storing' = {} /\ setup' = setup
        /\ next' = [ch \in Channel |-> Len(sent[ch]) + 1] /\ began' = next'
    BY <1>6 DEF Restart
  <2>2. \A ch \in Channel : TakenFrom(ch)' = 0
    <3> SUFFICES ASSUME NEW ch \in Channel PROVE TakenFrom(ch)' = 0
      OBVIOUS
    <3>1. next'[ch] \in Nat /\ began'[ch] = next'[ch]
      BY <2>1, OldestBounds
    <3> QED BY <3>1 DEF TakenFrom
  <2>3. Taken' = 0
    BY <2>2 DEF Taken, Channel
  <2> QED BY <2>1, <2>3 DEF RoomInv
<1> QED BY <1>1, <1>2, <1>3, <1>4, <1>5, <1>6, NextSplit

(* Where an event that was taken is.                                       *)
Accounted(e) ==
  Old(e) \/ e \in storing \cup Logged \/ (setup.backend = "memory" /\ Taken > Cap)

LEMMA CompleteParts ==
  /\ LogIsComplete <=> \A ch \in Channel \ (behind \cup failed) : Kept(ch) =>
       \A pos \in began[ch] .. next[ch] - 1 : Accounted([ch |-> ch, pos |-> pos])
  /\ LogIsComplete' <=> \A ch \in Channel \ (behind' \cup failed') : Kept(ch)' =>
       \A pos \in began'[ch] .. next'[ch] - 1 : Accounted([ch |-> ch, pos |-> pos])'
BY DEF LogIsComplete, Accounted

(* A step that lets go of nothing and reads nothing keeps the log complete.*)
LEMMA CompleteFrame ==
  ASSUME TypeOK, LogIsComplete, UNCHANGED <<setup, next, began>>,
         (Channel \cap behind) \subseteq behind', failed \subseteq failed',
         \A e \in Ref : e.ch \notin failed' /\ Accounted(e) => Accounted(e)'
  PROVE  LogIsComplete'
<1> SUFFICES ASSUME NEW ch \in Channel \ (behind' \cup failed'), Kept(ch)',
                    NEW pos \in began'[ch] .. next'[ch] - 1
             PROVE  Accounted([ch |-> ch, pos |-> pos])'
  BY CompleteParts
<1>1. ch \in Channel \ (behind \cup failed) /\ Kept(ch) /\ pos \in began[ch] .. next[ch] - 1
  BY DEF Kept
<1>2. Accounted([ch |-> ch, pos |-> pos])
  BY <1>1, CompleteParts
<1>3. began[ch] \in Nat \ {0} /\ next[ch] \in Nat
  BY DEF TypeOK
<1>4. [ch |-> ch, pos |-> pos] \in Ref
  BY <1>1, <1>3 DEF Ref
<1> QED BY <1>2, <1>4

LEMMA CompleteStep ==
  TypeOK /\ PositionInv /\ LogInv /\ RoomInv /\ LogIsComplete /\ [Next]_vars
    => LogIsComplete'
<1> SUFFICES ASSUME TypeOK, PositionInv, LogInv, RoomInv, LogIsComplete, [Next]_vars
             PROVE  LogIsComplete'
  OBVIOUS
<1> USE DEF busVars, logVars, taskVars, streamVars
<1>r. \A e \in Ref : e.ch \in Channel /\ e.pos \in Nat
  BY DEF Ref
<1>t. /\ Taken \in Nat /\ Cap \in Nat /\ Stream \cap Channel = {}
      /\ \A ch \in Channel : next[ch] \in Nat /\ began[ch] \in Nat \ {0}
      /\ DOMAIN next = Channel
  BY TakenMoves, Constants DEF TypeOK
<1>1. CASE \/ \E ch \in Channel : \E about \in setup.origin[ch] : Emit(ch, about)
           \/ UNCHANGED vars
           \/ \E s \in Stream : \E ch \in Channel : Subscribe(s, ch)
           \/ \E s \in Stream : Yield(s) \/ SkipLagged(s)
           \/ \E s \in Stream : Unsubscribe(s)
  <2>1. /\ UNCHANGED <<setup, next, began, storing, rows, events, failed>>
        /\ aged \subseteq aged' /\ (Channel \cap behind) \subseteq behind'
    BY <1>1, <1>t DEF Emit, Subscribe, Yield, SkipLagged, Unsubscribe, vars
  <2>2. Taken' = Taken /\ Logged' = Logged /\ \A e : Old(e) => Old(e)'
    BY <2>1, TakenMoves DEF Logged, Old
  <2>3. \A e \in Ref : Accounted(e) => Accounted(e)'
    BY <2>1, <2>2 DEF Accounted
  <2> QED BY <2>1, <2>3, CompleteFrame
<1>2. CASE DaysPass
  <2>1. /\ UNCHANGED <<setup, next, began, storing, rows, events, behind, failed>>
        /\ aged \subseteq aged'
    BY <1>2 DEF DaysPass
  <2>2. Taken' = Taken /\ Logged' = Logged
    BY <2>1, TakenMoves DEF Logged
  <2>3. \A e : Old(e) => Old(e)'
    BY <2>1 DEF Old
  <2>4. \A e \in Ref : Accounted(e) => Accounted(e)'
    BY <2>1, <2>2, <2>3 DEF Accounted
  <2> QED BY <2>1, <2>4, CompleteFrame
<1>3. ASSUME NEW ch \in Channel, Receive(ch) PROVE LogIsComplete'
  <2>1. /\ UNCHANGED <<setup, began, aged, rows, events, behind, failed>> /\ storing = {}
        /\ storing' = IF Kept(ch) THEN {[ch |-> ch, pos |-> next[ch]]} ELSE {}
        /\ next' = [next EXCEPT ![ch] = next[ch] + 1]
    BY <1>3 DEF Receive
  <2>2. Taken' \in Nat /\ Taken <= Taken' /\ Logged' = Logged
    BY <1>3, <1>t, <2>1, TakenMoves DEF Logged
  <2>3. ASSUME NEW e \in Ref, Accounted(e) PROVE Accounted(e)'
    BY <1>t, <2>1, <2>2, <2>3 DEF Accounted, Old
  <2> SUFFICES ASSUME NEW c \in Channel \ (behind' \cup failed'), Kept(c)',
                      NEW pos \in began'[c] .. next'[c] - 1
               PROVE  Accounted([ch |-> c, pos |-> pos])'
    BY CompleteParts
  <2>4. c \in Channel \ (behind \cup failed) /\ Kept(c) /\ pos \in Nat \ {0}
    BY <1>t, <2>1 DEF Kept
  <2>5. CASE pos \in began[c] .. next[c] - 1
    <3>1. Accounted([ch |-> c, pos |-> pos]) /\ [ch |-> c, pos |-> pos] \in Ref
      BY <2>4, <2>5, CompleteParts DEF Ref
    <3> QED BY <2>3, <3>1
  <2>6. CASE pos \notin began[c] .. next[c] - 1
    <3>1. c = ch /\ pos = next[ch]
      BY <1>t, <2>1, <2>4, <2>6
    <3> QED BY <2>1, <2>4, <3>1 DEF Accounted
  <2> QED BY <2>5, <2>6
<1>4. ASSUME NEW ch \in Channel, Lag(ch) PROVE LogIsComplete'
  <2>1. /\ UNCHANGED <<setup, began, aged, storing, rows, events, behind, failed>>
        /\ next' = [next EXCEPT ![ch] = Oldest(ch)] /\ next[ch] < Oldest(ch)
    BY <1>4 DEF Lag
  <2>2. ch \in behind
    <3>1. next[ch] \in Nat \ {0}
      BY DEF TypeOK
    <3> QED BY <2>1, <3>1, OldestBounds DEF PositionInv, TaskPosition
  <2>3. Taken' \in Nat /\ Taken <= Taken' /\ Logged' = Logged
    BY <1>4, <2>1, TakenMoves DEF Logged
  <2>4. ASSUME NEW e, Accounted(e) PROVE Accounted(e)'
    BY <1>t, <2>1, <2>3, <2>4 DEF Accounted, Old
  <2> SUFFICES ASSUME NEW c \in Channel \ (behind' \cup failed'), Kept(c)',
                      NEW pos \in began'[c] .. next'[c] - 1
               PROVE  Accounted([ch |-> c, pos |-> pos])'
    BY CompleteParts
  <2>5. c \in Channel \ (behind \cup failed) /\ Kept(c) /\ c # ch
    BY <2>1, <2>2 DEF Kept
  <2>6. pos \in began[c] .. next[c] - 1
    BY <2>1, <2>5
  <2>7. Accounted([ch |-> c, pos |-> pos])
    BY <2>5, <2>6, CompleteParts
  <2> QED BY <2>4, <2>7
<1>5. CASE StoreEvent
  <2>1. PICK e \in storing : Store(e) /\ storing' = storing \ {e}
    BY <1>5 DEF StoreEvent
  <2>2. UNCHANGED <<setup, next, began, aged, behind, failed>> /\ e \in Ref
    BY <1>5, <2>1 DEF StoreEvent, TypeOK
  <2>3. Taken' = Taken /\ \A f : Old(f)' = Old(f)
    BY <2>2, TakenMoves DEF Old
  <2>4. \/ setup.backend = "memory" /\ Taken > Cap
        \/ Logged \cup {e} \subseteq Logged'
    <3>1. CASE setup.backend = "sqlite"
      BY <2>1, <3>1 DEF Store, InsertEvent, Logged
    <3>2. CASE setup.backend # "sqlite" /\ ~(Taken > Cap)
      <4>1. rows' = rows /\ PushEvent(e)
        BY <2>1, <3>2 DEF Store
      <4>2. /\ Len(events) \in Nat /\ DOMAIN events = 1 .. Len(events) /\ Len(events) < Cap
        <5>1. Len(events) + 1 <= Taken /\ Len(events) \in Nat
          BY <2>1 DEF RoomInv, TypeOK
        <5> QED BY <1>t, <3>2, <5>1 DEF TypeOK
      <4>3. /\ DOMAIN events' = 1 .. Len(events) + 1
            /\ \A k \in 1 .. Len(events) + 1 :
                 events'[k] = IF k = Len(events) + 1 THEN e ELSE events[k]
        BY <2>2, <4>1, <4>2, PushShape
      <4>4. e \in Logged'
        BY <4>2, <4>3 DEF Logged
      <4>5. ASSUME NEW k \in DOMAIN events PROVE events[k] \in Logged'
        BY <4>2, <4>3 DEF Logged
      <4> QED BY <4>1, <4>4, <4>5 DEF Logged
    <3>3. setup.backend \in {"memory", "sqlite"}
      BY Constants DEF TypeOK, Setup
    <3> QED BY <3>1, <3>2, <3>3
  <2>5. \A f \in Ref : Accounted(f) => Accounted(f)'
    BY <2>1, <2>2, <2>3, <2>4 DEF Accounted
  <2> QED BY <2>2, <2>5, CompleteFrame
<1>6. CASE StoreFails
  <2>1. PICK e \in storing : failed' = failed \cup {e.ch} /\ storing' = storing \ {e}
    BY <1>6 DEF StoreFails
  <2>2. UNCHANGED <<setup, next, began, aged, rows, events, behind>>
    BY <1>6 DEF StoreFails
  <2>3. Taken' = Taken /\ Logged' = Logged /\ \A f : Old(f)' = Old(f)
    BY <2>2, TakenMoves DEF Logged, Old
  <2>4. \A f \in Ref : f.ch \notin failed' /\ Accounted(f) => Accounted(f)'
    BY <2>1, <2>2, <2>3 DEF Accounted
  <2> QED BY <2>1, <2>2, <2>4, CompleteFrame
<1>7. CASE PruneEvents
  <2>1. /\ UNCHANGED <<setup, storing, next, began, aged, behind, failed>>
        /\ RetainNew /\ DeleteOld
    BY <1>7 DEF PruneEvents
  <2>2. Taken' = Taken /\ \A f : Old(f)' = Old(f)
    BY <2>1, TakenMoves DEF Old
  <2>3. ASSUME NEW f \in Logged, ~Old(f) PROVE f \in Logged'
    <3>1. PICK at \in [DOMAIN events' -> DOMAIN events] :
            /\ \A j \in DOMAIN events' : events'[j] = events[at[j]]
            /\ \A k \in DOMAIN events : ~Old(events[k]) => \E j \in DOMAIN events' : at[j] = k
      BY <2>1, RetainShape
    <3>2. CASE f \in rows
      BY <2>1, <2>3, <3>2 DEF DeleteOld, Logged
    <3>3. CASE f \notin rows
      <4>1. PICK k \in DOMAIN events : events[k] = f
        BY <2>3, <3>3 DEF Logged
      <4>2. PICK j \in DOMAIN events' : events'[j] = f
        BY <2>3, <3>1, <4>1
      <4> QED BY <4>2 DEF Logged
    <3> QED BY <3>2, <3>3
  <2>4. \A f \in Ref : Accounted(f) => Accounted(f)'
    BY <2>1, <2>2, <2>3 DEF Accounted
  <2> QED BY <2>1, <2>4, CompleteFrame
<1>8. CASE Restart
  <2>1. next' = [ch \in Channel |-> Len(sent[ch]) + 1] /\ began' = next'
    BY <1>8 DEF Restart
  <2>2. ASSUME NEW ch \in Channel PROVE began'[ch] .. next'[ch] - 1 = {}
    <3>1. next'[ch] \in Nat /\ began'[ch] = next'[ch]
      BY <2>1, OldestBounds
    <3> QED BY <3>1
  <2> QED BY <2>2, CompleteParts
<1> QED BY <1>1, <1>2, <1>3, <1>4, <1>5, <1>6, <1>7, <1>8, NextSplit

(* On a channel that kept up and whose events could be stored, whatever    *)
(* the task has taken is in the log, unless it is past its age or the      *)
(* memory backend was given more than its cap.                             *)
THEOREM LogStaysComplete == Spec => []LogIsComplete
<1>1. Init => LogIsComplete
  BY DEF Init, LogIsComplete
<1> QED BY <1>1, EventTypes, PositionInit, PositionStep, LogInit, LogStep, RoomStep,
           CompleteStep, PTL DEF Spec
-----------------------------------------------------------------------------
(***************************************************************************)
(* The history.                                                            *)
(***************************************************************************)
(* The image of a finite set is finite, and of its size if no two members  *)
(* have the same.                                                          *)
LEMMA ImageSize ==
  ASSUME NEW S, IsFiniteSet(S), NEW f, f = [x \in S |-> f[x]]
  PROVE  /\ IsFiniteSet({f[x] : x \in S})
         /\ (\A x, y \in S : f[x] = f[y] => x = y)
              => Cardinality({f[x] : x \in S}) = Cardinality(S)
<1> DEFINE T == {f[x] : x \in S}
<1>1. f \in [S -> T]
  OBVIOUS
<1>2. f \in Surjection(S, T)
  BY <1>1 DEF Surjection
<1>3. (\A x, y \in S : f[x] = f[y] => x = y) => f \in Injection(S, T)
  BY <1>1 DEF Injection, IsInjective
<1> HIDE DEF T
<1>4. IsFiniteSet(T) /\ (Cardinality(T) = Cardinality(S) <=> f \in Injection(S, T))
  BY <1>2, FS_Surjection
<1> QED BY <1>3, <1>4 DEF T

(* Newest lists the largest members, largest first: the k-th has k - 1     *)
(* larger ones, and all are listed if the limit is not reached.            *)
LEMMA NewestListed ==
  ASSUME NEW P \in SUBSET Nat, IsFiniteSet(P), NEW limit \in Nat
  PROVE  \E n \in 0 .. limit :
           /\ Len(Newest(P, limit)) = n /\ DOMAIN Newest(P, limit) = 1 .. n
           /\ \A k \in 1 .. n :
                /\ Newest(P, limit)[k] \in P
                /\ Cardinality({q \in P : q > Newest(P, limit)[k]}) = k - 1
           /\ n < limit => \A p \in P : \E k \in 1 .. n : Newest(P, limit)[k] = p
<1> DEFINE m == Cardinality(P)
           n == IF limit < m THEN limit ELSE m
           found == [j \in 1 .. n |-> Nth(P, m + 1 - j)]
<1>1. m \in Nat
  BY FS_CardinalityType
<1>2. Newest(P, limit) = found
  BY DEF Newest
<1>3. n \in 0 .. limit /\ n <= m /\ n \in Nat
  BY <1>1
<1> HIDE DEF m, n
<1>4. Len(found) = n /\ DOMAIN found = 1 .. n
  BY <1>3
<1>5. ASSUME NEW k \in 1 .. n
      PROVE  found[k] \in P /\ Cardinality({q \in P : q > found[k]}) = k - 1
  <2> DEFINE j == m + 1 - k
             p == Nth(P, j)
             above == {q \in P : q > p}
  <2>1. j \in 1 .. Cardinality(P) /\ found[k] = p /\ j - 1 = m - k
    BY <1>1, <1>3 DEF m
  <2>2. p \in P /\ Cardinality(Below(P, p)) = m - k
    BY <2>1, NthHasRank
  <2> HIDE DEF p
  <2>3. P = (Below(P, p) \cup {p}) \cup above /\ Below(P, p) \cap above = {}
        /\ p \notin Below(P, p) /\ p \notin above
    <3>1. p \in Nat /\ \A q \in P : q \in Nat
      BY <2>2
    <3>2. ASSUME NEW q \in P PROVE q \in Below(P, p) \/ q = p \/ q \in above
      BY <3>1, <3>2 DEF Below
    <3>3. ASSUME NEW q \in Below(P, p) PROVE q \notin above
      <4>1. q \in P /\ q < p /\ q \in Nat
        BY <3>1 DEF Below
      <4> QED BY <3>1, <4>1
    <3>4. p \notin Below(P, p) /\ p \notin above
      BY <3>1 DEF Below
    <3>5. Below(P, p) \subseteq P /\ above \subseteq P
      BY DEF Below
    <3> HIDE DEF above
    <3> QED BY <2>2, <3>2, <3>3, <3>4, <3>5
  <2>4. IsFiniteSet(Below(P, p)) /\ IsFiniteSet(above)
    <3>1. Below(P, p) \in SUBSET P /\ above \in SUBSET P
      BY DEF Below
    <3> QED BY <3>1, FS_Subset
  <2> HIDE DEF above
  <2>5. /\ IsFiniteSet(Below(P, p) \cup {p})
        /\ Cardinality(Below(P, p) \cup {p}) = Cardinality(Below(P, p)) + 1
    BY <2>3, <2>4, FS_AddElement
  <2>6. (Below(P, p) \cup {p}) \cap above = {}
    BY <2>3
  <2>7. Cardinality(P) = Cardinality(Below(P, p) \cup {p}) + Cardinality(above)
                         - Cardinality((Below(P, p) \cup {p}) \cap above)
    BY <2>3, <2>4, <2>5, FS_Union
  <2>8. Cardinality((Below(P, p) \cup {p}) \cap above) = 0 /\ Cardinality(above) \in Nat
    BY <2>4, <2>6, FS_EmptySet, FS_CardinalityType
  <2>9. m = (m - k) + 1 + Cardinality(above)
    BY <1>1, <1>3, <2>2, <2>5, <2>7, <2>8 DEF m
  <2>10. Cardinality(above) = k - 1
    BY <1>1, <1>3, <2>8, <2>9
  <2> QED BY <2>1, <2>2, <2>10 DEF above
<1>6. ASSUME n < limit, NEW p \in P PROVE \E k \in 1 .. n : found[k] = p
  <2>1. n = m
    BY <1>1, <1>6 DEF n
  <2>2. PICK j \in 1 .. m : Nth(P, j) = p
    BY NthOrder DEF m
  <2>3. m + 1 - j \in 1 .. n /\ m + 1 - (m + 1 - j) = j
    BY <1>1, <2>1, <2>2
  <2>4. found[m + 1 - j] = p
    BY <2>2, <2>3
  <2> QED BY <2>3, <2>4
<1> HIDE DEF found
<1> QED BY <1>2, <1>3, <1>4, <1>5, <1>6

(* The history of a channel, in a state of the log.                        *)
HistoryOf(ch, limit) ==
  LET h == QueryVec(ch, limit)
      all == {e \in Logged : e.ch = ch}
  IN /\ Len(h) <= limit /\ (Len(h) < limit => all = {h[k] : k \in DOMAIN h})
     /\ \A k \in DOMAIN h : h[k] \in all /\ Cardinality({e \in all : e.pos > h[k].pos}) = k - 1

(* It lists what the indices of a channel's events name.                   *)
LEMMA HistoryListed ==
  ASSUME NEW ch \in Channel, NEW limit \in Nat, NEW P \in SUBSET Nat, IsFiniteSet(P),
         NEW f, f = [p \in P |-> f[p]], \A p \in P : f[p] \in Ref,
         {f[p] : p \in P} = {e \in Logged : e.ch = ch},
         \A p, q \in P : p < q => f[p].pos < f[q].pos,
         QueryVec(ch, limit) =
           [k \in DOMAIN Newest(P, limit) |-> f[Newest(P, limit)[k]]]
  PROVE  HistoryOf(ch, limit)
<1> DEFINE found == Newest(P, limit)
           h == QueryVec(ch, limit)
           all == {e \in Logged : e.ch = ch}
<1>1. PICK n \in 0 .. limit :
        /\ Len(found) = n /\ DOMAIN found = 1 .. n
        /\ \A k \in 1 .. n : found[k] \in P /\ Cardinality({q \in P : q > found[k]}) = k - 1
        /\ n < limit => \A p \in P : \E k \in 1 .. n : found[k] = p
  BY NewestListed
<1>2. h = [k \in 1 .. n |-> f[found[k]]] /\ n \in Nat
  BY <1>1
<1>a. all = {f[p] : p \in P} /\ \A p \in P : f[p].pos \in Nat /\ p \in Nat
  BY DEF Ref
<1> HIDE DEF found, h
<1>3. Len(h) = n /\ DOMAIN h = 1 .. n
  BY <1>2
<1>4. Len(h) < limit => all = {h[k] : k \in DOMAIN h}
  <2> SUFFICES ASSUME n < limit PROVE all = {h[k] : k \in 1 .. n}
    BY <1>3
  <2>1. \A p \in P : \E k \in 1 .. n : found[k] = p
    BY <1>1
  <2>2. \A k \in 1 .. n : h[k] = f[found[k]] /\ found[k] \in P
    BY <1>1, <1>2
  <2> QED BY <1>a, <2>1, <2>2
<1>5. ASSUME NEW k \in 1 .. n
      PROVE  h[k] \in all /\ Cardinality({e \in all : e.pos > h[k].pos}) = k - 1
  <2> DEFINE p == found[k]
             above == {q \in P : q > p}
             g == [q \in above |-> f[q]]
  <2>1. p \in P /\ h[k] = f[p] /\ Cardinality(above) = k - 1
    BY <1>1, <1>2
  <2> HIDE DEF p
  <2>2. IsFiniteSet(above)
    <3>1. above \in SUBSET P
      OBVIOUS
    <3> QED BY <3>1, FS_Subset
  <2>3. ASSUME NEW x \in P, NEW y \in P, f[x] = f[y] PROVE x = y
    BY <1>a, <2>3
  <2>4. \A x, y \in above : g[x] = g[y] => x = y
    BY <2>3
  <2>5. Cardinality({g[q] : q \in above}) = Cardinality(above)
    <3>1. DOMAIN g = above /\ g = [x \in above |-> g[x]]
      OBVIOUS
    <3> HIDE DEF g, above
    <3> QED BY <2>2, <2>4, <3>1, ImageSize
  <2>6. \A q \in P : (q > p <=> f[q].pos > f[p].pos)
    BY <1>a, <2>1
  <2>7. {e \in all : e.pos > f[p].pos} = {g[q] : q \in above}
    <3>1. ASSUME NEW e \in all, e.pos > f[p].pos PROVE e \in {g[q] : q \in above}
      <4>1. PICK q \in P : f[q] = e
        BY <1>a
      <4>2. q \in above
        BY <2>6, <3>1, <4>1
      <4> QED BY <4>1, <4>2
    <3>2. ASSUME NEW q \in above PROVE g[q] \in all /\ g[q].pos > f[p].pos
      BY <1>a, <2>6
    <3> QED BY <3>1, <3>2
  <2> QED BY <1>a, <2>1, <2>5, <2>7
<1>6. Len(h) <= limit
  BY <1>1, <1>3
<1>7. \A k \in DOMAIN h : h[k] \in all /\ Cardinality({e \in all : e.pos > h[k].pos}) = k - 1
  BY <1>3, <1>5
<1> QED BY <1>4, <1>6, <1>7 DEF HistoryOf, h

LEMMA HistoryFollows ==
  ASSUME TypeOK, LogInv, setup.backend # "sqlite", NEW ch \in Channel, NEW limit \in Nat
  PROVE  HistoryOf(ch, limit)
<1>t. events \in Seq(Ref) /\ \A k \in DOMAIN events : events[k] \in Ref
  BY DEF TypeOK
<1> DEFINE P == {k \in DOMAIN events : events[k].ch = ch}
           f == [p \in P |-> events[p]]
<1>1. Logged = {events[k] : k \in DOMAIN events}
  BY DEF LogInv, Logged
<1>2. P \in SUBSET Nat /\ IsFiniteSet(P)
  <2>1. P \in SUBSET DOMAIN events
    OBVIOUS
  <2> HIDE DEF P
  <2> QED BY <2>1, KeptPositions
<1>3. \A p \in P : f[p] \in Ref
  BY <1>t
<1>4. f = [p \in P |-> f[p]] /\ {f[p] : p \in P} = {e \in Logged : e.ch = ch}
  BY <1>1
<1>5. \A p, q \in P : p < q => f[p].pos < f[q].pos
  BY DEF LogInv
<1>6. QueryVec(ch, limit) = [k \in DOMAIN Newest(P, limit) |-> f[Newest(P, limit)[k]]]
  <2>1. \A k \in DOMAIN Newest(P, limit) : Newest(P, limit)[k] \in P
    BY <1>2, NewestListed
  <2>2. QueryVec(ch, limit) = [k \in DOMAIN Newest(P, limit) |-> events[Newest(P, limit)[k]]]
    BY DEF QueryVec
  <2> QED BY <2>1, <2>2
<1> HIDE DEF P, f
<1> QED BY <1>2, <1>3, <1>4, <1>5, <1>6, HistoryListed

(* With the memory backend the event history of a channel is, for any      *)
(* limit, its events sent last among those in the log, latest first and    *)
(* none twice: the task awaits store_event before it takes the next event  *)
(* (the task main spawns), and pruning keeps the order of the Vec.         *)
THEOREM HistoryIsNewestFirst ==
  Spec => [](setup.backend = "memory" => \A limit \in Nat : NewestFirst(limit))
<1>1. TypeOK /\ LogInv => (setup.backend = "memory" => \A limit \in Nat : NewestFirst(limit))
  BY HistoryFollows DEF NewestFirst, HistoryOf
<1> QED BY <1>1, EventTypes, LogInit, LogStep, PTL DEF Spec

(* The same with the limits the run asks for.                              *)
THEOREM HistoryStaysNewest == Spec => []HistoryIsNewest
<1>1. (setup.backend = "memory" => \A limit \in Nat : NewestFirst(limit)) => HistoryIsNewest
  BY DEF HistoryIsNewest
<1> QED BY <1>1, HistoryIsNewestFirst, PTL
=============================================================================
