------------------------- MODULE LeaderLease_proofs -------------------------
(***************************************************************************)
(* Proofs about LeaderLease: at most one unexpired lease, for any number   *)
(* of controllers, any lease duration and any wait for the database that   *)
(* is shorter than the renewal interval, provided the controllers are      *)
(* started with different identifiers.                                     *)
(***************************************************************************)
EXTENDS LeaderLease, TLAPS

(* The durations are what the arithmetic of the lease needs.               *)
LEMMA Durations ==
  /\ Duration \in Nat /\ MaxDelay \in Nat /\ Interval \in Nat
  /\ MaxDelay < Interval /\ Interval <= Duration
  /\ Floor \in Int /\ Floor < 0 /\ Floor = -(MaxDelay + 1)
BY LeaseAssumption DEF Interval, Floor

(* Time left stays within its range as time passes.                        *)
LEMMA LaterInTimes == ASSUME NEW x \in Times PROVE Later(x) \in Times /\ Later(x) <= x
BY Durations DEF Later, Times

(* The whole lease runs from the moment the clock was read.                *)
LEMMA GrantInTimes == ASSUME NEW a \in 0 .. MaxDelay PROVE Duration - a \in Times
BY Durations DEF Times

(* No lease, no flags: the invariant holds when the file is new.           *)
LEMMA InitLease == Init => LeaseInv
<1> SUFFICES ASSUME Init PROVE LeaseInv
  OBVIOUS
<1>1. Floor \in Times /\ 0 \in 0 .. MaxDelay /\ 0 \in 0 .. Interval
  BY Durations DEF Times
<1>2. TypeOK
  BY <1>1 DEF Init, TypeOK, Steps
<1>3. RowIsNewestGrant
  BY Durations, LeaseAssumption DEF Init, RowIsNewestGrant
<1> QED BY <1>2, <1>3 DEF LeaseInv

(* No step takes the lease or a renewal loop out of its type.              *)
LEMMA LeaseTypeStep == TypeOK /\ [Next]_vars => TypeOK'
<1> SUFFICES ASSUME TypeOK, [Next]_vars PROVE TypeOK'
  OBVIOUS
<1>0. 0 \in 0 .. MaxDelay /\ 0 \in 0 .. Interval /\ Interval \in 0 .. Interval
  BY Durations
<1>1. ASSUME NEW c \in Controller, Start(c) PROVE TypeOK'
  BY <1>0, <1>1 DEF Start, TypeOK, leaseVars
<1>2. ASSUME NEW c \in Controller, Stop(c) PROVE TypeOK'
  BY <1>0, <1>2 DEF Stop, TypeOK, leaseVars, Steps
<1>3. ASSUME NEW c \in Controller, RenewTick(c) PROVE TypeOK'
  BY <1>0, <1>3 DEF RenewTick, TypeOK, leaseVars, Steps
<1>4. ASSUME NEW c \in Controller, TryAcquireLease(c) PROVE TypeOK'
  <2>1. Duration - age[c] \in Times
    BY GrantInTimes DEF TypeOK
  <2> QED BY <1>0, <1>4, <2>1, ZenonT(60) DEF TryAcquireLease, TypeOK, leaseVars, Steps
<1>5. ASSUME NEW c \in Controller, AcquireFails(c) PROVE TypeOK'
  BY <1>0, <1>5 DEF AcquireFails, TypeOK, leaseVars, Steps
<1>6. ASSUME NEW c \in Controller, SwapFlag(c) PROVE TypeOK'
  BY <1>6 DEF SwapFlag, TypeOK, leaseVars, Steps
<1>7. CASE Tick
  <2>1. left' \in Times
    BY <1>7, LaterInTimes DEF Tick, TypeOK
  <2>2. mine' \in [Controller -> Times]
    BY <1>7, LaterInTimes DEF Tick, TypeOK
  <2>3. age' \in [Controller -> 0 .. MaxDelay]
    BY <1>0, <1>7, Durations DEF Tick, TypeOK
  <2>4. since' \in [Controller -> 0 .. Interval]
    BY <1>0, <1>7, Durations DEF Tick, TypeOK
  <2> QED BY <1>7, <2>1, <2>2, <2>3, <2>4 DEF Tick, TypeOK
<1>8. CASE UNCHANGED vars
  BY <1>8 DEF vars, leaseVars, loopVars, TypeOK
<1> QED BY <1>1, <1>2, <1>3, <1>4, <1>5, <1>6, <1>7, <1>8 DEF Next, LoopStep

(* The row names the newest grant, and every other grant is over: it is    *)
(* replaced by its own controller, or by one that saw it expired.          *)
LEMMA RowStep == DistinctIds /\ LeaseInv /\ [Next]_vars => RowIsNewestGrant'
<1> SUFFICES ASSUME DistinctIds, LeaseInv, [Next]_vars PROVE RowIsNewestGrant'
  OBVIOUS
<1>0. TypeOK /\ RowIsNewestGrant
  BY DEF LeaseInv
<1>1. ASSUME UNCHANGED <<leaseVars, mine>> PROVE RowIsNewestGrant'
  BY <1>0, <1>1 DEF RowIsNewestGrant, leaseVars
<1>2. ASSUME NEW c \in Controller, TryAcquireLease(c) PROVE RowIsNewestGrant'
  <2>1. CASE ~Grants(c)
    BY <1>1, <1>2, <2>1 DEF TryAcquireLease
  <2>2. CASE Grants(c)
    <3>1. /\ holder' = Id[c] /\ left' = Duration - age[c]
          /\ mine' = [mine EXCEPT ![c] = Duration - age[c]]
      BY <1>2, <2>2 DEF TryAcquireLease
    <3>2. ASSUME NEW d \in Controller, d # c PROVE mine'[d] < 0 /\ Id[d] # Id[c]
      <4>1. mine'[d] = mine[d] /\ Id[d] # Id[c]
        BY <3>1, <3>2 DEF DistinctIds
      <4>2. CASE holder = Id[d]
        <5>1. Expired(c) /\ mine[d] = left
          BY <1>0, <2>2, <4>1, <4>2, <3>2, LeaseAssumption DEF Grants, RowIsNewestGrant
        <5>2. left \in Int /\ age[c] \in Nat
          BY <1>0, Durations DEF TypeOK, Times
        <5> QED BY <4>1, <5>1, <5>2 DEF Expired
      <4>3. CASE holder # Id[d]
        BY <1>0, <4>1, <4>3, <3>2 DEF RowIsNewestGrant
      <4> QED BY <4>1, <4>2, <4>3
    <3>3. mine'[c] = left'
      BY <1>0, <3>1 DEF TypeOK
    <3> QED BY <3>1, <3>2, <3>3 DEF RowIsNewestGrant
  <2> QED BY <2>1, <2>2
<1>3. CASE Tick
  <2>1. ASSUME NEW c \in Controller PROVE mine'[c] = Later(mine[c]) /\ Later(mine[c]) <= mine[c]
    BY <1>0, <1>3, LaterInTimes DEF Tick, TypeOK
  <2>2. ASSUME NEW c \in Controller, holder = Id[c] PROVE mine'[c] = left'
    BY <1>0, <1>3, <2>1, <2>2 DEF Tick, RowIsNewestGrant
  <2>3. ASSUME NEW c \in Controller, holder # Id[c] PROVE mine'[c] < 0
    <3>1. mine[c] < 0 /\ mine[c] \in Int /\ Later(mine[c]) \in Int
      BY <1>0, <2>3, Durations, LaterInTimes DEF RowIsNewestGrant, TypeOK, Times
    <3> QED BY <2>1, <3>1
  <2> QED BY <1>3, <2>2, <2>3 DEF Tick, RowIsNewestGrant
<1>4. ASSUME NEW c \in Controller,
             Start(c) \/ Stop(c) \/ RenewTick(c) \/ AcquireFails(c) \/ SwapFlag(c)
      PROVE  RowIsNewestGrant'
  BY <1>1, <1>4 DEF Start, Stop, RenewTick, AcquireFails, SwapFlag
<1>5. CASE UNCHANGED vars
  BY <1>1, <1>5 DEF vars
<1> QED BY <1>2, <1>3, <1>4, <1>5 DEF Next, LoopStep

(* The lease row and the renewal loops keep their types, and the row of    *)
(* leader_lease is always the newest grant.                                *)
THEOREM LeaseInvariant == ASSUME DistinctIds PROVE Spec => []LeaseInv
<1>1. LeaseInv /\ [Next]_vars => LeaseInv'
  BY LeaseTypeStep, RowStep DEF LeaseInv
<1> QED BY <1>1, InitLease, PTL DEF Spec

(* Two controllers never hold unexpired leases at the same time, whatever  *)
(* the delays between reading the clock and writing the row, the storage   *)
(* errors, and the stops and restarts (try_acquire_lease).                 *)
THEOREM LeaseIsExclusive == ASSUME DistinctIds PROVE Spec => []LeaseExclusion
<1>1. LeaseInv => LeaseExclusion
  <2> SUFFICES ASSUME LeaseInv, NEW c \in Controller, NEW d \in Controller,
                      mine[c] >= 0, mine[d] >= 0
               PROVE  c = d
    BY DEF LeaseExclusion
  <2>1. mine[c] \in Int /\ mine[d] \in Int
    BY Durations DEF LeaseInv, TypeOK, Times
  <2>2. holder = Id[c] /\ holder = Id[d]
    BY <2>1 DEF LeaseInv, RowIsNewestGrant
  <2> QED BY <2>2 DEF DistinctIds
<1> QED BY <1>1, LeaseInvariant, PTL
-----------------------------------------------------------------------------
(***************************************************************************)
(* Renewing at half the lease duration is often enough.                    *)
(***************************************************************************)
(* Two renewal intervals fit into a lease.                                 *)
LEMMA HalfDuration == Interval <= Duration - Interval
BY LeaseAssumption DEF Interval

(* A renewal loop acts for a controller that is up, only the answer to an  *)
(* attempt says that it acquired the lease, and an attempt under way began *)
(* when the interval ticked.                                               *)
LoopSound ==
  \A c \in Controller :
    /\ step[c] # "wait" => up[c]
    /\ acquired[c] => step[c] = "answer"
    /\ age[c] = IF step[c] = "begin" THEN since[c] ELSE 0

Leads(c) == up[c] /\ (flag[c] \/ acquired[c])

(* What the lease of a leader still runs: all but the time since the tick  *)
(* at which it was renewed, which is a whole interval further back while   *)
(* the next renewal is under way.                                          *)
LeaseLeft(c) == IF step[c] = "begin" THEN Duration - Interval - age[c] ELSE Duration - since[c]

(* The row names the controller that leads, for as long as its last        *)
(* renewal gave it, and an attempt of a leader is never refused.           *)
LeaderHolds ==
  \A c \in Controller : Leads(c) =>
    /\ holder = Id[c]
    /\ left = LeaseLeft(c)
    /\ step[c] = "answer" => acquired[c]

StableInv == LoopSound /\ (timely => LeaderHolds)

(* A renewal loop does one thing at a time.                                *)
LEMMA LoopStepsSound == TypeOK /\ LoopSound /\ [Next]_vars => LoopSound'
<1> SUFFICES ASSUME TypeOK, LoopSound, [Next]_vars PROVE LoopSound'
  OBVIOUS
<1> USE DEF TypeOK, LoopSound
<1>1. ASSUME NEW c \in Controller, Start(c) \/ Stop(c) \/ RenewTick(c) PROVE LoopSound'
  <2>1. CASE Start(c)
    BY <2>1 DEF Start
  <2>2. CASE Stop(c)
    BY <2>2 DEF Stop
  <2>3. CASE RenewTick(c)
    BY <2>3 DEF RenewTick
  <2> QED BY <1>1, <2>1, <2>2, <2>3
<1>2. ASSUME NEW c \in Controller, LoopStep(c) PROVE LoopSound'
  BY <1>2 DEF LoopStep, TryAcquireLease, AcquireFails, SwapFlag
<1>3. CASE Tick
  <2>1. ASSUME NEW c \in Controller, step[c] = "begin" PROVE age'[c] = since'[c]
    <3>1. up[c] /\ since[c] = age[c] /\ age[c] < MaxDelay
      BY <1>3, <2>1 DEF Tick
    <3> QED BY <1>3, <2>1, <3>1, Durations DEF Tick
  <2> QED BY <1>3, <2>1 DEF Tick
<1>4. CASE UNCHANGED vars
  BY <1>4 DEF vars, leaseVars, loopVars
<1> QED BY <1>1, <1>2, <1>3, <1>4 DEF Next

(* While renewals are on time, the lease of a leader has not run out.      *)
LEMMA LeaderNotExpired ==
  ASSUME TypeOK, LoopSound, LeaderHolds, NEW c \in Controller, Leads(c)
  PROVE  left \in Nat /\ LeaseLeft(c) \in Nat
<1>1. age[c] \in 0 .. MaxDelay /\ since[c] \in 0 .. Interval
  BY DEF TypeOK
<1>2. Duration - Interval - age[c] \in Nat /\ Duration - since[c] \in Nat
  BY <1>1, Durations, HalfDuration
<1> QED BY <1>2 DEF LeaderHolds, LeaseLeft

(* Nobody else is granted the lease while a leader renews on time.         *)
LEMMA LeaderHoldsStep ==
  ASSUME DistinctIds, TypeOK, LoopSound, LeaderHolds, timely', [Next]_vars
  PROVE  LeaderHolds'
<1> USE DEF TypeOK
<1>1. ASSUME NEW c \in Controller, Start(c) \/ Stop(c) PROVE LeaderHolds'
  <2>1. ASSUME NEW d \in Controller, Leads(d)' PROVE d # c /\ Leads(d)
    BY <1>1, <2>1 DEF Start, Stop, Leads, LoopSound
  <2> QED BY <1>1, <2>1 DEF Start, Stop, LeaderHolds, LeaseLeft, leaseVars
<1>2. ASSUME NEW c \in Controller, RenewTick(c) PROVE LeaderHolds'
  <2>1. since[c] = Interval /\ timely
    BY <1>2 DEF RenewTick
  <2>2. ASSUME NEW d \in Controller, Leads(d)'
        PROVE  Leads(d) /\ LeaseLeft(d)' = LeaseLeft(d) /\ (step'[d] = "answer" => step[d] = "answer")
    BY <1>2, <2>1, <2>2, Durations DEF RenewTick, Leads, LeaseLeft, LoopSound
  <2> QED BY <1>2, <2>2 DEF RenewTick, LeaderHolds, leaseVars
<1>3. ASSUME NEW c \in Controller, TryAcquireLease(c) PROVE LeaderHolds'
  <2>0. /\ up[c] /\ ~acquired[c] /\ since[c] = age[c]
        /\ step' = [step EXCEPT ![c] = "answer"]
    BY <1>3 DEF TryAcquireLease, LoopSound
  <2>1. ASSUME NEW d \in Controller, Leads(d), d # c PROVE ~Grants(c)
    <3>1. holder = Id[d] /\ left \in Nat /\ age[c] \in Nat
      BY <2>1, LeaderNotExpired, Durations DEF LeaderHolds
    <3>2. Id[d] # Id[c] /\ Id[d] # NoId
      BY <2>1, LeaseAssumption DEF DistinctIds
    <3> QED BY <3>1, <3>2 DEF Grants, Expired
  <2>2. CASE Grants(c)
    <3>1. /\ holder' = Id[c] /\ left' = Duration - age[c]
          /\ acquired' = [acquired EXCEPT ![c] = TRUE]
      BY <1>3, <2>2 DEF TryAcquireLease
    <3>2. ASSUME NEW d \in Controller, Leads(d)' PROVE d = c
      BY <1>3, <2>1, <2>2, <3>1, <3>2 DEF TryAcquireLease, Leads
    <3>3. LeaseLeft(c)' = Duration - since[c]
      BY <1>3, <2>0 DEF TryAcquireLease, LeaseLeft
    <3> QED BY <2>0, <3>1, <3>2, <3>3 DEF LeaderHolds
  <2>3. CASE ~Grants(c)
    <3>1. ~Leads(c)
      BY <2>3 DEF LeaderHolds, Grants
    <3>2. ASSUME NEW d \in Controller, Leads(d)' PROVE d # c /\ Leads(d)
      BY <1>3, <2>3, <3>1, <3>2 DEF TryAcquireLease, Leads
    <3> QED BY <1>3, <2>3, <3>2 DEF TryAcquireLease, LeaderHolds, LeaseLeft, leaseVars
  <2> QED BY <2>2, <2>3
<1>4. ASSUME NEW c \in Controller, SwapFlag(c) PROVE LeaderHolds'
  <2>1. ASSUME NEW d \in Controller, Leads(d)'
        PROVE  Leads(d) /\ LeaseLeft(d)' = LeaseLeft(d) /\ (step'[d] = "answer" => d # c)
    BY <1>4, <2>1 DEF SwapFlag, Leads, LeaseLeft
  <2> QED BY <1>4, <2>1 DEF SwapFlag, LeaderHolds, leaseVars
<1>5. CASE Tick
  <2>1. timely /\ Overdue = {}
    BY <1>5 DEF Tick
  <2>2. ASSUME NEW c \in Controller, Leads(c)' PROVE Leads(c) /\ left' = LeaseLeft(c)'
    <3>1. Leads(c) /\ up[c] /\ since[c] # Interval
      BY <1>5, <2>1, <2>2 DEF Tick, Leads, Overdue
    <3>2. left = LeaseLeft(c) /\ left \in Nat /\ left' = left - 1
      BY <1>5, <3>1, LeaderNotExpired, Durations DEF LeaderHolds, Tick, Later
    <3>3. since[c] \in 0 .. Interval /\ age[c] \in 0 .. MaxDelay
      OBVIOUS
    <3>4. /\ since'[c] = since[c] + 1
          /\ age'[c] = IF step[c] = "begin" THEN age[c] + 1 ELSE 0
      BY <1>5, <3>1, <3>3, Durations DEF Tick
    <3> QED BY <1>5, <3>1, <3>2, <3>3, <3>4, Durations DEF Tick, LeaseLeft
  <2> QED BY <1>5, <2>2 DEF Tick, LeaderHolds
<1>6. ASSUME NEW c \in Controller PROVE ~AcquireFails(c)
  BY DEF AcquireFails
<1>7. CASE UNCHANGED vars
  BY <1>7 DEF vars, leaseVars, loopVars, LeaderHolds, Leads, LeaseLeft
<1> QED BY <1>1, <1>2, <1>3, <1>4, <1>5, <1>6, <1>7 DEF Next, LoopStep

(* Once late, renewals count as late.                                      *)
LEMMA LateForGood == [Next]_vars /\ timely' => timely
BY DEF Next, LoopStep, Start, Stop, RenewTick, TryAcquireLease, AcquireFails, SwapFlag, Tick, vars

(* Until the runtime is late or the storage fails, no controller that      *)
(* leads is deposed while it is up: whatever other controllers attempt,    *)
(* start and stop, renewing at half the lease duration keeps the lease     *)
(* (run: renew_interval; try_acquire_lease).                               *)
THEOREM LeaderStaysLeader == ASSUME DistinctIds PROVE Spec => []LeaderIsStable
<1>1. Init => StableInv
  BY DEF Init, StableInv, LoopSound, LeaderHolds, Leads
<1>2. LeaseInv /\ StableInv /\ [Next]_vars => StableInv'
  BY LoopStepsSound, LeaderHoldsStep, LateForGood DEF LeaseInv, StableInv
<1>3. StableInv => LeaderIsStable
  BY DEF StableInv, LeaderHolds, Leads, LeaderIsStable
<1> QED BY <1>1, <1>2, <1>3, LeaseInvariant, PTL DEF Spec

=============================================================================
