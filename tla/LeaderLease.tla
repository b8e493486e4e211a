---------------------------- MODULE LeaderLease ----------------------------
(***************************************************************************)
(* Leader election of controllers that share one SQLite file: the          *)
(* leader_lease row, the renewal loop of each controller with its          *)
(* is_leader flag, and the flag in the configuration that gates the FSM    *)
(* engine, the stale-node reaper, event persistence and the REST writes.   *)
(*                                                                         *)
(* Times are relative to the present: left is the time the lease still     *)
(* runs, negative once it has expired, and age[c] the time since           *)
(* controller c read the clock for the attempt it is making.  Controllers  *)
(* read one clock (they share a host or a file system).                    *)
(***************************************************************************)
EXTENDS Integers

CONSTANTS
  Controller,   \* controller processes
  Id, NoId,     \* the cluster id each is started with, which names it in the row
  Duration,     \* the lease duration
  MaxDelay,     \* how long an attempt can wait for the database (busy timeout)
  Faults        \* what may go wrong, see Fault

(* stop: controllers stop and start again; storage: storage calls fail;    *)
(* late: the runtime wakes the renewal loop any time after its interval.   *)
Fault == {"stop", "storage", "late"}

ASSUME LeaseAssumption ==
  /\ NoId \notin {Id[c] : c \in Controller}
  /\ Duration \in Nat /\ MaxDelay \in Nat
  /\ MaxDelay < Duration \div 2
  /\ Faults \subseteq Fault

VARIABLES
  holder,    \* controller_id of the lease row, NoId if there is no row
  left,      \* time until lease_expires_at
  up,        \* the controller runs
  step,      \* where its renewal loop is
  since,     \* time since its interval last ticked, up to the interval
  age,       \* how long ago it read the clock (now) for this attempt
  acquired,  \* what try_acquire_lease answered it
  flag,      \* is_leader of its LeaderElection
  config,    \* is_leader of its ControllerConfig
  mine,      \* history: time left of the last lease granted to it
  timely     \* history: every renewal so far was made on time

leaseVars == <<holder, left>>
loopVars  == <<up, step, since, age, acquired>>
vars == <<leaseVars, loopVars, flag, config, mine, timely>>

-----------------------------------------------------------------------------
(* Beyond this much past expiry, no attempt can tell the difference.       *)
Floor == -(MaxDelay + 1)
Times == Floor .. Duration
Steps == {"wait", "begin", "answer"}

(* Variant: the lease is renewed when it runs out.                         *)
FullDuration == Duration
(* renew_interval *)
Interval == Duration \div 2

TypeOK ==
  /\ holder \in {Id[c] : c \in Controller} \cup {NoId}
  /\ left \in Times
  /\ up \in [Controller -> BOOLEAN]
  /\ step \in [Controller -> Steps]
  /\ since \in [Controller -> 0 .. Interval]
  /\ age \in [Controller -> 0 .. MaxDelay]
  /\ acquired \in [Controller -> BOOLEAN]
  /\ flag \in [Controller -> BOOLEAN]
  /\ config \in [Controller -> BOOLEAN]
  /\ mine \in [Controller -> Times]
  /\ timely \in BOOLEAN

Init ==
  /\ holder = NoId
  /\ left = Floor
  /\ up = [c \in Controller |-> FALSE]
  /\ step = [c \in Controller |-> "wait"]
  /\ since = [c \in Controller |-> 0]
  /\ age = [c \in Controller |-> 0]
  /\ acquired = [c \in Controller |-> FALSE]
  /\ flag = [c \in Controller |-> FALSE]
  /\ config = [c \in Controller |-> FALSE]
  /\ mine = [c \in Controller |-> Floor]
  /\ timely = TRUE

(* main: the election starts with both flags down, and the first tick of   *)
(* an interval is immediate.                                               *)
Start(c) ==
  /\ ~up[c]
  /\ up' = [up EXCEPT ![c] = TRUE]
  /\ flag' = [flag EXCEPT ![c] = FALSE]
  /\ config' = [config EXCEPT ![c] = FALSE]
  /\ since' = [since EXCEPT ![c] = Interval]
  /\ UNCHANGED <<leaseVars, step, age, acquired, mine, timely>>

Stop(c) ==
  /\ "stop" \in Faults
  /\ up[c]
  /\ up' = [up EXCEPT ![c] = FALSE]
  /\ step' = [step EXCEPT ![c] = "wait"]
  /\ age' = [age EXCEPT ![c] = 0]
  /\ since' = [since EXCEPT ![c] = 0]
  /\ acquired' = [acquired EXCEPT ![c] = FALSE]
  /\ UNCHANGED <<leaseVars, flag, config, mine, timely>>

(* The interval ticks, after a late tick perhaps at once;                  *)
(* try_acquire_lease reads the clock before it begins its transaction.     *)
RenewTick(c) ==
  /\ up[c] /\ step[c] = "wait"
  /\ since[c] = Interval \/ ~timely
  /\ step' = [step EXCEPT ![c] = "begin"]
  /\ since' = [since EXCEPT ![c] = 0]
  /\ UNCHANGED <<leaseVars, up, age, acquired, flag, config, mine, timely>>

(* Variant: a lease can be taken over at the moment it expires.            *)
ExpiredAtOnce(c) == left + age[c] <= 0

(* now > lease_expires, by the clock as c read it.                         *)
Expired(c) == left + age[c] < 0

(* Variants: the row of another is not respected; it is never taken over.  *)
GrantsAnyone(c) == holder \in {NoId} \cup {Id[d] : d \in Controller}
GrantsNoTakeover(c) == holder \in {NoId, Id[c]}

Grants(c) == holder \in {NoId, Id[c]} \/ Expired(c)

(* try_acquire_lease, one immediate transaction.                           *)
TryAcquireLease(c) ==
  /\ step[c] = "begin"
  /\ \/ /\ Grants(c)
        /\ holder' = Id[c]
        /\ left' = Duration - age[c]
        /\ mine' = [mine EXCEPT ![c] = Duration - age[c]]
        /\ acquired' = [acquired EXCEPT ![c] = TRUE]
     \/ /\ ~Grants(c)
        /\ acquired' = [acquired EXCEPT ![c] = FALSE]
        /\ UNCHANGED <<leaseVars, mine>>
  /\ step' = [step EXCEPT ![c] = "answer"]
  /\ age' = [age EXCEPT ![c] = 0]
  /\ UNCHANGED <<up, since, flag, config, timely>>

(* The database is busy for too long or fails: the flag stays as it is.    *)
AcquireFails(c) ==
  /\ "storage" \in Faults
  /\ step[c] = "begin"
  /\ step' = [step EXCEPT ![c] = "wait"]
  /\ age' = [age EXCEPT ![c] = 0]
  /\ timely' = FALSE
  /\ UNCHANGED <<leaseVars, up, since, acquired, flag, config, mine>>

(* Variant: a lost lease does not lower the flag.                          *)
SwapFlagRaises(c) ==
  /\ step[c] = "answer"
  /\ flag' = [flag EXCEPT ![c] = @ \/ acquired[c]]
  /\ step' = [step EXCEPT ![c] = "wait"]
  /\ acquired' = [acquired EXCEPT ![c] = FALSE]
  /\ UNCHANGED <<leaseVars, up, since, age, config, mine, timely>>

(* flag.swap(acquired).  Nothing copies the flag to the configuration.     *)
SwapFlag(c) ==
  /\ step[c] = "answer"
  /\ flag' = [flag EXCEPT ![c] = acquired[c]]
  /\ step' = [step EXCEPT ![c] = "wait"]
  /\ acquired' = [acquired EXCEPT ![c] = FALSE]
  /\ UNCHANGED <<leaseVars, up, since, age, config, mine, timely>>

(* Renewal loops whose interval has run out.                               *)
Overdue == {c \in Controller : up[c] /\ since[c] = Interval}

Later(x) == IF x > Floor THEN x - 1 ELSE x

(* Time passes.  The busy timeout of SQLite bounds the wait of an attempt, *)
(* and the loop wakes at its interval unless the runtime is late.          *)
Tick ==
  /\ \A c \in Controller : step[c] = "begin" => age[c] < MaxDelay
  /\ Overdue # {} => "late" \in Faults
  /\ left' = Later(left)
  /\ mine' = [c \in Controller |-> Later(mine[c])]
  /\ age' = [c \in Controller |-> IF step[c] = "begin" THEN age[c] + 1 ELSE 0]
  /\ since' = [c \in Controller |-> IF up[c] /\ since[c] < Interval THEN since[c] + 1
                                    ELSE since[c]]
  /\ timely' = (timely /\ Overdue = {})
  /\ UNCHANGED <<holder, up, step, acquired, flag, config>>

LoopStep(c) == TryAcquireLease(c) \/ AcquireFails(c) \/ SwapFlag(c)

Next ==
  \/ \E c \in Controller : Start(c) \/ Stop(c) \/ RenewTick(c) \/ LoopStep(c)
  \/ Tick

Spec == Init /\ [][Next]_vars

(* The clock runs, the runtime drives the renewal loop of every controller *)
(* that is up, and the database does not fail at every attempt.            *)
Fairness ==
  /\ WF_vars(Tick)
  /\ \A c \in Controller : /\ WF_vars(RenewTick(c)) /\ WF_vars(LoopStep(c))
                           /\ SF_vars(TryAcquireLease(c))

FairSpec == Spec /\ Fairness
-----------------------------------------------------------------------------
(* The identifiers the controllers are started with differ.                *)
DistinctIds == \A c, d \in Controller : Id[c] = Id[d] => c = d

(* At most one controller holds a lease that has not expired, counting     *)
(* from the grant it was given, however stale the clock it compared with   *)
(* (try_acquire_lease).                                                    *)
LeaseExclusion ==
  \A c, d \in Controller : mine[c] >= 0 /\ mine[d] >= 0 => c = d

(* A grant is overtaken only once it has expired: the row of the table     *)
(* runs exactly as long as the grant of the controller it names, and the   *)
(* grants of all others are over.                                          *)
RowIsNewestGrant ==
  \A c \in Controller : /\ holder = Id[c] => mine[c] = left
                        /\ holder # Id[c] => mine[c] < 0

LeaseInv == TypeOK /\ RowIsNewestGrant

(* Renewing at half the lease duration is often enough: until the runtime  *)
(* is late or the storage fails, a controller that leads is not deposed    *)
(* while it is up (run: renew_interval).                                   *)
LeaderIsStable ==
  timely => \A c \in Controller : up[c] /\ flag[c] => holder = Id[c]

(* A controller whose flag is up after the lease went to another lowers it *)
(* at its next renewal, or gets the lease back.                            *)
DeposedStepsDown ==
  \A c \in Controller :
    up[c] /\ flag[c] /\ holder # Id[c] ~> ~up[c] \/ ~flag[c] \/ holder = Id[c]

Settled ==
  /\ \A c \in Controller : <>[]up[c] \/ <>[]~up[c]
  /\ \E c \in Controller : <>[]up[c]
Leader(c) == up[c] /\ flag[c]

(* Once controllers stop coming and going, if one is up there is a leader  *)
(* again and again, even if renewals are late: the lease of one that       *)
(* stopped runs out and is taken over.                                     *)
SettledFindLeader == Settled => []<>(\E c \in Controller : Leader(c))

(* With renewals on time it is the same leader for good.                   *)
SettledKeepLeader ==
  Settled /\ []timely => \E c \in Controller : <>[](Leader(c) /\ holder = Id[c])

(* main: "Sync flags: when leader flag changes, update config".  No task   *)
(* copies the flag, so no controller of a cluster ever leaves standby.     *)
FlagsSynced ==
  \A c \in Controller : up[c] /\ flag[c] ~> config[c] \/ ~flag[c] \/ ~up[c]
=============================================================================
