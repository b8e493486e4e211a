------------------------------ MODULE EventLog ------------------------------
(***************************************************************************)
(* Events: the three broadcast channels of the EventBus, the task that     *)
(* persists what they carry, the event log it writes with its pruning, and *)
(* the streams that clients watch.                                         *)
(*                                                                         *)
(* What was sent on a channel is kept as a sequence, and a receiver is its *)
(* position in it.  The channel itself retains the newest Buffer events    *)
(* only: a receiver further behind is told that it lags, once, and goes on *)
(* at the oldest event retained.                                           *)
(***************************************************************************)
EXTENDS Naturals, Sequences, FiniteSets

CONSTANTS
  Setups,        \* the processes considered, see Setup
  All,           \* a stream without a filter
  Buffer,        \* events a channel retains (256 in the code)
  Stream,        \* streams a client may have open
  Cap,           \* MAX_MEMORY_EVENTS
  MaxFaults,     \* bound: faults in a behaviour
  Faults         \* what may happen, see Fault

Channel == {"fsm", "counter", "node"}

(* restart: the controller restarts; storage: store_event fails; days:     *)
(* event_max_age_days pass; late: a counter report that old comes in.      *)
Fault == {"restart", "storage", "days", "late"}

(* backend: of the storage; leader: is_leader, which nothing changes in a  *)
(* running process; counters: --persist-counter-events; origin: per        *)
(* channel, the instances or nodes its events are about.  Bounds: max, the *)
(* events sent on a channel; watched, the channels of the streams          *)
(* considered (the loops of all three are alike).                          *)
Setup(c) ==
  /\ c.backend \in {"memory", "sqlite"} /\ c.leader \in BOOLEAN /\ c.counters \in BOOLEAN
  /\ DOMAIN c.origin = Channel /\ \A ch \in Channel : All \notin c.origin[ch]
  /\ c.max \in [Channel -> Nat] /\ c.watched \subseteq Channel

ASSUME EventAssumption ==
  /\ \A c \in Setups : Setup(c)
  /\ Buffer \in Nat \ {0} /\ Cap \in Nat \ {0} /\ MaxFaults \in Nat
  /\ Stream \cap Channel = {}
  /\ Faults \subseteq Fault

VARIABLES
  sent,     \* per channel, the events sent so far, by what they are about
  aged,     \* those with a timestamp older than the maximum age
  setup,    \* how the process was started
  rows,     \* sqlite: the events table
  events,   \* memory: the Vec of events
  \* ---- the persistence task ----
  alive,    \* it has not left its loop
  next,     \* per channel, the position it reads next
  off,      \* branches of the current select! that are disabled
  storing,  \* the event handed to store_event that it awaits
  began,    \* history: per channel, where this process began to read
  \* ---- streams ----
  stream,   \* per open stream its channel, filter, first and next position
  got,      \* what it has yielded to the client
  behind,   \* history: receivers that were more than Buffer events behind
  failed,   \* history: channels with an event that store_event failed on
  faults    \* history: faults so far

busVars == <<sent, aged>>
taskVars == <<alive, next, off, storing, began>>
streamVars == <<stream, got>>
logVars == <<rows, events>>
vars == <<busVars, setup, logVars, taskVars, streamVars, behind, failed, faults>>

(* An event by its channel and position.                                   *)
Ref == [ch: Channel, pos: Nat \ {0}]
Closed == [open |-> FALSE]
IsOpen(st) ==
  /\ DOMAIN st = {"open", "ch", "filter", "from", "next"} /\ st.open
  /\ st.ch \in Channel /\ st.filter \in setup.origin[st.ch] \cup {All}
  /\ st.from \in Nat \ {0} /\ st.next \in Nat \ {0}
(* Receivers: the three of the persistence task and one per stream.        *)
Receiver == Channel \cup Stream

TypeOK ==
  /\ DOMAIN sent = Channel /\ \A ch \in Channel : sent[ch] \in Seq(setup.origin[ch])
  /\ aged \subseteq Ref
  /\ setup \in Setups
  /\ rows \subseteq Ref /\ events \in Seq(Ref) /\ Len(events) <= Cap
  /\ alive \in BOOLEAN
  /\ next \in [Channel -> Nat \ {0}] /\ began \in [Channel -> Nat \ {0}]
  /\ off \subseteq Channel
  /\ storing \subseteq Ref
  /\ DOMAIN stream = Stream /\ \A s \in Stream : stream[s] = Closed \/ IsOpen(stream[s])
  /\ got \in [Stream -> Seq(Nat \ {0})]
  /\ behind \subseteq Receiver /\ failed \subseteq Channel /\ faults \in Nat

Init ==
  /\ sent = [ch \in Channel |-> << >>]
  /\ aged = {}
  /\ setup \in Setups
  /\ rows = {} /\ events = << >>
  /\ alive = TRUE
  /\ next = [ch \in Channel |-> 1] /\ began = [ch \in Channel |-> 1]
  /\ off = {} /\ storing = {}
  /\ stream = [s \in Stream |-> Closed]
  /\ got = [s \in Stream |-> << >>]
  /\ behind = {} /\ failed = {} /\ faults = 0
-----------------------------------------------------------------------------
(***************************************************************************)
(* The bus.                                                                *)
(***************************************************************************)
(* Variant: a full channel gives up the two oldest events at once.         *)
OldestDropsTwo(ch) == IF Len(sent[ch]) > Buffer THEN Len(sent[ch]) - Buffer + 2 ELSE 1

(* The oldest event the channel retains.                                   *)
Oldest(ch) == IF Len(sent[ch]) > Buffer THEN Len(sent[ch]) - Buffer + 1 ELSE 1

Fails(fault) ==
  /\ fault \in Faults /\ faults < MaxFaults
  /\ faults' = faults + 1

(* emit_fsm, emit_counter, emit_node: send never waits for a receiver.  A  *)
(* counter event has the time at which its agent says it read the counters *)
(* (collected_at, in seconds), so that one just sent may be old.  The      *)
(* others have the time of the controller.                                 *)
Emit(ch, about) ==
  LET size == Len(sent[ch]) + 1
  IN
  /\ Len(sent[ch]) < setup.max[ch]
  /\ sent' = [sent EXCEPT ![ch] = Append(@, about)]
  /\ behind' = behind \cup {r \in {ch} : size + 1 > next[ch] + Buffer}
       \cup {s \in Stream : /\ stream[s].open /\ stream[s].ch = ch
                            /\ size + 1 > stream[s].next + Buffer}
  /\ \/ UNCHANGED <<aged, faults>>
     \/ ch = "counter" /\ Fails("late") /\ aged' = aged \cup {[ch |-> ch, pos |-> size]}
  /\ UNCHANGED <<setup, logVars, taskVars, streamVars, failed>>

(* What was sent so far, of which everything becomes older than the        *)
(* maximum age.                                                            *)
Sent == UNION {{[ch |-> ch, pos |-> pos] : pos \in 1 .. Len(sent[ch])} : ch \in Channel}

DaysPass ==
  /\ Fails("days")
  /\ ~(Sent \subseteq aged)
  /\ aged' = aged \cup Sent
  /\ UNCHANGED <<sent, setup, logVars, taskVars, streamVars, behind, failed>>

Old(e) == e \in aged
-----------------------------------------------------------------------------
(***************************************************************************)
(* The persistence task.  Its select! waits for the three receivers.       *)
(***************************************************************************)
Kept(ch) == setup.leader /\ (ch = "counter" => setup.counters)

(* Variants: a standby leaves events in the channel; an event is handed to *)
(* store_event while another is being stored.                              *)
ReceiveIfKept(ch) ==
  /\ alive /\ storing = {} /\ ch \notin off
  /\ Kept(ch) /\ next[ch] \in Oldest(ch) .. Len(sent[ch])
  /\ storing' = {[ch |-> ch, pos |-> next[ch]]}
  /\ next' = [next EXCEPT ![ch] = @ + 1]
  /\ off' = {}
  /\ UNCHANGED <<busVars, setup, logVars, alive, began, streamVars, behind, failed, faults>>
ReceiveUnawaited(ch) ==
  /\ alive /\ ch \notin off
  /\ next[ch] \in Oldest(ch) .. Len(sent[ch])
  /\ storing' = IF Kept(ch) THEN storing \cup {[ch |-> ch, pos |-> next[ch]]} ELSE storing
  /\ next' = [next EXCEPT ![ch] = @ + 1]
  /\ off' = {}
  /\ UNCHANGED <<busVars, setup, logVars, alive, began, streamVars, behind, failed, faults>>
ReceiveKeepsOff(ch) ==
  /\ alive /\ storing = {} /\ ch \notin off
  /\ next[ch] \in Oldest(ch) .. Len(sent[ch])
  /\ storing' = IF Kept(ch) THEN {[ch |-> ch, pos |-> next[ch]]} ELSE {}
  /\ next' = [next EXCEPT ![ch] = @ + 1]
  /\ UNCHANGED <<busVars, setup, logVars, alive, off, began, streamVars, behind, failed, faults>>

(* Ok(event): the event is stored or passed over, and the next select!     *)
(* starts with all its branches.                                           *)
Receive(ch) ==
  /\ alive /\ storing = {} /\ ch \notin off
  /\ next[ch] \in Oldest(ch) .. Len(sent[ch])
  /\ storing' = IF Kept(ch) THEN {[ch |-> ch, pos |-> next[ch]]} ELSE {}
  /\ next' = [next EXCEPT ![ch] = @ + 1]
  /\ off' = {}
  /\ UNCHANGED <<busVars, setup, logVars, alive, began, streamVars, behind, failed, faults>>

(* Variant: a receiver that lags ends the loop.                            *)
LagEnds(ch) ==
  /\ alive /\ storing = {} /\ ch \notin off
  /\ next[ch] < Oldest(ch)
  /\ alive' = FALSE
  /\ UNCHANGED <<busVars, setup, logVars, next, off, storing, began, streamVars, behind, failed, faults>>

(* Err(Lagged) does not match the pattern of its branch, which is disabled *)
(* for the rest of this select!; with all three disabled, else => break.   *)
Lag(ch) ==
  /\ alive /\ storing = {} /\ ch \notin off
  /\ next[ch] < Oldest(ch)
  /\ next' = [next EXCEPT ![ch] = Oldest(ch)]
  /\ off' = off \cup {ch}
  /\ alive' = (off \cup {ch} # Channel)
  /\ UNCHANGED <<busVars, setup, logVars, storing, began, streamVars, behind, failed, faults>>

(* store_event of the two backends.  The Vec is drained of all but the     *)
(* newest Cap events; the variant drains it only once it is longer.        *)
PushThenDrain(e) ==
  events' = Append(IF Len(events) > Cap THEN Tail(events) ELSE events, e)
PushEvent(e) ==
  LET grown == Append(events, e)
      drain == IF Len(grown) > Cap THEN Len(grown) - Cap ELSE 0
  IN events' = SubSeq(grown, drain + 1, Len(grown))
InsertEvent(e) == rows' = rows \cup {e}

Store(e) ==
  IF setup.backend = "sqlite" THEN InsertEvent(e) /\ UNCHANGED events
  ELSE PushEvent(e) /\ UNCHANGED rows

(* count_events counts it.                                                 *)
Logged == rows \cup {events[k] : k \in DOMAIN events}

(* The result of store_event is ignored.                                   *)
StoreEvent ==
  /\ \E e \in storing :
       /\ Store(e)
       /\ storing' = storing \ {e}
  /\ UNCHANGED <<busVars, setup, alive, next, off, began, streamVars, behind, failed, faults>>

StoreFails ==
  /\ Fails("storage")
  /\ \E e \in storing :
       /\ failed' = failed \cup {e.ch}
       /\ storing' = storing \ {e}
  /\ UNCHANGED <<busVars, setup, logVars, alive, next, off, began, streamVars, behind>>

(* The j-th of a set of numbers, and the newest of them, newest first.     *)
Nth(P, j) == CHOOSE p \in P : Cardinality({q \in P : q < p}) = j - 1
Newest(P, limit) ==
  [j \in 1 .. IF limit < Cardinality(P) THEN limit ELSE Cardinality(P) |->
     Nth(P, Cardinality(P) + 1 - j)]

(* prune_events of the two backends; the variant retains the old events.   *)
DeleteNew == rows' = {e \in rows : Old(e)}
DeleteOld == rows' = {e \in rows : ~Old(e)}
RetainNew ==
  LET kept == {k \in DOMAIN events : ~Old(events[k])}
  IN events' = [j \in 1 .. Cardinality(kept) |-> events[Nth(kept, j)]]

(* The reaper of a leader prunes.                                          *)
PruneEvents ==
  /\ setup.leader
  /\ \E e \in Logged : Old(e)
  /\ DeleteOld /\ RetainNew
  /\ UNCHANGED <<busVars, setup, taskVars, streamVars, behind, failed, faults>>

(* query_events of the memory backend for the events of one channel, at    *)
(* most limit of them: it goes through the Vec from its end.               *)
QueryVec(ch, limit) ==
  LET found == Newest({k \in DOMAIN events : events[k].ch = ch}, limit)
  IN [k \in DOMAIN found |-> events[found[k]]]

(* The controller restarts: what was in the channels is gone, and with it  *)
(* the log of the memory backend; clients have to subscribe anew.          *)
Restart ==
  /\ Fails("restart")
  /\ alive' = TRUE /\ off' = {} /\ storing' = {}
  /\ next' = [ch \in Channel |-> Len(sent[ch]) + 1]
  /\ began' = next'
  /\ events' = << >> /\ UNCHANGED rows
  /\ stream' = [s \in Stream |-> Closed]
  /\ got' = [s \in Stream |-> << >>]
  /\ behind' = {} /\ failed' = {}
  /\ UNCHANGED <<busVars, setup>>
-----------------------------------------------------------------------------
(***************************************************************************)
(* watch_fsm_events, watch_counters, watch_node_events, and the same over  *)
(* REST as server-sent events.  A client reads its stream at its own pace. *)
(***************************************************************************)
Subscribe(s, ch) ==
  LET here == Len(sent[ch]) + 1
  IN
  /\ ch \in setup.watched /\ ~stream[s].open
  /\ \E filter \in setup.origin[ch] \cup {All} :
       stream' = [stream EXCEPT ![s] = [open |-> TRUE, ch |-> ch, filter |-> filter,
                                        from |-> here, next |-> here]]
  /\ UNCHANGED <<busVars, setup, logVars, taskVars, got, behind, failed, faults>>

WatchFsmEvents(s) == Subscribe(s, "fsm")
WatchCounters(s) == Subscribe(s, "counter")
WatchNodeEvents(s) == Subscribe(s, "node")
SseFsmEvents(s) == Subscribe(s, "fsm")
SseCounterEvents(s) == Subscribe(s, "counter")
SseNodeEvents(s) == Subscribe(s, "node")

Matches(st, pos) == st.filter \in {All, sent[st.ch][pos]}

Yield(s) ==
  LET st == stream[s]
  IN
  /\ st.open /\ st.next \in Oldest(st.ch) .. Len(sent[st.ch])
  /\ stream' = [stream EXCEPT ![s].next = @ + 1]
  /\ got' = [got EXCEPT ![s] = IF Matches(st, st.next) THEN Append(@, st.next) ELSE @]
  /\ UNCHANGED <<busVars, setup, logVars, taskVars, behind, failed, faults>>

(* Lagged: the loop goes on with what is left.                             *)
SkipLagged(s) ==
  /\ stream[s].open /\ stream[s].next < Oldest(stream[s].ch)
  /\ stream' = [stream EXCEPT ![s].next = Oldest(stream[s].ch)]
  /\ UNCHANGED <<busVars, setup, logVars, taskVars, got, behind, failed, faults>>

Unsubscribe(s) ==
  /\ stream[s].open
  /\ stream' = [stream EXCEPT ![s] = Closed]
  /\ got' = [got EXCEPT ![s] = << >>]
  /\ behind' = behind \ {s}
  /\ UNCHANGED <<busVars, setup, logVars, taskVars, failed, faults>>
-----------------------------------------------------------------------------
PersistStep == (\E ch \in Channel : Receive(ch) \/ Lag(ch)) \/ StoreEvent

Next ==
  \/ \E ch \in Channel : \E about \in setup.origin[ch] : Emit(ch, about)
  \/ DaysPass \/ PersistStep \/ StoreFails \/ PruneEvents \/ Restart
  \/ \E s \in Stream :
       \/ WatchFsmEvents(s) \/ WatchCounters(s) \/ WatchNodeEvents(s)
       \/ SseFsmEvents(s) \/ SseCounterEvents(s) \/ SseNodeEvents(s)
       \/ Yield(s) \/ SkipLagged(s) \/ Unsubscribe(s)

Spec == Init /\ [][Next]_vars

(* The runtime runs the persistence task while it has something to do, and *)
(* its select! starts at a random branch, so that none is passed over for  *)
(* ever.                                                                   *)
Fairness == WF_vars(StoreEvent) /\ \A ch \in Channel : SF_vars(Receive(ch) \/ Lag(ch))

FairSpec == Spec /\ Fairness
-----------------------------------------------------------------------------
(***************************************************************************)
(* Properties.                                                             *)
(***************************************************************************)
(* With the memory backend the event history of a channel is its events    *)
(* sent last among those in the log, latest first and none twice, whatever *)
(* lags, fails, is pruned or restarted in between: the Vec is in the order *)
(* in which the task called store_event, one event after the other         *)
(* (the task main spawns).                                                 *)
NewestFirst(limit) ==
  \A ch \in Channel :
    LET h == QueryVec(ch, limit)
        all == {e \in Logged : e.ch = ch}
    IN /\ Len(h) <= limit /\ (Len(h) < limit => all = {h[k] : k \in DOMAIN h})
       /\ \A k \in DOMAIN h : h[k] \in all /\ Cardinality({e \in all : e.pos > h[k].pos}) = k - 1

HistoryIsNewest == setup.backend = "memory" => \A limit \in 1 .. 2 : NewestFirst(limit)

(* The events the task has taken to keep since the process began.          *)
TakenFrom(ch) == IF Kept(ch) THEN next[ch] - began[ch] ELSE 0
Taken == TakenFrom("fsm") + TakenFrom("counter") + TakenFrom("node")

(* On a channel whose receiver was never more than Buffer events behind    *)
(* and that no store_event failed for, every event the task has taken      *)
(* since the process began is in the log: unless it is too old, or the     *)
(* memory backend was given more than it keeps.                            *)
LogIsComplete ==
  \A ch \in Channel \ (behind \cup failed) :
    Kept(ch) => \A pos \in began[ch] .. next[ch] - 1 :
      LET e == [ch |-> ch, pos |-> pos]
      IN \/ Old(e) \/ e \in storing \cup Logged
         \/ setup.backend = "memory" /\ Taken > Cap

(* The persistence task runs as long as one of its three receivers has     *)
(* never been more than Buffer events behind: it takes all three lagging   *)
(* to reach else => break.                                                 *)
TaskSurvives == alive \/ Channel \subseteq behind

(* A stream that was never more than Buffer events behind has yielded      *)
(* exactly the events its filter admits among those sent since it was      *)
(* opened, in order.                                                       *)
StreamIsFaithful ==
  \A s \in Stream : stream[s].open /\ s \notin behind =>
    /\ {got[s][k] : k \in DOMAIN got[s]} =
         {pos \in stream[s].from .. stream[s].next - 1 : Matches(stream[s], pos)}
    /\ \A j, k \in DOMAIN got[s] : j < k => got[s][j] < got[s][k]

Waiting(ch) == next[ch] <= Len(sent[ch])

(* The task comes to every event in the end, on a standby too, as long as  *)
(* it runs and the branch of the channel is not disabled.                  *)
TaskCatchesUp == \A ch \in Channel : []<>(Waiting(ch) => ~alive \/ ch \in off)

(* A branch disabled by a lag comes back as soon as the task has taken an  *)
(* event of a channel that does not lag: what is behind it is not stuck    *)
(* for good as long as another channel is in use.                          *)
RecoversFromLag ==
  \A ch, other \in Channel :
    ch \in off /\ Waiting(other) ~> ch \notin off \/ other \in behind
=============================================================================
