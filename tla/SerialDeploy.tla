---------------------------- MODULE SerialDeploy ----------------------------
(***************************************************************************)
(* What the deploy guard promises: the version log of a node is extended   *)
(* by one handler at a time.  A node joins, handlers take turns owning it, *)
(* only the owner appends a version to its log, nothing ever rewrites the  *)
(* log, and when the node leaves its log goes with it.                     *)
(***************************************************************************)
EXTENDS Naturals, Sequences

CONSTANTS Node, Policy, Task, NoTask

VARIABLES
  member,  \* "new", "in" or "out"
  owner,   \* the handler that may extend the log, or NoTask
  log      \* the policies deployed to the node, oldest first

avars == <<member, owner, log>>

AInit ==
  /\ member = [n \in Node |-> "new"]
  /\ owner = [n \in Node |-> NoTask]
  /\ log = [n \in Node |-> << >>]

Join(n) ==
  /\ member[n] = "new"
  /\ member' = [member EXCEPT ![n] = "in"]
  /\ UNCHANGED <<owner, log>>

Acquire(t, n) ==
  /\ member[n] = "in" /\ owner[n] = NoTask
  /\ owner' = [owner EXCEPT ![n] = t]
  /\ UNCHANGED <<member, log>>

Commit(n, p) ==
  /\ member[n] = "in" /\ owner[n] # NoTask
  /\ log' = [log EXCEPT ![n] = Append(@, p)]
  /\ UNCHANGED <<member, owner>>

(* A handler ends, or is dropped; a restart ends them all.                 *)
Release(N) ==
  /\ N # {}
  /\ owner' = [n \in Node |-> IF n \in N THEN NoTask ELSE owner[n]]
  /\ UNCHANGED <<member, log>>

Leave(n) ==
  /\ member[n] = "in"
  /\ member' = [member EXCEPT ![n] = "out"]
  /\ owner' = [owner EXCEPT ![n] = NoTask]
  /\ log' = [log EXCEPT ![n] = << >>]

ANext ==
  \/ \E n \in Node : \/ Join(n) \/ Leave(n)
                     \/ \E t \in Task : Acquire(t, n)
                     \/ \E p \in Policy : Commit(n, p)
  \/ \E N \in SUBSET Node : Release(N)

ASpec == AInit /\ [][ANext]_avars
=============================================================================
