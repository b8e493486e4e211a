-------------------------- MODULE MCCounterCondition ------------------------
EXTENDS CounterCondition, TLC

CONSTANT drops   \* the one counter

Surge(d, agg) == [counter |-> drops,
                  total_above |-> None, rate_above |-> 0, rate_below |-> None,
                  aggregate |-> agg, for_duration |-> d]
Level(d)      == [counter |-> drops,
                  total_above |-> 0, rate_above |-> None, rate_below |-> None,
                  aggregate |-> "any", for_duration |-> d]
Calm(d)       == [counter |-> drops,
                  total_above |-> 0, rate_above |-> None, rate_below |-> 1,
                  aggregate |-> "sum", for_duration |-> d]

Single(op, c) == [op |-> op, parts |-> <<c>>]

(* A rate of every node, a total of any node and a low rate with a total,  *)
(* both summed, each sustained for two ticks; the first of them negated;   *)
(* and a total sustained for two and a summed rate that need not last.     *)
MCForms ==
  {Single("and", Surge(2, "all")), Single("or", Level(2)), Single("and", Calm(2)),
   Single("not", Surge(2, "all")),
   [op |-> "and", parts |-> <<Level(2), Surge(0, "sum")>>]}

(* Every node is a target, and no condition names one.                     *)
Symmetry == Permutations(Node)
=============================================================================
