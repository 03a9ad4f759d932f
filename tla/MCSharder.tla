----------------------------- MODULE MCSharder ------------------------------
(***************************************************************************)
(* Sharder for TLC: calls that do nothing, that do all the work inline,    *)
(* that leave a short last shard or fewer shards than they asked for, and  *)
(* whose product of total and cost overflows to a negative and, through    *)
(* the conversion to int, to a number of shards above max_parallelism.     *)
(***************************************************************************)
EXTENDS Sharder

Call(total, cost, max, perThread) ==
  [total |-> total, cost |-> cost, max |-> max, perThread |-> perThread]

MCArguments ==
  { Call(0, 1, 2, 9), Call(3, 1, 9, 1), Call(2, 1, 9, 9), Call(3, 0, 2, 9),
    Call(5, 2, 2, 9), Call(5, 5, 2, 9), Call(2, 11, 2, 9), Call(3, 7, 2, 9) }
=============================================================================
