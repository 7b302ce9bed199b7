---------------------------- MODULE DefiniteTime ----------------------------
(***************************************************************************)
(* A definite-time delay, and what it amounts to when every call adds the  *)
(* same dt: OperateCalls calls.  CallsIn counts the additions in a timer   *)
(* value, up to OperateCalls.                                              *)
(***************************************************************************)
EXTENDS ProtCommon

CONSTANTS
  OperateDelay,   \* operate_delay_seconds; not positive for no delay
  OperateCalls,   \* the additions of dt that first reach it
  CallsIn         \* CallsIn[t]: the additions that lead from 0 to t

ASSUME DelayAssumption ==
  /\ OperateDelay \in Int
  /\ OperateCalls \in Nat
  /\ CallsIn \in [Time -> 0 .. OperateCalls]
  /\ CallsIn[0] = 0
  /\ \A t \in Time :
       /\ CallsIn[AddDt[t]] = IF CallsIn[t] = OperateCalls THEN OperateCalls
                              ELSE CallsIn[t] + 1
       /\ t >= OperateDelay <=> CallsIn[t] = OperateCalls
=============================================================================
