---------------------------- MODULE MCPmTickless ----------------------------
(* An instance of PmTickless in which the tick wraps after a few steps.    *)
EXTENDS PmTickless

\* A one-shot and a periodic timer.
MCPeriod == [t \in Timers |-> IF t \in Periodic THEN 4 ELSE 5]
=============================================================================
