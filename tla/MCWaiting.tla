------------------------------- MODULE MCWaiting -------------------------------
(* A timer that the application resets and cancels, in a group of its own,   *)
(* and a guard condition and the client of the call that is waited for in    *)
(* another: the callback of the timer may wait for the call, that of the     *)
(* guard condition can only wait in vain.                                    *)
EXTENDS Waiting

CONSTANTS t, g, c

MCRegistry == <<t, g, c>>
MCGroupOf == [e \in Entities |-> IF e = t THEN 1 ELSE 2]
MCPeriod == [tm \in Timers |-> 1]
MCTimeouts == {Unbounded, 1}
MCNestedTimeouts == {1}
===============================================================================
