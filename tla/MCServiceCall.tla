---------------------------- MODULE MCServiceCall -----------------------------
(* Two calls of one client: by the thread that spins and by another one.    *)
EXTENDS ServiceCall

CONSTANTS k1, k2, c1, main, other, s1, s2

MCClientOf == [k \in Calls |-> c1]
MCCallerOf == [k \in Calls |-> IF k = k1 THEN main ELSE other]
MCMaxCallbacks == [k \in Calls |-> IF k = k1 THEN 1 ELSE 2]
===============================================================================
