-------------------------- MODULE MCContextShutdown ---------------------------
(* Two application threads, and guard conditions of one context.            *)
EXTENDS ContextShutdown

CONSTANTS t1, t2, c1, c2, c3, g1, g2

MCParentOf == [g \in Guards |-> c1]
===============================================================================
