----------------------------- MODULE MCHandleTree -----------------------------
(* A context with three children, a node, a guard condition and a timer; an  *)
(* entity of the node, and the clock of the timer; two threads.              *)
EXTENDS HandleTree

CONSTANTS ctx, node, gc, pub, tm, clk, t1, t2

MCParentOf ==
  [h \in Handles |-> CASE h \in {ctx, clk} -> Null [] h = pub -> node [] OTHER -> ctx]

MCClockOf == [h \in Handles |-> IF h = tm THEN clk ELSE Null]
===============================================================================
