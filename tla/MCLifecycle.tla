----------------------------- MODULE MCLifecycle ------------------------------
(* Two workers of a multi-threaded executor, the services in one group.      *)
EXTENDS Lifecycle

CONSTANTS w1, w2
===============================================================================
