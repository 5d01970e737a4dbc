------------------------------ MODULE MCExecutor ------------------------------
(* Executor with entities "a" and "b" in a mutually exclusive group and "c"  *)
(* in a reentrant one; a configuration may leave some of them out.           *)
EXTENDS Executor, TLC

CONSTANTS a, b, c, exclusive, reentrant

MCGroupOf == [w \in Waitables |-> IF w = c THEN reentrant ELSE exclusive]

(* The workers are interchangeable; used where no liveness is checked. *)
WorkerSymmetry == Permutations(Workers)
===============================================================================
