----------------------------- MODULE MCEntryPoints -----------------------------
(* One thread, as the executor's, calls everything; another sends and looks  *)
(* for the overrides of its node.                                            *)
EXTENDS EntryPoints

CONSTANTS main, worker

MCDoes == [t \in Threads |->
            IF t = main THEN Functions ELSE {"publish", "sendResponse", "overrideNodeCount", "overrideValue"}]
===============================================================================
