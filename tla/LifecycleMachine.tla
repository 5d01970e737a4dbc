--------------------------- MODULE LifecycleMachine ---------------------------
(***************************************************************************)
(* The machine that the standard gives a managed node: what a client of    *)
(* ~/change_state and ~/transition_event may rely on, whatever happens     *)
(* between a request and its answer.                                       *)
(***************************************************************************)
VARIABLE primary

PrimaryStates == {"unconfigured", "inactive", "active", "finalized"}

(* The moves of the relation: where from, by which transition, where to.    *)
Moves ==
  { <<"unconfigured", "configure", "inactive">>,
    <<"inactive", "cleanup", "unconfigured">>,
    <<"inactive", "activate", "active">>,
    <<"active", "deactivate", "inactive">> }
  \cup { <<s, "shutdown", "finalized">> : s \in PrimaryStates \ {"finalized"} }

TransitionIds == {"configure", "cleanup", "activate", "deactivate", "shutdown"}

Init == primary = "unconfigured"

Next == \E t \in TransitionIds : <<primary, t, primary'>> \in Moves

Spec == Init /\ [][Next]_primary
===============================================================================
