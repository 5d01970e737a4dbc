------------------------------ MODULE Lifecycle -------------------------------
(***************************************************************************)
(* A lifecycle node: requests of ~/change_state, each handled by attempt,  *)
(* which reads the state, runs the user's handler, sets the state and      *)
(* announces the move.  The executor runs the service's callback on some   *)
(* worker; only the callback group of the service keeps a second attempt   *)
(* out of the window between the read and the write.                       *)
(***************************************************************************)
EXTENDS Naturals

CONSTANTS
  Attempters,   \* workers of the executor that may run the callback
  Grouped,      \* those among them that run it in its mutually exclusive group
  NoEvent

VARIABLES
  state,    \* the IO.Ref of the node
  pc,       \* of each attempter: "idle", "handler" or "announce"
  wants,    \* the transition it attempts
  from,     \* what it has read from the state
  event,    \* the last transition event published; its QoS is transient local
  missed    \* moves whose publication failed since then

vars == <<state, pc, wants, from, event, missed>>

Machine == INSTANCE LifecycleMachine WITH primary <- state

(* The wire codes; that of a shutdown says where it starts.                 *)
Codes == 0 .. 9

TransitionOf == [c \in 1 .. 7 |->
  IF c <= 4 THEN <<"configure", "cleanup", "activate", "deactivate">>[c] ELSE "shutdown"]

CodeOf(t, s) ==
  IF t = "shutdown"
    THEN [unconfigured |-> 5, inactive |-> 6, active |-> 7, finalized |-> 8][s]
    ELSE CHOOSE c \in 1 .. 4 : TransitionOf[c] = t

Targets(s, t) == { s2 \in Machine!PrimaryStates : <<s, t, s2>> \in Machine!Moves }

Events == [code : Codes, start : Machine!PrimaryStates, goal : Machine!PrimaryStates]
          \cup {NoEvent}

TypeOK ==
  /\ state \in Machine!PrimaryStates
  /\ pc \in [Attempters -> {"idle", "handler", "announce"}]
  /\ wants \in [Attempters -> Machine!TransitionIds]
  /\ from \in [Attempters -> Machine!PrimaryStates]
  /\ event \in Events
  /\ missed \in BOOLEAN

Init ==
  /\ state = "unconfigured"
  /\ pc = [a \in Attempters |-> "idle"]
  /\ wants = [a \in Attempters |-> "configure"]
  /\ from = [a \in Attempters |-> "unconfigured"]
  /\ event = NoEvent
  /\ missed = FALSE

(* Mutant: the services are in a reentrant group.                            *)
MayEnterReentrant(a) == pc[a] = "idle"

(* The executor starts a callback of the group while none of it runs.        *)
MayEnter(a) ==
  /\ pc[a] = "idle"
  /\ a \in Grouped => \A b \in Grouped : pc[b] = "idle"

(* A request with an unknown code, or for a move that the machine has not,   *)
(* is answered at once.                                                      *)
Refuse(a, c) ==
  /\ MayEnter(a)
  /\ c \in DOMAIN TransitionOf => Targets(state, TransitionOf[c]) = {}
  /\ UNCHANGED vars

(* Any other request starts the handler.                                     *)
Begin(a, c) ==
  /\ MayEnter(a)
  /\ c \in DOMAIN TransitionOf
  /\ Targets(state, TransitionOf[c]) # {}
  /\ pc' = [pc EXCEPT ![a] = "handler"]
  /\ wants' = [wants EXCEPT ![a] = TransitionOf[c]]
  /\ from' = [from EXCEPT ![a] = state]
  /\ UNCHANGED <<state, event, missed>>

(* The handler reports a failure, or raises out of the callback.             *)
HandlerFails(a) ==
  /\ pc[a] = "handler"
  /\ pc' = [pc EXCEPT ![a] = "idle"]
  /\ UNCHANGED <<state, wants, from, event, missed>>

(* The handler succeeds: the state is set to the target found at the start.  *)
Move(a) ==
  /\ pc[a] = "handler"
  /\ state' \in Targets(from[a], wants[a])
  /\ pc' = [pc EXCEPT ![a] = "announce"]
  /\ UNCHANGED <<wants, from, event, missed>>

(* Mutant: where the move starts is read again, after the state was set.     *)
EventReread(a) ==
  [code |-> CodeOf(wants[a], state), start |-> state,
   goal |-> CHOOSE s \in Targets(from[a], wants[a]) : TRUE]

EventOf(a) ==
  [code |-> CodeOf(wants[a], from[a]), start |-> from[a],
   goal |-> CHOOSE s \in Targets(from[a], wants[a]) : TRUE]

(* The event is published, or publishing raises, which attempt catches: the  *)
(* move stands and the callback answers success either way.                  *)
Announce(a) ==
  /\ pc[a] = "announce"
  /\ pc' = [pc EXCEPT ![a] = "idle"]
  /\ \/ event' = EventOf(a) /\ missed' = FALSE
     \/ event' = event /\ missed' = TRUE
  /\ UNCHANGED <<state, wants, from>>

Next == \E a \in Attempters :
  \/ \E c \in Codes : Refuse(a, c) \/ Begin(a, c)
  \/ HandlerFails(a)
  \/ Move(a)
  \/ Announce(a)

Spec == Init /\ [][Next]_vars
-------------------------------------------------------------------------------
(* A lifecycle node implements the machine of the standard: every change of  *)
(* its state is a move of the relation, so a finalized node stays finalized  *)
(* and nothing is active that was not inactive before, however attempts of   *)
(* several workers meet (Lifecycle/Node.lean:60-79, State.lean:120-129).     *)
ImplementsMachine == Machine!Spec

(* Once no attempt is under way, a subscriber that receives the last event,  *)
(* kept for late joiners, knows the state the node is in, unless publishing  *)
(* has failed since (Lifecycle/Node.lean:81-87).                             *)
LastEventTellsTheState ==
  (\A a \in Attempters : pc[a] = "idle") /\ event # NoEvent /\ ~missed
    => event.goal = state

(* The events chain: each starts where the one before it ended, by a code    *)
(* that TransitionId.ofUInt8? maps to a move of the machine, unless          *)
(* publishing failed in between (Lifecycle/Node.lean:83-86).                 *)
EventsChain ==
  [][ event' # event /\ ~missed =>
        /\ event # NoEvent => event'.start = event.goal
        /\ <<event'.start, TransitionOf[event'.code], event'.goal>> \in Machine!Moves ]_vars
===============================================================================
