--------------------------- MODULE LifecycleProofs ----------------------------
(***************************************************************************)
(* For any number of workers: a lifecycle node whose services are all in   *)
(* one mutually exclusive callback group implements LifecycleMachine.      *)
(*                                                                         *)
(* The invariant: attempts exclude each other, so what an attempt has read *)
(* from the state is still the state when its handler returns.             *)
(***************************************************************************)
EXTENDS Lifecycle, TLAPS

(* No two attempts are under way.                                            *)
Excluded == \A a, b \in Attempters : pc[a] # "idle" /\ pc[b] # "idle" => a = b

(* What the attempt read stands, and its transition leads somewhere.         *)
ReadStands ==
  \A a \in Attempters :
    /\ pc[a] = "handler" => from[a] = state /\ Targets(from[a], wants[a]) # {}
    /\ pc[a] = "announce" => state \in Targets(from[a], wants[a])

Typed ==
  /\ state \in Machine!PrimaryStates
  /\ pc \in [Attempters -> {"idle", "handler", "announce"}]
  /\ wants \in [Attempters -> Machine!TransitionIds]
  /\ from \in [Attempters -> Machine!PrimaryStates]

LifecycleInv == Typed /\ Excluded /\ ReadStands

LEMMA InvInit == Init => LifecycleInv
  BY DEF Init, LifecycleInv, Typed, Excluded, ReadStands, Machine!PrimaryStates,
         Machine!TransitionIds

(* A code that ofUInt8? knows names a transition.                            *)
LEMMA TransitionOfType == TransitionOf \in [1 .. 7 -> Machine!TransitionIds]
<1> SUFFICES ASSUME NEW c \in 1 .. 7
             PROVE (IF c <= 4 THEN <<"configure", "cleanup", "activate", "deactivate">>[c]
                              ELSE "shutdown") \in Machine!TransitionIds
  BY DEF TransitionOf
<1>1. c \in {1, 2, 3, 4} \/ c > 4
  OBVIOUS
<1>2. QED
  BY <1>1 DEF Machine!TransitionIds

LEMMA InvStep ==
  ASSUME Attempters = Grouped, LifecycleInv, [Next]_vars
  PROVE  LifecycleInv'
<1> USE DEF LifecycleInv, Typed
<1>1. ASSUME NEW a \in Attempters, NEW c \in Codes, Begin(a, c)
      PROVE  LifecycleInv'
  <2>1. TransitionOf[c] \in Machine!TransitionIds
    BY <1>1, TransitionOfType DEF Begin
  <2>2. Typed'
    BY <1>1, <2>1 DEF Begin
  <2>3. \A b \in Attempters : pc[b] = "idle"
    BY <1>1 DEF Begin, MayEnter
  <2>4. Excluded'
    BY <1>1, <2>3 DEF Begin, Excluded
  <2>5. ReadStands'
    BY <1>1, <2>1, <2>3 DEF Begin, ReadStands, Targets
  <2>6. QED
    BY <2>2, <2>4, <2>5
<1>2. ASSUME NEW a \in Attempters, HandlerFails(a)
      PROVE  LifecycleInv'
  <2>1. Typed' /\ Excluded'
    BY <1>2 DEF HandlerFails, Excluded
  <2>2. ReadStands'
    BY <1>2 DEF HandlerFails, ReadStands, Targets
  <2>3. QED
    BY <2>1, <2>2
<1>3. ASSUME NEW a \in Attempters, Move(a)
      PROVE  LifecycleInv'
  <2>1. Typed' /\ Excluded'
    BY <1>3 DEF Move, Excluded, Targets
  <2>2. \A b \in Attempters : b # a => pc[b] = "idle" /\ pc'[b] = "idle"
    BY <1>3 DEF Move, Excluded
  <2>3. ReadStands'
    BY <1>3, <2>2 DEF Move, ReadStands, Targets
  <2>4. QED
    BY <2>1, <2>3
<1>4. ASSUME NEW a \in Attempters, Announce(a)
      PROVE  LifecycleInv'
  <2>1. Typed' /\ Excluded'
    BY <1>4 DEF Announce, Excluded
  <2>2. ReadStands'
    BY <1>4 DEF Announce, ReadStands, Targets
  <2>3. QED
    BY <2>1, <2>2
<1>5. CASE UNCHANGED vars
  BY <1>5 DEF vars, Excluded, ReadStands, Targets
<1>6. QED
  BY <1>1, <1>2, <1>3, <1>4, <1>5 DEF Next, Refuse

(* The only step that sets the state takes a move of the machine.            *)
LEMMA StepsAreMoves ==
  ASSUME LifecycleInv, [Next]_vars
  PROVE  [Machine!Next]_state
<1>1. ASSUME NEW a \in Attempters, Move(a)
      PROVE  Machine!Next
  <2>1. from[a] = state /\ wants[a] \in Machine!TransitionIds
    BY <1>1 DEF Move, LifecycleInv, Typed, ReadStands
  <2>2. <<state, wants[a], state'>> \in Machine!Moves
    BY <1>1, <2>1 DEF Move, Targets
  <2>3. QED
    BY <2>1, <2>2 DEF Machine!Next
<1>2. QED
  BY <1>1 DEF Next, Refuse, Begin, HandlerFails, Announce, vars

LEMMA Invariance ==
  ASSUME Attempters = Grouped
  PROVE  Spec => []LifecycleInv
<1>1. LifecycleInv /\ [Next]_vars => LifecycleInv'
  BY InvStep
<1>2. QED
  BY <1>1, InvInit, PTL DEF Spec

(* The transition relation is a function: a request has one target.          *)
LEMMA OneTarget ==
  ASSUME NEW s, NEW t, NEW x \in Targets(s, t), NEW y \in Targets(s, t)
  PROVE  x = y
  BY DEF Targets, Machine!Moves, Machine!PrimaryStates

(* While no move waits to be announced, the last event tells the state.      *)
EventCurrent ==
  (\A a \in Attempters : pc[a] # "announce") /\ event # NoEvent /\ ~missed
    => event.goal = state

LEMMA EventStep ==
  ASSUME LifecycleInv, EventCurrent, [Next]_vars
  PROVE  EventCurrent'
<1>1. ASSUME NEW a \in Attempters, NEW c \in Codes, Begin(a, c)
      PROVE  EventCurrent'
  BY <1>1 DEF Begin, MayEnter, EventCurrent, LifecycleInv, Typed
<1>2. ASSUME NEW a \in Attempters, HandlerFails(a)
      PROVE  EventCurrent'
  BY <1>2 DEF HandlerFails, EventCurrent, LifecycleInv, Typed
<1>3. ASSUME NEW a \in Attempters, Move(a)
      PROVE  EventCurrent'
  BY <1>3 DEF Move, EventCurrent, LifecycleInv, Typed
<1>4. ASSUME NEW a \in Attempters, Announce(a)
      PROVE  EventCurrent'
  <2>1. state \in Targets(from[a], wants[a]) /\ state' = state
    BY <1>4 DEF Announce, LifecycleInv, ReadStands
  <2>2. (CHOOSE s \in Targets(from[a], wants[a]) : TRUE) = state
    BY <2>1, OneTarget
  <2>3. EventOf(a).goal = state'
    BY <2>1, <2>2 DEF EventOf
  <2>4. QED
    BY <1>4, <2>3 DEF Announce, EventCurrent
<1>5. CASE UNCHANGED vars
  BY <1>5 DEF vars, EventCurrent
<1>6. QED
  BY <1>1, <1>2, <1>3, <1>4, <1>5 DEF Next, Refuse

(* A late subscriber, who receives the last event, knows the state of a node *)
(* at rest, unless publishing has failed (Lifecycle/Node.lean:81-87).        *)
THEOREM LastEventIsCurrent ==
  ASSUME Attempters = Grouped
  PROVE  Spec => []LastEventTellsTheState
<1>1. Init => EventCurrent
  BY DEF Init, EventCurrent
<1>2. LifecycleInv /\ EventCurrent /\ [Next]_vars => EventCurrent'
  BY EventStep
<1>3. EventCurrent => LastEventTellsTheState
  BY DEF EventCurrent, LastEventTellsTheState
<1>4. QED
  BY <1>1, <1>2, <1>3, Invariance, PTL DEF Spec

(* Every behaviour of a lifecycle node, seen through its state alone, is one *)
(* of the machine of the standard, for any number of workers and whatever    *)
(* the handlers decide (Lifecycle/Node.lean:60-79).                          *)
THEOREM NodeImplementsMachine ==
  ASSUME Attempters = Grouped
  PROVE  Spec => ImplementsMachine
<1>1. Init => Machine!Init
  BY DEF Init, Machine!Init
<1>2. LifecycleInv /\ [Next]_vars => [Machine!Next]_state
  BY StepsAreMoves
<1>3. QED
  BY <1>1, <1>2, Invariance, PTL DEF Spec, Machine!Spec, ImplementsMachine

(* The node is finalized, and no handler is running.                         *)
Over == state = "finalized" /\ \A a \in Attempters : pc[a] # "handler"

(* Only a handler that runs already can undo a shutdown: once those that     *)
(* were running when the node was finalized have returned, it is finalized   *)
(* for ever, whatever is attempted, in the services' group or by direct      *)
(* calls of attempt that overlap (Lifecycle/Node.lean:60-78).                *)
THEOREM FinalizedIsTerminal == Spec => [](Over => [](state = "finalized"))
<1>1. \A t : Targets("finalized", t) = {}
  BY DEF Targets, Machine!Moves, Machine!PrimaryStates
<1>2. Over /\ [Next]_vars => Over'
  <2>1. SUFFICES ASSUME Over, [Next]_vars
                 PROVE  Over'
    OBVIOUS
  <2>2. ASSUME NEW a \in Attempters, Announce(a)
        PROVE  Over'
    BY <2>1, <2>2 DEF Over, Announce
  <2>3. \A a \in Attempters : ~HandlerFails(a) /\ ~Move(a)
    BY <2>1 DEF Over, HandlerFails, Move
  <2>4. \A a \in Attempters, c \in Codes : ~Begin(a, c)
    BY <1>1, <2>1 DEF Over, Begin
  <2>5. CASE UNCHANGED vars
    BY <2>1, <2>5 DEF Over, vars
  <2>6. QED
    BY <2>1, <2>2, <2>3, <2>4, <2>5 DEF Next, Refuse
<1>3. Over => state = "finalized"
  BY DEF Over
<1>4. QED
  BY <1>2, <1>3, PTL DEF Spec

(* A move that waits to be announced starts where the last event ended.      *)
EventAhead ==
  \A a \in Attempters :
    pc[a] = "announce" /\ event # NoEvent /\ ~missed => event.goal = from[a]

LEMMA AheadStep ==
  ASSUME LifecycleInv, EventCurrent, EventAhead, [Next]_vars
  PROVE  EventAhead'
<1>1. ASSUME NEW a \in Attempters, NEW c \in Codes, Begin(a, c)
      PROVE  EventAhead'
  BY <1>1 DEF Begin, MayEnter, EventAhead, LifecycleInv, Typed
<1>2. ASSUME NEW a \in Attempters, HandlerFails(a)
      PROVE  EventAhead'
  BY <1>2 DEF HandlerFails, EventAhead, LifecycleInv, Typed
<1>3. ASSUME NEW a \in Attempters, Move(a)
      PROVE  EventAhead'
  <2>1. from[a] = state /\ \A b \in Attempters : pc[b] # "announce"
    BY <1>3 DEF Move, LifecycleInv, ReadStands, Excluded
  <2>2. QED
    BY <1>3, <2>1 DEF Move, EventAhead, EventCurrent, LifecycleInv, Typed
<1>4. ASSUME NEW a \in Attempters, Announce(a)
      PROVE  EventAhead'
  <2>1. \A b \in Attempters : pc'[b] # "announce"
    BY <1>4 DEF Announce, LifecycleInv, Typed, Excluded
  <2>2. QED
    BY <2>1 DEF EventAhead
<1>5. CASE UNCHANGED vars
  BY <1>5 DEF vars, EventAhead
<1>6. QED
  BY <1>1, <1>2, <1>3, <1>4, <1>5 DEF Next, Refuse

(* The code of a move says which it was.                                     *)
LEMMA CodesTell ==
  ASSUME NEW s, NEW t, NEW x \in Targets(s, t)
  PROVE  TransitionOf[CodeOf(t, s)] = t
<1>1. CASE t = "shutdown"
  <2>1. s \in {"unconfigured", "inactive", "active"}
    BY <1>1 DEF Targets, Machine!Moves, Machine!PrimaryStates
  <2>2. CodeOf(t, s) \in 5 .. 7
    BY <1>1, <2>1 DEF CodeOf
  <2>3. QED
    BY <1>1, <2>2 DEF TransitionOf
<1>2. CASE t # "shutdown"
  <2>1. t \in {"configure", "cleanup", "activate", "deactivate"}
    BY <1>2 DEF Targets, Machine!Moves, Machine!PrimaryStates
  <2>2. \E c \in 1 .. 4 : TransitionOf[c] = t
    <3>1. /\ TransitionOf[1] = "configure" /\ TransitionOf[2] = "cleanup"
          /\ TransitionOf[3] = "activate" /\ TransitionOf[4] = "deactivate"
      BY DEF TransitionOf
    <3>2. QED
      BY <2>1, <3>1
  <2>3. QED
    BY <1>2, <2>2 DEF CodeOf
<1>3. QED
  BY <1>1, <1>2

(* Each event starts where the one before it ended, and its code names the   *)
(* move it tells of, unless publishing failed in between                     *)
(* (Lifecycle/Node.lean:82-86).                                              *)
THEOREM EventsFormAChain ==
  ASSUME Attempters = Grouped
  PROVE  Spec => EventsChain
<1>1. Init => EventCurrent /\ EventAhead
  BY DEF Init, EventCurrent, EventAhead
<1>2. LifecycleInv /\ EventCurrent /\ EventAhead /\ [Next]_vars
        => EventCurrent' /\ EventAhead'
  BY EventStep, AheadStep
<1> DEFINE Chains ==
      event' # event /\ ~missed =>
        /\ event # NoEvent => event'.start = event.goal
        /\ <<event'.start, TransitionOf[event'.code], event'.goal>> \in Machine!Moves
<1>3. ASSUME LifecycleInv, EventAhead, Next
      PROVE  Chains
  <2>1. ASSUME NEW a \in Attempters, Announce(a), event' # event, ~missed
        PROVE  Chains
    <3>1. state \in Targets(from[a], wants[a]) /\ pc[a] = "announce" /\ event' = EventOf(a)
      BY <1>3, <2>1 DEF Announce, LifecycleInv, ReadStands
    <3>2. (CHOOSE s \in Targets(from[a], wants[a]) : TRUE) = state
      BY <3>1, OneTarget
    <3>3. /\ event'.start = from[a] /\ event'.goal = state
          /\ event'.code = CodeOf(wants[a], from[a])
      BY <3>1, <3>2 DEF EventOf
    <3>4. TransitionOf[event'.code] = wants[a]
      BY <3>1, <3>3, CodesTell
    <3>5. <<from[a], wants[a], state>> \in Machine!Moves
      BY <3>1 DEF Targets
    <3>6. event # NoEvent => event.goal = from[a]
      BY <1>3, <2>1, <3>1 DEF EventAhead
    <3>7. QED
      BY <3>3, <3>4, <3>5, <3>6
  <2>2. QED
    BY <1>3, <2>1 DEF Next, Refuse, Begin, HandlerFails, Move, vars
<1>4. LifecycleInv /\ EventAhead /\ [Next]_vars => [Chains]_vars
  BY <1>3
<1>5. QED
  BY <1>1, <1>2, <1>4, Invariance, PTL DEF Spec, EventsChain
===============================================================================
