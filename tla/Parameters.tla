------------------------------ MODULE Parameters ------------------------------
(***************************************************************************)
(* A node's parameters: the store (ParameterStore), the server that        *)
(* announces changes (ParameterServer), and the time source that follows   *)
(* use_sim_time (TimeSource).                                              *)
(*                                                                         *)
(* The store is three IO.Refs; every get or modify of one is a step, so    *)
(* operations of two threads interleave in between.  When all of them are  *)
(* callbacks of one mutually exclusive group, the default, each runs to    *)
(* its end before another begins: `exclusive` says which of the two it is. *)
(***************************************************************************)
EXTENDS Naturals, Sequences, Functions

CONSTANTS
  Names, Values,
  UseSimTime,     \* the parameter,
  On, Off,        \* and the values that are a Bool
  DefaultOf,      \* the value each name is declared with, overrides applied
  DescriptorsOf,  \* the descriptors the application may declare each name with
  Undeclarable,   \* names the application may undeclare
  Threads,        \* threads that set parameters
  Owner,          \* the one that also declares, undeclares and registers callbacks
  Batches,        \* what an application or a client sets, each name at most once
  Vetoes,         \* on-set callbacks of the application
  Refuses,        \* the updates each of them refuses
  FollowClock,    \* the on-set callback of the time source
  NoValue,
  Lost            \* an event that could not be published

Descriptors == [allows : SUBSET Values, readOnly : BOOLEAN]

ASSUME ParameterAssumption ==
  /\ UseSimTime \in Names \ Undeclarable
  /\ Undeclarable \subseteq Names
  /\ On # Off
  /\ DefaultOf \in [Names -> Values]
  /\ DescriptorsOf \in [Names -> SUBSET Descriptors]
  /\ \A b \in Batches : /\ b \in Seq(Names \X Values) \ {<<>>}
                         /\ \A i, j \in DOMAIN b : b[i][1] = b[j][1] => i = j
  /\ Refuses \in [Vetoes -> SUBSET (Names \X Values)]
  /\ Owner \in Threads
  /\ FollowClock \notin Vetoes
  /\ NoValue \notin Values \cup Descriptors
  /\ Lost \notin Values

VARIABLES
  exclusive,   \* operations run one at a time
  params,      \* ParameterStore.params, the values; NoValue is not declared
  descriptor,  \* and the descriptors that are stored with them
  order,       \* ParameterStore.order
  onSet,       \* ParameterStore.onSet
  enabled,     \* TimeSource.enabled
  override,    \* the override of its clock is on
  announced,   \* the value of each name in the last event about it, if not Lost
  pc,          \* where each thread is
  proposed,    \* updates of its setAtomically not written yet
  current,     \* the descriptors its operation found, or is to declare
  consulting,  \* callbacks it has not consulted yet
  written,     \* names its operation has written
  event,       \* the event it is to publish, pairs of a name and a value
  on           \* what it switches the clock to

store == <<params, descriptor, order, onSet>>
clock == <<enabled, override>>
local == <<pc, proposed, current, consulting, written, event, on>>
vars == <<exclusive, store, clock, announced, local>>

NoneFound == [n \in Names |-> NoValue]

Init ==
  /\ exclusive \in BOOLEAN
  /\ params = [n \in Names |-> NoValue]
  /\ descriptor = [n \in Names |-> NoValue]
  /\ order = <<>>
  /\ onSet = <<>>
  /\ enabled = FALSE
  /\ override = FALSE
  /\ announced = [n \in Names |-> NoValue]
  /\ pc = [t \in Threads |-> "idle"]
  /\ proposed = [t \in Threads |-> <<>>]
  /\ current = [t \in Threads |-> NoneFound]
  /\ consulting = [t \in Threads |-> <<>>]
  /\ written = [t \in Threads |-> {}]
  /\ event = [t \in Threads |-> {}]
  /\ on = [t \in Threads |-> FALSE]

Declared(n) == params[n] # NoValue

GoTo(t, from, to) == pc[t] = from /\ pc' = [pc EXCEPT ![t] = to]

Begin(t, step) ==
  /\ GoTo(t, "idle", step)
  /\ exclusive => \A u \in Threads : pc[u] = "idle"

(* Mutant: the value goes in under the descriptor that is there by now.     *)
StoreValue(t, n, v) ==
  /\ params' = [params EXCEPT ![n] = v]
  /\ descriptor' = [descriptor EXCEPT ![n] = IF @ = NoValue THEN current[t][n] ELSE @]

(* What is inserted is a whole Parameter: its descriptor is the one the     *)
(* operation found.                                                         *)
Store(t, n, v) ==
  /\ params' = [params EXCEPT ![n] = v]
  /\ descriptor' = [descriptor EXCEPT ![n] = current[t][n]]

-------------------------------------------------------------------------------
(* declare: the name is looked up, the value checked, then the two refs    *)
(* are modified in turn.  What is refused raises and changes nothing.      *)

StartDeclare(t, n, d) ==
  /\ Begin(t, "declare")
  /\ ~Declared(n)
  /\ DefaultOf[n] \in d.allows
  /\ event' = [event EXCEPT ![t] = {<<n, DefaultOf[n]>>}]
  /\ current' = [current EXCEPT ![t] = [NoneFound EXCEPT ![n] = d]]
  /\ UNCHANGED <<exclusive, store, clock, announced, proposed, consulting, written, on>>

Declare(t) ==
  /\ GoTo(t, "declare", "list")
  /\ \E e \in event[t] : Store(t, e[1], e[2])
  /\ current' = [current EXCEPT ![t] = NoneFound]
  /\ UNCHANGED <<exclusive, order, onSet, clock, announced, proposed, consulting,
                 written, event, on>>

List(t) ==
  /\ GoTo(t, "list", "publish")
  /\ \E e \in event[t] : order' = Append(order, e[1])
  /\ UNCHANGED <<exclusive, params, descriptor, onSet, clock, announced, proposed,
                 current, consulting, written, event, on>>

(* undeclare *)
StartUndeclare(t, n) ==
  /\ Begin(t, "erase")
  /\ n \in Undeclarable
  /\ Declared(n)
  /\ ~descriptor[n].readOnly
  /\ written' = [written EXCEPT ![t] = {n}]
  /\ UNCHANGED <<exclusive, store, clock, announced, proposed, current, consulting,
                 event, on>>

Erase(t) ==
  /\ GoTo(t, "erase", "unlist")
  /\ params' = [n \in Names |-> IF n \in written[t] THEN NoValue ELSE params[n]]
  /\ descriptor' = [n \in Names |-> IF n \in written[t] THEN NoValue ELSE descriptor[n]]
  /\ UNCHANGED <<exclusive, order, onSet, clock, announced, proposed, current,
                 consulting, written, event, on>>

(* Mutant: the name stays in the listing. *)
LeaveListed(t) ==
  /\ GoTo(t, "unlist", "idle")
  /\ written' = [written EXCEPT ![t] = {}]
  /\ UNCHANGED <<exclusive, store, clock, announced, proposed, current, consulting,
                 event, on>>

(* Array.filter: the names that are not among these, in the order they are in. *)
Without(s, names) ==
  LET kept[i \in 0 .. Len(s)] ==
        IF i = 0 THEN <<>>
        ELSE IF s[i] \in names THEN kept[i - 1] ELSE Append(kept[i - 1], s[i])
  IN  kept[Len(s)]

Unlist(t) ==
  /\ GoTo(t, "unlist", "idle")
  /\ order' = Without(order, written[t])
  /\ written' = [written EXCEPT ![t] = {}]
  /\ UNCHANGED <<exclusive, params, descriptor, onSet, clock, announced, proposed,
                 current, consulting, event, on>>

-------------------------------------------------------------------------------
(* setAtomically                                                           *)

(* Mutant: a read-only parameter is checked like any other. *)
AllowsReadOnly(n, v) == Declared(n) /\ v \in descriptor[n].allows

Allows(n, v) == Declared(n) /\ ~descriptor[n].readOnly /\ v \in descriptor[n].allows

(* Every update is checked against one reading of the parameters; the first *)
(* that is not allowed refuses the batch.                                   *)
StartSet(t, b) ==
  /\ IF \A i \in DOMAIN b : Allows(b[i][1], b[i][2])
     THEN /\ Begin(t, "callbacks")
          /\ proposed' = [proposed EXCEPT ![t] = b]
          /\ current' = [current EXCEPT ![t] = descriptor]
     ELSE /\ Begin(t, "refused")
          /\ UNCHANGED <<proposed, current>>
  /\ UNCHANGED <<exclusive, store, clock, announced, consulting, written, event, on>>

Callbacks(t) ==
  /\ GoTo(t, "callbacks", "consult")
  /\ consulting' = [consulting EXCEPT ![t] = onSet]
  /\ UNCHANGED <<exclusive, store, clock, announced, proposed, current, written,
                 event, on>>

Refused(t) ==
  \E i \in DOMAIN proposed[t] : proposed[t][i] \in Refuses[Head(consulting[t])]

(* Mutant: a refusal does not stop the set. *)
ConsultAndIgnore(t) ==
  /\ consulting[t] # <<>>
  /\ Head(consulting[t]) \in Vetoes
  /\ GoTo(t, "consult", "consult")
  /\ consulting' = [consulting EXCEPT ![t] = Tail(@)]
  /\ UNCHANGED <<exclusive, store, clock, announced, proposed, current, written,
                 event, on>>

(* A callback of the application refuses or accepts. *)
Consult(t) ==
  /\ consulting[t] # <<>>
  /\ Head(consulting[t]) \in Vetoes
  /\ GoTo(t, "consult", IF Refused(t) THEN "refused" ELSE "consult")
  /\ consulting' = [consulting EXCEPT ![t] = Tail(@)]
  /\ UNCHANGED <<exclusive, store, clock, announced, proposed, current, written,
                 event, on>>

(* ParameterValue.asBool? *)
IsBool(v) == v \in {On, Off}

(* TimeSource.setEnabled: the ref, then the clock. *)
SetEnabled(t, value, switch, next) ==
  \/ /\ enabled = value
     /\ pc' = [pc EXCEPT ![t] = next]
     /\ UNCHANGED <<enabled, on>>
  \/ /\ enabled # value
     /\ pc' = [pc EXCEPT ![t] = switch]
     /\ enabled' = value
     /\ on' = [on EXCEPT ![t] = value]

SwitchClock(t, from, to) ==
  /\ GoTo(t, from, to)
  /\ override' = on[t]
  /\ on' = [on EXCEPT ![t] = FALSE]
  /\ UNCHANGED <<exclusive, store, enabled, announced, proposed, current,
                 consulting, written, event>>

(* Mutant: the time source waits for the next update. *)
FollowLate(t) ==
  /\ consulting[t] # <<>>
  /\ Head(consulting[t]) = FollowClock
  /\ GoTo(t, "consult", "consult")
  /\ consulting' = [consulting EXCEPT ![t] = Tail(@)]
  /\ UNCHANGED <<exclusive, store, clock, announced, proposed, current, written,
                 event, on>>

(* The callback of the time source switches the clock if the value is a     *)
(* Bool, and accepts.                                                       *)
Follow(t) ==
  /\ pc[t] = "consult"
  /\ consulting[t] # <<>>
  /\ Head(consulting[t]) = FollowClock
  /\ consulting' = [consulting EXCEPT ![t] = Tail(@)]
  /\ LET updates == {i \in DOMAIN proposed[t] :
                       proposed[t][i][1] = UseSimTime /\ IsBool(proposed[t][i][2])}
     IN  IF updates = {} THEN UNCHANGED <<pc, enabled, on>>
         ELSE \E i \in updates : SetEnabled(t, proposed[t][i][2] = On, "switch", "consult")
  /\ UNCHANGED <<exclusive, store, override, announced, proposed, current, written,
                 event>>

(* The operation ends without success; in the service, as its response. *)
Refuse(t) ==
  /\ GoTo(t, "refused", "idle")
  /\ proposed' = [proposed EXCEPT ![t] = <<>>]
  /\ consulting' = [consulting EXCEPT ![t] = <<>>]
  /\ current' = [current EXCEPT ![t] = NoneFound]
  /\ UNCHANGED <<exclusive, store, clock, announced, written, event, on>>

(* No callback is left: the loop that writes.  A parameter that is gone is  *)
(* listed again.                                                            *)
Accept(t) ==
  /\ consulting[t] = <<>>
  /\ GoTo(t, "consult", "write")
  /\ UNCHANGED <<exclusive, store, clock, announced, proposed, current, consulting,
                 written, event, on>>

Update(t) == Head(proposed[t])

Write(t) ==
  /\ GoTo(t, "write", IF Declared(Update(t)[1]) THEN "insert" ELSE "relist")
  /\ UNCHANGED <<exclusive, store, clock, announced, proposed, current, consulting,
                 written, event, on>>

Relist(t) ==
  /\ GoTo(t, "relist", "insert")
  /\ order' = Append(order, Update(t)[1])
  /\ UNCHANGED <<exclusive, params, descriptor, onSet, clock, announced, proposed,
                 current, consulting, written, event, on>>

Insert(t) ==
  /\ GoTo(t, "insert", IF Len(proposed[t]) = 1 THEN "announce" ELSE "write")
  /\ Store(t, Update(t)[1], Update(t)[2])
  /\ proposed' = [proposed EXCEPT ![t] = Tail(@)]
  /\ written' = [written EXCEPT ![t] = @ \cup {Update(t)[1]}]
  /\ UNCHANGED <<exclusive, order, onSet, clock, announced, current, consulting,
                 event, on>>

-------------------------------------------------------------------------------
(* ParameterServer.set: the event carries what the store holds by then.    *)

EventAbout(t, names) ==
  /\ GoTo(t, "announce", "publish")
  /\ event' = [event EXCEPT ![t] = {<<n, params[n]>> : n \in {m \in names : Declared(m)}}]
  /\ written' = [written EXCEPT ![t] = {}]
  /\ current' = [current EXCEPT ![t] = NoneFound]
  /\ UNCHANGED <<exclusive, store, clock, announced, proposed, consulting, on>>

(* Mutant: the event carries one update of the batch. *)
AnnounceOne(t) == \E n \in written[t] : EventAbout(t, {n})

Announce(t) == EventAbout(t, written[t])

Publish(t) ==
  /\ GoTo(t, "publish", "idle")
  /\ announced' = [n \in Names |->
                    IF \E e \in event[t] : e[1] = n
                    THEN (CHOOSE e \in event[t] : e[1] = n)[2] ELSE announced[n]]
  /\ event' = [event EXCEPT ![t] = {}]
  /\ UNCHANGED <<exclusive, store, clock, proposed, current, consulting,
                 written, on>>

(* The names an event tells of. *)
About(e) == {u[1] : u \in e}

(* Publishing fails; "Failures are ignored", and nothing tries again.       *)
PublishFails(t) ==
  /\ GoTo(t, "publish", "idle")
  /\ announced' = [n \in Names |-> IF n \in About(event[t]) THEN Lost ELSE announced[n]]
  /\ event' = [event EXCEPT ![t] = {}]
  /\ UNCHANGED <<exclusive, store, clock, proposed, current, consulting,
                 written, on>>

(* addOnSetCallback *)
AddVeto(t, cb) ==
  /\ Begin(t, "idle")
  /\ cb \notin Range(onSet)
  /\ onSet' = Append(onSet, cb)
  /\ UNCHANGED <<exclusive, params, descriptor, order, clock, announced, proposed,
                 current, consulting, written, event, on>>

(* followParameter: the value now, if it is a Bool, then the callback. *)
StartFollow(t) ==
  /\ pc[t] = "idle"
  /\ exclusive => \A u \in Threads : pc[u] = "idle"
  /\ \A u \in Threads : pc[u] \notin {"switch first", "follow"}
  /\ FollowClock \notin Range(onSet)
  /\ Declared(UseSimTime)
  /\ \/ /\ IsBool(params[UseSimTime])
        /\ SetEnabled(t, params[UseSimTime] = On, "switch first", "follow")
     \/ /\ ~IsBool(params[UseSimTime])
        /\ pc' = [pc EXCEPT ![t] = "follow"]
        /\ UNCHANGED <<enabled, on>>
  /\ UNCHANGED <<exclusive, store, override, announced, proposed, current,
                 consulting, written, event>>

AddFollow(t) ==
  /\ GoTo(t, "follow", "idle")
  /\ onSet' = Append(onSet, FollowClock)
  /\ UNCHANGED <<exclusive, params, descriptor, order, clock, announced, proposed,
                 current, consulting, written, event, on>>

-------------------------------------------------------------------------------
Sets(t) == \E b \in Batches : StartSet(t, b)

SetsUp(t) ==
  \/ \E n \in Names :
       StartUndeclare(t, n) \/ \E d \in DescriptorsOf[n] : StartDeclare(t, n, d)
  \/ \E cb \in Vetoes : AddVeto(t, cb)
  \/ StartFollow(t)

Continues(t) ==
  \/ Declare(t) \/ List(t)
  \/ Erase(t) \/ Unlist(t)
  \/ Callbacks(t) \/ Consult(t) \/ Follow(t) \/ SwitchClock(t, "switch", "consult") \/ Refuse(t)
  \/ Accept(t) \/ Write(t) \/ Relist(t) \/ Insert(t) \/ Announce(t)
  \/ Publish(t) \/ PublishFails(t)
  \/ SwitchClock(t, "switch first", "follow") \/ AddFollow(t)

Next ==
  \/ SetsUp(Owner)
  \/ \E t \in Threads : Sets(t) \/ Continues(t)

Spec == Init /\ [][Next]_vars

-------------------------------------------------------------------------------
(* Properties.                                                             *)

Steps == {"idle", "declare", "list", "erase", "unlist", "callbacks", "consult", "switch",
          "refused", "write", "relist", "insert", "announce", "publish", "switch first",
          "follow"}

(* The variables have their types. *)
TypeOK ==
  /\ exclusive \in BOOLEAN
  /\ params \in [Names -> Values \cup {NoValue}]
  /\ descriptor \in [Names -> Descriptors \cup {NoValue}]
  /\ order \in Seq(Names)
  /\ onSet \in Seq(Vetoes \cup {FollowClock})
  /\ enabled \in BOOLEAN /\ override \in BOOLEAN
  /\ announced \in [Names -> Values \cup {NoValue, Lost}]
  /\ pc \in [Threads -> Steps]
  /\ proposed \in [Threads -> Seq(Names \X Values)]
  /\ current \in [Threads -> [Names -> Descriptors \cup {NoValue}]]
  /\ consulting \in [Threads -> Seq(Vetoes \cup {FollowClock})]
  /\ written \in [Threads -> SUBSET Names]
  /\ event \in [Threads -> SUBSET (Names \X Values)]
  /\ on \in [Threads -> BOOLEAN]

Quiet == exclusive /\ \A t \in Threads : pc[t] = "idle"

(* Every parameter satisfies the descriptor it is stored with, also when it *)
(* has been declared anew between the check of a set and its write.         *)
DescriptorsHold == \A n \in Names : Declared(n) => params[n] \in descriptor[n].allows

(* What is declared read-only stays, for good, if operations run one at a   *)
(* time: no batch, whatever else is in it, and no undeclare gets at it.     *)
ReadOnlyStays ==
  [][exclusive => \A n \in Names :
       Declared(n) /\ descriptor[n].readOnly =>
         params'[n] = params[n] /\ descriptor'[n] = descriptor[n]]_vars

(* Not so: of a set, "types, ranges, read-only and every registered         *)
(* callback are checked first" (ParameterStore.setAtomically). The check is *)
(* against an earlier reading: a parameter undeclared and declared again as *)
(* read-only by then is written all the same, and its descriptor with it.   *)
ReadOnlyIsCheckedFirst ==
  \A t \in Threads :
    pc[t] = "insert" /\ Declared(Update(t)[1]) => ~descriptor[Update(t)[1]].readOnly

(* "All or nothing": a set that is refused has written nothing, and one     *)
(* that writes was refused by none of the callbacks registered by then.     *)
AllOrNothing ==
  \A t \in Threads :
    /\ pc[t] = "refused" => written[t] = {}
    /\ exclusive /\ pc[t] \in {"write", "relist", "insert"} =>
         \A i \in DOMAIN proposed[t], j \in DOMAIN onSet :
           onSet[j] \in Vetoes => proposed[t][i] \notin Refuses[onSet[j]]

(* Between operations the listing names each declared parameter once.       *)
ListingMatchesStore ==
  Quiet => /\ \A n \in Names : Declared(n) <=> n \in Range(order)
           /\ \A i, j \in DOMAIN order : order[i] = order[j] => i = j

(* "Announces declarations and changes, so other nodes need not poll"       *)
(* (ParameterServer.events): between operations a node that follows the     *)
(* events knows every parameter, but for those whose last event could not   *)
(* be published: of these it learns only with the next one about them.      *)
EventsAreCurrent ==
  Quiet => \A n \in Names : Declared(n) => announced[n] \in {params[n], Lost}

ClockFollows ==
  /\ IsBool(params[UseSimTime]) => enabled = (params[UseSimTime] = On)
  /\ override = enabled

(* Between operations the clock follows use_sim_time, as long as no other   *)
(* callback is consulted after the one of the time source. A use_sim_time   *)
(* that is cleared leaves the clock as it is.                               *)
ClockFollowsUnlessVetoed ==
  Quiet /\ onSet # <<>> /\ onSet[Len(onSet)] = FollowClock => ClockFollows

(* Not so: "Follow a node's use_sim_time parameter, now and whenever it     *)
(* changes" (TimeSource.followParameter), and of an on-set callback "an     *)
(* unsuccessful result refuses the change and nothing is written"           *)
(* (ParameterStore.addOnSetCallback). The time source switches the clock    *)
(* from its callback, and a later callback may still refuse.                *)
ClockFollowsParameter == Quiet /\ FollowClock \in Range(onSet) => ClockFollows
===============================================================================
