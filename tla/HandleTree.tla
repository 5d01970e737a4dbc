------------------------------ MODULE HandleTree ------------------------------
(***************************************************************************)
(* The tree of handles (destroyable.c) and the life of an entity in it:    *)
(* creation, use, explicit destroy, and the finalizer that runs when Lean  *)
(* drops the last reference, on whichever thread that is.                  *)
(*                                                                         *)
(* A teardown runs under one mutex, but `valid` is also read without it,   *)
(* and a creation takes it for the link alone: each step below is one      *)
(* critical section, or one iteration of the loop of                       *)
(* rcllean_destroy_locked, whose recursion is the sequence `stack`.        *)
(***************************************************************************)
EXTENDS Naturals, Sequences, FiniteSets

CONSTANTS
  Handles,
  ParentOf,    \* Null for a context and for a clock
  ClockOf,     \* the clock of a timer; Null for any other handle
  Threads,
  Null,
  Serialized   \* nothing is destroyed above what another thread is creating

ASSUME TreeAssumption ==
  /\ Null \notin Handles \cup Threads
  /\ ParentOf \in [Handles -> Handles \cup {Null}]
  /\ ClockOf \in [Handles -> Handles \cup {Null}]
  /\ \A h \in Handles : ClockOf[h] # Null =>
       /\ ParentOf[h] # Null /\ ParentOf[ClockOf[h]] = Null
       /\ \A c \in Handles : ParentOf[c] # ClockOf[h]
  /\ Serialized \in BOOLEAN

VARIABLES
  memory,      \* "absent", "allocated", "freed"
  rcl,         \* the rcl struct: "zero", "init", "fini"
  valid,       \* handles whose header says so
  first,       \* first_child of each handle
  next, prev,  \* its siblings
  held,        \* handles the application holds a reference to
  ticking,     \* timers that hold a reference to their clock
  finis,       \* how often fini ran on each handle
  mutex,       \* the thread that holds g_tree_mutex
  stack,       \* its nested calls of rcllean_destroy_locked, innermost first
  pc, arg      \* the operation each thread is in, and on what

links == <<first, next, prev>>
vars == <<memory, rcl, valid, links, held, ticking, finis, mutex, stack, pc, arg>>

Init ==
  /\ memory = [h \in Handles |-> "absent"]
  /\ rcl = [h \in Handles |-> "zero"]
  /\ valid = {}
  /\ first = [h \in Handles |-> Null]
  /\ next = [h \in Handles |-> Null]
  /\ prev = [h \in Handles |-> Null]
  /\ held = {}
  /\ ticking = {}
  /\ finis = [h \in Handles |-> 0]
  /\ mutex = Null
  /\ stack = <<>>
  /\ pc = [t \in Threads |-> "idle"]
  /\ arg = [t \in Threads |-> Null]

Enter(t, step, h) ==
  /\ pc[t] = "idle"
  /\ pc' = [pc EXCEPT ![t] = step]
  /\ arg' = [arg EXCEPT ![t] = h]

GoTo(t, from, to) ==
  /\ pc[t] = from
  /\ pc' = [pc EXCEPT ![t] = to]
  /\ arg' = IF to = "idle" THEN [arg EXCEPT ![t] = Null] ELSE arg

(* The handle and those above it: the least set that has the handle, and    *)
(* with every handle its parent.                                            *)
Upwards == {S \in SUBSET Handles : \A g \in S : ParentOf[g] \in S \cup {Null}}
Above == [h \in Handles |-> {g \in Handles : \A S \in Upwards : h \in S => g \in S}]
Ancestry(h) == Above[h]

Creating == {"link", "rcl_init"}

(* What the application keeps apart when it is Serialized: creations below  *)
(* h, and a destroy of h. Calls are never kept apart from anything.         *)
MayCreate(h) ==
  Serialized => \A t \in Threads : pc[t] = "destroy" => arg[t] \notin Ancestry(h)
MayDestroy(h) ==
  Serialized => \A t \in Threads : pc[t] \in Creating => h \notin Ancestry(arg[t])

(* A thread that creates a child of h, or a timer on it, or is inside a     *)
(* call on h, has borrowed a reference to it.                               *)
Borrowed(h) ==
  \E t \in Threads : \/ pc[t] \in Creating /\ h \in {ParentOf[arg[t]], ClockOf[arg[t]]}
                     \/ pc[t] \in {"call", "destroy"} /\ arg[t] = h

Children(h) == {c \in Handles : ParentOf[c] = h /\ memory[c] = "allocated"}

(* The timers that hold a reference to clock h.                             *)
TimersOf(h) == {c \in ticking : ClockOf[c] = h}

-------------------------------------------------------------------------------
(* rcllean_*_create                                                        *)

(* RCLLEAN_REQUIRE_VALID on the parent, and on the clock of a timer, without *)
(* the mutex.                                                               *)
StartCreate(t, h) ==
  /\ memory[h] = "absent"
  /\ \A u \in Threads : arg[u] # h
  /\ {ParentOf[h], ClockOf[h]} \ {Null} \subseteq held \cap valid
  /\ MayCreate(h)
  /\ Enter(t, "link", h)
  /\ UNCHANGED <<memory, rcl, valid, links, held, ticking, finis, mutex, stack>>

(* rcllean_alloc_handle *)
Link(t) ==
  LET h == arg[t]
      p == ParentOf[h]
  IN  /\ GoTo(t, "link", "rcl_init")
      /\ p # Null => mutex = Null
      /\ memory' = [memory EXCEPT ![h] = "allocated"]
      /\ valid' = valid \cup {h}
      /\ IF p = Null THEN UNCHANGED links
         ELSE /\ first' = [first EXCEPT ![p] = h]
              /\ next' = [next EXCEPT ![h] = first[p]]
              /\ prev' = [g \in Handles |->
                           IF g = h THEN Null ELSE IF g = first[p] THEN h ELSE prev[g]]
      /\ UNCHANGED <<rcl, held, ticking, finis, mutex, stack>>

(* Mutant: a timer takes no reference to its clock.                         *)
KeepNoClock(h) == UNCHANGED ticking

(* The clock gets its own reference, before rcl_timer_init2.                *)
KeepClock(h) == ticking' = ticking \cup {c \in {h} : ClockOf[c] # Null}

(* rcl_*_init succeeds only under a parent that is initialized; the Lean    *)
(* program receives the handle.                                             *)
RclInit(t) ==
  LET h == arg[t]
  IN  /\ GoTo(t, "rcl_init", "idle")
      /\ ParentOf[h] # Null => rcl[ParentOf[h]] = "init"
      /\ rcl' = [rcl EXCEPT ![h] = "init"]
      /\ held' = held \cup {h}
      /\ KeepClock(h)
      /\ UNCHANGED <<memory, valid, links, finis, mutex, stack>>

(* It fails for this or any other reason: lean_dec_ref of the only          *)
(* reference.                                                               *)
RclInitFails(t) ==
  /\ GoTo(t, "rcl_init", "finalize")
  /\ KeepClock(arg[t])
  /\ UNCHANGED <<memory, rcl, valid, links, held, finis, mutex, stack>>

-------------------------------------------------------------------------------
(* An operation of the entity: RCLLEAN_REQUIRE_VALID, which takes no mutex, *)
(* then rcl.                                                               *)

StartCall(t, h) ==
  /\ h \in held \cap valid
  /\ Enter(t, "call", h)
  /\ UNCHANGED <<memory, rcl, valid, links, held, ticking, finis, mutex, stack>>

EndCall(t) ==
  /\ GoTo(t, "call", "idle")
  /\ UNCHANGED <<memory, rcl, valid, links, held, ticking, finis, mutex, stack>>

-------------------------------------------------------------------------------
(* Teardown                                                                *)

(* rcllean_handle_destroy, called by rcllean_*_destroy. *)
StartDestroy(t, h) ==
  /\ h \in held
  /\ ParentOf[h] # Null
  /\ MayDestroy(h)
  /\ Enter(t, "destroy", h)
  /\ UNCHANGED <<memory, rcl, valid, links, held, ticking, finis, mutex, stack>>

(* The application drops its reference; the last one runs the finalizer. *)
Drop(t, h) ==
  /\ h \in held
  /\ ~Borrowed(h)
  /\ held' = held \ {h}
  /\ \/ Children(h) \cup TimersOf(h) = {} /\ Enter(t, "finalize", h)
     \/ Children(h) \cup TimersOf(h) # {} /\ pc[t] = "idle" /\ UNCHANGED <<pc, arg>>
  /\ UNCHANGED <<memory, rcl, valid, links, ticking, finis, mutex, stack>>

(* Mutant: a handle that is not valid is torn down again. *)
LockUnchecked(t) ==
  /\ pc[t] \in {"destroy", "finalize"}
  /\ mutex = Null
  /\ mutex' = t
  /\ stack' = <<arg[t]>>
  /\ valid' = valid \ {arg[t]}
  /\ UNCHANGED <<memory, rcl, links, held, ticking, finis, pc, arg>>

(* rcllean_tree_lock, and the call of rcllean_destroy_locked, which returns *)
(* at once if the handle is not valid.                                      *)
Lock(t) ==
  /\ pc[t] \in {"destroy", "finalize"}
  /\ mutex = Null
  /\ mutex' = t
  /\ stack' = IF arg[t] \in valid THEN <<arg[t]>> ELSE <<>>
  /\ valid' = valid \ {arg[t]}
  /\ UNCHANGED <<memory, rcl, links, held, ticking, finis, pc, arg>>

Top == Head(stack)

(* One iteration of the loop over the children. An invalid child would make *)
(* it spin.                                                                 *)
DestroyChild(t) ==
  /\ mutex = t
  /\ stack # <<>>
  /\ first[Top] # Null
  /\ stack' = IF first[Top] \in valid THEN <<first[Top]>> \o stack ELSE stack
  /\ valid' = valid \ {first[Top]}
  /\ UNCHANGED <<memory, rcl, links, held, ticking, finis, mutex, pc, arg>>

(* Mutant: the handle is left in its parent's list. *)
UnlinkNothing(h, p) == UNCHANGED links

(* Mutant: the next sibling keeps its pointer back. *)
UnlinkOneWay(h, p) ==
  /\ first' = IF prev[h] = Null THEN [first EXCEPT ![p] = next[h]] ELSE first
  /\ next' = [g \in Handles |->
               IF g = h THEN Null ELSE IF g = prev[h] THEN next[h] ELSE next[g]]
  /\ prev' = [prev EXCEPT ![h] = Null]

(* rcllean_unlink_child *)
Unlink(h, p) ==
  /\ first' = IF prev[h] = Null THEN [first EXCEPT ![p] = next[h]] ELSE first
  /\ next' = [g \in Handles |->
               IF g = h THEN Null ELSE IF g = prev[h] THEN next[h] ELSE next[g]]
  /\ prev' = [g \in Handles |->
               IF g = h THEN Null ELSE IF g = next[h] THEN prev[h] ELSE prev[g]]

(* The clock that goes with a timer, when the timer had the last reference: *)
(* its finalizer takes the recursive mutex again and runs to its end here.  *)
ClockGoingWith(h) ==
  {c \in Handles : /\ h \in ticking /\ ClockOf[h] = c
                   /\ c \notin held /\ TimersOf(c) = {h} /\ ~Borrowed(c)}

(* The type's fini, which for a timer releases the clock last, then out of  *)
(* the parent's list.                                                       *)
Fini(t) ==
  LET p == ParentOf[Top]
      clock == ClockGoingWith(Top)
      torn == {Top} \cup (clock \cap valid)
  IN  /\ rcl' = [h \in Handles |-> IF h \in torn THEN "fini" ELSE rcl[h]]
      /\ finis' = [h \in Handles |-> IF h \in torn THEN finis[h] + 1 ELSE finis[h]]
      /\ valid' = valid \ clock
      /\ memory' = [h \in Handles |-> IF h \in clock THEN "freed" ELSE memory[h]]
      /\ ticking' = ticking \ {Top}
      /\ IF p = Null THEN UNCHANGED links ELSE Unlink(Top, p)
      /\ stack' = Tail(stack)
      /\ UNCHANGED <<held, mutex, pc, arg>>

(* Mutant: the handle goes before its children. *)
FiniFirst(t) ==
  /\ mutex = t
  /\ stack # <<>>
  /\ Fini(t)

(* No child is left: fini, then out of the parent's list. *)
FiniAndUnlink(t) ==
  /\ mutex = t
  /\ stack # <<>>
  /\ first[Top] = Null
  /\ Fini(t)

Unlock(t) ==
  /\ mutex = t
  /\ stack = <<>>
  /\ mutex' = Null
  /\ GoTo(t, pc[t], IF pc[t] = "destroy" THEN "idle" ELSE "release")
  /\ UNCHANGED <<memory, rcl, valid, links, held, ticking, finis, stack>>

(* The end of the finalizer: lean_dec of the parent, which may be its last  *)
(* reference, and free.                                                     *)
Release(t) ==
  LET h == arg[t]
      p == ParentOf[h]
  IN  /\ pc[t] = "release"
      /\ memory' = [memory EXCEPT ![h] = "freed"]
      /\ IF p # Null /\ p \notin held /\ Children(p) = {h} /\ ~Borrowed(p)
         THEN /\ pc' = [pc EXCEPT ![t] = "finalize"]
              /\ arg' = [arg EXCEPT ![t] = p]
         ELSE GoTo(t, "release", "idle")
      /\ UNCHANGED <<rcl, valid, links, held, ticking, finis, mutex, stack>>

-------------------------------------------------------------------------------
Starts(t) ==
  \E h \in Handles :
    StartCreate(t, h) \/ StartCall(t, h) \/ StartDestroy(t, h) \/ Drop(t, h)

Continues(t) ==
  \/ Link(t) \/ RclInit(t) \/ RclInitFails(t) \/ EndCall(t)
  \/ Lock(t) \/ DestroyChild(t) \/ FiniAndUnlink(t) \/ Unlock(t) \/ Release(t)

Next == \E t \in Threads : Starts(t) \/ Continues(t)

Spec == Init /\ [][Next]_vars

(* Whoever is inside an operation gets on. *)
Fairness == \A t \in Threads : WF_vars(Continues(t))

FairSpec == Spec /\ Fairness

-------------------------------------------------------------------------------
(* Properties.                                                             *)

(* The variables have their types; only the thread with the mutex tears     *)
(* down.                                                                    *)
TypeOK ==
  /\ memory \in [Handles -> {"absent", "allocated", "freed"}]
  /\ rcl \in [Handles -> {"zero", "init", "fini"}]
  /\ valid \subseteq Handles
  /\ first \in [Handles -> Handles \cup {Null}]
  /\ next \in [Handles -> Handles \cup {Null}]
  /\ prev \in [Handles -> Handles \cup {Null}]
  /\ held \subseteq Handles
  /\ ticking \subseteq Handles
  /\ finis \in [Handles -> Nat]
  /\ mutex \in Threads \cup {Null}
  /\ stack \in Seq(Handles)
  /\ stack # <<>> => mutex # Null
  /\ pc \in [Threads -> {"idle", "link", "rcl_init", "call", "destroy", "finalize", "release"}]
  /\ arg \in [Threads -> Handles \cup {Null}]

(* fini "runs once per handle" (destroyable.h), however many destroys,      *)
(* teardowns of ancestors and finalizers meet, and before the memory goes.  *)
FinalizedOnce ==
  \A h \in Handles : finis[h] <= 1 /\ (memory[h] = "freed" => finis[h] = 1)

(* "after its children and before its parent": an rcl entity never outlives *)
(* the one it was created on.                                               *)
ChildrenGoFirst ==
  \A h \in Handles :
    rcl[h] = "init" => \A p \in Ancestry(h) : rcl[p] = "init"

(* rcl reads the clock for as long as the timer lives: whichever of the two *)
(* the application drops first, and on whichever thread, a clock is torn    *)
(* down only once the last of its timers is (timer.h:13-16, timer.c:14-25). *)
ClockOutlivesTimers ==
  \A h \in Handles : rcl[h] = "init" /\ ClockOf[h] # Null => rcl[ClockOf[h]] = "init"

(* The lists hold only allocated handles, agree in both directions, and     *)
(* every child that is still to be torn down is in the list of its parent.  *)
TreeIsSound ==
  \A h \in Handles :
    /\ first[h] # Null => ParentOf[first[h]] = h /\ prev[first[h]] = Null
    /\ next[h] # Null => prev[next[h]] = h /\ ParentOf[next[h]] = ParentOf[h]
    /\ prev[h] # Null => next[prev[h]] = h
    /\ \A g \in {first[h], next[h], prev[h]} \ {Null} : memory[g] = "allocated"
    /\ h \in valid /\ ParentOf[h] # Null
         => /\ memory[ParentOf[h]] = "allocated"
            /\ first[ParentOf[h]] = h \/ prev[h] # Null

(* Not so: RCLLEAN_REQUIRE_VALID refuses "to touch an rcl struct that has    *)
(* already been torn down" (destroyable.h:48). A call that found its handle *)
(* valid may find it torn down when it uses rcl: nothing keeps a destroy on *)
(* another thread out in between.                                           *)
NoCallOnTornDown ==
  \A t \in Threads : pc[t] = "call" => rcl[arg[t]] = "init"

(* Every teardown ends and gives the mutex back: each child unlinks itself, *)
(* "so the loop ends when the list empties".                                *)
TeardownsEnd == \A t \in Threads : mutex = t ~> mutex # t
===============================================================================
