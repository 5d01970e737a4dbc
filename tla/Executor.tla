------------------------------- MODULE Executor -------------------------------
(***************************************************************************)
(* The executor: one waiting thread that runs Executor.spin or             *)
(* Executor.spinMultiThreaded, the callbacks it dispatches, and the other  *)
(* threads that add entities, destroy them, queue data or shut the context *)
(* down.                                                                   *)
(*                                                                         *)
(* A Waitable stands for one registration.  What differs between its kinds *)
(* is only how readiness ends: data (a message, a request, a response, an  *)
(* event, an elapsed period) stays until it is taken, a guard condition's  *)
(* trigger is consumed by the rcl_wait that observes it.                   *)
(*                                                                         *)
(* The local arrays of Executor.pass (all, live, eligible, the ready       *)
(* slots) never live at the same time; "batch" is the one that is current. *)
(***************************************************************************)
EXTENDS Naturals

CONSTANTS
  Waitables,          \* every entity an application registers, at most once each
  GuardConditions,    \* those of kind guardCondition
  Fallible,           \* those whose take may find nothing to run, or raise
  Destroyable,        \* those the application may destroy; guard conditions cannot be
  Groups,             \* callback groups
  MutuallyExclusive,  \* those of kind mutuallyExclusive; the others are reentrant
  GroupOf,            \* the group each entity was added with
  Workers,            \* bound: dedicated tasks alive at one time
  Self,               \* the waiting thread, as the runner of inline callbacks
  NoJob,              \* a runner with nothing to run
  QueueDepth          \* bound: data one entity holds back

Runners == Workers \cup {Self}

ASSUME ExecutorAssumption ==
  /\ GuardConditions \subseteq Waitables
  /\ Fallible \subseteq Waitables \ GuardConditions
  /\ Destroyable \subseteq Waitables \ GuardConditions
  /\ MutuallyExclusive \subseteq Groups
  /\ GroupOf \in [Waitables -> Groups]
  /\ Self \notin Workers
  /\ NoJob \notin Waitables
  /\ QueueDepth \in Nat \ {0}

VARIABLES
  pc,        \* where the waiting thread is
  mode,      \* which loop it runs: "spin" or "spinMultiThreaded"
  batch,     \* the current local array of Executor.pass
  registry,  \* Executor.waitables
  rank,      \* position in that array at the push, 0 before it
  nextId,    \* Executor.nextId, counted from 1
  adding,    \* pushed by Executor.add, the wakeup not yet triggered
  destroyed, \* entities whose handle is no longer valid
  hollow,    \* entities whose next take finds nothing to run
  queue,     \* data, or for a guard condition the trigger, not yet consumed
  wakeup,    \* Executor.wakeup is triggered
  ctx,       \* the context: "ok", "shutdown" (rcl_shutdown done), "notified"
  running,   \* CallbackGroup.running
  job,       \* the entity whose callback a runner runs
  phase,     \* "idle", "callback", or "leaving" (left, wakeup not triggered)
  tasks      \* "running" of spinMultiThreaded: the runners whose task it holds

spinVars == <<pc, mode, batch>>
addVars  == <<rank, nextId, adding>>
ruined   == <<destroyed, hollow>>
jobVars  == <<running, job, phase, tasks>>
vars == <<pc, mode, batch, registry, rank, nextId, adding, destroyed, hollow, queue,
          wakeup, ctx, running, job, phase, tasks>>

PCs == {"start", "while", "snapshot", "forget", "fill", "wait", "check", "take",
        "prune", "drain", "returned", "raised", "failed", "threw"}

(* The variables have their types; no queue is ever taken from when empty.  *)
TypeOK ==
  /\ pc \in PCs
  /\ mode \in {"spin", "spinMultiThreaded"}
  /\ batch \subseteq Waitables
  /\ registry \subseteq Waitables
  /\ rank \in [Waitables -> Nat]
  /\ nextId \in Nat \ {0}
  /\ adding \subseteq Waitables
  /\ destroyed \subseteq Waitables
  /\ hollow \subseteq Fallible
  /\ queue \in [Waitables -> 0 .. QueueDepth]
  /\ wakeup \in BOOLEAN
  /\ ctx \in {"ok", "shutdown", "notified"}
  /\ running \in [Groups -> Nat]
  /\ job \in [Runners -> Waitables \cup {NoJob}]
  /\ phase \in [Runners -> {"idle", "callback", "leaving"}]
  /\ tasks \subseteq Workers

Init ==
  /\ pc = "start"
  /\ mode \in {"spin", "spinMultiThreaded"}
  /\ batch = {}
  /\ registry = {}
  /\ rank = [w \in Waitables |-> 0]
  /\ nextId = 1
  /\ adding = {}
  /\ destroyed = {}
  /\ hollow = {}
  /\ queue = [w \in Waitables |-> 0]
  /\ wakeup = FALSE
  /\ ctx = "ok"
  /\ running = [g \in Groups |-> 0]
  /\ job = [k \in Runners |-> NoJob]
  /\ phase = [k \in Runners |-> "idle"]
  /\ tasks = {}

GoTo(from, to) == pc = from /\ pc' = to

-------------------------------------------------------------------------------
(* Callback groups.                                                        *)

CanRun(g) == g \in MutuallyExclusive => running[g] = 0

(* The runners inside a callback. *)
Active == {k \in Runners : phase[k] = "callback"}

InGroup(k, g) == job[k] \in Waitables /\ GroupOf[job[k]] = g

-------------------------------------------------------------------------------
(* The waiting thread.                                                     *)

(* The application calls one of the two loops. *)
Spin ==
  /\ GoTo("start", "while")
  /\ UNCHANGED <<mode, batch, registry, addVars, ruined, queue, wakeup, ctx, jobVars>>

(* What follows a pass: only the multi-threaded loop has tasks to prune.    *)
AfterPass == IF mode = "spinMultiThreaded" THEN "prune" ELSE "while"

(* while <- ex.context.ok do: the multi-threaded loop ends by waiting for   *)
(* its tasks, the inline one returns.                                       *)
CheckContext ==
  /\ pc = "while"
  /\ pc' = IF ctx = "ok" THEN "snapshot"
           ELSE IF mode = "spinMultiThreaded" THEN "drain" ELSE "returned"
  /\ UNCHANGED <<mode, batch, registry, addVars, ruined, queue, wakeup, ctx, jobVars>>

Snapshot ==
  /\ GoTo("snapshot", "forget")
  /\ batch' = registry
  /\ UNCHANGED <<mode, registry, addVars, ruined, queue, wakeup, ctx, jobVars>>

(* Mutant: the filtered snapshot is written back. *)
ForgetByOverwriting ==
  /\ GoTo("forget", "fill")
  /\ batch' = batch \ destroyed
  /\ registry' = batch \ destroyed
  /\ UNCHANGED <<mode, addVars, ruined, queue, wakeup, ctx, jobVars>>

(* liveWaitables: the dead of the snapshot leave the registry as it is now, *)
(* which may hold more than the snapshot.                                   *)
Forget ==
  /\ GoTo("forget", "fill")
  /\ batch' = batch \ destroyed
  /\ registry' = registry \ (batch \cap destroyed)
  /\ UNCHANGED <<mode, addVars, ruined, queue, wakeup, ctx, jobVars>>

(* The entities that enter the wait set: those whose group is not busy. *)
Eligible == {w \in batch : CanRun(GroupOf[w])}

(* Mutant: entities of busy groups enter the wait set. *)
FillWithBusyGroups ==
  /\ GoTo("fill", IF batch \cap destroyed = {} THEN "wait" ELSE "raised")
  /\ UNCHANGED <<mode, batch, registry, addVars, ruined, queue, wakeup, ctx, jobVars>>

(* Mutant: the wakeup is reset while the wait set is filled. *)
FillAndResetWakeup ==
  /\ GoTo("fill", IF Eligible \cap destroyed = {} THEN "wait" ELSE "raised")
  /\ batch' = Eligible
  /\ wakeup' = FALSE
  /\ UNCHANGED <<mode, registry, addVars, ruined, queue, ctx, jobVars>>

(* Filling the wait set; rcllean_wait_set_add_* refuses an entity destroyed *)
(* since liveWaitables looked, and the error leaves the loop.               *)
Fill ==
  /\ GoTo("fill", IF Eligible \cap destroyed = {} THEN "wait" ELSE "raised")
  /\ batch' = IF Eligible \cap destroyed = {} THEN Eligible ELSE {}
  /\ UNCHANGED <<mode, registry, addVars, ruined, queue, wakeup, ctx, jobVars>>

(* Mutant: waiting discards what it reports. *)
WaitAndDiscard ==
  \E stale \in SUBSET (batch \cap destroyed) :
    LET ready == {w \in batch \ destroyed : queue[w] > 0} \cup stale
    IN  /\ GoTo("wait", "check")
        /\ wakeup \/ ready # {}
        /\ batch' = ready
        /\ wakeup' = FALSE
        /\ queue' = [w \in Waitables |-> IF w \in ready THEN 0 ELSE queue[w]]
        /\ UNCHANGED <<mode, registry, addVars, ruined, ctx, jobVars>>

(* rcl_wait without a timeout: blocked until the wakeup or an entity of the *)
(* wait set is ready, then the triggers it observed are cleared.  Whether   *)
(* an entity destroyed while rcl holds its pointer reports ready is left    *)
(* open.                                                                    *)
Wait ==
  \E stale \in SUBSET (batch \cap destroyed) :
    LET ready == {w \in batch \ destroyed : queue[w] > 0} \cup stale
    IN  /\ GoTo("wait", "check")
        /\ wakeup \/ ready # {}
        /\ batch' = ready
        /\ wakeup' = FALSE
        /\ queue' = [w \in Waitables |->
                       IF w \in ready \cap GuardConditions THEN 0 ELSE queue[w]]
        /\ UNCHANGED <<mode, registry, addVars, ruined, ctx, jobVars>>

(* if !(<- ex.context.ok) then return false *)
CheckAfterWait ==
  /\ GoTo("check", IF ctx = "ok" THEN "take" ELSE AfterPass)
  /\ batch' = IF ctx = "ok" THEN batch ELSE {}
  /\ UNCHANGED <<mode, registry, addVars, ruined, queue, wakeup, ctx, jobVars>>

(* The loop over the wait set goes in registration order, and in "spin" an *)
(* inline callback holds it up.                                            *)
NextInPass(w) ==
  /\ pc = "take"
  /\ phase[Self] = "idle"
  /\ w \in batch
  /\ \A x \in batch : rank[w] <= rank[x]

SkipBusy(w) ==
  /\ NextInPass(w)
  /\ ~CanRun(GroupOf[w])
  /\ batch' = batch \ {w}
  /\ UNCHANGED <<pc, mode, registry, addVars, ruined, queue, wakeup, ctx, jobVars>>

(* takeIfReady raises, and the error leaves the loop: always for a          *)
(* destroyed entity ("raised"), and for another one that takes data if rcl  *)
(* cannot take it, say a malformed message ("failed").                      *)
TakeRaises(w) ==
  /\ NextInPass(w)
  /\ CanRun(GroupOf[w])
  /\ \/ w \in destroyed /\ pc' = "raised"
     \/ w \in Fallible \ destroyed /\ pc' = "failed"
  /\ batch' = {}
  /\ UNCHANGED <<mode, registry, addVars, ruined, queue, wakeup, ctx, jobVars>>

(* Mutant: a trigger is taken again after rcl_wait has cleared it. *)
LeftAfterTakingAnything(w) == queue[w] - 1

LeftAfterTaking(w) == IF w \in GuardConditions THEN queue[w] ELSE queue[w] - 1

Runner(k) == IF mode = "spin" THEN k = Self ELSE k \in Workers

(* takeIfReady is none: a timer cancelled since the wait, a response that   *)
(* no pending call matches, nothing to take after all.  The readiness is    *)
(* used up.                                                                 *)
TakeNothing(w) ==
  /\ NextInPass(w)
  /\ CanRun(GroupOf[w])
  /\ w \in hollow \ destroyed
  /\ batch' = batch \ {w}
  /\ queue' = [queue EXCEPT ![w] = LeftAfterTaking(w)]
  /\ hollow' = hollow \ {w}
  /\ UNCHANGED <<pc, mode, registry, addVars, destroyed, wakeup, ctx, jobVars>>

(* group.enter and then the callback of what was taken, on this thread or   *)
(* as a task that is kept in the array.                                     *)
Start(w, k) ==
  /\ Runner(k)
  /\ phase[k] = "idle"
  /\ batch' = batch \ {w}
  /\ queue' = [queue EXCEPT ![w] = LeftAfterTaking(w)]
  /\ running' = [running EXCEPT ![GroupOf[w]] = @ + 1]
  /\ job' = [job EXCEPT ![k] = w]
  /\ phase' = [phase EXCEPT ![k] = "callback"]
  /\ tasks' = tasks \cup ({k} \ {Self})
  /\ UNCHANGED <<pc, mode, registry, addVars, ruined, wakeup, ctx>>

(* Mutant: the group is not rechecked before each take. *)
DispatchUnchecked(w, k) ==
  /\ NextInPass(w)
  /\ w \notin destroyed \cup hollow
  /\ Start(w, k)

(* takeIfReady gives a callback, which is dispatched. *)
Dispatch(w, k) ==
  /\ NextInPass(w)
  /\ CanRun(GroupOf[w])
  /\ w \notin destroyed \cup hollow
  /\ Start(w, k)

EndPass ==
  /\ batch = {}
  /\ phase[Self] = "idle"
  /\ GoTo("take", AfterPass)
  /\ UNCHANGED <<mode, batch, registry, addVars, ruined, queue, wakeup, ctx, jobVars>>

(* Mutant: the pruning keeps a task only until its callback has left. *)
PruneLeaving ==
  /\ GoTo("prune", "while")
  /\ tasks' = {k \in tasks : phase[k] = "callback"}
  /\ UNCHANGED <<mode, batch, registry, addVars, ruined, queue, wakeup, ctx, running,
                 job, phase>>

(* The finished tasks are dropped from the array: those past their trigger. *)
Prune ==
  /\ GoTo("prune", "while")
  /\ tasks' = {k \in tasks : phase[k] # "idle"}
  /\ UNCHANGED <<mode, batch, registry, addVars, ruined, queue, wakeup, ctx, running,
                 job, phase>>

(* for t in <- running.get do IO.wait t *)
Drain ==
  /\ \A k \in tasks : phase[k] = "idle"
  /\ GoTo("drain", "returned")
  /\ UNCHANGED <<mode, batch, registry, addVars, ruined, queue, wakeup, ctx, jobVars>>

TakeStep == \E w \in Waitables :
              \/ SkipBusy(w) \/ TakeRaises(w) \/ TakeNothing(w)
              \/ \E k \in Runners : Dispatch(w, k)

WaitingThread ==
  \/ Spin \/ CheckContext \/ Snapshot \/ Forget \/ Fill \/ Wait
  \/ CheckAfterWait \/ TakeStep \/ EndPass \/ Prune \/ Drain

-------------------------------------------------------------------------------
(* The callbacks.                                                          *)

(* Nat subtraction stops at 0. *)
Leave(g) == running' = [running EXCEPT ![g] = IF @ = 0 THEN 0 ELSE @ - 1]

(* A task's callback ends, or throws and is logged; the group is left.     *)
FinishTask(k) ==
  /\ k \in Workers
  /\ phase[k] = "callback"
  /\ Leave(GroupOf[job[k]])
  /\ job' = [job EXCEPT ![k] = NoJob]
  /\ phase' = [phase EXCEPT ![k] = "leaving"]
  /\ UNCHANGED <<spinVars, registry, addVars, ruined, queue, wakeup, ctx, tasks>>

(* Mutant: a task ends without waking the executor. *)
EndTaskSilently(k) ==
  /\ phase[k] = "leaving"
  /\ phase' = [phase EXCEPT ![k] = "idle"]
  /\ UNCHANGED <<spinVars, registry, addVars, ruined, queue, wakeup, ctx, running, job,
                 tasks>>

(* ex.wakeup.trigger, the last step of a task. *)
EndTask(k) ==
  /\ phase[k] = "leaving"
  /\ wakeup' = TRUE
  /\ phase' = [phase EXCEPT ![k] = "idle"]
  /\ UNCHANGED <<spinVars, registry, addVars, ruined, queue, ctx, running, job, tasks>>

(* withMembership: the group is left, and what the callback threw leaves   *)
(* the loop.                                                               *)
FinishInline(next) ==
  /\ phase[Self] = "callback"
  /\ pc' = next
  /\ batch' = IF next = pc THEN batch ELSE {}
  /\ Leave(GroupOf[job[Self]])
  /\ job' = [job EXCEPT ![Self] = NoJob]
  /\ phase' = [phase EXCEPT ![Self] = "idle"]
  /\ UNCHANGED <<mode, registry, addVars, ruined, queue, wakeup, ctx, tasks>>

CallbackStep(k) ==
  \/ FinishTask(k)
  \/ EndTask(k)
  \/ k = Self /\ \E next \in {pc, "threw"} : FinishInline(next)

-------------------------------------------------------------------------------
(* The other threads; a callback may take any of these steps too.          *)

(* Executor.add draws an id and pushes ... *)
Push(w) ==
  /\ rank[w] = 0
  /\ registry' = registry \cup {w}
  /\ rank' = [rank EXCEPT ![w] = nextId]
  /\ nextId' = nextId + 1
  /\ adding' = adding \cup {w}
  /\ UNCHANGED <<spinVars, ruined, queue, wakeup, ctx, jobVars>>

(* ... and then triggers the wakeup. *)
WakeAfterPush(w) ==
  /\ w \in adding
  /\ adding' = adding \ {w}
  /\ wakeup' = TRUE
  /\ UNCHANGED <<spinVars, registry, rank, nextId, ruined, queue, ctx, jobVars>>

(* Data arrives, or the guard condition is triggered; a trigger is sticky. *)
Arrive(w) ==
  /\ w \notin destroyed
  /\ queue[w] < IF w \in GuardConditions THEN 1 ELSE QueueDepth
  /\ queue' = [queue EXCEPT ![w] = @ + 1]
  /\ UNCHANGED <<spinVars, registry, addVars, ruined, wakeup, ctx, jobVars>>

Destroy(w) ==
  /\ w \in Destroyable \ destroyed
  /\ destroyed' = destroyed \cup {w}
  /\ UNCHANGED <<spinVars, registry, addVars, hollow, queue, wakeup, ctx, jobVars>>

(* What is queued comes to have nothing to run: its timer is cancelled, its *)
(* call is no longer pending, rcl has nothing to take after all.            *)
Hollow(w) ==
  /\ w \in Fallible \ (destroyed \cup hollow)
  /\ queue[w] > 0
  /\ hollow' = hollow \cup {w}
  /\ UNCHANGED <<spinVars, registry, addVars, destroyed, queue, wakeup, ctx, jobVars>>

(* Context.shutdown or the signal thread: rcl_shutdown ... *)
Shutdown ==
  /\ ctx = "ok"
  /\ ctx' = "shutdown"
  /\ UNCHANGED <<spinVars, registry, addVars, ruined, queue, wakeup, jobVars>>

(* Mutant: shutting down triggers no guard condition. *)
ShutdownWithoutTrigger ==
  /\ ctx = "shutdown"
  /\ ctx' = "notified"
  /\ UNCHANGED <<spinVars, registry, addVars, ruined, queue, wakeup, jobVars>>

(* ... and then the registered guard conditions are triggered. *)
TriggerShutdownGuards ==
  /\ ctx = "shutdown"
  /\ ctx' = "notified"
  /\ wakeup' = TRUE
  /\ UNCHANGED <<spinVars, registry, addVars, ruined, queue, jobVars>>

OtherThreads ==
  \/ \E w \in Waitables :
       Push(w) \/ WakeAfterPush(w) \/ Arrive(w) \/ Destroy(w) \/ Hollow(w)
  \/ Shutdown
  \/ TriggerShutdownGuards

-------------------------------------------------------------------------------
Next ==
  \/ WaitingThread
  \/ \E k \in Runners : CallbackStep(k)
  \/ OtherThreads

Spec == Init /\ [][Next]_vars

(* The waiting thread and every dispatched callback keep running, and a    *)
(* thread inside add or a shutdown finishes it.  Nothing is assumed about  *)
(* when data arrives or an application acts.                               *)
Fairness ==
  /\ WF_vars(WaitingThread)
  /\ \A k \in Runners : WF_vars(CallbackStep(k))
  /\ \A w \in Waitables : WF_vars(WakeAfterPush(w))
  /\ WF_vars(TriggerShutdownGuards)

FairSpec == Spec /\ Fairness
-------------------------------------------------------------------------------
(* Safety.                                                                 *)

(* Two callbacks of one mutually exclusive group never run at the same     *)
(* time: canRun is rechecked before each take, enter follows on the same   *)
(* thread, and leave follows the callback (CallbackGroup.canRun, enter).   *)
MutualExclusion ==
  \A g \in MutuallyExclusive : \A k, l \in Active :
    InGroup(k, g) /\ InGroup(l, g) => k = l

(* Some thread has triggered the wakeup or is bound to. *)
WakeupPending ==
  \/ wakeup
  \/ adding # {}
  \/ ctx = "shutdown"
  \/ \E k \in Runners : phase[k] = "leaving"

(* The waiting thread never blocks on a stale wait set: with no wakeup on   *)
(* its way the context is up, and every registered entity is in the wait    *)
(* set unless a callback of its mutually exclusive group is running (the   *)
(* push, the leave and the rcl_shutdown all precede their trigger).        *)
NoLostWakeup ==
  pc = "wait" /\ ~WakeupPending =>
    /\ ctx = "ok"
    /\ \A w \in registry \ batch :
         /\ GroupOf[w] \in MutuallyExclusive
         /\ \E k \in Active : InGroup(k, GroupOf[w])

(* While blocked, no entity of a busy mutually exclusive group is in the   *)
(* wait set, so a held-back entity cannot turn the loop into a busy one    *)
(* (the filter on canRun in Executor.pass).                                *)
BusyGroupsAreNotWaitedOn ==
  pc = "wait" => \A w \in batch : CanRun(GroupOf[w])

(* spinMultiThreaded returns only after every callback it started is over,  *)
(* trigger of the wakeup included: the array it waits for at the end has    *)
(* never lost a task that was still running, for all the pruning after each *)
(* pass (Executor.lean:293-298).                                            *)
ReturnsAfterCallbacks ==
  pc = "returned" => \A k \in Runners : phase[k] = "idle"

(* Only a destroyed entity leaves the registry, whatever was added while   *)
(* liveWaitables looked for the dead.                                      *)
KeepsLiveRegistrations ==
  [][registry \ registry' \subseteq destroyed]_vars

-------------------------------------------------------------------------------
(* The inductive invariant behind the safety properties.                   *)

ReadyInv ==
  pc \in {"check", "take"} =>
    \A w \in batch : w \in GuardConditions \cup destroyed \/ queue[w] > 0

GroupInv ==
  /\ \A k \in Active : job[k] \in Waitables
  /\ \A g \in MutuallyExclusive :
       \/ running[g] = 0 /\ \A k \in Active : ~InGroup(k, g)
       \/ running[g] = 1 /\ \E k \in Active : InGroup(k, g)

RunnerInv ==
  /\ \A k \in Runners : phase[k] # "idle" => Runner(k)
  /\ phase[Self] = "callback" => pc = "take"
  /\ phase[Self] # "leaving"
  /\ \A k \in Workers : phase[k] # "idle" => k \in tasks

WakeInv ==
  /\ pc \in {"snapshot", "forget", "fill", "wait"} /\ ctx = "notified" => wakeup
  /\ pc \in {"forget", "fill"} => WakeupPending \/ registry \subseteq batch

ExecutorInv ==
  /\ TypeOK
  /\ ReadyInv
  /\ GroupInv
  /\ MutualExclusion
  /\ RunnerInv
  /\ WakeInv
  /\ NoLostWakeup
  /\ BusyGroupsAreNotWaitedOn
  /\ ReturnsAfterCallbacks

-------------------------------------------------------------------------------
(* Liveness, under FairSpec.                                               *)

Stopped == pc \in {"returned", "raised", "failed", "threw"}

(* A shutdown ends the loop, blocked or not. *)
ShutdownEndsSpin == ctx # "ok" ~> Stopped

(* No other entity competes for the group of w. *)
Uncontended(w) ==
  \/ GroupOf[w] \notin MutuallyExclusive
  \/ \A x \in Waitables : GroupOf[x] = GroupOf[w] => x = w

Handled(w) == (\E k \in Active : job[k] = w) \/ w \in destroyed \/ ctx # "ok" \/ Stopped

(* Data queued on a registered entity, or the trigger of a registered       *)
(* guard condition, reaches its callback unless its take comes to find      *)
(* nothing to run: always when callbacks run inline, and in                 *)
(* spinMultiThreaded when its group holds no other entity.                  *)
QueuedIsHandled ==
  \A w \in Waitables :
    queue[w] > 0 /\ w \in registry /\ (mode = "spin" \/ Uncontended(w))
      ~> Handled(w) \/ w \in hollow

(* Not so without the restriction for guard conditions: "run an action     *)
(* when it is triggered" (Waitable.ofGuardCondition).                      *)
TriggersAreHandled ==
  \A w \in GuardConditions : queue[w] > 0 /\ w \in registry ~> Handled(w)

(* "a destroyed one is dropped on the next pass": destroying an entity     *)
(* never makes a pass raise.                                               *)
DestroyedIsDropped == pc # "raised"
===============================================================================
