---------------------------- MODULE ExecutorProofs ----------------------------
(* Proofs of the safety properties of Executor, for every set of entities,  *)
(* groups and workers.                                                      *)
EXTENDS Executor, TLAPS

(* Every variable keeps its type; what a pass still has to take from is     *)
(* there to be taken.                                                       *)
LEMMA TypeInit == Init => TypeOK /\ ReadyInv
<1> SUFFICES ASSUME Init
             PROVE  TypeOK /\ ReadyInv
  OBVIOUS
<1>1. /\ rank \in [Waitables -> Nat]
      /\ queue \in [Waitables -> 0 .. QueueDepth]
  BY ExecutorAssumption DEF Init
<1>2. /\ running \in [Groups -> Nat]
      /\ job \in [Runners -> Waitables \cup {NoJob}]
      /\ phase \in [Runners -> {"idle", "callback", "leaving"}]
  BY DEF Init
<1>3. QED
  <2>1. TypeOK
    <3>1. /\ pc \in PCs
          /\ mode \in {"spin", "spinMultiThreaded"}
          /\ wakeup \in BOOLEAN
          /\ ctx \in {"ok", "shutdown", "notified"}
      BY Zenon DEF Init, PCs
    <3>2. /\ batch \subseteq Waitables
          /\ registry \subseteq Waitables
          /\ adding \subseteq Waitables
          /\ destroyed \subseteq Waitables
          /\ hollow \subseteq Fallible
          /\ tasks \subseteq Workers
      BY Zenon DEF Init
    <3>3. nextId \in Nat \ {0}
      BY DEF Init
    <3>4. QED
      BY <1>1, <1>2, <3>1, <3>2, <3>3 DEF TypeOK
  <2>2. ReadyInv
    BY DEF Init, ReadyInv
  <2>3. QED
    BY <2>1, <2>2

(* Leaving a group keeps its counter a natural number. *)
LEMMA LeaveType ==
  ASSUME running \in [Groups -> Nat], NEW g, Leave(g)
  PROVE  running' \in [Groups -> Nat]
<1> DEFINE left(n) == IF n = 0 THEN 0 ELSE n - 1
<1>1. \A n \in Nat : left(n) \in Nat
  OBVIOUS
<1> HIDE DEF left
<1>2. running' = [running EXCEPT ![g] = left(@)]
  BY DEF Leave, left
<1>3. QED
  BY <1>1, <1>2

(* Every step of a pass, a callback or another thread keeps the types, and  *)
(* what Wait reports ready and Dispatch takes from is never empty.          *)
LEMMA TypeStep == TypeOK /\ ReadyInv /\ [Next]_vars => TypeOK' /\ ReadyInv'
<1> SUFFICES ASSUME TypeOK, ReadyInv, [Next]_vars
             PROVE  TypeOK' /\ ReadyInv'
  OBVIOUS
<1> USE ExecutorAssumption DEF TypeOK, ReadyInv, spinVars, addVars, ruined, jobVars, GoTo, PCs, AfterPass
<1>1. CASE Spin
  BY <1>1 DEF Spin
<1>2. CASE CheckContext
  BY <1>2 DEF CheckContext
<1>3. CASE Snapshot
  BY <1>3 DEF Snapshot
<1>4. CASE Forget
  BY <1>4 DEF Forget
<1>5. CASE Fill
  BY <1>5 DEF Fill, Eligible
<1>6. CASE Wait
  <2>1. PICK stale \in SUBSET (batch \cap destroyed) :
          LET ready == {w \in batch \ destroyed : queue[w] > 0} \cup stale
          IN  /\ batch' = ready
              /\ queue' = [w \in Waitables |->
                             IF w \in ready \cap GuardConditions THEN 0 ELSE queue[w]]
    BY <1>6 DEF Wait
  <2>2. UNCHANGED <<mode, registry, rank, nextId, adding, destroyed, hollow, ctx,
                    running, job, phase, tasks>>
    BY <1>6 DEF Wait
  <2>3. pc' = "check" /\ wakeup' = FALSE
    BY <1>6 DEF Wait
  <2>4. batch' \subseteq Waitables /\ queue' \in [Waitables -> 0 .. QueueDepth]
    BY <2>1
  <2>5. \A w \in batch' : w \in GuardConditions \cup destroyed' \/ queue'[w] > 0
    BY <2>1, <2>2
  <2>6. QED
    BY <2>2, <2>3, <2>4, <2>5
<1>7. CASE CheckAfterWait
  BY <1>7 DEF CheckAfterWait
<1>8. ASSUME NEW w \in Waitables, SkipBusy(w) \/ TakeRaises(w)
      PROVE  TypeOK' /\ ReadyInv'
  BY <1>8 DEF SkipBusy, TakeRaises, NextInPass
<1>9. ASSUME NEW w \in Waitables,
             TakeNothing(w) \/ \E k \in Runners : Dispatch(w, k)
      PROVE  TypeOK' /\ ReadyInv'
  <2>1. LeftAfterTaking(w) \in 0 .. QueueDepth
    BY <1>9 DEF TakeNothing, Dispatch, NextInPass, LeftAfterTaking
  <2>2. GroupOf[w] \in Groups
    OBVIOUS
  <2>3. CASE TakeNothing(w)
    BY <2>1, <2>3 DEF TakeNothing, NextInPass
  <2>4. ASSUME NEW k \in Runners, Dispatch(w, k)
        PROVE  TypeOK' /\ ReadyInv'
    <3>1. tasks' \subseteq Workers
      BY <2>4 DEF Dispatch, Start, Runners
    <3>2. /\ queue' \in [Waitables -> 0 .. QueueDepth]
          /\ running' \in [Groups -> Nat]
          /\ job' \in [Runners -> Waitables \cup {NoJob}]
          /\ phase' \in [Runners -> {"idle", "callback", "leaving"}]
      BY <2>1, <2>2, <2>4 DEF Dispatch, Start
    <3>3. QED
      BY <2>4, <3>1, <3>2 DEF Dispatch, Start, NextInPass
  <2>5. QED
    BY <1>9, <2>3, <2>4
<1>10. CASE EndPass \/ Prune \/ Drain
  BY <1>10 DEF EndPass, Prune, Drain
<1>11. ASSUME NEW k \in Runners, FinishTask(k) \/ EndTask(k)
       PROVE  TypeOK' /\ ReadyInv'
  <2>1. CASE FinishTask(k)
    <3>1. running' \in [Groups -> Nat]
      BY <2>1, LeaveType DEF FinishTask
    <3>2. /\ job' \in [Runners -> Waitables \cup {NoJob}]
          /\ phase' \in [Runners -> {"idle", "callback", "leaving"}]
      BY <2>1 DEF FinishTask
    <3>3. QED
      BY <2>1, <3>1, <3>2 DEF FinishTask
  <2>2. CASE EndTask(k)
    <3>1. phase' \in [Runners -> {"idle", "callback", "leaving"}]
      BY <2>2 DEF EndTask
    <3>2. QED
      BY <2>2, <3>1 DEF EndTask
  <2>3. QED
    BY <1>11, <2>1, <2>2
<1>12. ASSUME NEW next \in {pc, "threw"}, FinishInline(next)
       PROVE  TypeOK' /\ ReadyInv'
  <2>1. running' \in [Groups -> Nat]
    BY <1>12, LeaveType DEF FinishInline
  <2>2. /\ job' \in [Runners -> Waitables \cup {NoJob}]
        /\ phase' \in [Runners -> {"idle", "callback", "leaving"}]
    BY <1>12 DEF FinishInline
  <2>3. /\ pc' = next /\ batch' = IF next = pc THEN batch ELSE {}
        /\ UNCHANGED <<mode, registry, rank, nextId, adding, destroyed, hollow, queue,
                       wakeup, ctx, tasks>>
    BY <1>12 DEF FinishInline
  <2>4. next \in PCs
    BY DEF PCs
  <2>5. QED
    BY <2>1, <2>2, <2>3, <2>4
<1>13. ASSUME NEW w \in Waitables, Push(w) \/ WakeAfterPush(w)
       PROVE  TypeOK' /\ ReadyInv'
  <2>1. CASE Push(w)
    <3>1. rank' \in [Waitables -> Nat] /\ nextId' \in Nat \ {0}
      BY <2>1 DEF Push
    <3>2. QED
      BY <2>1, <3>1 DEF Push
  <2>2. CASE WakeAfterPush(w)
    BY <2>2 DEF WakeAfterPush
  <2>3. QED
    BY <1>13, <2>1, <2>2
<1>14. ASSUME NEW w \in Waitables, Arrive(w) \/ Destroy(w) \/ Hollow(w)
       PROVE  TypeOK' /\ ReadyInv'
  BY <1>14 DEF Arrive, Destroy, Hollow
<1>15. CASE Shutdown \/ TriggerShutdownGuards
  BY <1>15 DEF Shutdown, TriggerShutdownGuards
<1>16. CASE UNCHANGED vars
  BY <1>16 DEF vars
<1>17. QED
  BY <1>1, <1>2, <1>3, <1>4, <1>5, <1>6, <1>7, <1>8, <1>9, <1>10, <1>11,
     <1>12, <1>13, <1>14, <1>15, <1>16
     DEF Next, WaitingThread, TakeStep, CallbackStep, OtherThreads

(* Type correctness; a counter of Executor.queue never falls below zero.    *)
THEOREM TypeCorrect == Spec => []TypeOK
<1>1. Spec => [](TypeOK /\ ReadyInv)
  BY TypeInit, TypeStep, PTL DEF Spec
<1>2. QED
  BY <1>1, PTL

-------------------------------------------------------------------------------
(* Mutual exclusion.  A callback group's counter is 1 exactly while one     *)
(* callback of a mutually exclusive group runs.                             *)

Dispatching == \E w \in Waitables, k \in Runners : Dispatch(w, k)
Finishing   == \E k \in Runners : CallbackStep(k)

(* Every other step leaves the callbacks alone, and moves the waiting       *)
(* thread only when it is not inside one.                                   *)
LEMMA OtherSteps ==
  ASSUME TypeOK, RunnerInv, [Next]_vars, ~Dispatching, ~Finishing
  PROVE  /\ UNCHANGED <<mode, running, job, phase>>
         /\ pc' = pc \/ phase[Self] # "callback"
         /\ \A k \in tasks : k \in tasks' \/ phase[k] = "idle"
<1> USE DEF spinVars, addVars, ruined, jobVars, GoTo, RunnerInv
<1>1. CASE Spin \/ CheckContext \/ Snapshot \/ Forget \/ Fill
  BY <1>1 DEF Spin, CheckContext, Snapshot, Forget, Fill
<1>2. CASE Wait
  BY <1>2 DEF Wait
<1>3. CASE CheckAfterWait \/ EndPass \/ Prune \/ Drain
  BY <1>3 DEF CheckAfterWait, EndPass, Prune, Drain
<1>4. ASSUME NEW w \in Waitables, SkipBusy(w) \/ TakeRaises(w) \/ TakeNothing(w)
      PROVE  /\ UNCHANGED <<mode, running, job, phase, tasks>>
             /\ pc' = pc \/ phase[Self] # "callback"
  BY <1>4 DEF SkipBusy, TakeRaises, TakeNothing, NextInPass
<1>5. CASE OtherThreads
  BY <1>5 DEF OtherThreads, Push, WakeAfterPush, Arrive, Destroy, Hollow, Shutdown,
              TriggerShutdownGuards
<1>6. CASE UNCHANGED vars
  BY <1>6 DEF vars
<1>7. QED
  BY <1>1, <1>2, <1>3, <1>4, <1>5, <1>6
     DEF Next, WaitingThread, TakeStep, Dispatching, Finishing

(* enter and leave keep CallbackGroup.running equal to the number of         *)
(* callbacks of a mutually exclusive group that run, at most one.           *)
LEMMA GroupStep ==
  ASSUME TypeOK, GroupInv, MutualExclusion, RunnerInv, [Next]_vars
  PROVE  GroupInv' /\ MutualExclusion' /\ RunnerInv'
<1> USE ExecutorAssumption
<1>1. CASE ~Dispatching /\ ~Finishing
  <2>1. /\ UNCHANGED <<mode, running, job, phase>>
        /\ pc' = pc \/ phase[Self] # "callback"
        /\ \A k \in tasks : k \in tasks' \/ phase[k] = "idle"
    BY <1>1, OtherSteps
  <2>2. UNCHANGED Active
    BY <2>1 DEF Active
  <2>3. GroupInv' /\ MutualExclusion'
    BY <2>1, <2>2 DEF GroupInv, MutualExclusion, InGroup
  <2>4. RunnerInv'
    BY <2>1 DEF RunnerInv, Runner
  <2>5. QED
    BY <2>3, <2>4
<1>2. ASSUME NEW w \in Waitables, NEW k \in Runners, Dispatch(w, k)
      PROVE  GroupInv' /\ MutualExclusion' /\ RunnerInv'
  <2>1. /\ phase[k] = "idle"
        /\ phase' = [phase EXCEPT ![k] = "callback"]
        /\ job' = [job EXCEPT ![k] = w]
        /\ running' = [running EXCEPT ![GroupOf[w]] = @ + 1]
        /\ UNCHANGED <<pc, mode>>
        /\ pc = "take" /\ Runner(k)
        /\ CanRun(GroupOf[w])
        /\ tasks' = tasks \cup ({k} \ {Self})
    BY <1>2 DEF Dispatch, Start, NextInPass
  <2>2. Active' = Active \cup {k} /\ k \notin Active
    BY <2>1 DEF Active, TypeOK
  <2>3. /\ job'[k] = w
        /\ \A l \in Runners \ {k} : job'[l] = job[l]
    BY <2>1 DEF TypeOK
  <2>4. \A g \in Groups : running'[g] = IF g = GroupOf[w] THEN running[g] + 1 ELSE running[g]
    BY <2>1 DEF TypeOK
  <2>5. GroupOf[w] \in MutuallyExclusive => \A l \in Active : ~InGroup(l, GroupOf[w])
    BY <2>1 DEF CanRun, GroupInv
  <2>6. Active \subseteq Runners /\ \A g \in MutuallyExclusive : g \in Groups
    BY DEF Active
  <2>7. \A g : InGroup(k, g)' <=> g = GroupOf[w]
    BY <2>3 DEF InGroup
  <2>8. \A g : \A l \in Active : InGroup(l, g)' <=> InGroup(l, g)
    BY <2>2, <2>3, <2>6 DEF InGroup
  <2>9. MutualExclusion'
    BY <2>2, <2>5, <2>7, <2>8 DEF MutualExclusion
  <2>10. GroupInv'
    <3>1. \A l \in Active' : job'[l] \in Waitables
      BY <2>2, <2>3, <2>6 DEF GroupInv
    <3>2. ASSUME NEW g \in MutuallyExclusive
          PROVE  \/ running'[g] = 0 /\ \A l \in Active' : ~InGroup(l, g)'
                 \/ running'[g] = 1 /\ \E l \in Active' : InGroup(l, g)'
      <4>1. CASE g = GroupOf[w]
        <5>1. running[g] = 0
          BY <2>1, <4>1 DEF CanRun
        <5>2. running'[g] = 1
          BY <2>4, <2>6, <4>1, <5>1
        <5>3. QED
          BY <2>2, <2>7, <4>1, <5>2
      <4>2. CASE g # GroupOf[w]
        <5>1. running'[g] = running[g]
          BY <2>4, <2>6, <4>2
        <5>2. QED
          BY <2>2, <2>7, <2>8, <4>2, <5>1 DEF GroupInv
      <4>3. QED
        BY <4>1, <4>2
    <3>3. QED
      BY <3>1, <3>2 DEF GroupInv
  <2>11. RunnerInv'
    BY <2>1 DEF RunnerInv, Runner, TypeOK
  <2>12. QED
    BY <2>9, <2>10, <2>11
<1>3. ASSUME NEW k \in Runners, phase[k] = "callback", Leave(GroupOf[job[k]]),
             phase' = [phase EXCEPT ![k] = IF k = Self THEN "idle" ELSE "leaving"],
             \A l \in Runners \ {k} : job'[l] = job[l],
             UNCHANGED <<mode, tasks>>
      PROVE  GroupInv' /\ MutualExclusion' /\ RunnerInv'
  <2>1. Active' = Active \ {k} /\ k \in Active /\ Active \subseteq Runners
    BY <1>3 DEF Active, TypeOK
  <2>2. job[k] \in Waitables /\ GroupOf[job[k]] \in Groups
    BY <2>1 DEF GroupInv
  <2>3. \A g \in Groups :
           running'[g] = IF g # GroupOf[job[k]] THEN running[g]
                         ELSE IF running[g] = 0 THEN 0 ELSE running[g] - 1
    BY <1>3, <2>2 DEF Leave, TypeOK
  <2>4. \A g : \A l \in Active' : InGroup(l, g)' <=> InGroup(l, g)
    BY <1>3, <2>1 DEF InGroup
  <2>5. InGroup(k, GroupOf[job[k]])
    BY <2>2 DEF InGroup
  <2>6. MutualExclusion'
    BY <2>1, <2>4 DEF MutualExclusion
  <2>7. \A l \in Active' : job'[l] \in Waitables
    BY <1>3, <2>1 DEF GroupInv
  <2>8. ASSUME NEW g \in MutuallyExclusive
        PROVE  \/ running'[g] = 0 /\ \A l \in Active' : ~InGroup(l, g)'
               \/ running'[g] = 1 /\ \E l \in Active' : InGroup(l, g)'
    <3>1. CASE g = GroupOf[job[k]]
      <4>1. running[g] = 1
        BY <2>1, <2>5, <3>1 DEF GroupInv
      <4>2. running'[g] = 0
        BY <2>3, <3>1, <4>1
      <4>3. \A l \in Active' : ~InGroup(l, g)'
        BY <2>1, <2>4, <2>5, <3>1 DEF MutualExclusion
      <4>4. QED
        BY <4>2, <4>3
    <3>2. CASE g # GroupOf[job[k]]
      <4>1. running'[g] = running[g]
        BY <2>3, <3>2
      <4>2. ~InGroup(k, g)
        BY <3>2 DEF InGroup
      <4>3. QED
        BY <2>1, <2>4, <4>1, <4>2 DEF GroupInv
    <3>3. QED
      BY <3>1, <3>2
  <2>9. GroupInv'
    BY <2>7, <2>8 DEF GroupInv
  <2>10. RunnerInv'
    BY <1>3 DEF RunnerInv, Runner, TypeOK, Runners
  <2>11. QED
    BY <2>6, <2>9, <2>10
<1>4. ASSUME NEW k \in Runners, FinishTask(k)
      PROVE  GroupInv' /\ MutualExclusion' /\ RunnerInv'
  <2>1. \A l \in Runners \ {k} : job'[l] = job[l]
    BY <1>4 DEF FinishTask, TypeOK
  <2>2. k # Self
    BY <1>4 DEF FinishTask
  <2>3. QED
    BY <1>3, <1>4, <2>1, <2>2 DEF FinishTask, spinVars
<1>5. ASSUME NEW next \in {pc, "threw"}, FinishInline(next)
      PROVE  GroupInv' /\ MutualExclusion' /\ RunnerInv'
  <2>1. Self \in Runners
    BY DEF Runners
  <2>2. QED
    BY <1>3, <1>5, <2>1 DEF FinishInline, TypeOK
<1>6. ASSUME NEW k \in Runners, EndTask(k)
      PROVE  GroupInv' /\ MutualExclusion' /\ RunnerInv'
  <2>1. /\ phase[k] = "leaving"
        /\ phase' = [phase EXCEPT ![k] = "idle"]
        /\ UNCHANGED <<pc, mode, running, job, tasks>>
    BY <1>6 DEF EndTask, spinVars
  <2>2. Active' = Active /\ k \notin Active /\ Active \subseteq Runners
    BY <2>1 DEF Active, TypeOK
  <2>3. \A l \in Active : job'[l] = job[l]
    BY <2>1, <2>2 DEF TypeOK
  <2>4. \A g : \A l \in Active : InGroup(l, g)' <=> InGroup(l, g)
    BY <2>3 DEF InGroup
  <2>5. MutualExclusion' /\ GroupInv'
    BY <2>1, <2>2, <2>3, <2>4 DEF MutualExclusion, GroupInv
  <2>6. RunnerInv'
    BY <2>1 DEF RunnerInv, Runner, TypeOK
  <2>7. QED
    BY <2>5, <2>6
<1>7. QED
  BY <1>1, <1>2, <1>4, <1>5, <1>6 DEF Dispatching, Finishing, CallbackStep

(* No callback runs and no group is entered at first.                        *)
LEMMA GroupInit == Init => GroupInv /\ MutualExclusion /\ RunnerInv
  BY ExecutorAssumption
     DEF Init, GroupInv, MutualExclusion, RunnerInv, Active, Runners

(* Two callbacks of one mutually exclusive group never run together.        *)
THEOREM MutuallyExclusiveGroups == Spec => []MutualExclusion
<1> DEFINE I == TypeOK /\ ReadyInv /\ GroupInv /\ MutualExclusion /\ RunnerInv
<1>1. Init => I
  BY TypeInit, GroupInit
<1>2. I /\ [Next]_vars => I'
  BY TypeStep, GroupStep
<1>3. QED
  BY <1>1, <1>2, PTL DEF Spec

-------------------------------------------------------------------------------
(* Waking the waiting thread.  An entity can be missing from the wait set    *)
(* for two reasons: it was pushed after the snapshot, and then its trigger  *)
(* is still on the way or unconsumed; or its group was busy, and then the   *)
(* callback that keeps it busy has yet to trigger the wakeup.               *)

(* A wakeup that is on its way stays so until rcl_wait observes it.         *)
LEMMA PendingStaysPending ==
  ASSUME TypeOK, RunnerInv, [Next]_vars, WakeupPending, pc' = "wait" \/ pc # "wait"
  PROVE  WakeupPending'
<1> USE DEF spinVars, addVars, ruined, jobVars, GoTo, WakeupPending
<1>1. CASE Spin \/ CheckContext \/ Snapshot \/ Forget \/ Fill
  BY <1>1 DEF Spin, CheckContext, Snapshot, Forget, Fill
<1>2. CASE Wait
  BY <1>2 DEF Wait
<1>3. CASE CheckAfterWait \/ EndPass \/ Prune \/ Drain
  BY <1>3 DEF CheckAfterWait, EndPass, Prune, Drain
<1>4. ASSUME NEW w \in Waitables, SkipBusy(w) \/ TakeRaises(w) \/ TakeNothing(w)
      PROVE  WakeupPending'
  BY <1>4 DEF SkipBusy, TakeRaises, TakeNothing
<1>5. ASSUME NEW w \in Waitables, NEW k \in Runners, Dispatch(w, k)
      PROVE  WakeupPending'
  <2>1. \A l \in Runners : phase[l] = "leaving" => phase'[l] = "leaving"
    BY <1>5 DEF Dispatch, Start, TypeOK
  <2>2. UNCHANGED <<wakeup, adding, ctx>>
    BY <1>5 DEF Dispatch, Start
  <2>3. QED
    BY <2>1, <2>2
<1>6. ASSUME NEW k \in Runners, FinishTask(k) \/ EndTask(k)
      PROVE  WakeupPending'
  <2>1. CASE FinishTask(k)
    <3>1. phase'[k] = "leaving"
      BY <2>1 DEF FinishTask, TypeOK
    <3>2. QED
      BY <3>1
  <2>2. CASE EndTask(k)
    BY <2>2 DEF EndTask
  <2>3. QED
    BY <1>6, <2>1, <2>2
<1>7. ASSUME NEW next \in {pc, "threw"}, FinishInline(next)
      PROVE  WakeupPending'
  <2>1. \A l \in Runners : phase[l] = "leaving" => phase'[l] = "leaving"
    BY <1>7 DEF FinishInline, TypeOK
  <2>2. UNCHANGED <<wakeup, adding, ctx>>
    BY <1>7 DEF FinishInline
  <2>3. QED
    BY <2>1, <2>2
<1>8. ASSUME NEW w \in Waitables, Push(w) \/ WakeAfterPush(w)
      PROVE  WakeupPending'
  BY <1>8 DEF Push, WakeAfterPush
<1>9. ASSUME NEW w \in Waitables, Arrive(w) \/ Destroy(w) \/ Hollow(w)
      PROVE  WakeupPending'
  BY <1>9 DEF Arrive, Destroy, Hollow
<1>10. CASE Shutdown \/ TriggerShutdownGuards
  BY <1>10 DEF Shutdown, TriggerShutdownGuards
<1>11. CASE UNCHANGED vars
  BY <1>11 DEF vars
<1>12. QED
  BY <1>1, <1>2, <1>3, <1>4, <1>5, <1>6, <1>7, <1>8, <1>9, <1>10, <1>11
     DEF Next, WaitingThread, TakeStep, CallbackStep, OtherThreads

Waking == WakeInv /\ NoLostWakeup /\ BusyGroupsAreNotWaitedOn /\ ReturnsAfterCallbacks

(* The waiting thread does not wait at first.                                *)
LEMMA WakeInit == Init => Waking
  BY DEF Init, Waking, WakeInv, NoLostWakeup, BusyGroupsAreNotWaitedOn,
         ReturnsAfterCallbacks

(* Every step keeps a wakeup on its way for whatever the wait set lacks.     *)
LEMMA WakeStep ==
  ASSUME TypeOK, GroupInv, RunnerInv, Waking, [Next]_vars
  PROVE  Waking'
<1> USE ExecutorAssumption DEF spinVars, addVars, ruined, jobVars, GoTo, Waking, AfterPass
<1>1. CASE Spin
  BY <1>1 DEF Spin, WakeInv, NoLostWakeup, BusyGroupsAreNotWaitedOn, ReturnsAfterCallbacks
<1>2. CASE CheckContext
  <2>1. ASSUME pc' = "returned", NEW k \in Runners
        PROVE  phase[k] = "idle"
    BY <1>2, <2>1 DEF CheckContext, RunnerInv, Runner, TypeOK
  <2>2. /\ pc' \in {"snapshot", "drain", "returned"}
        /\ pc' = "snapshot" => ctx = "ok"
        /\ UNCHANGED <<ctx, phase>>
    BY <1>2 DEF CheckContext
  <2>3. QED
    BY <2>1, <2>2
       DEF WakeInv, NoLostWakeup, BusyGroupsAreNotWaitedOn, ReturnsAfterCallbacks
<1>3. CASE Snapshot
  BY <1>3 DEF Snapshot, WakeInv, NoLostWakeup, BusyGroupsAreNotWaitedOn,
              ReturnsAfterCallbacks
<1>4. CASE Forget
  <2>1. WakeupPending => WakeupPending'
    BY <1>4, PendingStaysPending DEF Forget
  <2>2. QED
    BY <1>4, <2>1 DEF Forget, WakeInv, NoLostWakeup, BusyGroupsAreNotWaitedOn,
                      ReturnsAfterCallbacks
<1>5. CASE Fill
  <2>1. WakeupPending' = WakeupPending
    BY <1>5 DEF Fill, WakeupPending
  <2>2. /\ pc' \in {"wait", "raised"}
        /\ pc' = "wait" => batch' = Eligible
        /\ UNCHANGED <<registry, wakeup, ctx, running, job, phase>>
        /\ pc = "fill"
    BY <1>5 DEF Fill
  <2>3. BusyGroupsAreNotWaitedOn'
    BY <2>2 DEF BusyGroupsAreNotWaitedOn, Eligible, CanRun
  <2>4. ASSUME ~WakeupPending, NEW w \in registry \ Eligible
        PROVE  /\ GroupOf[w] \in MutuallyExclusive
               /\ \E k \in Active : InGroup(k, GroupOf[w])
    <3>1. w \in batch
      BY <2>2, <2>4 DEF WakeInv
    <3>2. ~CanRun(GroupOf[w])
      BY <2>4, <3>1 DEF Eligible
    <3>3. QED
      BY <3>2 DEF CanRun, GroupInv
  <2>5. ~WakeupPending => ctx = "ok"
    BY <2>2 DEF WakeInv, WakeupPending, TypeOK
  <2>6. UNCHANGED Active /\ \A k, g : InGroup(k, g)' <=> InGroup(k, g)
    BY <2>2 DEF Active, InGroup
  <2>7. NoLostWakeup'
    BY <2>1, <2>2, <2>4, <2>5, <2>6 DEF NoLostWakeup
  <2>8. QED
    BY <2>2, <2>3, <2>7 DEF WakeInv, ReturnsAfterCallbacks
<1>6. CASE Wait
  BY <1>6 DEF Wait, WakeInv, NoLostWakeup, BusyGroupsAreNotWaitedOn, ReturnsAfterCallbacks
<1>7. CASE CheckAfterWait \/ EndPass \/ Prune
  BY <1>7 DEF CheckAfterWait, EndPass, Prune, WakeInv, NoLostWakeup, BusyGroupsAreNotWaitedOn,
              ReturnsAfterCallbacks
<1>8. CASE Drain
  <2>1. \A k \in Runners : phase[k] = "idle"
    BY <1>8 DEF Drain, Runners, RunnerInv, TypeOK
  <2>2. QED
    BY <1>8, <2>1 DEF Drain, WakeInv, NoLostWakeup, BusyGroupsAreNotWaitedOn,
                      ReturnsAfterCallbacks
<1>9. ASSUME NEW w \in Waitables, SkipBusy(w) \/ TakeRaises(w) \/ TakeNothing(w)
      PROVE  Waking'
  BY <1>9 DEF SkipBusy, TakeRaises, TakeNothing, NextInPass, WakeInv, NoLostWakeup,
              BusyGroupsAreNotWaitedOn, ReturnsAfterCallbacks
<1>10. ASSUME NEW w \in Waitables, NEW k \in Runners, Dispatch(w, k)
       PROVE  Waking'
  BY <1>10 DEF Dispatch, Start, NextInPass, WakeInv, NoLostWakeup, BusyGroupsAreNotWaitedOn,
               ReturnsAfterCallbacks
<1>11. ASSUME NEW k \in Runners, FinishTask(k) \/ EndTask(k)
       PROVE  Waking'
  <2>1. pc # "returned" /\ pc' = pc
    BY <1>11 DEF ReturnsAfterCallbacks, FinishTask, EndTask
  <2>2. WakeupPending'
    <3>1. CASE FinishTask(k)
      BY <3>1 DEF FinishTask, TypeOK, WakeupPending
    <3>2. CASE EndTask(k)
      BY <3>2 DEF EndTask, WakeupPending
    <3>3. QED
      BY <1>11, <3>1, <3>2
  <2>3. BusyGroupsAreNotWaitedOn'
    <3>1. UNCHANGED batch
      BY <1>11 DEF FinishTask, EndTask
    <3>2. \A g \in Groups : CanRun(g) => CanRun(g)'
      BY <1>11 DEF FinishTask, EndTask, Leave, CanRun, TypeOK
    <3>3. QED
      BY <2>1, <3>1, <3>2 DEF BusyGroupsAreNotWaitedOn, TypeOK
  <2>4. WakeInv'
    BY <1>11, <2>2 DEF FinishTask, EndTask, WakeInv
  <2>5. QED
    BY <2>1, <2>2, <2>3, <2>4 DEF NoLostWakeup, ReturnsAfterCallbacks
<1>12. ASSUME NEW next \in {pc, "threw"}, FinishInline(next)
       PROVE  Waking'
  <2>1. pc' \in {"take", "threw"}
    BY <1>12 DEF FinishInline, RunnerInv
  <2>2. QED
    BY <2>1 DEF WakeInv, NoLostWakeup, BusyGroupsAreNotWaitedOn, ReturnsAfterCallbacks
<1>13. ASSUME UNCHANGED <<pc, batch, running, phase>>, WakeupPending',
              ctx' = "notified" => wakeup' \/ UNCHANGED <<ctx, wakeup>>
       PROVE  Waking'
  <2>1. BusyGroupsAreNotWaitedOn'
    BY <1>13 DEF BusyGroupsAreNotWaitedOn, CanRun
  <2>2. QED
    BY <1>13, <2>1 DEF WakeInv, NoLostWakeup, ReturnsAfterCallbacks
<1>14. ASSUME NEW w \in Waitables, Push(w) \/ WakeAfterPush(w)
       PROVE  Waking'
  BY <1>13, <1>14 DEF Push, WakeAfterPush, WakeupPending
<1>15. ASSUME UNCHANGED <<pc, batch, registry, adding, wakeup, ctx, running, job, phase>>
       PROVE  Waking'
  BY <1>15 DEF WakeInv, NoLostWakeup, BusyGroupsAreNotWaitedOn, ReturnsAfterCallbacks,
               WakeupPending, CanRun, Active, InGroup
<1>16. ASSUME NEW w \in Waitables, Arrive(w) \/ Destroy(w) \/ Hollow(w)
       PROVE  Waking'
  BY <1>15, <1>16 DEF Arrive, Destroy, Hollow
<1>17. CASE Shutdown \/ TriggerShutdownGuards
  BY <1>13, <1>17 DEF Shutdown, TriggerShutdownGuards, WakeupPending
<1>18. CASE UNCHANGED vars
  BY <1>15, <1>18 DEF vars
<1>19. QED
  BY <1>1, <1>2, <1>3, <1>4, <1>5, <1>6, <1>7, <1>8, <1>9, <1>10, <1>11, <1>12,
     <1>14, <1>16, <1>17, <1>18
     DEF Next, WaitingThread, TakeStep, CallbackStep, OtherThreads

(* The whole inductive invariant. *)
THEOREM Invariance == Spec => []ExecutorInv
<1>1. Init => ExecutorInv
  BY TypeInit, GroupInit, WakeInit DEF ExecutorInv, Waking
<1>2. ExecutorInv /\ [Next]_vars => ExecutorInv'
  BY TypeStep, GroupStep, WakeStep DEF ExecutorInv, Waking
<1>3. QED
  BY <1>1, <1>2, PTL DEF Spec

(* The waiting thread never blocks on a stale wait set. *)
THEOREM WakeupsAreNotLost == Spec => []NoLostWakeup
  BY Invariance, PTL DEF ExecutorInv

(* While it is blocked, no entity of a busy group is waited on. *)
THEOREM BusyGroupsStayOut == Spec => []BusyGroupsAreNotWaitedOn
  BY Invariance, PTL DEF ExecutorInv

(* The loop returns only after the callbacks it started: a task that is not *)
(* over stays in the array, whatever is pruned from it (RunnerInv).         *)
THEOREM CallbacksEndFirst == Spec => []ReturnsAfterCallbacks
  BY Invariance, PTL DEF ExecutorInv

(* Only a destroyed entity ever leaves the registry. *)
THEOREM LiveRegistrationsStay == Spec => KeepsLiveRegistrations
<1>1. TypeOK /\ [Next]_vars => [registry \ registry' \subseteq destroyed]_vars
  BY DEF Next, WaitingThread, TakeStep, CallbackStep, OtherThreads, spinVars, addVars,
         ruined, jobVars, TakeNothing, Start, Prune, Hollow, Spin, CheckContext, Snapshot, Forget, Fill, Wait, CheckAfterWait,
         SkipBusy, TakeRaises, Dispatch, EndPass, Drain, FinishTask, EndTask,
         FinishInline, Push, WakeAfterPush, Arrive, Destroy, Shutdown,
         TriggerShutdownGuards
<1>2. QED
  BY <1>1, TypeCorrect, PTL DEF Spec, KeepsLiveRegistrations
===============================================================================
