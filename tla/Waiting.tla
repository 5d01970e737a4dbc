-------------------------------- MODULE Waiting --------------------------------
(***************************************************************************)
(* The wait set in time: spinUntilComplete and spinOnce with their         *)
(* timeouts, timers that other threads and callbacks cancel and reset, and *)
(* callbacks that spin their own executor again, which clears and refills  *)
(* the one wait set under the pass that called them.                       *)
(*                                                                         *)
(* One thread spins; `stack` is its calls, the innermost first.  Time is   *)
(* what is left until something is due, so no clock has to be bounded.     *)
(***************************************************************************)
EXTENDS Integers, Sequences

CONSTANTS
  Timers, Guards, Clients,
  Registry,        \* every entity once, in the order of registration
  GroupOf,         \* its callback group, mutually exclusive
  Period,          \* of each timer
  Steered,         \* timers that the application cancels, resets and destroys
  Timeouts,        \* of an outermost spinUntilComplete
  NestedTimeouts,  \* of one that a callback calls
  MaxDepth,        \* bound: calls of spin inside one another
  Unbounded, Null

Entities == Timers \cup Guards \cup Clients

ASSUME WaitingAssumption ==
  /\ Timers \cap Guards = {} /\ Timers \cap Clients = {} /\ Guards \cap Clients = {}
  /\ Registry \in Seq(Entities)
  /\ \A i, j \in DOMAIN Registry : Registry[i] = Registry[j] => i = j
  /\ Period \in [Timers -> Nat \ {0}]
  /\ Steered \subseteq Timers
  /\ Timeouts \cup NestedTimeouts \subseteq Int \cup {Unbounded}
  /\ Unbounded \notin Int /\ Null \notin Entities

VARIABLES
  left,         \* until each timer is due; 0 once it is
  canceled,     \* timers that are
  gone,         \* timers that have been destroyed
  triggered,    \* guard conditions that are
  queued,       \* a response waits in its client's queue
  done,         \* the future spun on is complete
  ok,           \* the context is
  slots,        \* of each kind, what the wait set holds in each slot
  stack,        \* the calls of spin
  owed,         \* triggers that a wait reported, whose action is to follow
  rescheduled   \* timers reset since the last wait

world == <<left, canceled, gone, triggered, queued, ok>>
history == <<owed, rescheduled>>
vars == <<world, done, slots, stack, history>>

Kinds == {"timer", "guard", "client"}
KindOf(e) == IF e \in Timers THEN "timer" ELSE IF e \in Guards THEN "guard" ELSE "client"

Top == Head(stack)
SetTop(f) == stack' = <<f>> \o Tail(stack)

(* A call of spin: where it is, what is left of its timeout (negative once  *)
(* that is over) and of the current wait, the entities of the pass with     *)
(* their slots that are still to be looked at, the entity whose callback    *)
(* runs, and whether a nested pass has refilled the wait set meanwhile.     *)
Frames ==
  [pc : {"check", "fill", "wait", "take", "callback", "nesting", "after"},
   once : BOOLEAN, left : Int \cup {Unbounded}, wait : Int \cup {Unbounded},
   work : Seq(Entities \X Nat), cb : Entities \cup {Null}, stale : BOOLEAN]

Call(once, d) ==
  [pc |-> IF once THEN "fill" ELSE "check", once |-> once, left |-> d, wait |-> 0,
   work |-> <<>>, cb |-> Null, stale |-> FALSE]

Init ==
  /\ left = Period
  /\ canceled = {} /\ gone = {} /\ triggered = {} /\ queued = FALSE
  /\ done = FALSE /\ ok = TRUE
  /\ slots = [k \in Kinds |-> <<>>]
  /\ stack = <<>>
  /\ owed = {} /\ rescheduled = {}

-------------------------------------------------------------------------------
(* Calls and returns                                                       *)

(* spinUntilComplete on the future of a call just made, or spinSome.        *)
StartSpin ==
  /\ stack = <<>> /\ ok
  /\ \/ \E d \in Timeouts : stack' = <<Call(FALSE, d)>> /\ done' = FALSE
     \/ stack' = <<Call(TRUE, 0)>> /\ done' = done
  /\ UNCHANGED <<world, slots, history>>

(* A callback spins, at most once (bound), for the same future or to handle *)
(* what is ready.                                                           *)
Nest ==
  /\ stack # <<>> /\ Top.pc = "callback" /\ Len(stack) < MaxDepth
  /\ \E c \in {Call(TRUE, 0)} \cup {Call(FALSE, d) : d \in NestedTimeouts} :
       stack' = <<c, [Top EXCEPT !.pc = "nesting"]>> \o Tail(stack)
  /\ UNCHANGED <<world, done, slots, history>>

(* Mutant: the callback that made the call goes on as if nothing had.       *)
PopAlone == stack' = Tail(stack)

(* The innermost call ends; the callback that made it goes on.              *)
Pop ==
  stack' = IF Len(stack) = 1 THEN <<>>
           ELSE <<[stack[2] EXCEPT !.pc = "after"]>> \o Tail(Tail(stack))

(* The end of a pass: spinOnce returns, the loop goes round.                *)
AfterPass(f) ==
  IF f.once THEN Pop
  ELSE SetTop([f EXCEPT !.pc = "check", !.work = <<>>, !.stale = FALSE])

(* Mutant: the deadline is not looked at.                                   *)
StopsLate(f) == done \/ ~ok

Stops(f) == done \/ ~ok \/ (f.left \in Int /\ f.left <= 0)

(* The head of the loop of spinUntilComplete.                               *)
Check ==
  /\ stack # <<>> /\ Top.pc = "check"
  /\ IF Stops(Top) THEN Pop ELSE SetTop([Top EXCEPT !.pc = "fill", !.wait = Top.left])
  /\ UNCHANGED <<world, done, slots, history>>

-------------------------------------------------------------------------------
(* A pass                                                                  *)

(* The groups of the callbacks that the outer calls are in are busy.        *)
Busy == {GroupOf[stack[i].cb] : i \in {j \in DOMAIN stack : stack[j].cb # Null}}

(* The next of the registry, if it still exists and its group can run, is   *)
(* added to the slots of its kind, and its slot is remembered.              *)
LeftOut(e) == e \in gone \/ GroupOf[e] \in Busy

Add(pass, e) ==
  IF LeftOut(e) THEN pass
  ELSE [slots |-> [pass.slots EXCEPT ![KindOf(e)] = Append(@, e)],
        work  |-> Append(pass.work, <<e, Len(pass.slots[KindOf(e)]) + 1>>)]

Filled ==
  LET pass[i \in 0 .. Len(Registry)] ==
        IF i = 0 THEN [slots |-> [k \in Kinds |-> <<>>], work |-> <<>>]
        ELSE Add(pass[i - 1], Registry[i])
  IN  pass[Len(Registry)]

(* ensureCapacity, clear, and the additions.  A negative timeout reaches    *)
(* rcl_wait as one that never passes.                                       *)
Fill ==
  /\ stack # <<>> /\ Top.pc = "fill"
  /\ LET wait == IF Top.wait \in Int /\ Top.wait < 0 THEN Unbounded ELSE Top.wait
         pass == Filled
     IN  /\ slots' = pass.slots
         /\ stack' = [i \in DOMAIN stack |->
                       IF i = 1 THEN [Top EXCEPT !.pc = "wait", !.work = pass.work, !.wait = wait,
                                                 !.stale = FALSE]
                       ELSE [stack[i] EXCEPT !.stale = TRUE]]
  /\ owed' = IF Len(stack) > 1 THEN {} ELSE owed
  /\ UNCHANGED <<world, done, rescheduled>>

InSlots == {e \in Entities : \E k \in Kinds : \E i \in DOMAIN slots[k] : slots[k][i] = e}

ReadyNow(e) ==
  \/ e \in Timers \ canceled /\ left[e] = 0
  \/ e \in triggered
  \/ e \in Clients /\ queued

(* rcl_wait replaces what is not ready by NULL, and clears the guard        *)
(* conditions it reports.                                                   *)
Report(ready) ==
  /\ slots' = [k \in Kinds |->
                [i \in DOMAIN slots[k] |-> IF slots[k][i] \in ready THEN slots[k][i] ELSE Null]]
  /\ triggered' = triggered \ ready
  /\ owed' = IF ok THEN owed \cup (ready \cap Guards) ELSE {}
  /\ rescheduled' = {}
  /\ UNCHANGED <<left, canceled, gone, queued, ok, done>>

Looking == [Top EXCEPT !.pc = "take", !.wait = 0]

(* The wait ends because something is ready or the context is shut down,    *)
(* which the pass looks at next.                                            *)
WaitReady ==
  /\ stack # <<>> /\ Top.pc = "wait"
  /\ LET ready == {e \in InSlots : ReadyNow(e)}
     IN  /\ ready # {} \/ ~ok
         /\ Report(ready)
  /\ IF ok THEN SetTop(Looking) ELSE AfterPass(Looking)

(* It ends because its timeout has passed, and so does the pass.            *)
WaitTimesOut ==
  /\ stack # <<>> /\ Top.pc = "wait" /\ Top.wait = 0
  /\ \A e \in InSlots : ~ReadyNow(e)
  /\ ok
  /\ Report({})
  /\ AfterPass(Looking)

(* A timer that is reset interrupts the wait, with nothing ready.           *)
Interrupted ==
  /\ stack # <<>> /\ Top.pc = "wait" /\ rescheduled # {}
  /\ \A e \in InSlots : ~ReadyNow(e)
  /\ ok
  /\ Report({})
  /\ SetTop(Looking)

(* Mutant: the slot is not looked at.                                       *)
InSlot(e, i) == TRUE

SlotReady(e, i) ==
  i \in DOMAIN slots[KindOf(e)] /\ slots[KindOf(e)][i] # Null

(* rcl_timer_call does not look whether the timer is due.  The next call is *)
(* a period after the last one was due; one that is overdue skips to a      *)
(* multiple of the period that lies ahead.  Bound: two periods ahead.       *)
NextDue(tm) ==
  IF left[tm] > 0 THEN {IF left[tm] <= Period[tm] THEN left[tm] + Period[tm] ELSE left[tm]}
  ELSE 1 .. Period[tm]

Rest == [Top EXCEPT !.work = Tail(@)]
Working(e) ==
  stack # <<>> /\ Top.pc = "take" /\ Top.work # <<>> /\ Head(Top.work)[1] = e

(* takeIfReady of what is not ready, of a cancelled timer, or of a client   *)
(* whose response a nested pass has taken: there is nothing to run.         *)
Skip(e) ==
  /\ Working(e)
  /\ SlotReady(e, Head(Top.work)[2]) =>
       e \in canceled \ gone \/ (e \in Clients /\ ~queued)
  /\ SetTop(Rest)
  /\ UNCHANGED <<world, done, slots, history>>

TakeTimer(tm) ==
  /\ Working(tm) /\ SlotReady(tm, Head(Top.work)[2]) /\ tm \notin canceled \cup gone
  /\ \E n \in NextDue(tm) : left' = [left EXCEPT ![tm] = n]
  /\ SetTop([Rest EXCEPT !.pc = "callback", !.cb = tm])
  /\ UNCHANGED <<canceled, gone, triggered, queued, ok, done, slots, history>>

TakeGuard(g) ==
  /\ Working(g) /\ SlotReady(g, Head(Top.work)[2])
  /\ owed' = owed \ {g}
  /\ SetTop([Rest EXCEPT !.pc = "callback", !.cb = g])
  /\ UNCHANGED <<world, done, slots, rescheduled>>

(* The response completes the future, whose callbacks run here and now, in  *)
(* the client's group, as any other callback does.                          *)
TakeResponse(c) ==
  /\ Working(c) /\ SlotReady(c, Head(Top.work)[2]) /\ queued
  /\ queued' = FALSE
  /\ done' = TRUE
  /\ SetTop([Rest EXCEPT !.pc = "callback", !.cb = c])
  /\ UNCHANGED <<left, canceled, gone, triggered, ok, slots, history>>

(* What is left of the pass when an exception ends it: nobody looks at its  *)
(* triggers any more.                                                       *)
Abandon ==
  /\ Pop
  /\ owed' = {g \in owed : \A i \in DOMAIN Top.work : Top.work[i][1] # g}

(* The take itself raises, of a timer that a callback has destroyed since   *)
(* the wait, or of a response that cannot be read, which is gone with it.   *)
TakeRaises(e) ==
  /\ Working(e) /\ SlotReady(e, Head(Top.work)[2])
  /\ \/ e \in gone /\ UNCHANGED queued
     \/ e \in Clients /\ queued /\ queued' = FALSE
  /\ Abandon
  /\ UNCHANGED <<left, canceled, gone, triggered, ok, done, slots, rescheduled>>

(* Mutant: the pass ends with the first callback.                           *)
GoOnWithNothing(f) == [f EXCEPT !.pc = "take", !.cb = Null, !.work = <<>>]

GoOn(f) == [f EXCEPT !.pc = "take", !.cb = Null]

EndCallback ==
  /\ stack # <<>> /\ Top.pc \in {"callback", "after"}
  /\ SetTop(GoOn(Top))
  /\ UNCHANGED <<world, done, slots, history>>

(* An exception in a callback leaves the pass and the spin that runs it.    *)
CallbackRaises ==
  /\ stack # <<>> /\ Top.pc \in {"callback", "after"}
  /\ Abandon
  /\ UNCHANGED <<world, done, slots, rescheduled>>

EndPass ==
  /\ stack # <<>> /\ Top.pc = "take" /\ Top.work = <<>>
  /\ AfterPass(Top)
  /\ UNCHANGED <<world, done, slots, history>>

-------------------------------------------------------------------------------
(* Other threads, callbacks included, and time.  What they do between two   *)
(* calls of spin they may as well do once the second one has begun; after a *)
(* shutdown, which ends every call at its next look, it is of no effect.    *)

During == stack # <<>> /\ ok

Reset(tm) ==
  /\ During /\ tm \notin gone
  /\ left' = [left EXCEPT ![tm] = Period[tm]]
  /\ canceled' = canceled \ {tm}
  /\ rescheduled' = rescheduled \cup {tm}
  /\ UNCHANGED <<gone, triggered, queued, ok, done, slots, stack, owed>>

Cancel(tm) ==
  /\ During /\ tm \notin canceled \cup gone
  /\ canceled' = canceled \cup {tm}
  /\ UNCHANGED <<left, gone, triggered, queued, ok, done, slots, stack, history>>

(* A callback destroys a timer, its own or another's.  What a destruction   *)
(* by another thread may meet elsewhere in a pass is the executor's.        *)
Destroy(tm) ==
  /\ During /\ Top.pc \in {"callback", "after"}
  /\ tm \notin gone
  /\ gone' = gone \cup {tm}
  /\ UNCHANGED <<left, canceled, triggered, queued, ok, done, slots, stack, history>>

Trigger(g) ==
  /\ During /\ g \notin triggered
  /\ triggered' = triggered \cup {g}
  /\ UNCHANGED <<left, canceled, gone, queued, ok, done, slots, stack, history>>

Arrive ==
  /\ During /\ ~done /\ ~queued
  /\ queued' = TRUE
  /\ UNCHANGED <<left, canceled, gone, triggered, ok, done, slots, stack, history>>

Shutdown ==
  /\ During
  /\ ok' = FALSE
  /\ owed' = {}
  /\ UNCHANGED <<left, canceled, gone, triggered, queued, done, slots, stack, rescheduled>>

Less(n, floor) == IF n \in Int /\ n > floor THEN n - 1 ELSE n

Tick ==
  /\ left' = [tm \in Timers |-> Less(left[tm], 0)]
  /\ stack' = [i \in DOMAIN stack |->
                [stack[i] EXCEPT !.left = Less(@, -1),
                                 !.wait = IF stack[i].pc = "wait" THEN Less(@, 0) ELSE @]]
  /\ UNCHANGED <<canceled, gone, triggered, queued, ok, done, slots, history>>

-------------------------------------------------------------------------------
Spinner ==
  \/ Check \/ Fill \/ WaitReady \/ WaitTimesOut \/ EndCallback \/ EndPass
  \/ \E e \in Entities : Skip(e) \/ TakeRaises(e)
  \/ \E tm \in Timers : TakeTimer(tm)
  \/ \E g \in Guards : TakeGuard(g)
  \/ \E c \in Clients : TakeResponse(c)

Environment ==
  \/ StartSpin \/ Nest \/ CallbackRaises \/ Interrupted \/ Arrive \/ Shutdown
  \/ \E tm \in Steered : Reset(tm) \/ Cancel(tm) \/ Destroy(tm)
  \/ \E g \in Guards : Trigger(g)

Next == Spinner \/ Environment \/ Tick

Spec == Init /\ [][Next]_vars

(* The thread that spins is scheduled, callbacks end, and time goes on.     *)
FairSpec == Spec /\ WF_vars(Spinner) /\ WF_vars(Tick)

-------------------------------------------------------------------------------
(* Properties                                                              *)

(* The variables have their types; calls that wait for a callback are below *)
(* the one that runs.                                                       *)
TypeOK ==
  /\ left \in [Timers -> Nat]
  /\ canceled \subseteq Timers /\ gone \subseteq Timers
  /\ triggered \subseteq Guards
  /\ owed \subseteq Guards
  /\ rescheduled \subseteq Timers
  /\ {queued, done, ok} \subseteq BOOLEAN
  /\ slots \in [Kinds -> Seq(Entities \cup {Null})]
  /\ stack \in Seq(Frames)
  /\ \A i \in DOMAIN stack : stack[i].pc = "nesting" <=> i > 1

CallbackBegins(tm) ==
  stack # <<>> /\ stack' # <<>> /\ Len(stack) = Len(stack')
    /\ Top.cb # tm /\ Head(stack').cb = tm

(* The callback of a timer starts only if the timer is neither cancelled    *)
(* nor destroyed, even when that came after the wait had reported it; and   *)
(* not before the period has elapsed ("call it when its period has          *)
(* elapsed", Executor.lean:58), except for a timer that was reset between   *)
(* the wait and its turn in the pass, or in a pass that a nested spin has   *)
(* run over, whose slots now speak of another wait (WaitSet.lean:45-46).    *)
TimersFireWhenDue ==
  [][ \A tm \in Timers : CallbackBegins(tm) =>
        /\ tm \notin canceled \cup gone
        /\ left[tm] = 0 \/ tm \in rescheduled \/ Top.stale ]_vars

(* A trigger that a wait has reported, and cleared, is followed by the      *)
(* action, however long the pass is (Executor.lean:104, 221-230); unless a  *)
(* nested spin refilled the wait set, a callback or a take of the pass      *)
(* raised, or the context was shut down.                                    *)
ReportedTriggersAreHandled ==
  \A g \in owed : \E i \in DOMAIN stack :
    \E j \in DOMAIN stack[i].work : stack[i].work[j][1] = g

(* spinUntilComplete with a timeout returns, whatever timers, triggers and  *)
(* nested calls do: a timeout that is already over never reaches rcl_wait,  *)
(* where a negative one means for ever (Executor.lean:262-265).             *)
BoundedSpinsReturn ==
  (stack # <<>> /\ stack[Len(stack)].left # Unbounded) ~> stack = <<>>
===============================================================================
