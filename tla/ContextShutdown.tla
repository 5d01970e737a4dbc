--------------------------- MODULE ContextShutdown ----------------------------
(***************************************************************************)
(* Bringing contexts up and down: Context.shutdown called by application   *)
(* threads, Ctrl-C through the signal thread, executors blocked on a       *)
(* guard condition registered with the context, and the finalizers of      *)
(* guard conditions and contexts.                                          *)
(*                                                                         *)
(* Three mutexes protect this: the tree mutex (destroyable.c), held for a  *)
(* whole teardown; the context table mutex (signal_handler.c), which the   *)
(* signal thread holds while it walks the table; and the guards mutex      *)
(* (context.c), which it holds while it shuts one context down.  Every     *)
(* other critical section is one update, so it is one step, enabled while  *)
(* nobody holds the mutex.                                                 *)
(***************************************************************************)
EXTENDS Naturals, Sequences, Functions

CONSTANTS
  Threads,      \* application threads
  Contexts,
  Asking,       \* those initialized with installSignalHandlers
  Guards,       \* guard conditions, each the wakeup of one executor
  ParentOf,     \* the context of each guard condition
  NoOne,        \* a free mutex, an operation on nothing
  MaxContexts,  \* RCLLEAN_MAX_CONTEXTS
  MaxGuards,    \* RCLLEAN_MAX_SHUTDOWN_GUARDS
  MaxSignals    \* bound: signals delivered

ASSUME ContextAssumption ==
  /\ Asking \subseteq Contexts
  /\ ParentOf \in [Guards -> Contexts]
  /\ NoOne \notin Threads \cup Contexts \cup Guards
  /\ Contexts \cap Guards = {}
  /\ {MaxContexts, MaxGuards, MaxSignals} \subseteq Nat

VARIABLES
  life,       \* "absent", "live", "closing" (valid cleared), "gone" (rcl fini done)
  held,       \* contexts the application still refers to
  rclOk,      \* contexts rcl_context_is_valid accepts
  listed,     \* shutdown_guards of each context
  triggered,  \* guard conditions with an unconsumed trigger
  table,      \* g_contexts
  handlers,   \* the signal handlers are installed, once for the process
  signals,    \* signals not delivered yet
  sem,        \* g_signal_sem
  sigPc,      \* where the signal thread is
  sigNext,    \* its index into the table
  target,     \* the context it is shutting down
  treeMutex,  \* the thread inside a teardown
  pc, arg     \* the operation each thread is in, and on what

sigVars == <<handlers, signals, sem, sigPc, sigNext, target>>
vars == <<life, held, rclOk, listed, triggered, table, sigVars, treeMutex, pc, arg>>

(* Removal from an unordered C array: the last element takes the place of   *)
(* the first match.                                                         *)
SwapRemove(s, x) ==
  IF x \notin Range(s) THEN s
  ELSE LET i == CHOOSE i \in DOMAIN s : s[i] = x /\ \A j \in 1 .. i - 1 : s[j] # x
       IN  SubSeq([s EXCEPT ![i] = s[Len(s)]], 1, Len(s) - 1)

Init ==
  /\ life = [h \in Contexts \cup Guards |-> "absent"]
  /\ held = {}
  /\ rclOk = {}
  /\ listed = [c \in Contexts |-> <<>>]
  /\ triggered = {}
  /\ table = <<>>
  /\ handlers = FALSE
  /\ signals = MaxSignals
  /\ sem = 0
  /\ sigPc = "sem_wait"
  /\ sigNext = 1
  /\ target = NoOne
  /\ treeMutex = NoOne
  /\ pc = [t \in Threads |-> "idle"]
  /\ arg = [t \in Threads |-> NoOne]

Enter(t, step, h) ==
  /\ pc[t] = "idle"
  /\ pc' = [pc EXCEPT ![t] = step]
  /\ arg' = [arg EXCEPT ![t] = h]

GoTo(t, from, to) ==
  /\ pc[t] = from
  /\ pc' = [pc EXCEPT ![t] = to]
  /\ arg' = IF to = "idle" THEN [arg EXCEPT ![t] = NoOne] ELSE arg

TableFree == sigPc \notin {"walk", "shutdown", "notify"}
GuardsFree == sigPc \notin {"shutdown", "notify"}

(* A thread may use what it, or an executor it runs, refers to. *)
InUse(h) == \E t \in Threads : arg[t] = h

-------------------------------------------------------------------------------
(* Creation.                                                               *)

(* rcl_init has succeeded; the signal thread does not know the context yet. *)
InitContext(t, c) ==
  /\ life[c] = "absent"
  /\ ~InUse(c)
  /\ Enter(t, "register", c)
  /\ life' = [life EXCEPT ![c] = "live"]
  /\ rclOk' = rclOk \cup {c}
  /\ UNCHANGED <<held, listed, triggered, table, sigVars, treeMutex>>

(* rcllean_signal_register, of every context; past the limit it is left     *)
(* out.  If no handlers are asked for the application gets the context.     *)
RegisterContext(t) ==
  LET c == arg[t]
  IN  /\ pc[t] = "register"
      /\ TableFree
      /\ GoTo(t, "register", IF c \in Asking THEN "install" ELSE "idle")
      /\ table' = IF Len(table) < MaxContexts THEN Append(table, c) ELSE table
      /\ held' = IF c \in Asking THEN held ELSE held \cup {c}
      /\ UNCHANGED <<life, rclOk, listed, triggered, sigVars, treeMutex>>

(* rcllean_signal_install_handlers *)
InstallHandlers(t) ==
  /\ GoTo(t, "install", "idle")
  /\ handlers' = TRUE
  /\ held' = held \cup {arg[t]}
  /\ UNCHANGED <<life, rclOk, listed, triggered, table, signals, sem, sigPc, sigNext, target,
                 treeMutex>>

(* Executor.create: the guard condition, ... *)
CreateGuard(t, g) ==
  /\ life[g] = "absent"
  /\ life[ParentOf[g]] = "live"
  /\ ParentOf[g] \in held
  /\ treeMutex = NoOne
  /\ ~InUse(g)
  /\ Enter(t, "addGuard", g)
  /\ life' = [life EXCEPT ![g] = "live"]
  /\ UNCHANGED <<held, rclOk, listed, triggered, table, sigVars, treeMutex>>

(* Mutant: the list has no limit. *)
AddUnbounded(t) ==
  LET c == ParentOf[arg[t]]
  IN  /\ pc[t] = "addGuard"
      /\ GuardsFree
      /\ GoTo(t, "addGuard", "idle")
      /\ listed' = [listed EXCEPT ![c] = Append(@, arg[t])]
      /\ UNCHANGED <<life, held, rclOk, triggered, table, sigVars, treeMutex>>

(* ... registered with its context; if there is no room the creation raises *)
(* and the guard condition is dropped.                                      *)
AddShutdownGuard(t) ==
  LET g == arg[t]
      c == ParentOf[g]
      room == Len(listed[c]) < MaxGuards
  IN  /\ pc[t] = "addGuard"
      /\ GuardsFree
      /\ GoTo(t, "addGuard", IF room THEN "idle" ELSE "closeGuard")
      /\ listed' = IF room THEN [listed EXCEPT ![c] = Append(@, g)] ELSE listed
      /\ UNCHANGED <<life, held, rclOk, triggered, table, sigVars, treeMutex>>

-------------------------------------------------------------------------------
(* An executor on its waiting thread, reduced to what shutting down needs. *)

StartSpin(t, g) ==
  /\ g \in Range(listed[ParentOf[g]])
  /\ life[g] = "live"
  /\ ~InUse(g)
  /\ Enter(t, "spin", g)
  /\ UNCHANGED <<life, held, rclOk, listed, triggered, table, sigVars, treeMutex>>

(* while <- ex.context.ok *)
CheckOk(t) ==
  /\ pc[t] = "spin"
  /\ GoTo(t, "spin", IF ParentOf[arg[t]] \in rclOk THEN "blocked" ELSE "idle")
  /\ UNCHANGED <<life, held, rclOk, listed, triggered, table, sigVars, treeMutex>>

WakeUp(t) ==
  /\ arg[t] \in triggered
  /\ GoTo(t, "blocked", "spin")
  /\ triggered' = triggered \ {arg[t]}
  /\ UNCHANGED <<life, held, rclOk, listed, table, sigVars, treeMutex>>

-------------------------------------------------------------------------------
(* Context.shutdown.                                                       *)

Triggers(c) == triggered \cup Range(listed[c])

(* The check comes first and without a mutex; on a context that is down    *)
(* there is nothing to do.                                                 *)
CallShutdown(t, c) ==
  /\ c \in held \cap rclOk
  /\ life[c] = "live"
  /\ Enter(t, "rcl_shutdown", c)
  /\ UNCHANGED <<life, held, rclOk, listed, triggered, table, sigVars, treeMutex>>

(* rcl_shutdown reports an error on a context that is already down, and    *)
(* RCLLEAN_TRY raises it.                                                  *)
RclShutdown(t) ==
  LET c == arg[t]
  IN  /\ GoTo(t, "rcl_shutdown", IF c \in rclOk THEN "trigger" ELSE "raise")
      /\ rclOk' = rclOk \ {c}
      /\ UNCHANGED <<life, held, listed, triggered, table, sigVars, treeMutex>>

(* The error is the caller's. *)
Raise(t) ==
  /\ GoTo(t, "raise", "idle")
  /\ UNCHANGED <<life, held, rclOk, listed, triggered, table, sigVars, treeMutex>>

(* Mutant: the guard conditions are not triggered. *)
SkipTriggers(t) ==
  /\ GoTo(t, "trigger", "idle")
  /\ UNCHANGED <<life, held, rclOk, listed, triggered, table, sigVars, treeMutex>>

TriggerGuards(t) ==
  /\ GuardsFree
  /\ GoTo(t, "trigger", "idle")
  /\ triggered' = Triggers(arg[t])
  /\ UNCHANGED <<life, held, rclOk, listed, table, sigVars, treeMutex>>

-------------------------------------------------------------------------------
(* Ctrl-C.                                                                 *)

(* rcllean_signal_handler, once installed, posts the semaphore. *)
Signal ==
  /\ handlers
  /\ signals > 0
  /\ signals' = signals - 1
  /\ sem' = sem + 1
  /\ UNCHANGED <<life, held, rclOk, listed, triggered, table, handlers, sigPc, sigNext, target,
                 treeMutex, pc, arg>>

SigGoTo(from, to) == sigPc = from /\ sigPc' = to

SemWait ==
  /\ sem > 0
  /\ SigGoTo("sem_wait", "walk")
  /\ sem' = sem - 1
  /\ sigNext' = 1
  /\ UNCHANGED <<life, held, rclOk, listed, triggered, table, handlers, signals, target,
                 treeMutex, pc, arg>>

NeedsShutdown(c) == life[c] = "live" /\ c \in rclOk

(* The walk comes to a context to shut down, passes one that is down, or ends. *)
WalkTo(next) ==
  /\ SigGoTo("walk", next)
  /\ target' = IF next = "shutdown" THEN table[sigNext] ELSE NoOne
  /\ sigNext' = sigNext + 1
  /\ UNCHANGED <<life, held, rclOk, listed, triggered, table, handlers, signals, sem,
                 treeMutex, pc, arg>>

(* Mutant: the walk ends at a context that needs no shutdown. *)
WalkUntilDown ==
  \/ sigNext \in DOMAIN table /\ NeedsShutdown(table[sigNext]) /\ WalkTo("shutdown")
  \/ sigNext \in DOMAIN table /\ ~NeedsShutdown(table[sigNext]) /\ WalkTo("sem_wait")
  \/ sigNext \notin DOMAIN table /\ WalkTo("sem_wait")

(* Mutant: the walk waits for teardowns, which may wait for the table. *)
WalkUnderTree ==
  /\ treeMutex = NoOne
  /\ \/ sigNext \in DOMAIN table /\ NeedsShutdown(table[sigNext]) /\ WalkTo("shutdown")
     \/ sigNext \in DOMAIN table /\ ~NeedsShutdown(table[sigNext]) /\ WalkTo("walk")
     \/ sigNext \notin DOMAIN table /\ WalkTo("sem_wait")

Walk ==
  \/ sigNext \in DOMAIN table /\ NeedsShutdown(table[sigNext]) /\ WalkTo("shutdown")
  \/ sigNext \in DOMAIN table /\ ~NeedsShutdown(table[sigNext]) /\ WalkTo("walk")
  \/ sigNext \notin DOMAIN table /\ WalkTo("sem_wait")

(* rcllean_context_signal_shutdown: an error of rcl_shutdown is ignored here, ... *)
SignalShutdown ==
  /\ SigGoTo("shutdown", "notify")
  /\ rclOk' = rclOk \ {target}
  /\ UNCHANGED <<life, held, listed, triggered, table, handlers, signals, sem, sigNext, target,
                 treeMutex, pc, arg>>

(* ... and the guard conditions are triggered under the same mutex. *)
SignalTrigger ==
  /\ SigGoTo("notify", "walk")
  /\ target' = NoOne
  /\ triggered' = Triggers(target)
  /\ UNCHANGED <<life, held, rclOk, listed, table, handlers, signals, sem, sigNext, treeMutex,
                 pc, arg>>

SignalThread == SemWait \/ Walk \/ SignalShutdown \/ SignalTrigger

-------------------------------------------------------------------------------
(* Finalizers, on the thread that drops the last reference.                *)

LockTree(t) == treeMutex = NoOne /\ treeMutex' = t
UnlockTree  == treeMutex' = NoOne

DropGuard(t, g) ==
  /\ life[g] = "live"
  /\ ~InUse(g)
  /\ Enter(t, "closeGuard", g)
  /\ UNCHANGED <<life, held, rclOk, listed, triggered, table, sigVars, treeMutex>>

CloseGuard(t) ==
  /\ LockTree(t)
  /\ GoTo(t, "closeGuard", "unlistGuard")
  /\ life' = [life EXCEPT ![arg[t]] = "closing"]
  /\ UNCHANGED <<held, rclOk, listed, triggered, table, sigVars>>

(* Mutant: the guard condition stays in the list of its context. *)
LeaveListed(t) ==
  /\ GoTo(t, "unlistGuard", "finiGuard")
  /\ UNCHANGED <<life, held, rclOk, listed, triggered, table, sigVars, treeMutex>>

(* rcllean_context_remove_shutdown_guard *)
UnlistGuard(t) ==
  /\ pc[t] = "unlistGuard"
  /\ GuardsFree
  /\ GoTo(t, "unlistGuard", "finiGuard")
  /\ listed' = [listed EXCEPT ![ParentOf[arg[t]]] = SwapRemove(@, arg[t])]
  /\ UNCHANGED <<life, held, rclOk, triggered, table, sigVars, treeMutex>>

(* Who refers to a context: the application, and each guard condition.     *)
Holders(c) ==
  (held \cap {c}) \cup {g \in Guards : ParentOf[g] = c /\ life[g] \in {"live", "closing"}}

(* rcl_guard_condition_fini, then lean_dec of the context, which may be the *)
(* last.                                                                    *)
FiniGuard(t) ==
  LET g == arg[t]
      c == ParentOf[g]
  IN  /\ pc[t] = "finiGuard"
      /\ UnlockTree
      /\ life' = [life EXCEPT ![g] = "gone"]
      /\ triggered' = triggered \ {g}
      /\ IF Holders(c) = {g}
         THEN /\ pc' = [pc EXCEPT ![t] = "closeContext"]
              /\ arg' = [arg EXCEPT ![t] = c]
         ELSE GoTo(t, "finiGuard", "idle")
      /\ UNCHANGED <<held, rclOk, listed, table, sigVars>>

(* The application drops its own reference to a context. *)
DropContext(t, c) ==
  /\ c \in held
  /\ ~InUse(c)
  /\ held' = held \ {c}
  /\ \/ Holders(c) = {c} /\ Enter(t, "closeContext", c)
     \/ Holders(c) # {c} /\ pc[t] = "idle" /\ UNCHANGED <<pc, arg>>
  /\ UNCHANGED <<life, rclOk, listed, triggered, table, sigVars, treeMutex>>

CloseContext(t) ==
  /\ LockTree(t)
  /\ GoTo(t, "closeContext", "unregister")
  /\ life' = [life EXCEPT ![arg[t]] = "closing"]
  /\ UNCHANGED <<held, rclOk, listed, triggered, table, sigVars>>

(* Mutant: unregistering does not wait for the table mutex. *)
UnregisterUnlocked(t) ==
  /\ GoTo(t, "unregister", "finiContext")
  /\ table' = SwapRemove(table, arg[t])
  /\ UNCHANGED <<life, held, rclOk, listed, triggered, sigVars, treeMutex>>

(* rcllean_signal_unregister *)
Unregister(t) ==
  /\ TableFree
  /\ GoTo(t, "unregister", "finiContext")
  /\ table' = SwapRemove(table, arg[t])
  /\ UNCHANGED <<life, held, rclOk, listed, triggered, sigVars, treeMutex>>

(* The rest of rcllean_context_fini; errors are ignored. *)
FiniContext(t) ==
  /\ GoTo(t, "finiContext", "idle")
  /\ UnlockTree
  /\ rclOk' = rclOk \ {arg[t]}
  /\ life' = [life EXCEPT ![arg[t]] = "gone"]
  /\ UNCHANGED <<held, listed, triggered, table, sigVars>>

-------------------------------------------------------------------------------
Calls(t) ==
  \/ \E c \in Contexts : InitContext(t, c) \/ CallShutdown(t, c) \/ DropContext(t, c)
  \/ \E g \in Guards : CreateGuard(t, g) \/ StartSpin(t, g) \/ DropGuard(t, g)

Continues(t) ==
  \/ RegisterContext(t) \/ InstallHandlers(t) \/ AddShutdownGuard(t)
  \/ CheckOk(t) \/ WakeUp(t)
  \/ RclShutdown(t) \/ Raise(t) \/ TriggerGuards(t)
  \/ CloseGuard(t) \/ UnlistGuard(t) \/ FiniGuard(t)
  \/ CloseContext(t) \/ Unregister(t) \/ FiniContext(t)

Next ==
  \/ \E t \in Threads : Calls(t) \/ Continues(t)
  \/ Signal
  \/ SignalThread

Spec == Init /\ [][Next]_vars

(* A call that has begun gets on, and so does the signal thread; nobody has *)
(* to make a call, and WakeUp waits for a trigger.                          *)
Fairness ==
  /\ \A t \in Threads : WF_vars(Continues(t))
  /\ WF_vars(SignalThread)

FairSpec == Spec /\ Fairness

-------------------------------------------------------------------------------
(* Properties.                                                             *)

PC == {"idle", "register", "install", "addGuard", "spin", "blocked", "rcl_shutdown", "raise", "trigger",
       "closeGuard", "unlistGuard", "finiGuard", "closeContext", "unregister",
       "finiContext"}

(* The variables have their types; both C arrays stay within their bounds. *)
TypeOK ==
  /\ life \in [Contexts \cup Guards -> {"absent", "live", "closing", "gone"}]
  /\ held \subseteq Contexts
  /\ rclOk \subseteq Contexts
  /\ listed \in [Contexts -> Seq(Guards)]
  /\ \A c \in Contexts : Len(listed[c]) <= MaxGuards
  /\ triggered \subseteq Guards
  /\ table \in Seq(Contexts) /\ Len(table) <= MaxContexts
  /\ handlers \in BOOLEAN
  /\ signals \in Nat
  /\ sem \in Nat
  /\ sigPc \in {"sem_wait", "walk", "shutdown", "notify"}
  /\ sigNext \in Nat \ {0}
  /\ target \in Contexts \cup {NoOne}
  /\ treeMutex \in Threads \cup {NoOne}
  /\ pc \in [Threads -> PC]
  /\ arg \in [Threads -> Contexts \cup Guards \cup {NoOne}]

(* What a shutdown triggers has not been finalized: a guard condition takes *)
(* itself off its context's list before its rcl object goes away            *)
(* (rcllean_guard_condition_fini).                                          *)
ListedGuardsAreLive ==
  \A c \in Contexts : \A g \in Range(listed[c]) : life[g] # "gone" /\ ParentOf[g] = c

(* The signal thread never has a finalized context in hand, nor will it     *)
(* find one in the table: "holding the table lock keeps a context from      *)
(* unregistering, and so from being torn down" (signal_handler.c).          *)
SignalledContextsAreLive ==
  \A c \in Range(table) \cup {target} : c # NoOne => life[c] # "gone"

(* An executor blocked on a context that is down has been triggered, or     *)
(* whoever took the context down is still to do it: no shutdown leaves a    *)
(* blocked rcl_wait behind, whatever it raced with.                         *)
NobodyIsLeftBlocked ==
  \A t \in Threads :
    LET c == ParentOf[arg[t]]
    IN  pc[t] = "blocked" /\ c \notin rclOk
          => \/ arg[t] \in triggered
             \/ \E u \in Threads : pc[u] = "trigger" /\ arg[u] = c
             \/ sigPc = "notify" /\ target = c

(* A context in the table when Ctrl-C arrives is shut down, whatever is     *)
(* registered, shut down or torn down around the walk.                      *)
CtrlCReachesTheTable ==
  \A c \in Contexts : sem > 0 /\ c \in Range(table) ~> c \notin rclOk

(* Not so: "installSignalHandlers controls whether Ctrl-C shuts this        *)
(* context down" (context.c:78).  Every context is in the table, and one    *)
(* that asks for the handlers has Ctrl-C shut down them all.                *)
CtrlCShutsDownOnlyAsking == target \in Asking \cup {NoOne}

(* The three mutexes are taken in one order: a teardown comes to its end.   *)
TeardownsEnd == \A t \in Threads : treeMutex = t ~> treeMutex # t

(* Not so: Context.shutdown is called idempotent, and may be called from    *)
(* several threads, but the loser of a race raises what rcl_shutdown        *)
(* reports.                                                                 *)
ShutdownIsIdempotent == \A t \in Threads : pc[t] # "raise"
===============================================================================
